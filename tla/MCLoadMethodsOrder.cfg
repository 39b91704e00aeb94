SPECIFICATION Spec
CONSTANTS
    base = base
    lib = lib
    ext = ext
    plug = plug
    R = R
    A = A
    B = B
    C = C
    D = D
    catA = catA
    catB = catB
    catD = catD
    None = None
    Images = {base, lib, ext, plug}
    Classes = {R, A, B, C, D}
    Categories = {catA, catB, catD}
    Threads = {t1, t2, t3}
    Super <- Hierarchy
    ClassOf <- Extends
    HasLoad <- WithLoad
    NonlazyClasses <- ClassLists
    NonlazyCategories <- CategoryLists
INVARIANT CategoryAfterClass
CHECK_DEADLOCK FALSE
