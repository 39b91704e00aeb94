CONSTANTS
    t1 = t1  t2 = t2
    libA = libA  libB = libB  app = app
    A = A  B = B  C = C  d1 = d1
    NULL = NULL
    NOTAKEY = NOTAKEY
    Threads = {t1, t2}
    Images = {libA, libB, app}
    StaticClasses = {A, B, C}
    Addresses = {d1}
    Name <- MCName
    Names <- MCNames
    Hash <- MCHash
    Super <- MCSuper
    ClassList <- MCClassList
    NonlazyClassList <- MCNonlazyClassList
    CategoryList <- MCCategoryList
    ClassOf <- MCClassOf
    HasInstance <- MCHasInstance
    HasClass <- MCHasClass
    Capacity = 2
    Messaged = {C}
    Moved = {B}
SPECIFICATION Spec
SYMMETRY Symmetry
INVARIANTS
    SubclassListsAreExact
    NamesAreFound
    CategoriesAreAttached
    ChangedMethodsAreFlushed
