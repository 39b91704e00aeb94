------------------------------ MODULE Registry ------------------------------
(***************************************************************************)
(* The registry of classes (objc-runtime-new.m): images are read, classes  *)
(* realized and connected to their superclasses, categories attached,      *)
(* class pairs made, registered and disposed of, superclasses changed.     *)
(*                                                                         *)
(* All of it runs under runtimeLock, which is a plain mutex in this port.  *)
(* What recurses in the code, realizeClass, and what loops over a list or  *)
(* a tree that the same loop changes, is a list of tasks here, todo, that  *)
(* the holder of the lock takes up one after the other.  An operation that *)
(* neither recurses nor loops is one step.                                 *)
(*                                                                         *)
(* A class_t is a class and a side, "class" or "meta".  Future and remapped *)
(* classes, protocols, properties and ivars are left out.                  *)
(***************************************************************************)
EXTENDS MapTable, SequencesExt

CONSTANTS Threads, Images,
          StaticClasses,    \* the classes of the images
          Addresses,        \* where objc_allocateClassPair finds memory
          Name,             \* Name[c], the name of a class of an image
          Names,            \* the names a program gives the pairs it makes
          Super,            \* Super[c] as the compiler emitted it, or NULL
          ClassList,        \* ClassList[i], NonlazyClassList[i], CategoryList[i]:
          NonlazyClassList, \*    the sections of image i
          CategoryList,
          ClassOf,          \* ClassOf[cat], the class that a category extends
          HasInstance,      \* the categories with instance methods
          HasClass,         \* the categories with class methods
          Capacity,         \* of the table of names: 1024 in the code
          Messaged, Moved   \* bounds: the classes that a program messages, and
                            \*   those whose superclass it changes

VARIABLES runtimeLock,
          todo,             \* what the holder of runtimeLock has left to do
          op,               \* op[t]: what t does next, without the lock
          flags,            \* flags[n]: cls->data->flags, of the ro or the rw data
          superclass, isa, firstSubclass, nextSibling,
          methods,          \* methods[n]: data->methods, the first list first
          unattached,       \* unattachedCategories()
          namedClasses,     \* namedClasses(), a table of maptable.m
          uninitialized,    \* uninitializedClasses(), by metaclass
          realized,         \* realizedClasses() and realizedMetaclasses()
          mapped,           \* the images that were read
          \* What happened, for the properties:
          name,             \* name[c]: the name of a pair the program made
          named,            \* who took a name that is in use
          arrived,          \* arrived[n]: the categories for n, in their order
          stale,            \* whose method cache may hold what is no longer so
          sent              \* the classes that were sent +initialize

tables == <<namedClasses, uninitialized, realized>>
tree == <<superclass, isa, firstSubclass, nextSibling>>
history == <<name, named, arrived, sent>>
vars == <<runtimeLock, todo, op, flags, tree, methods, unattached, tables,
          mapped, history, stale>>

Classes == StaticClasses \cup Addresses

ASSUME RegistryAssumption ==
    /\ StaticClasses \cap Addresses = {} /\ IsFiniteSet(Classes)
    /\ NULL \notin Threads \cup Classes \cup Classes \X {"class", "meta"}
    /\ Name \in [StaticClasses -> DOMAIN Hash] /\ Names \subseteq DOMAIN Hash
    /\ Super \in [StaticClasses -> StaticClasses \cup {NULL}]
    \* Going up from a class of an image ends at a root.
    /\ \E height \in [StaticClasses -> 0..Cardinality(StaticClasses)] :
            \A c \in StaticClasses : Super[c] # NULL => height[Super[c]] < height[c]
    /\ ClassList \in [Images -> Seq(StaticClasses)]
    /\ NonlazyClassList \in [Images -> Seq(StaticClasses)]
    /\ CategoryList \in [Images -> Seq(DOMAIN ClassOf)]
    /\ ClassOf \in [DOMAIN ClassOf -> StaticClasses]
    /\ Messaged \cup Moved \subseteq Classes
    /\ exp2m1(log2u(Capacity) + 1) \in Nat \ {0}

Nodes == Classes \X {"class", "meta"}
Class(c) == <<c, "class">>
Meta(c) == <<c, "meta">>
IsMeta(n) == n[2] = "meta"

\* The bits of class_ro_t->flags and class_rw_t->flags.
RO_META == 0
RO_FROM_BUNDLE == 29
RW_REALIZED == 31
RW_INITIALIZED == 29
RW_CONSTRUCTING == 26
RW_CONSTRUCTED == 25

isRealized(n) == RW_REALIZED \in flags[n]
_class_isInitialized(c) == RW_INITIALIZED \in flags[Meta(c)]

RootOf(c) ==
    LET up[d \in StaticClasses] == IF Super[d] = NULL THEN d ELSE up[Super[d]]
    IN  up[c]

\* The class_t of the images, before any is read.
Init ==
    /\ runtimeLock = NULL /\ todo = <<>> /\ op = [t \in Threads |-> <<>>]
    /\ flags = [n \in Nodes |-> IF n[1] \in StaticClasses /\ IsMeta(n) THEN {RO_META} ELSE {}]
    /\ superclass = [n \in Nodes |->
           IF n[1] \in Addresses THEN NULL
           ELSE IF Super[n[1]] # NULL THEN <<Super[n[1]], n[2]>>
           ELSE IF IsMeta(n) THEN Class(n[1]) ELSE NULL]
    /\ isa = [n \in Nodes |->
           IF n[1] \in Addresses THEN NULL
           ELSE IF IsMeta(n) THEN Meta(RootOf(n[1])) ELSE Meta(n[1])]
    /\ firstSubclass = [n \in Nodes |-> NULL]
    /\ nextSibling = [n \in Nodes |-> NULL]
    /\ methods = [n \in Nodes |-> <<>>]
    /\ unattached = [n \in Nodes |-> <<>>]
    /\ namedClasses = NXCreateMapTable(Capacity)
    /\ uninitialized = [n \in Nodes |-> NULL]
    /\ realized = {}
    /\ mapped = {}
    /\ name = [c \in Classes |-> IF c \in Addresses THEN NULL ELSE Name[c]]
    /\ named = [x \in DOMAIN Hash |-> NULL]
    /\ arrived = [n \in Nodes |-> <<>>]
    /\ stale = {}
    /\ sent = {}

-----------------------------------------------------------------------------
(* The pieces of the operations, as functions of the state.                *)

\* addNamedClass: "Warns about duplicate class names and keeps the old mapping".
addNamedClass(c) ==
    IF NXMapGet(namedClasses, name[c]) # NULL THEN namedClasses
    ELSE NXMapInsert(namedClasses, name[c], c)

removeNamedClass(c) ==
    IF NXMapGet(namedClasses, name[c]) = c THEN NXMapRemove(namedClasses, name[c])
    ELSE namedClasses

\* Seeded bug: the superclass forgets the subclasses it had.
AddAlone(links, supercls, subcls) ==
    [links EXCEPT !.first[supercls] = subcls]

\* addSubclass, at the head of the list.
addSubclass(links, supercls, subcls) ==
    IF supercls = NULL THEN links
    ELSE [first |-> [links.first EXCEPT ![supercls] = subcls],
          next |-> [links.next EXCEPT ![subcls] = links.first[supercls]]]

\* From one node to the next, for as many steps as there are nodes.
Walk(first, next) ==
    LET walk[d \in 0..Cardinality(Nodes)] ==
            IF d = 0 THEN first
            ELSE LET n == walk[d - 1] IN IF n = NULL THEN NULL ELSE next[n]
    IN  walk

\* The list of the subclasses, and where it ends.
SubclassList(links, supercls) == Walk(links.first[supercls], links.next)

\* removeSubclass.  The subclass keeps its nextSiblingClass.
removeSubclass(links, supercls, subcls) ==
    IF links.first[supercls] = subcls
    THEN [links EXCEPT !.first[supercls] = links.next[subcls]]
    ELSE LET before == CHOOSE n \in Range(SubclassList(links, supercls)) \ {NULL} :
                           links.next[n] = subcls
         IN  [links EXCEPT !.next[before] = links.next[subcls]]

Links == [first |-> firstSubclass, next |-> nextSibling]

\* Seeded bug: the oldest category comes first.
InOrder(cats) == cats

\* attachCategoryMethods: "Count backwards through cats to get newest
\* categories first".
NewestFirst(cats) == Reverse(cats)

\* A class and its superclasses.
Above(sup, n) == Range(Walk(n, sup)) \ {NULL}

\* A class and its realized subclasses: whose caches a change of its methods
\* or of its superclass makes stale.
Below(sup, n) == {m \in Nodes : isRealized(m) /\ n \in Above(sup, m)}

\* Seeded bug: up one level only, then it gives up.
OneLevelUp(top, n) ==
    IF nextSibling[n] # NULL \/ n = top THEN n
    ELSE IF nextSibling[superclass[n]] # NULL THEN superclass[n] ELSE top

\* while (!_c->data->nextSiblingClass && _c != _top) _c = getSuperclass(_c)
Climb(top, n) ==
    LET up == Walk(n, superclass)
        stops(d) == up[d] = top \/ nextSibling[up[d]] # NULL
    IN  up[CHOOSE d \in 0..Cardinality(Nodes) :
               stops(d) /\ \A e \in 0..d - 1 : ~ stops(e)]

-----------------------------------------------------------------------------
(* The tasks of the holder of runtimeLock.                                 *)

Free == runtimeLock = NULL

Idle(t) == op[t] = <<>> /\ runtimeLock # t

\* Take the lock with a list of tasks.
Acquire(t, tasks) ==
    /\ Free
    /\ runtimeLock' = t
    /\ todo' = tasks

Release ==
    /\ ~ Free /\ todo = <<>>
    /\ runtimeLock' = NULL
    /\ UNCHANGED <<todo, op, flags, tree, methods, unattached, tables, mapped, history, stale>>

Doing(task) == todo # <<>> /\ Head(todo).task = task
It == Head(todo)

\* _read_images, one class of the class list.
Discover ==
    LET c == It.class IN
    /\ Doing("discover")
    /\ todo' = Tail(todo)
    /\ namedClasses' = addNamedClass(c)
    /\ named' = [named EXCEPT ![name[c]] = IF @ = NULL THEN c ELSE @]
    /\ uninitialized' = [uninitialized EXCEPT ![isa[Class(c)]] = c]
    /\ flags' = [flags EXCEPT ![Class(c)] = @ \cup {RO_FROM_BUNDLE},
                              ![Meta(c)] = @ \cup {RO_FROM_BUNDLE}]
    /\ UNCHANGED <<runtimeLock, op, tree, methods, unattached, realized, mapped,
                   name, arrived, sent, stale>>

\* realizeClass as far as its two calls of itself.
RealizeClass ==
    LET n == It.node IN
    /\ Doing("realize")
    /\ IF n = NULL \/ (n # NULL /\ isRealized(n))
       THEN /\ todo' = Tail(todo)
            /\ UNCHANGED flags
       ELSE /\ todo' = <<[task |-> "realize", node |-> superclass[n]],
                         [task |-> "realize", node |-> isa[n]],
                         [task |-> "connect", node |-> n]>> \o Tail(todo)
            /\ flags' = [flags EXCEPT ![n] = {RW_REALIZED}]
    /\ UNCHANGED <<runtimeLock, op, tree, methods, unattached, tables, mapped, history, stale>>

\* The rest of realizeClass, with methodizeClass.
Connect ==
    LET n == It.node
        links == addSubclass(Links, superclass[n], n)
    IN
    /\ Doing("connect")
    /\ todo' = Tail(todo)
    /\ firstSubclass' = links.first /\ nextSibling' = links.next
    /\ methods' = [methods EXCEPT ![n] = NewestFirst(unattached[n]) \o <<"base">>]
    /\ unattached' = [unattached EXCEPT ![n] = <<>>]
    /\ realized' = realized \cup {n}
    /\ UNCHANGED <<runtimeLock, op, flags, superclass, isa, namedClasses, uninitialized,
                   mapped, history, stale>>

FlushTask(n) == [task |-> "flush", top |-> n, node |-> n]

\* addUnattachedCategoryForClass, and remethodizeClass if the class is realized.
AddCategory ==
    LET n == It.node
        cats == Append(unattached[n], It.cat)
    IN
    /\ Doing("category")
    /\ arrived' = [arrived EXCEPT ![n] = Append(@, It.cat)]
    /\ IF isRealized(n)
       THEN /\ methods' = [methods EXCEPT ![n] = NewestFirst(cats) \o @]
            /\ unattached' = [unattached EXCEPT ![n] = <<>>]
            /\ stale' = stale \cup Below(superclass, n)
            /\ todo' = <<FlushTask(n)>> \o Tail(todo)
       ELSE /\ unattached' = [unattached EXCEPT ![n] = cats]
            /\ todo' = Tail(todo)
            /\ UNCHANGED <<methods, stale>>
    /\ UNCHANGED <<runtimeLock, op, flags, tree, tables, mapped, name, named, sent>>

\* One round of FOREACH_REALIZED_SUBCLASS in flushCaches.
Flush ==
    LET n == It.node
        last == Climb(It.top, n)
    IN
    /\ Doing("flush")
    /\ stale' = stale \ {n}
    /\ todo' = IF firstSubclass[n] # NULL
               THEN [todo EXCEPT ![1].node = firstSubclass[n]]
               ELSE IF last = It.top THEN Tail(todo)
               ELSE [todo EXCEPT ![1].node = nextSibling[last]]
    /\ UNCHANGED <<runtimeLock, op, flags, tree, methods, unattached, tables, mapped, history>>

-----------------------------------------------------------------------------
(* The operations.                                                         *)

CategoryTasks(cat) ==
    (IF cat \in HasInstance
     THEN <<[task |-> "category", cat |-> cat, node |-> Class(ClassOf[cat])]>> ELSE <<>>)
    \o (IF cat \in HasClass
        THEN <<[task |-> "category", cat |-> cat, node |-> Meta(ClassOf[cat])]>> ELSE <<>>)

ReadImage(i) ==
    [k \in DOMAIN ClassList[i] |-> [task |-> "discover", class |-> ClassList[i][k]]]
    \o [k \in DOMAIN NonlazyClassList[i] |->
            [task |-> "realize", node |-> Class(NonlazyClassList[i][k])]]
    \o FlattenSeq([k \in DOMAIN CategoryList[i] |-> CategoryTasks(CategoryList[i][k])])

\* map_images of one image.
MapImages(t, i) ==
    /\ Idle(t) /\ i \notin mapped
    /\ Acquire(t, ReadImage(i))
    /\ mapped' = mapped \cup {i}
    /\ UNCHANGED <<op, flags, tree, methods, unattached, tables, history, stale>>

\* The class that look_up_class finds is realized with the lock taken anew.
look_up_class(t, x) ==
    LET c == NXMapGet(namedClasses, x) IN
    /\ op[t] = <<>> /\ Free
    /\ c # NULL /\ ~ isRealized(Class(c))
    /\ op' = [op EXCEPT ![t] = <<[step |-> "realize", node |-> Class(c)]>>]
    /\ UNCHANGED <<runtimeLock, todo, flags, tree, methods, unattached, tables,
                   mapped, history, stale>>

\* prepareForMethodLookup for a message to a class: realize the metaclass, then
\* _class_initialize the class.  getNonMetaClass finds none for a class whose
\* image is yet to be read, and _class_initialize dies of it.
Message(t, c) ==
    /\ Idle(t)
    /\ \A n \in Above(superclass, Class(c)) : uninitialized[Meta(n[1])] = n[1]
    /\ ~ isRealized(Meta(c)) \/ ~ _class_isInitialized(c)
    /\ op' = [op EXCEPT ![t] = <<[step |-> "realize", node |-> Meta(c)],
                                 [step |-> "initialize", node |-> Class(c)]>>]
    /\ UNCHANGED <<runtimeLock, todo, flags, tree, methods, unattached, tables,
                   mapped, history, stale>>

\* Take the lock to realize a class, if it is not: prepareForMethodLookup,
\* _class_getNonMetaClass, look_up_class.
Realize(t) ==
    /\ op[t] # <<>> /\ Head(op[t]).step = "realize"
    /\ Acquire(t, <<[task |-> "realize", node |-> Head(op[t]).node]>>)
    /\ op' = [op EXCEPT ![t] = Tail(@)]
    /\ UNCHANGED <<flags, tree, methods, unattached, tables, mapped, history, stale>>

\* _class_initialize: the class is realized first, then its superclass comes
\* before it.  What several threads do at once in it is in module Initialize;
\* here the first one sends +initialize and sets the flag.
InitializeClass(t) ==
    LET n == Head(op[t]).node
        sup == superclass[n]
    IN
    /\ runtimeLock # t
    /\ op[t] # <<>> /\ Head(op[t]).step = "initialize"
    /\ IF ~ isRealized(n)
       THEN /\ op' = [op EXCEPT ![t] = <<[step |-> "realize", node |-> n]>> \o @]
            /\ UNCHANGED <<flags, sent>>
       ELSE IF sup # NULL /\ (sup # NULL => ~ _class_isInitialized(sup[1]))
       THEN /\ op' = [op EXCEPT ![t] = <<[step |-> "initialize", node |-> sup]>> \o @]
            /\ UNCHANGED <<flags, sent>>
       ELSE /\ op' = [op EXCEPT ![t] = Tail(@)]
            /\ flags' = [flags EXCEPT ![Meta(n[1])] = @ \cup {RW_INITIALIZED}]
            /\ sent' = IF _class_isInitialized(n[1]) THEN sent ELSE sent \cup {n[1]}
    /\ UNCHANGED <<runtimeLock, todo, tree, methods, unattached, tables, mapped,
                   name, named, arrived, stale>>

\* objc_allocateClassPair, with a superclass that is realized or none.
objc_allocateClassPair(t, c, super, x) ==
    LET up == IF super = NULL THEN NULL ELSE Class(super)
        metaUp == IF super = NULL THEN Class(c) ELSE isa[Class(super)]
    IN
    /\ op[t] = <<>> /\ Free
    /\ flags[Class(c)] = {}
    /\ NXMapGet(namedClasses, x) = NULL
    /\ up # NULL => isRealized(up) /\ RW_CONSTRUCTING \notin flags[up]
    /\ name' = [name EXCEPT ![c] = x]
    /\ flags' = [flags EXCEPT ![Class(c)] = {RW_REALIZED, RW_CONSTRUCTING},
                              ![Meta(c)] = {RW_REALIZED, RW_CONSTRUCTING}]
    /\ superclass' = [superclass EXCEPT ![Class(c)] = up, ![Meta(c)] = metaUp]
    /\ isa' = [isa EXCEPT ![Class(c)] = Meta(c),
                          ![Meta(c)] = IF super = NULL THEN Meta(c) ELSE isa[isa[Class(super)]]]
    /\ LET links == addSubclass(addSubclass(Links, up, Class(c)), metaUp, Meta(c))
       IN  firstSubclass' = links.first /\ nextSibling' = links.next
    /\ UNCHANGED <<runtimeLock, todo, op, methods, unattached, tables, mapped,
                   named, arrived, sent, stale>>

objc_registerClassPair(t, c) ==
    /\ op[t] = <<>> /\ Free
    /\ RW_CONSTRUCTING \in flags[Class(c)]
    /\ flags' = [flags EXCEPT ![Class(c)] = (@ \ {RW_CONSTRUCTING}) \cup {RW_CONSTRUCTED},
                              ![Meta(c)] = (@ \ {RW_CONSTRUCTING}) \cup {RW_CONSTRUCTED}]
    /\ namedClasses' = addNamedClass(c)
    /\ named' = [named EXCEPT ![name[c]] = IF @ = NULL THEN c ELSE @]
    /\ realized' = realized \cup {Class(c), Meta(c)}
    /\ uninitialized' = [uninitialized EXCEPT ![Meta(c)] = c]
    /\ UNCHANGED <<runtimeLock, todo, op, tree, methods, unattached, mapped,
                   name, arrived, sent, stale>>

\* A program may dispose of a class that has no subclasses and that nobody uses.
MayDispose(c) ==
    /\ \A n \in Nodes : superclass[n] = Class(c) => n = Meta(c)
    /\ \A t \in Threads : \A k \in DOMAIN op[t] : op[t][k].node[1] # c

\* objc_disposeClassPair: unload_class of the metaclass, then of the class.
objc_disposeClassPair(t, c) ==
    LET up == superclass[Class(c)]
        links == removeSubclass(Links, superclass[Meta(c)], Meta(c))
        both == IF up = NULL THEN links ELSE removeSubclass(links, up, Class(c))
        freed(f, value) == [f EXCEPT ![Class(c)] = value, ![Meta(c)] = value]
    IN
    /\ op[t] = <<>> /\ Free
    /\ flags[Class(c)] \cap {RW_CONSTRUCTING, RW_CONSTRUCTED} # {}
    /\ MayDispose(c)
    /\ namedClasses' = removeNamedClass(c)
    /\ named' = [x \in DOMAIN named |-> IF named[x] = c THEN NULL ELSE named[x]]
    /\ name' = [name EXCEPT ![c] = NULL]
    /\ realized' = realized \ {Class(c), Meta(c)}
    /\ uninitialized' = [uninitialized EXCEPT ![Meta(c)] = NULL]
    /\ unattached' = freed(unattached, <<>>)
    /\ flags' = freed(flags, {})
    /\ superclass' = freed(superclass, NULL) /\ isa' = freed(isa, NULL)
    /\ firstSubclass' = freed(both.first, NULL) /\ nextSibling' = freed(both.next, NULL)
    /\ methods' = freed(methods, <<>>)
    /\ sent' = sent \ {c}
    /\ UNCHANGED <<runtimeLock, todo, op, mapped, arrived, stale>>

\* class_setSuperclass, between classes that are realized.
class_setSuperclass(t, c, newSuper) ==
    LET old == superclass[Class(c)]
        new == Class(newSuper)
        removed == removeSubclass(removeSubclass(Links, old, Class(c)), isa[old], Meta(c))
        added == addSubclass(addSubclass(removed, new, Class(c)), isa[new], Meta(c))
        sup == [superclass EXCEPT ![Class(c)] = new, ![Meta(c)] = isa[new]]
    IN
    /\ op[t] = <<>> /\ Free
    /\ {Class(c), Meta(c), new, Meta(newSuper)} \subseteq realized
    /\ old \notin {NULL, new}
    /\ Class(c) \notin Above(superclass, new)
    /\ superclass' = sup
    /\ firstSubclass' = added.first /\ nextSibling' = added.next
    /\ stale' = stale \cup Below(sup, Class(c)) \cup Below(sup, Meta(c))
    /\ Acquire(t, <<FlushTask(Class(c)), FlushTask(Meta(c))>>)
    /\ UNCHANGED <<op, flags, isa, methods, unattached, tables, mapped, history>>

Tasks == Discover \/ RealizeClass \/ Connect \/ AddCategory \/ Flush \/ Release

Runtime(t) == Realize(t) \/ InitializeClass(t)

Program(t) ==
    \/ \E i \in Images : MapImages(t, i)
    \/ \E x \in DOMAIN Hash : look_up_class(t, x)
    \/ \E c \in Messaged : Message(t, c)
    \/ \E c \in Addresses, super \in Classes \cup {NULL}, x \in Names :
          objc_allocateClassPair(t, c, super, x)
    \/ \E c \in Addresses : objc_registerClassPair(t, c) \/ objc_disposeClassPair(t, c)
    \/ \E c \in Moved, newSuper \in Classes : class_setSuperclass(t, c, newSuper)

Next == Tasks \/ \E t \in Threads : Runtime(t) \/ Program(t)

Spec == Init /\ [][Next]_vars

-----------------------------------------------------------------------------
(* Properties.                                                             *)

\* What todo and op consist of.
Task == [task : {"discover"}, class : StaticClasses]
        \cup [task : {"realize"}, node : Nodes \cup {NULL}]
        \cup [task : {"connect"}, node : Nodes]
        \cup [task : {"category"}, cat : DOMAIN ClassOf, node : StaticClasses \X {"class", "meta"}]
        \cup [task : {"flush"}, top : Nodes, node : Nodes]

Step == [step : {"realize", "initialize"}, node : Nodes]

TypeOK ==
    /\ runtimeLock \in Threads \cup {NULL}
    /\ todo \in Seq(Task) /\ op \in [Threads -> Seq(Step)]
    /\ flags \in [Nodes -> SUBSET {RO_META, RO_FROM_BUNDLE, RW_REALIZED, RW_CONSTRUCTING,
                                   RW_CONSTRUCTED}]
    /\ superclass \in [Nodes -> Nodes \cup {NULL}] /\ isa \in [Nodes -> Nodes \cup {NULL}]
    /\ firstSubclass \in [Nodes -> Nodes \cup {NULL}]
    /\ nextSibling \in [Nodes -> Nodes \cup {NULL}]
    /\ methods \in [Nodes -> Seq(DOMAIN ClassOf \cup {"base"})]
    /\ unattached \in [Nodes -> Seq(DOMAIN ClassOf)]
    /\ arrived \in [Nodes -> Seq(DOMAIN ClassOf)]
    /\ uninitialized \in [Nodes -> Classes \cup {NULL}]
    /\ name \in [Classes -> DOMAIN Hash \cup {NULL}]
    /\ named \in [DOMAIN Hash -> Classes \cup {NULL}]
    /\ realized \subseteq Nodes /\ stale \subseteq Nodes
    /\ mapped \subseteq Images /\ sent \subseteq Classes

\* A realized class lists its realized subclasses, each once, no other class
\* and none that was disposed of, whatever was realized, made, moved or
\* disposed of before: what every walk over the tree of classes relies on.
SubclassListsAreExact ==
    Free => \A n \in Nodes : isRealized(n) =>
        LET list == SubclassList(Links, n) IN
        /\ list[Cardinality(Nodes)] = NULL
        /\ Range(list) \ {NULL} = {m \in Nodes : isRealized(m) /\ superclass[m] = n}

\* "Warns about duplicate class names and keeps the old mapping"
\* (objc-runtime-new.m:1471): a name leads to the class that took it first
\* for as long as that class lives, in a table that moves its pairs about at
\* every insertion, removal and growth, and to no class that was freed.
NamesAreFound ==
    /\ \A x \in DOMAIN Hash : NXMapGet(namedClasses, x) = named[x]
    /\ namedClasses.count = Cardinality({x \in DOMAIN Hash : named[x] # NULL})

\* Every category that was read is attached once to a realized class, the
\* newest before the older and before the class's own methods, and waits, in
\* order, for a class that is not realized, whichever came first.
CategoriesAreAttached ==
    Free => \A n \in StaticClasses \X {"class", "meta"} :
        IF isRealized(n) THEN methods[n] = Reverse(arrived[n]) \o <<"base">> /\ unattached[n] = <<>>
        ELSE methods[n] = <<>> /\ unattached[n] = arrived[n]

\* flushCaches reaches the caches of a class and of all its realized
\* subclasses before the lock that protects the change of methods or of the
\* superclass is let go: no cache keeps a method that was hidden.
ChangedMethodsAreFlushed == Free => stale = {}

\* "class is initialized" (objc-runtime-new.h:53), a flag that is "never used
\* in class_ro_t" (line 45): it says that the class was sent +initialize.
InitializedWasSent ==
    \A c \in Classes : isRealized(Meta(c)) /\ _class_isInitialized(c) => c \in sent

=============================================================================
