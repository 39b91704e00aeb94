---------------------------- MODULE LoadMethods ----------------------------
(***************************************************************************)
(* +load: load_images and what it calls (objc-runtime-new.m, objc-os.m,    *)
(* objc-loadmethod.m).                                                     *)
(*                                                                         *)
(* dyld announces each image once it is mapped.  The runtime schedules the *)
(* image's +load methods under runtimeLock, then runs what is scheduled    *)
(* holding only loadMethodLock, which is recursive: a +load method may     *)
(* have more images announced on its own thread, while other threads'      *)
(* announcements wait for the lock.                                        *)
(*                                                                         *)
(* A thread is a stack of activations of load_images, innermost first; the *)
(* one on top runs, or stands for the +load method that it called.         *)
(***************************************************************************)
EXTENDS Naturals, Sequences, FiniteSets, SequencesExt

CONSTANTS
    Threads, Images, Classes, Categories, None,
    Super,               \* each class's superclass, None for a root
    ClassOf,             \* the class each category extends
    HasLoad,             \* the classes that implement +load
    NonlazyClasses,      \* each image's list of classes with +load
    NonlazyCategories    \* each image's list of categories with +load

Methods == Classes \cup Categories

LoadMethodsAssumption ==
    /\ None \notin Threads \cup Methods
    /\ Classes \cap Categories = {}
    /\ Super \in [Classes -> Classes \cup {None}]
    /\ ClassOf \in [Categories -> Classes]
    /\ HasLoad \subseteq Classes
    /\ NonlazyClasses \in [Images -> Seq(HasLoad)]
    /\ NonlazyCategories \in [Images -> Seq(Categories)]
    \* Going up from a class ends at a root.
    /\ IsFiniteSet(Classes)
    /\ \E height \in [Classes -> 0..Cardinality(Classes)] :
            \A c \in Classes : Super[c] # None => height[Super[c]] < height[c]
    \* A category is in the list of one image, once.
    /\ \A i \in Images : IsInjective(NonlazyCategories[i])
    /\ \A i, j \in Images :
            i # j => ToSet(NonlazyCategories[i]) \cap ToSet(NonlazyCategories[j]) = {}

ASSUME LoadMethodsAssumption

VARIABLES
    announced,     \* the images dyld has announced
    prepared,      \* those whose methods have been scheduled
    marked,        \* the classes with RW_LOADED set
    classes,       \* loadable_classes
    categories,    \* loadable_categories
    loading,       \* call_load_methods is running
    lock,          \* the thread that holds loadMethodLock
    lockDepth,     \* how often it holds it
    stack,         \* each thread's activations of load_images
    called         \* history: the +load methods in the order they were called

vars == <<announced, prepared, marked, classes, categories, loading, lock,
          lockDepth, stack, called>>

Frame ==
    [image : Images,
     at : {"lock", "prepare", "loop", "classLoads", "categoryLoads", "unlock"},
     detached : Seq(Methods),         \* the list being run, what is left of it
     running : Methods \cup {None}]   \* the +load method that has been called

TypeOK ==
    /\ announced \subseteq Images
    /\ prepared \subseteq announced
    /\ marked \subseteq Classes
    /\ classes \in Seq(HasLoad)
    /\ categories \in Seq(Categories)
    /\ loading \in BOOLEAN
    /\ lock \in Threads \cup {None}
    /\ lockDepth \in Nat
    /\ stack \in [Threads -> Seq(Frame)]
    /\ called \in Seq(Methods)

Init ==
    /\ announced = {}
    /\ prepared = {}
    /\ marked = {}
    /\ classes = <<>>
    /\ categories = <<>>
    /\ loading = FALSE
    /\ lock = None
    /\ lockDepth = 0
    /\ stack = [t \in Threads |-> <<>>]
    /\ called = <<>>

-----------------------------------------------------------------------------

Top(t) == Head(stack[t])
At(t, where) == stack[t] # <<>> /\ Top(t).at = where /\ Top(t).running = None
InLoad(t) == stack[t] # <<>> /\ Top(t).running # None

\* t's innermost activation becomes f.
Become(t, f) == stack' = [stack EXCEPT ![t] = <<f>> \o Tail(@)]

\* dyld announces an image, to a thread that is in no announcement or in a
\* +load method.  The .so list it walks has the images in any order.
Announce(t, i) ==
    /\ stack[t] = <<>> \/ InLoad(t)
    /\ i \notin announced
    /\ announced' = announced \cup {i}
    /\ stack' = [stack EXCEPT ![t] =
           <<[image |-> i, at |-> "lock", detached |-> <<>>, running |-> None]>> \o @]
    /\ UNCHANGED <<prepared, marked, classes, categories, loading, lock, lockDepth, called>>

Lock(t) ==
    /\ At(t, "lock")
    /\ lock \in {None, t}
    /\ lock' = t
    /\ lockDepth' = lockDepth + 1
    /\ Become(t, [Top(t) EXCEPT !.at = "prepare"])
    /\ UNCHANGED <<announced, prepared, marked, classes, categories, loading, called>>

\* Seeded bug: RW_LOADED is not looked at.
ScheduleAgain(done) ==
    LET schedule[c \in Classes] ==
            IF Super[c] = None THEN <<c>> ELSE Append(schedule[Super[c]], c)
    IN  schedule

\* Seeded bug: a class is added before its superclasses are.
ScheduleSubclassFirst(done) ==
    LET schedule[c \in Classes] ==
            IF c \in done THEN <<>>
            ELSE IF Super[c] = None THEN <<c>>
            ELSE <<c>> \o schedule[Super[c]]
    IN  schedule

\* schedule_class_load: c after those of its superclasses that are unmarked.
ScheduleClassLoad(done) ==
    LET schedule[c \in Classes] ==
            IF c \in done THEN <<>>
            ELSE IF Super[c] = None THEN <<c>>
            ELSE Append(schedule[Super[c]], c)
    IN  schedule

\* prepare_load_methods for an image's classes: what is marked, in order.
\* Only classes that implement +load get into loadable_classes.
Scheduled(i) ==
    LET list == NonlazyClasses[i]
        upTo[n \in 0..Len(list)] ==
            IF n = 0 THEN <<>>
            ELSE upTo[n - 1] \o ScheduleClassLoad(marked \cup ToSet(upTo[n - 1]))[list[n]]
    IN  upTo[Len(list)]

\* add_class_to_loadable_list: "Don't bother if cls has no +load method".
Loadable(list) ==
    LET upTo[n \in 0..Len(list)] ==
            IF n = 0 THEN <<>>
            ELSE IF list[n] \in HasLoad THEN Append(upTo[n - 1], list[n])
            ELSE upTo[n - 1]
    IN  upTo[Len(list)]

\* Seeded bug: every call of call_load_methods runs the methods.
NeverReentrant == FALSE

\* "Re-entrant calls do nothing; the outermost call will finish the job."
Reentrant == loading

\* Schedule the image's methods under runtimeLock; then call_load_methods,
\* which leaves everything to the outermost call.
Prepare(t) ==
    LET i == Top(t).image IN
    /\ At(t, "prepare")
    /\ prepared' = prepared \cup {i}
    /\ marked' = marked \cup ToSet(Scheduled(i))
    /\ classes' = classes \o Loadable(Scheduled(i))
    /\ categories' = categories \o NonlazyCategories[i]
    /\ loading' = TRUE
    /\ Become(t, [Top(t) EXCEPT !.at = IF Reentrant THEN "unlock" ELSE "loop"])
    /\ UNCHANGED <<announced, lock, lockDepth, called>>

\* Seeded bug: classes are called once per round, not until none is left.
GoOnToCategories == TRUE

NoClassLeft == classes = <<>>

\* "Repeatedly call class +loads until there aren't any more": detach the list.
DetachClasses(t) ==
    /\ At(t, "loop") /\ classes # <<>>
    /\ Become(t, [Top(t) EXCEPT !.at = "classLoads", !.detached = classes])
    /\ classes' = <<>>
    /\ UNCHANGED <<announced, prepared, marked, categories, loading, lock, lockDepth, called>>

\* "Call category +loads ONCE": no class is left, detach the list.
DetachCategories(t) ==
    /\ At(t, "loop") /\ NoClassLeft
    /\ Become(t, [Top(t) EXCEPT !.at = "categoryLoads", !.detached = categories])
    /\ categories' = <<>>
    /\ UNCHANGED <<announced, prepared, marked, classes, loading, lock, lockDepth, called>>

\* Call the next +load method of the detached list.
CallLoad(t) ==
    /\ At(t, "classLoads") \/ At(t, "categoryLoads")
    /\ Top(t).detached # <<>>
    /\ Become(t, [Top(t) EXCEPT !.running = Head(Top(t).detached),
                              !.detached = Tail(@)])
    /\ called' = Append(called, Head(Top(t).detached))
    /\ UNCHANGED <<announced, prepared, marked, classes, categories, loading, lock, lockDepth>>

LoadReturns(t) ==
    /\ InLoad(t)
    /\ Become(t, [Top(t) EXCEPT !.running = None])
    /\ UNCHANGED <<announced, prepared, marked, classes, categories, loading,
                   lock, lockDepth, called>>

EndClasses(t) ==
    /\ At(t, "classLoads") /\ Top(t).detached = <<>>
    /\ Become(t, [Top(t) EXCEPT !.at = "loop"])
    /\ UNCHANGED <<announced, prepared, marked, classes, categories, loading,
                   lock, lockDepth, called>>

\* Seeded bug: new categories start no other round.
MoreClasses == classes # <<>>

\* "Run more +loads if there are classes OR more untried categories".
MoreToLoad == classes # <<>> \/ categories # <<>>

\* Every category of the detached list was loadable, so that loadable_categories
\* holds the new ones only: go round again if there are any, or new classes.
EndCategories(t) ==
    /\ At(t, "categoryLoads") /\ Top(t).detached = <<>>
    /\ Become(t, [Top(t) EXCEPT !.at = IF MoreToLoad THEN "loop" ELSE "unlock"])
    /\ loading' = MoreToLoad
    /\ UNCHANGED <<announced, prepared, marked, classes, categories, lock, lockDepth, called>>

\* Seeded bug: the last unlock does not free the lock.
HeldForGood(t) == t

\* The holder of the recursive lock after an unlock by t.
HolderAfter(t) == IF lockDepth = 1 THEN None ELSE t

Unlock(t) ==
    /\ At(t, "unlock")
    /\ lockDepth' = lockDepth - 1
    /\ lock' = HolderAfter(t)
    /\ stack' = [stack EXCEPT ![t] = Tail(@)]
    /\ UNCHANGED <<announced, prepared, marked, classes, categories, loading, called>>

Runtime(t) ==
    \/ Lock(t) \/ Prepare(t) \/ DetachClasses(t) \/ DetachCategories(t)
    \/ CallLoad(t) \/ LoadReturns(t) \/ EndClasses(t) \/ EndCategories(t) \/ Unlock(t)

Next == \E t \in Threads : Runtime(t) \/ \E i \in Images : Announce(t, i)

Spec == Init /\ [][Next]_vars

\* Every thread is scheduled and every +load method comes to its end.
FairSpec == Spec /\ \A t \in Threads : WF_vars(Runtime(t))

-----------------------------------------------------------------------------
(* Properties.                                                             *)

Running == {f \in UNION {ToSet(stack[t]) : t \in Threads} : f.running # None}

\* +load methods have no one's call nested in theirs and no one's beside it:
\* "only the OUTERMOST call of this function will do anything"
\* (objc-loadmethod.m:308-313), whichever thread announced the image.
OneLoadAtATime ==
    Cardinality(Running) <= 1 /\ \A t \in Threads : lock # t => ~ InLoad(t)

\* No +load method is called twice.
CalledOnce == IsInjective(called)

Ancestors[c \in Classes] ==
    IF Super[c] = None THEN {} ELSE {Super[c]} \cup Ancestors[Super[c]]

CalledBefore(m, n) == \E k \in 1..n-1 : called[k] = m

\* "Class +load methods are called superclass-first"
\* (objc-loadmethod.m:305), "in the face of re-entrant calls", also when
\* the superclass is in an image of its own, announced later.
SuperclassFirst ==
    \A n \in DOMAIN called :
        called[n] \in Classes =>
            \A c \in Ancestors[called[n]] \cap HasLoad : CalledBefore(c, n)

\* "Category +load methods are not called until after the parent class's
\* +load" (objc-loadmethod.m:306).
CategoryAfterClass ==
    \A n \in DOMAIN called :
        called[n] \in Categories /\ ClassOf[called[n]] \in HasLoad =>
            CalledBefore(ClassOf[called[n]], n)

\* What there is of it in any order of the images: a category's +load comes
\* after those of all the classes in the category's image, "even if a category
\* +load triggers a new loadable class and a new loadable category attached to
\* that class" (lines 326-328).
ImagesClassesFirst ==
    \A n \in DOMAIN called, i \in Images :
        called[n] \in ToSet(NonlazyCategories[i]) =>
            \A c \in ToSet(NonlazyClasses[i]) : CalledBefore(c, n)

\* "no +load method is forgotten because it was added during a +load call"
\* (objc-loadmethod.m:317-318): when nobody holds the lock, all methods of the
\* images that were prepared have been called.
NoneForgotten ==
    lock = None =>
        /\ ~ loading
        /\ \A i \in prepared :
            ToSet(NonlazyClasses[i]) \cup ToSet(NonlazyCategories[i]) \subseteq ToSet(called)

\* Every load_images returns, nested in a +load method or behind one.
LoadImagesReturns == \A t \in Threads : stack[t] # <<>> ~> stack[t] = <<>>

=============================================================================
