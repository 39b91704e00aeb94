# A verification project for the Objective-C runtime (itoa-objc)

`src/` is Apple's objc4 runtime ported to Android on ARM. These TLA+ modules
model the parts of it that are hard to test: where threads, re-entrant callbacks,
lock-free readers and a debugger meet, and where tables are rearranged or searches
retried while others rely on them. TLC checks them on small instances. With TLAPS all
safety properties but one (`HashLosesNothing`, about bitwise operators) are also proved
for every instance, and that `@synchronized` implements a recursive lock and the
selector registry an interning map.

Paths below are relative to `src/src/objc/` unless they say otherwise.

## The system

| Part | State | Operations | Interacts with | What makes it correct |
|---|---|---|---|---|
| `@synchronized` (`objc-sync.m`) | 16 lists of `SyncData` blocks, a spinlock each; per-thread cache of blocks and lock counts; a recursive mutex per block | `objc_sync_enter`, `objc_sync_exit`, `id2data` | pthread mutexes, thread-specific data | one recursive lock per object, although blocks are shared out again |
| `+initialize` (`objc-initialize.m`) | two flags per class, per-thread list of classes, pending map, `classInitLock` with a condition | `_class_initialize`, `_finishInitializing`, `_finishInitializingAfter` | dispatch calls it on a first message; the method bodies send messages | each class by one thread, superclasses first, others wait, no lost wake-up |
| `+load` (`objc-loadmethod.m`, `objc-runtime-new.m`, `objc-os.m`) | lists of loadable classes and categories, `RW_LOADED`, `loadMethodLock`, a static `loading` flag | `load_images`, `prepare_load_methods`, `call_load_methods` | the loader announces images; method bodies load more images | once each, superclass first, none forgotten |
| Dispatch and caches (`objc-msg-arm.S`, `objc-class.m`, `objc-cache.m`) | a cache per class (buckets, occupied, grow flag), garbage list | `objc_msgSend`, `lookUpMethod`, `_cache_fill`, `_cache_expand`, `_cache_flush` | class registry (method lists), `+initialize`, method resolvers | nobody dispatches to a hidden method; lock-free probes end and read live memory |
| Class registry (`objc-runtime-new.m`) | class structures and flags, lists of subclasses, tables of names, realized and uninitialized classes, unattached categories | `_read_images`, `realizeClass`, category attachment, class pairs, `class_setSuperclass` | everything; one lock `runtimeLock` | subclass lists, names, categories and caches agree with the classes there are |
| Selectors (`objc-sel.mm`, `objc-sel-set.m`) | builtin table, an open-addressed set under `selLock` | `sel_registerName`, `sel_getUid`, `sel_isMapped`, `sel_registerNameNoLock` | registry, dispatch | one selector per name, for ever |
| Selector tables (`objc-selopt.h`) | the table under construction: salt, sizes, `tab`, slots; the table written | `make_perfect`, `write_selopt`, `objc_selopt_t::get` | selectors (builtin table) | a perfect hash or an honest failure |
| Associated references (`objc-references.mm`) | a two-level map under a spinlock, a flag per class | set, get, remove | object deallocation | retains balance, none used after release, none inherited |
| Accessors (`objc-accessors.m`) | striped spinlocks | atomic and nonatomic get and set, `objc_copyStruct` | objects | lock order, retains balance |
| Containers (`maptable.m`, `hashtable2.m`) | hash tables | insert, remove, rehash, iterate | used under their owners' locks | no pair is lost when others move |
| Debugger mode (`objc-lockdebug.m`, `objc-runtime.m`, `objc-runtime-new.m`) | four managed locks, a list of locks per thread, the mode | lock checks, `startDebuggerMode`, `endDebuggerMode` | gdb stops and resumes threads | locks are held as often as they were taken |
| Image loading (`android/dyld.m`, `objc-file.m`, `objc-os.m`) | handlers, headers | `call_dyld_handlers` | registry and `+load` | every library announced |
| Ivar layout, type encodings, exceptions, errors and logging, root classes | | | | pure functions, I/O, or thin layers |

Locks, outermost first: `loadMethodLock`, `classInitLock`, `runtimeLock`,
`selLock` or `cacheUpdateLock`. On this port the "rwlock" is a plain mutex
(`objc-os.h:222-250`), so readers exclude each other too.

`PROJECT.json` lists every hazard at its line with the properties that cover it.

## Modules

| Module | Models | Role |
|---|---|---|
| `RecursiveLock` | what `@synchronized` promises | abstract specification |
| `Sync` | `objc-sync.m` | implements `RecursiveLock` |
| `Sync_proof` | | inductive invariant and theorems of `Sync` |
| `Inductions` | | induction and recursion along numbers and class hierarchies, as lemmas |
| `Initialize` | `objc-initialize.m` | `+initialize` |
| `Initialize_proof` | | inductive invariant and theorems of `Initialize` |
| `LoadMethods` | `load_images` and below | `+load` |
| `MethodCache` | messenger, `lookUpMethod`, caches, method addition | dispatch |
| `MethodCache_proof` | | inductive invariant and theorems of `MethodCache` |
| `MapTable` | `maptable.m` | operators on tables |
| `Registry` | `objc-runtime-new.m` | classes and categories; composes `MapTable` |
| `Registry_proof` | | inductive invariant and theorems of `Registry` with `MapTable` |
| `Interning` | what the selector registry promises | abstract specification |
| `SelSet` | `objc-sel-set.m` | operators on the set |
| `SelRegistry` | `objc-sel.mm` | composes `SelSet`, implements `Interning` |
| `PerfectHash` | `make_perfect` and below | the search for a hash |
| `SelOpt` | `write_selopt`, `objc_selopt_t` | composes `PerfectHash` |
| `Selectors_proof` | | inductive invariants and theorems of `SelRegistry` with `SelSet`, and of `SelOpt` with `PerfectHash` |
| `Lookup8` | `lookup8`, `mix64`, `permute` | 64-bit arithmetic |
| `Values` | retain counts of the program's objects | shared by the next two |
| `References` | `objc-references.mm`, disposal of objects | associations |
| `Accessors` | `objc-accessors.m` | properties and structures |
| `Objects` | | composes `References`, `Accessors` and `Values` |
| `Objects_proof` | | inductive invariants and theorems of `Objects` |
| `DebuggerMode` | lock lists and debugger mode | locks and gdb |
| `LoadAndDebug_proof` | | inductive invariants and theorems of `LoadMethods` and of `DebuggerMode` |
| `MC...` | | instances for TLC |

Each module begins with what it models and what it leaves out. Definitions
that a comment calls a *seeded bug* are not part of any specification: each is a
plausible wrong version of the definition after it, and was used to see that the
properties fail when the code is wrong. `PROJECT.json` pairs them up.

### Sync

`object`, `threadCount`, `owner`, `depth` are the fields of each block and its
mutex; `list` and `spin` are `sDataLists`; `lockCount` is the per-thread
`SyncCache`, a block being in it when its count is positive; `call` holds the
locals of `id2data` and a program counter. One action is one atomic step of the
code: the cache lookup with its unlocked decrement (`EnterCached`, `ExitCached`),
taking the spinlock, each turn of the list walk, reuse or allocation, leaving the
spinlock, locking and unlocking the mutex. Walk turns are separate because
`threadCount` may be decremented meanwhile without the spinlock. `held` is the
client's own view: it drops when `objc_sync_exit` begins and rises when
`objc_sync_enter` has the mutex. The client may call `objc_sync_exit` on an
object it is not in, `MaxMisuse` times.

A block that is decremented to zero can be given to another object while its last
user has still to unlock the mutex. That is the interesting design decision: it
costs a bounded wait (`WaitsOnlyForItsObject`) and no exclusion, and no thread
waits for good (`CallsReturn`). An `objc_sync_exit` from a thread that is not in
the object increments `threadCount` for good (line 174), so its block is never
reused: a leak, which `ThreadCountExact` accounts for.

### Initialize

`initializing` and `initialized` are the two flags; `initList` each thread's
list of classes; `pending` the map of subclasses that wait for a superclass;
`monitor` and `finishing` are set while a thread is inside `classInitLock` in
`_finishInitializing`. A thread is a stack of activations of
`_class_initialize`: an activation in `body` is a `+initialize` method running,
which may send the messages that the program, `messages`, gives its class. The
two unlocked flag reads after a lost claim (`Lost`, `Recheck`) are separate
steps, since their order is what keeps the thread from the fatal error.

### LoadMethods

`classes` and `categories` are the loadable lists, `marked` is `RW_LOADED`,
`loading` the static flag of `call_load_methods`, `lock` and `lockDepth` the
recursive `loadMethodLock`. A thread is a stack of activations of `load_images`;
one whose `running` is set stands for a `+load` method, from which the thread
may have further images announced. `called` is a history variable. Scheduling an
image is one step, as it is done under `runtimeLock`. Images are announced in
any order: `android/dyld.m` walks the linker's list and sorts nothing.

### MethodCache

`version` says which method each class's own lists hold first for a selector;
a new method hides the former. `cache`, `grow`, `buckets`, `occupied`, `garbage`
are the caches. The messenger is `Send`, one `Probe` per bucket, `Dispatch`.
Behind a miss, `Search` takes `runtimeLock` and keeps it to the end of the fill:
`Fill` (make room, create, reuse or double), `Clear` and `Insert` one bucket at a
time, `Unlock`. `NewMethod` and `ResolveMethod` take the lock, change the lists and
flush class and subclasses bucket by bucket. `before` and `call.expected` are
history: what the message meant from its sending on. Flushing and reuse set
`occupied` before they clear buckets, where the code's flush does so after;
nobody else reads it under the lock. Replacing an implementation in place
(`method_setImplementation`) changes what an entry does, not the entry.

Garbage is never freed in this build: `objc-cache.m` defines `TARGET_OS_WIN32`
to 1, which makes `_collecting_in_critical` answer yes always. `ReadsNoFreedCache`
holds because of it, and the garbage list grows with every cache outgrown. The
original scheme (program counters of all threads against the messenger's entry
and exit points) is not modelled.

### Registry and MapTable

A `class_t` is a class and a side, class or meta. `flags` are the bits of
`data->flags`, of the compiler's `class_ro_t` until the class is realized and of
the `class_rw_t` afterwards, at the positions the headers give them: that
`RO_FROM_BUNDLE` and `RW_INITIALIZED` are both bit 29 is part of the model.
Everything happens under `runtimeLock`. `realizeClass` recurses and `_read_images`
and `flushCaches` loop over what they change; these are lists of tasks in `todo`
that the holder of the lock takes up one by one. `op` is what a thread does next
without the lock (`look_up_class` and `prepareForMethodLookup` let it go between
finding a class and realizing it). `MapTable` is `maptable.m` as operators:
probing, growth, and the repair of the chain behind a removed pair.
`name`, `named`, `arrived`, `sent` are history.

### SelSet and SelRegistry

`SelSet` is `objc-sel-set.m` in its ARM form: power-of-two buckets, linear
probing, growth at three quarters. `SelRegistry` is the double-checked registration
of `objc-sel.mm`, one action between two lock operations, and an image's
selectors registered one by one inside `sel_lock`. A selector is an address: a
name and who allocated it, so that two selectors of a name can be told apart.
`Interning` is the promise, and `ImplementsInterning` the refinement: the map
from names to selectors is what a lookup would find.

### PerfectHash, SelOpt and Lookup8

`PerfectHash` is the search of `make_perfect`: salts and their two kinds of
failure, widening `b`, doubling the slots, placing one list at a time
(`Place` is `augment` and `apply`). What `lookup8` returns for a salt is
any member of `Hashes`. `SelOpt` is the writer, which lays the table out in a
buffer or returns one of three messages, and the reader. `Lookup8` is the hash
itself on four limbs of 16 bits; it uses bitwise operators and serves the
instance only. This code is compiled out of the Android build (`NO_BUILTINS`,
`ItoaModule.mk:38`), but the header is complete.

### Values, References, Accessors and Objects

`Values` are the objects a program stores: a retain count, the references threads
hold, autorelease pools. `retain`, `release` and `copy` are messages to the program's own
classes. `References` and `Accessors` have one action between two lock
operations and a separate one for each retain or release that the code does
outside its lock. A structure has two halves that `memmove` moves one after the
other. `Objects` joins them; a behaviour uses one of the three (`Uses`), as they
share only retain counts. `object_setClass` does not carry the flag that an object
has associations, so `AssociationsEndWithTheirObject` leaves out objects whose class
was changed.

### DebuggerMode

The four managed locks, the list of locks that a build without `NDEBUG` keeps for
each thread (`checked`), and gdb: it may stop the program between any two steps, inside a lock or
unlock function too, start debugger mode on any thread, run functions and end it.
Starting and ending run while nothing else moves and are one step each. The rwlock
functions make no exception for debugger mode (`objc-os.h:222-250`), so
`CallRuntime` on `runtimeLock` or `selLock` waits on its own thread, where
`objc-runtime.m:829-836` promises a halt; `isLockedDuringDebugger` answers yes for
`loadMethodLock` whether it was acquired or not. `try_read` never succeeds where
`try_write` failed, as both try one mutex, so the read-only outcome of
`startDebuggerMode` does not occur. Debugger mode is compiled out of the Android
build (`NO_DEBUGGER_MODE`).

## Runs

| Run | Configuration | Shows |
|---|---|---|
| `sync` | `MCSync.cfg` | safety of `Sync`: 3 threads, 2 objects on one list, 2 blocks, re-entry to 2, 2 misuses (176 thousand states) |
| `sync_live` | `MCSyncLive.cfg` | `Sync` implements `RecursiveLock`, every call returns: 2 threads, nesting in one order, no misuse |
| `initialize` | `MCInitialize.cfg` | safety of `Initialize` for two programs, and that every message is dispatched in the one that stays on its own lines (413 thousand states) |
| `load` | `MCLoadMethods.cfg` | safety and liveness of `LoadMethods`: 3 threads, 4 images, 5 classes, 3 categories |
| `load_order` | `MCLoadMethodsOrder.cfg` | violation: a category's `+load` before its class's |
| `dispatch` | `MCMethodCache.cfg` | safety of `MethodCache`: 2 threads, class and subclass, 2 selectors (1 million states) |
| `registry` | `MCRegistry.cfg` | subclass lists, names, categories and flushes of `Registry`: 2 threads, 3 images, 3 classes, 4 categories, a pair (135 thousand states) |
| `registry_flags` | `MCRegistryFlags.cfg` | violation: a class counts as initialized that was never sent `+initialize` |
| `selectors` | `MCSelRegistry.cfg` | `SelRegistry` implements `Interning` and every probe ends: 2 threads, 5 names (96 thousand states) |
| `selopt` | `MCSelOpt.cfg` | the hash found is perfect, retries are sound, the table finds exactly its strings (38 thousand states) |
| `objects` | `MCObjects.cfg` | retain counts, whole structures, lock order, associations: 2 threads (1.5 million states) |
| `debugger` | `MCDebuggerMode.cfg` | locks and lists of locks of `DebuggerMode`, with and without the checks: 3 threads (176 thousand states) |

### Bounds

* `Sync` needs a block with a last user on its way out, a thread that
  reuses it for another object and a third that wants either object: three
  threads, two objects on one list, two blocks; one re-entry separates recursive
  from first entry, so `MaxLock = 2`; a second misuse lets a leak be followed by
  another. Blocks are never fewer than objects on the list, so that `calloc` does
  not fail; its failure is not modelled.
* `Initialize`: the chain root, left, leaf has the superclass rule apply twice and
  a pending list pass through a level; `right` is a sibling. Two threads are
  enough for one to initialize and one to wait, in either order for each class.
  Of the two programs, `Straight` messages up and down, and `Crossing` sideways too.
* `LoadMethods`: the images are the four ways lists may look (superclass in
  another image, subclass listed first, category only, category beside its
  class); the third thread queues behind a waiting one.
* `MethodCache`: a cache begins with two buckets (`INIT_CACHE_SIZE` is 4 in the
  code; the rule, three quarters full, is the same) and both selectors hash to the
  last, so that fills reach reuse and doubling and probes wrap around; one change
  to each class and selector (`MaxVersion = 1`: the methods of `s1` exist from the
  start, while `s2` can gain methods) puts a change at every moment of every lookup;
  `Threshold = 1` has garbage collection tried at each replacement.
* `Registry`: three images, one class each in a chain, so that every order of
  announcing has a superclass that is realized before its image is read; `B` has
  `+load` and is realized at once. One category has methods on both sides, two on
  the class side, one on the instance side, and they arrive in two images. A program makes pairs at one address
  (`d1`), so that memory is reused, with a new name or that of a class to
  come. Names `A` and `D` hash to one bucket and `B` next to it; a table for 2
  grows at the third name. `Messaged = {C}` is the class at the end of the chain,
  `Moved = {B}` the one with a subclass and a superclass to choose.
* `SelRegistry`: three names collide in the last of four buckets and wrap around;
  `NUM_NONBUILTIN_SELS = 3` makes the set grow during the run, with and without
  the table of builtins (the empty name is always builtin).
* `SelOpt`: hashes have six bits, which is all that eight slots look at. The first
  four are those of the real `lookup8` for the first four salts, which
  `HashLosesNothing` compares; the others are drawn from four `Unlucky` values that
  collide. Two retries of each kind are the least that tells the counts apart; three
  codes make a placement fail. `Sizes` has room or none, `Far` is a string out of reach
  or none. Names of 3, 8, 16 and 24 bytes take every path of `lookup8`.
* `Objects`: two values, one atomic and one nonatomic slot, two stripes
  (`GOODPOWER = 1`) over three shared structures, so that two share a stripe; one
  owner with one key and two classes; one policy that assigns, one that retains, one that copies.
* `DebuggerMode`: three threads (the one gdb uses, one that holds a lock, one that
  waits), one recursion, one nested start.

**Symmetry** (threads, blocks, objects, caches, values, classes) is used in runs
that check no liveness, where the constants given to it are interchangeable.

**Deadlock** is checked in `sync_live`, `dispatch`, `objects`, `selectors`, `registry` and
`debugger`, where some thread can always go on. The clients of `sync` and `load` may
stop, nothing remains when a table is written in `selopt`, and `Crossing` bodies may
wait for each other (see below), so it is off there.

**Fairness.** Each thread is scheduled: weak fairness of what the runtime does
for it. In `Sync`, strong fairness says further that a spinlock and a mutex
do not starve a thread for ever while they are free again and again, and that a
client leaves what it entered; the code relies on both and guarantees neither.
In `Initialize` and `LoadMethods` the bodies of `+initialize` and `+load` end:
an activation in `body` may always go on to finish, and messages within it are
not forced. Nothing says that clients call at all.

**Liveness that is not claimed.** Two sibling classes whose `+initialize`
methods message each other can be begun by two threads that then wait for each
other for ever. That is in the design (a waiting thread waits for the whole
class), so `AllDispatched` is stated for programs whose bodies stay on their own line
of the hierarchy (`OwnLine`), where the comment in `objc-initialize.m` promises
progress; the safety properties hold for the crossing program too.

## What disagrees with its documentation

* `load_order`: "Category +load methods are not called until after the parent
  class's +load" (`objc-loadmethod.m:306`) holds only if libraries are announced
  bottom-up, which this port does not arrange. What does hold in any order is
  `ImagesClassesFirst`: the `+load` methods of all classes of an image are called
  before those of its categories. It is not so that a category always waits for a class that
  happens to be scheduled: `call_category_loads` detaches its list and goes through
  it to the end, and a class that one of its methods has announced waits for the
  next round.
* `registry_flags`: `_read_images` (`objc-runtime-new.m:2488-2491`) ors
  `RO_FROM_BUNDLE` into the flags of the classes of an image. If a class was
  realized before its image is read, because a subclass in an image announced
  before has `+load`, those are `class_rw_t` flags, and bit 29 says that the class is
  initialized. It is never sent `+initialize`.

## Proofs

Each `..._proof` module gives an inductive invariant (`IInv`, `HInv`), a lemma for
each action that it is preserved, and the theorems. Every conjunct was checked by
TLC on the run's instance before it was proved. All theorems hold for any values of
the constants that the named assumptions allow; TLC evaluates the assumptions.

### Sync_proof

From `SyncAssumption` (finitely many threads, a hash that maps each object to a
list, `None` not one of them): all safety properties of the `sync` run, and
`SyncImplementsRecursiveLock`: `Spec => RL!Spec`.

Exclusion is not inductive: that two threads are not inside one object follows
because both would own the mutex of the object's one block, and that needs every
thread's cached block to be the object's. `IInv` therefore adds: the spinlock is
held by whoever walks a list (`SpinIsMine`), blocks are on their object's list
(`InItsList`), the object was not on the part already walked and `firstUnused`
is a block on the list (`WalkIsCurrent`, `FoundIsIts`), a walk is for an object
that is not in the thread's cache (`WalksForNew`), cached and locked blocks
match (`LocksCached`, `HeldIsCounted`, `HeldIsOwned`, `OwnedIsDeep`) and what
has not been allocated is unused. The heart of it is `UsedIsCounted`: a block
with a user has a positive count, hence is not taken by `Reuse`. Between the walk
noticing a count of zero and the reuse only the holder of the list's spinlock can
add users, and that is the walking thread itself; decrements only help.
`ThreadCountExact` has an invariant of its own on top of `IInv`.

### Initialize_proof

From `InitializeAssumption`: `NeverFatal`, `OneInitializer`, `ContiguousSubtree`,
`OthersWait`, `SleepersAreWoken`, for any class tree and any `+initialize` bodies.
No property is inductive alone, since each speaks of flags that another thread
sets. What ties them together is the ownership of classes: `ListsAreExact` (a
class is being initialized exactly when it is in one thread's list), `BodiesAreOwn`
(a body runs for a class of its thread, in one activation), `PendingIsOwn` and
`FinishingIsOwn` (what a thread has put off or is finishing is its own, below a
class that is its own or finished) and `SuperclassFirst` (an activation claims its
class only after the superclass was dealt with). `Known` is what a thread
has learnt from a flag it read without the lock: flags are only set, or exchanged in the
order that `Recheck` relies on, so it stays true.

### LoadAndDebug_proof: +load

From `LoadMethodsAssumption`, which says of the classes that going up ends at a
root, and of the images that a category is in one image's list, once:
`OneLoadAtATime`, `CalledOnce`, `SuperclassFirst`, `ImagesClassesFirst`, `NoneForgotten`.
The idea is that `called`, the detached lists, `loadable_classes` and
`loadable_categories` form one list (`ListsOK`) in which every method
comes after those it needs (`Needs`), and which together hold all that was
scheduled (`Complete`). `StacksOK`, `LockOK` and `LoadingOK` say who may detach: an
activation in a `+load` method has at most one above it, which adds to the
lists and leaves them to the one below because `loading` is set. That
`schedule_class_load`, which recurs, appends superclasses first is
`Inductions!HierarchyInduction` on the height of a class.

### LoadAndDebug_proof: debugger mode

From `DebuggerModeAssumption` (`Nobody` is not a thread, and the bounds are positive):
`LocksAreAccounted`, which has a lock owned as often as its owner took it (`Owned` and
`TimesTaken`), where the debugger's own taking counts for the thread that gdb uses. The
invariant adds that a mutex without an owner has depth 0 (`MutexesOK`), that the mode, its count,
its thread and the locks taken for it go together (`ModeOK`), and that a build
without the checks has empty lists (`UnlistedOK`). `TimesTaken` is a sum over the kinds of
a lock; what a step adds to an entry it adds to the mutex (`TakenChanged`), and that the
checks kill nobody follows as `hasLock` says what the thread's own calls say.

### Selectors_proof: the registry

From `SelRegistryAssumption` (finitely many names, fewer than the largest set holds, `NULL`
neither a thread, a selector nor a set): the types, `ProbeEnds`, and
`SelRegistryImplementsInterning`: `Spec => Interns!Spec`.

* About `SelSet`, for any contents: a selector is *reachable* when no empty bucket
  lies between the one its name hashes to and its own. In a set whose selectors are
  reachable and have different names, with an empty bucket, `findBuckets` finds
  exactly what is there; putting a selector into the bucket that a search ended in
  keeps all that (nothing is ever removed); and growing, which puts all of them into
  an empty set of the next size, loses none and adds none.
* The count is that of full buckets and never above the capacity, which each of the 27
  sizes has below its number of buckets: that is why there is an empty bucket.
* `Inv` adds what the threads know (`AskingOK`, `NotBuiltinOK`, `LockedOK`, `AddOK`): `selLock` is held by whoever is between a lock and
  its unlock; a builtin name is never in the set; a thread that rescans with the lock and
  finds nothing adds a name that nobody has added (the double check); an answer is the
  selector that the names' map gives.

`Interning` has one step for a registration. The steps of the detailed specification
before the lock is taken are stutters; `Add` and a `Get` or `Rescan` that finds are the
abstract steps, and growth changes buckets and capacity but no name's selector.

### Selectors_proof: the tables of objc-selopt.h

From `PerfectHashAssumption`, `ArithmeticAssumption` (parts of a hash are in range, a
longer lower part tells apart what a shorter one does, exclusive or stays in the
table and can be undone) and `EmptyTableAssumption` (the table compiled in):
`IsPerfect`, `RetriedSaltIsDistinct`, `QueueFits`, `SlotsAgree`, and
`FindsExactly` of every table in which the shift is defined: for one string
`make_perfect` has `alen = 1` and stores a shift of 64 (`objc-selopt.h:1016`), by which
`objc_selopt_t::hash` shifts a 64-bit number (line 153). That is undefined; the search
itself guards against it (line 606). A machine that takes the shift modulo 64 computes an
index outside the table, where `set` writes and `get` reads. `OverShift` says what a
machine does, `FindsExactlyCorrect` carries the proviso (`ShiftIsDefined`), and
`FindsExactlyForSeveral` is without it, for sets among which none has one string, as in the
run. A perfect hash at the
end needs distinct pairs throughout (`PairsOK`) and tables that agree whenever
lists are displaced and put back (`SlotsAgree`), and that the search does not stop
before every list is placed (`DoneOK`). `BlenOK` bounds `b`, so that the assumptions
on parts of a hash apply.

### MethodCache_proof

From `MethodCacheAssumption` (a finite class hierarchy that ends at roots, hashes
that are numbers, first caches of two buckets or more) and `NoMethod` (no cache
entry is the null pointer): all four properties of the `dispatch` run. The
invariant has eight parts.

* `LockOK` and `CallsOK`: whoever is in the middle of a fill or a change has
  `runtimeLock`, and its locals are those of that place.
* `BlocksOK`: no block is the cache of two classes, or of one and garbage, and each
  has an empty bucket and is at most three quarters counted. The count, not the
  contents, is bounded by the code; so `TablesOK` says that the count is right, but for
  an entry about to be inserted, and not while a cache is being cleared.
* `TablesOK` further: a probe for an entry's selector reaches it (`Orderly`). This
  is what linear probing needs, holds since no bucket is emptied but in a sweep of them all,
  and fails during the sweep, when only misses matter.
* `FillsOK`: the entry to be inserted is in no bucket, and the buckets gone by are full.
* `CurrencyOK`: entries mean what the lists say, or what they said before the
  change under way, and then the class is still to be flushed (`ToFlush`). A
  superclass's cache is searched during a fill, so it must hold for all classes at once.
* `ExpectedOK`: whatever the messenger may yet read, in a cache or in one that
  was replaced, is what the message meant since it was sent.

That a version added to a class changes what a message means only at or below it
(`Below`), and that the caches of the superclasses answer as their lists would
(`Searches`), are inductions on the height of a class; what a probe finds
(`Probes`) is one on the number of buckets left.

### Objects_proof

From `ValuesAssumption`, `AccessorsAssumption`, `ReferencesAssumption` and
`ObjectsAssumption`: each thread's own structure has an address of its own, `nil` is no
thread, value, class or table, there are finitely many threads, slots, owners, keys and
classes. (`2^GOODPOWER \in Nat \ {0}` is assumed since the provers do not
know powers.) All four properties of the `objects` run, and its types. The proof has
four layers, each an invariant that uses those before it:

* `TypeInv`, with the shape of each call at each of its places (`CallTyped`).
* `StructInv`, for structures. A stripe is locked exactly while the copying it was
  locked for says so (`LocksOK` with `Taken`, which follows from the order of the two
  stripes and from whether they are one), so nobody moves to or from a structure that
  another thread is half through with (`MoversAreApart`), and the half moved first is still
  the source's (`MovedOK`). No deadlock: take the last locked stripe; its holder has no
  stripe after it to wait for (`LastOfStripes`).
* `CountInv`, for retain counts. `References` is a sum of the sizes of six sets, and each
  step moves one element from one of them to another, or adds or removes one together with the
  count (`SlotChange`, `SetChange`, `CallChange`, `TableChange`, `OwerChange`), but for
  the removal of a table, which moves all that its keys refer to (`Shifted`). That the
  element is there to be moved is `LocalsOK`: what a call has found inside a lock is still
  in the slot or in the table until it lets go of the lock; a nonatomic slot has one
  user; a call that breaks several associations has one for each key at most. That a setter
  which retains or copies is one whose value will be released is `PoliciesAgree`,
  about the bits of the five policies.
* `LivesInv`, for the owners of associations: who uses an object has one that is
  allocated, and who frees it is its only user (`UsersOK`); an object with a table has or
  had a flagged class (`EndsOK`).

### Registry_proof

From `RegistryAssumption` (finitely many classes, those of images apart from the
addresses of pairs, going up from a class of an image ends at a root, names that the
table can hash, `NULL` neither a thread nor a class) and `HashAssumption` (what
`maptable.h` asks of keys, and hashes below 2^16): the types and all four properties of
the `registry` run. Nothing bounds threads, images, classes, categories, names, how often
pairs are made and disposed of or classes moved.

*The table.* A table is in order (`TableOK`) when it has an empty bucket, no key twice,
no empty bucket between the one that a key hashes to and its own, and the right count.
Then `NXMapGet` finds exactly the pairs there are, and `NXMapInsert`,
`_NXMapRehash` and `NXMapRemove` keep it in order and change what is found for one key
only. The last is the hard one: it empties the chain of full buckets from the key's on
and inserts all but the removed pair again, last first. While it does so, the pairs not yet
put back are all that is missing (`Good` in the proof), and those that were not moved are
found since none was reached through the chain's buckets.

*The invariant.* `runtimeLock` makes an operation one step for others, but the model has
its tasks one by one, so `IInv` must hold in the midst of it. Its parts:

* `TodoOK` orders the tasks: categories and flushes come when nothing remains
  to be realized, a class is connected once. `PairOK` and `TreeOK` give the shape of the
  hierarchy: metaclasses mirror classes, up to the root metaclass, below the root class. (That going
  up ends is needed only to find the root metaclass at first: the walks are
  bounded in the model, and a flush has its `top` above it.) `UseOK`: whatever a thread is
  about to realize or initialize, after it let go of the lock, has not been freed; that a
  program disposes of no class in use (`MayDispose`) is assumed of it.
* `NameOK`: the table finds what was first registered, and each class with a name in it lives.
* `UpOK`: what is above a realized class is realized or about to be. So when no task is
  left, all of them are.
* `CategoryOK`: a class has its categories if it is linked, and until then they wait. A
  class that is realized but still to be connected (`Linked` is false) counts as not
  realized: its methods are attached when it is connected.
* `LinkOK`: there is a sequence of subclasses for each class of which `firstSubclass` and
  `nextSiblingClass` are the links, and it has exactly the linked classes whose
  superclass this is. `SubclassList`, which follows the links, then gives that sequence.
  The stale `nextSiblingClass` of a class that was removed from a list does no
  harm, as it is in no list until it is added again, which sets it.
* `FlushOK`: `FOREACH_REALIZED_SUBCLASS` keeps no stack. It goes down by `firstSubclass`,
  on by `nextSiblingClass` and back up by the superclass until it is back at `top`. Each class
  with a stale cache is among those that the walk of some flush has yet to come to (`Remaining`):
  below the current class, or below a later sibling of one between it and `top`
  (`Before`). A round of the walk, down, on, or up (`Climb`) and on, takes at most the
  current class, which it has flushed, out of that set.

### Inductions

The theorems on induction in the library take a predicate as parameter, which the
provers cannot instantiate. `Inductions` states induction with a set in place of the
predicate: `SetInduction` (a set with 0 that is closed under successor is `Nat`) from
the well-foundedness of finite sets, then `PrefixInduction` and
`HierarchyInduction`, and `HierarchyRecursion` and `PrefixRecursion`, which say that
a function that recurs up a hierarchy or along a list exists. That gives what
`ScheduleClassLoad`, `Resolve`, `Searches` and `Probes` compute for every input.

### What stays with TLC

* Liveness (`CallsReturn`, `AllDispatched`, `LoadImagesReturns`): fairness and
  ENABLED are beyond the prover.
* `HashLosesNothing`, about bitwise operators, which the provers do not know.
* The two properties that TLC finds violated (`CategoryAfterClass`,
  `InitializedWasSent`).

## Not modelled

* `@synchronized`: thread exit inside a block, `calloc` failure, the `CHECK` usage
  of `id2data` (no caller).
* `+initialize`: spurious wake-ups of the condition (the waiter tests again in a
  loop, and a sleeper may be woken by any class's broadcast here too).
* `+load` and registry: `unmap_image` (`android/dyld.m` registers no remove handler),
  an image announced twice, future and remapped classes, protocols, properties and
  ivars, `objc_duplicateClass`.
* Dispatch: vtables, `objc_msgSendSuper` and the `_stret` variants (same lookup),
  memory of `forward::` entries, lookups of `.cxx_construct` without a lock.
* Tables: the buckets of `NXHashTable`, which `Registry` uses as a set; iteration.
* Debugger mode: monitors, `assert_locked` functions.
* Ivar layout (bitmaps that nothing in this build reads), type encodings (a
  stateless scanner of characters), exceptions (a layer over the C++ unwinder),
  errors, environment, logging and collector stubs (I/O, `getenv`, constants), root
  classes (wrappers of the API).
