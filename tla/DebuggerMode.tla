---------------------------- MODULE DebuggerMode ----------------------------
(***************************************************************************)
(* The runtime's four managed locks, the checks a debug build makes of     *)
(* their use (objc-lockdebug.m), and debugger mode (objc-runtime.m,        *)
(* objc-runtime-new.m): gdb stops every thread, has one of them take as    *)
(* many locks as it can, and runs functions of the runtime on it.          *)
(*                                                                         *)
(* A thread of the program takes locks in their order and gives back what  *)
(* it took.  gdb may stop it at any step, in the midst of a lock or an     *)
(* unlock too.  A call that gdb makes runs to its end, or for ever, while  *)
(* nothing else moves, so each is one step.  rwlock_t is a plain mutex     *)
(* here, for readers too.                                                  *)
(***************************************************************************)
EXTENDS Naturals, FiniteSets

CONSTANTS
    Traced, Nobody,
    MaxDepth,   \* bound on how often a thread takes loadMethodLock
    MaxCount    \* bound on nested starts of debugger mode

ASSUME DebuggerModeAssumption ==
    /\ Nobody \notin Traced
    /\ MaxDepth \in Nat \ {0} /\ MaxCount \in Nat \ {0}

\* In the order in which they are taken.
Rank == [loadMethodLock |-> 1, runtimeLock |-> 2, cacheUpdateLock |-> 3, selLock |-> 4]
Locks == DOMAIN Rank

\* The kinds of lock a thread's list of locks tells apart.
Kinds(l) ==
    CASE l = "cacheUpdateLock" -> {"MUTEX"}
      [] l = "loadMethodLock" -> {"RECURSIVE"}
      [] OTHER -> {"RDLOCK", "WRLOCK"}

Entries == UNION {{l} \X Kinds(l) : l \in Locks}

\* The entry of a lock that debugger mode took, and may write under.
RDWR == [runtimeLock |-> "WRLOCK", selLock |-> "WRLOCK",
         cacheUpdateLock |-> "MUTEX", loadMethodLock |-> "RECURSIVE"]

Modes == {"OFF", "PARTIAL", "FULL"}

VARIABLES
    mutex,      \* the owner of each lock's pthread mutex and its recursion count
    lockList,   \* each thread's _objc_lock_list: the nest count of each entry
    held,       \* the entries that the program's own code holds, and how often
    call,       \* the lock function each thread of the program is in
    stopped,    \* gdb has stopped the threads
    hung,       \* the thread on which a call of gdb's waits for ever
    DebuggerMode, DebuggerModeCount, DebuggerModeThread,
    debugger,   \* the locks with debugger_... set
    killed,     \* _objc_fatal was called by a check
    checked     \* the build has the checks: NDEBUG is not defined

debuggerVars ==
    <<mutex, lockList, held, call, stopped, hung, DebuggerMode, DebuggerModeCount,
      DebuggerModeThread, debugger, killed, checked>>

modeVars == <<stopped, hung, DebuggerMode, DebuggerModeCount, DebuggerModeThread, debugger>>

Idle == [at |-> "idle"]
Call == {Idle} \cup [at : {"lock", "unlock"}, entry : Entries]

DebuggerTypeOK ==
    /\ mutex \in [Locks -> [owner : Traced \cup {Nobody}, depth : Nat]]
    /\ lockList \in [Traced -> [Entries -> Nat]]
    /\ held \in [Traced -> [Entries -> Nat]]
    /\ call \in [Traced -> Call]
    /\ stopped \in BOOLEAN /\ killed \in BOOLEAN /\ checked \in BOOLEAN
    /\ hung \in Traced \cup {Nobody}
    /\ DebuggerMode \in Modes
    /\ DebuggerModeCount \in 0..MaxCount
    /\ DebuggerModeThread \in Traced \cup {Nobody}
    /\ debugger \subseteq Locks

DebuggerInit ==
    /\ mutex = [l \in Locks |-> [owner |-> Nobody, depth |-> 0]]
    /\ lockList = [t \in Traced |-> [e \in Entries |-> 0]]
    /\ held = [t \in Traced |-> [e \in Entries |-> 0]]
    /\ call = [t \in Traced |-> Idle]
    /\ stopped = FALSE /\ hung = Nobody
    /\ DebuggerMode = "OFF" /\ DebuggerModeCount = 0 /\ DebuggerModeThread = Nobody
    /\ debugger = {}
    /\ killed = FALSE
    /\ checked \in BOOLEAN

-----------------------------------------------------------------------------
(* The locks themselves and the lists that the checks keep of them.        *)

\* pthread_mutex_lock by t would not wait.
Lockable(t, l) ==
    \/ mutex[l].owner = Nobody
    \/ mutex[l].owner = t /\ l = "loadMethodLock"

\* The mutexes after t has locked, or unlocked, each lock of a set once.
Locked(t, taken) ==
    [l \in Locks |-> IF l \in taken THEN [owner |-> t, depth |-> mutex[l].depth + 1]
                                    ELSE mutex[l]]

Unlocked(taken) ==
    [l \in Locks |-> IF l \notin taken THEN mutex[l]
                     ELSE [owner |-> IF mutex[l].depth = 1 THEN Nobody ELSE mutex[l].owner,
                           depth |-> mutex[l].depth - 1]]

\* What mutex_lock and its like do to a list: in a build without the checks
\* they are the bare functions, and there is no list.
Listed(entries) == IF checked THEN entries ELSE {}

hasLock(t, e) == lockList[t][e] > 0

setLock(t, entries) ==
    [lockList EXCEPT ![t] =
        [e \in Entries |-> IF e \in Listed(entries) THEN @[e] + 1 ELSE @[e]]]

clearLock(t, entries) ==
    [lockList EXCEPT ![t] =
        [e \in Entries |-> IF e \in Listed(entries) THEN @[e] - 1 ELSE @[e]]]

-----------------------------------------------------------------------------
(* A thread of the program.                                                *)

RunsAt(t, where) == ~ stopped /\ ~ killed /\ call[t].at = where

\* A lock that comes after those it holds, or loadMethodLock once more.
MayLock(t, e) ==
    \A f \in Entries : held[t][f] > 0 =>
        \/ Rank[f[1]] < Rank[e[1]]
        \/ f = e /\ e[1] = "loadMethodLock" /\ held[t][e] < MaxDepth

\* What a blocking lock takes for a deadlock: the lock of either kind, unless
\* it is recursive.
Relocks(t, e) ==
    e[1] # "loadMethodLock" /\ \E k \in Kinds(e[1]) : hasLock(t, <<e[1], k>>)

Die == killed' = TRUE /\ UNCHANGED <<mutex, lockList, held, call, modeVars>>

\* The check, and the entry in the list, come before the lock.
StartLock(t, e) ==
    /\ RunsAt(t, "idle") /\ MayLock(t, e)
    /\ IF Relocks(t, e) THEN Die
       ELSE /\ lockList' = setLock(t, {e})
            /\ call' = [call EXCEPT ![t] = [at |-> "lock", entry |-> e]]
            /\ UNCHANGED <<mutex, held, modeVars, killed>>

FinishLock(t) ==
    /\ RunsAt(t, "lock") /\ Lockable(t, call[t].entry[1])
    /\ mutex' = Locked(t, {call[t].entry[1]})
    /\ held' = [held EXCEPT ![t][call[t].entry] = @ + 1]
    /\ call' = [call EXCEPT ![t] = Idle]
    /\ UNCHANGED <<lockList, modeVars, killed>>

\* An unlock is struck from the list before it is done.
StartUnlock(t, e) ==
    /\ RunsAt(t, "idle") /\ held[t][e] > 0
    /\ IF checked /\ ~ hasLock(t, e) THEN Die
       ELSE /\ lockList' = clearLock(t, {e})
            /\ held' = [held EXCEPT ![t][e] = @ - 1]
            /\ call' = [call EXCEPT ![t] = [at |-> "unlock", entry |-> e]]
            /\ UNCHANGED <<mutex, modeVars, killed>>

FinishUnlock(t) ==
    /\ RunsAt(t, "unlock")
    /\ mutex' = Unlocked({call[t].entry[1]})
    /\ call' = [call EXCEPT ![t] = Idle]
    /\ UNCHANGED <<lockList, held, modeVars, killed>>

Program(t) ==
    \/ \E e \in Entries : StartLock(t, e) \/ StartUnlock(t, e)
    \/ FinishLock(t) \/ FinishUnlock(t)

-----------------------------------------------------------------------------
(* gdb.                                                                    *)

Stop ==
    /\ ~ stopped /\ ~ killed
    /\ stopped' = TRUE
    /\ UNCHANGED <<mutex, lockList, held, call, hung, DebuggerMode,
                   DebuggerModeCount, DebuggerModeThread, debugger, killed>>

\* gdb may call a function on a thread.
AtPrompt == stopped /\ hung = Nobody /\ ~ killed

\* The locks that startDebuggerMode can take on t.  Where try_write fails
\* try_read fails as well, since both try one mutex.
Available(t) == {l \in Locks : Lockable(t, l)}

Result(t) ==
    IF ~ {"runtimeLock", "cacheUpdateLock"} \subseteq Available(t) THEN "OFF"
    ELSE IF Available(t) = Locks THEN "FULL" ELSE "PARTIAL"

\* What the thread still has of these locks when gdb's call returns: nothing
\* if it is less than was wanted.
Kept(t, wantFull) ==
    IF Result(t) = "OFF" \/ (Result(t) = "PARTIAL" /\ wantFull) THEN {} ELSE Available(t)

Written(taken) == {<<l, RDWR[l]>> : l \in taken}

\* gdb_objc_startDebuggerMode when it is off.
StartDebuggerMode(t, wantFull) ==
    /\ AtPrompt /\ DebuggerMode = "OFF"
    /\ LET taken == Kept(t, wantFull) IN
       /\ mutex' = Locked(t, taken)
       /\ lockList' = setLock(t, Written(taken))
       /\ debugger' = {l \in taken : Result(t) # "OFF"}
       /\ IF debugger' = {}
          THEN UNCHANGED <<DebuggerMode, DebuggerModeCount, DebuggerModeThread>>
          ELSE /\ DebuggerMode' = Result(t)
               /\ DebuggerModeCount' = 1
               /\ DebuggerModeThread' = t
    /\ UNCHANGED <<held, call, stopped, hung, killed>>

\* It is on, is good enough, and this is its thread: a nested start.
NestDebuggerMode(t, wantFull) ==
    /\ AtPrompt /\ DebuggerMode # "OFF"
    /\ wantFull => DebuggerMode = "FULL"
    /\ t = DebuggerModeThread /\ DebuggerModeCount < MaxCount
    /\ DebuggerModeCount' = DebuggerModeCount + 1
    /\ UNCHANGED <<mutex, lockList, held, call, stopped, hung, DebuggerMode,
                   DebuggerModeThread, debugger, killed>>

\* Seeded bug: DebuggerMode is reset last, so that the unlocks of the two
\* mutexes are taken for a debugger's and skipped.
GivenInMode == debugger \cap {"runtimeLock", "selLock"}

\* The locks that endDebuggerMode unlocks, after it has reset DebuggerMode.
GivenBack == debugger

\* gdb_objc_endDebuggerMode on the thread that started it.
EndDebuggerMode(t) ==
    /\ AtPrompt /\ DebuggerMode # "OFF" /\ t = DebuggerModeThread
    /\ DebuggerModeCount' = DebuggerModeCount - 1
    /\ IF DebuggerModeCount = 1
       THEN /\ DebuggerMode' = "OFF"
            /\ DebuggerModeThread' = Nobody
            /\ mutex' = Unlocked(GivenBack)
            /\ lockList' = clearLock(t, Written(GivenBack))
            /\ debugger' = {}
       ELSE UNCHANGED <<DebuggerMode, DebuggerModeThread, mutex, lockList, debugger>>
    /\ UNCHANGED <<held, call, stopped, hung, killed>>

\* A function of the runtime that gdb runs in debugger mode.  Its locks of
\* cacheUpdateLock and loadMethodLock return at once and change nothing.  The
\* rwlock functions make no such exception: the thread waits for a mutex that
\* it, or a stopped thread, has locked.
CallRuntime(t, l) ==
    /\ AtPrompt /\ DebuggerMode # "OFF"
    /\ l \in {"runtimeLock", "selLock"}
    /\ mutex[l].owner # Nobody
    /\ hung' = t
    /\ UNCHANGED <<mutex, lockList, held, call, stopped, DebuggerMode,
                   DebuggerModeCount, DebuggerModeThread, debugger, killed>>

\* gdb interrupts the call and pops its frame.
Interrupt ==
    /\ hung # Nobody
    /\ hung' = Nobody
    /\ UNCHANGED <<mutex, lockList, held, call, stopped, DebuggerMode,
                   DebuggerModeCount, DebuggerModeThread, debugger, killed>>

Resume ==
    /\ AtPrompt /\ DebuggerMode = "OFF"
    /\ stopped' = FALSE
    /\ UNCHANGED <<mutex, lockList, held, call, hung, DebuggerMode,
                   DebuggerModeCount, DebuggerModeThread, debugger, killed>>

Debugger ==
    \/ Stop \/ Resume \/ Interrupt
    \/ \E t \in Traced :
        \/ \E wantFull \in BOOLEAN : \/ StartDebuggerMode(t, wantFull)
                                     \/ NestDebuggerMode(t, wantFull)
        \/ EndDebuggerMode(t)
        \/ \E l \in Locks : CallRuntime(t, l)

DebuggerNext ==
    /\ Debugger \/ \E t \in Traced : Program(t)
    /\ UNCHANGED checked

DebuggerSpec == DebuggerInit /\ [][DebuggerNext]_debuggerVars

-----------------------------------------------------------------------------
(* Properties.                                                             *)

InCall(t, e, where) == IF call[t].at = where /\ call[t].entry = e THEN 1 ELSE 0

\* How often debugger mode has locked the entry on t.
ByDebugger(t, e) == IF t = DebuggerModeThread /\ e \in Written(debugger) THEN 1 ELSE 0

\* How often t has locked a mutex.
Owned(m, t, l) == IF m[l].owner = t THEN m[l].depth ELSE 0

\* How often a lock is taken on t: by an entry, and in all.
Times(t, e) == held[t][e] + InCall(t, e, "unlock") + ByDebugger(t, e)

TimesTaken(t, l) ==
    LET times(k) == IF k \in Kinds(l) THEN Times(t, <<l, k>>) ELSE 0
    IN  times("MUTEX") + times("RECURSIVE") + times("RDLOCK") + times("WRLOCK")

\* Whatever moment gdb stops the program at, and whichever threads it uses,
\* every lock is held exactly as often as the program and debugger mode have
\* taken it: a start that fails or falls short leaves nothing behind ("Return
\* 0 if not enough locks could be acquired"), and an end gives back the locks
\* that were "held until endDebuggerMode()" (objc-runtime-new.m:93).  The list
\* of locks of each thread says the same, so that no check kills a program
\* that takes its locks in order.
LocksAreAccounted ==
    /\ ~ killed
    /\ \A t \in Traced :
        /\ \A l \in Locks : Owned(mutex, t, l) = TimesTaken(t, l)
        /\ \A e \in Entries :
            checked => lockList[t][e] = held[t][e] + InCall(t, e, "lock")
                                            + ByDebugger(t, e)

=============================================================================
