--------------------------- MODULE OperationLock ---------------------------
(***************************************************************************)
(* src/NFTorrent/locks.py: a lock per string key, kept in a dictionary     *)
(* (`lock_index`) shared by the tasks of one event loop.  The dictionary's *)
(* entry is created by the first task that enters and deleted by the last  *)
(* one that leaves; a counter on the lock object says which one that is.   *)
(*                                                                         *)
(* The modelled atomicity is the event loop's: a coroutine runs without    *)
(* interruption between two awaits.  __aenter__ has one await,             *)
(* asyncio.Lock.acquire, which suspends only when the lock is taken or     *)
(* other tasks queue for it; __aexit__ has none.  A task may be cancelled  *)
(* while it is suspended there, and then __aexit__ is never run for it.    *)
(*                                                                         *)
(* asyncio.Lock is not part of the repository.  AcquiresAtOnce,            *)
(* WakeUpFirst, Resume, Cancel and Abort are its documented behaviour: a   *)
(* FIFO of futures; release clears the flag and completes the first        *)
(* future; the woken task sets the flag itself when it next runs.          *)
(***************************************************************************)
EXTENDS Naturals, Sequences, FiniteSets, SequencesExt

CONSTANTS
    Task,          \* the tasks of the event loop
    Key,           \* the keys they lock
    Lock,          \* identities of asyncio.Lock objects
    NoKey, NoLock,
    MaxAbandon     \* bound: cancelled acquisitions of one lock object

ASSUME TaskAssumption == IsFiniteSet(Task)
ASSUME NoneAssumption == NoLock \notin Lock /\ NoKey \notin Key
ASSUME AbandonAssumption == MaxAbandon \in Nat

VARIABLES
    lock_index,    \* the dictionary
    ref_count,     \* lock.__ref_count
    locked,        \* asyncio.Lock._locked
    waiters,       \* asyncio.Lock._waiters
    pc,            \* where each task is in `async with OperationLock(...)`
    key,           \* OperationLock.key of the task's block
    lock,          \* OperationLock.lock of the task's block
    abandoned      \* history: acquisitions of the lock that were cancelled

vars == <<lock_index, ref_count, locked, waiters, pc, key, lock, abandoned>>

(***************************************************************************)
(* pc: "idle" outside; "refused" LockShouldWaitError was raised; "waiting" *)
(* suspended on a pending future; "woken" the future has its result but    *)
(* the task has not run yet; "cancelled" the pending future was cancelled; *)
(* "doomed" the task was cancelled after its future had its result;        *)
(* "holding" inside the block.                                             *)
(***************************************************************************)
Queued == {"waiting", "woken", "cancelled", "doomed"}
PC == {"idle", "refused", "holding"} \cup Queued

TypeOK ==
    /\ lock_index \in [Key -> Lock \cup {NoLock}]
    /\ ref_count \in [Lock -> Nat]
    /\ locked \in [Lock -> BOOLEAN]
    /\ waiters \in [Lock -> Seq(Task)]
    /\ pc \in [Task -> PC]
    /\ key \in [Task -> Key \cup {NoKey}]
    /\ lock \in [Task -> Lock \cup {NoLock}]
    /\ abandoned \in [Lock -> Nat]

Init ==
    /\ lock_index = [k \in Key |-> NoLock]
    /\ ref_count = [l \in Lock |-> 0]
    /\ locked = [l \in Lock |-> FALSE]
    /\ waiters = [l \in Lock |-> <<>>]
    /\ pc = [t \in Task |-> "idle"]
    /\ key = [t \in Task |-> NoKey]
    /\ lock = [t \in Task |-> NoLock]
    /\ abandoned = [l \in Lock |-> 0]

-----------------------------------------------------------------------------
\* A new asyncio.Lock() is an object nothing refers to.
Unused(l) ==
    /\ \A k \in Key : lock_index[k] # l
    /\ \A t \in Task : lock[t] # l

\* asyncio.Lock.acquire does not suspend.
AcquiresAtOnce(l) ==
    /\ ~locked[l]
    /\ \A i \in DOMAIN waiters[l] : pc[waiters[l][i]] = "cancelled"

\* asyncio.Lock._wake_up_first on the queue ws: complete the first future
\* unless it is done already.  The result is the tasks' new pc.
WakeUpFirst(ws, pcs) ==
    IF ws # <<>> /\ pcs[Head(ws)] = "waiting"
    THEN [pcs EXCEPT ![Head(ws)] = "woken"]
    ELSE pcs

\* A task leaves a lock's queue (deque.remove).
Position(t, ws) == CHOOSE i \in DOMAIN ws : ws[i] = t
Without(ws, t) == RemoveAt(ws, Position(t, ws))

\* The handler of CancelledError in acquire.
PassOn(l, rest, pcs) == IF locked[l] THEN pcs ELSE WakeUpFirst(rest, pcs)

-----------------------------------------------------------------------------
\* Slip: the counter is read where the flag is.
RefusesCounted(l) == ref_count[l] > 0

\* __aenter__ of an existing entry with wait=False raises.
Refuses(l) == locked[l]

\* Slip: the counter counts the creator only.
CountNobody(l) == ref_count

\* self.lock.__ref_count += 1
CountIn(l) == [ref_count EXCEPT ![l] = @ + 1]

\* The decrement leaves 0: the last one out deletes the entry.
EntryAfterExit(k, l) == IF ref_count[l] - 1 = 0
                        THEN [lock_index EXCEPT ![k] = NoLock]
                        ELSE lock_index

\* __aenter__, the key has no entry: make the lock, and acquire it at once.
EnterNew(t, k) ==
    /\ pc[t] = "idle"
    /\ lock_index[k] = NoLock
    /\ \E l \in Lock :
        /\ Unused(l)
        /\ lock_index' = [lock_index EXCEPT ![k] = l]
        /\ ref_count' = [ref_count EXCEPT ![l] = 1]
        /\ locked' = [locked EXCEPT ![l] = TRUE]
        /\ waiters' = [waiters EXCEPT ![l] = <<>>]
        /\ abandoned' = [abandoned EXCEPT ![l] = 0]
        /\ lock' = [lock EXCEPT ![t] = l]
    /\ key' = [key EXCEPT ![t] = k]
    /\ pc' = [pc EXCEPT ![t] = "holding"]

\* __aenter__ with wait=False on a locked entry: LockShouldWaitError.
EnterRefused(t, k) ==
    /\ pc[t] = "idle"
    /\ lock_index[k] # NoLock
    /\ Refuses(lock_index[k])
    /\ pc' = [pc EXCEPT ![t] = "refused"]
    /\ key' = [key EXCEPT ![t] = k]
    /\ UNCHANGED <<lock_index, ref_count, locked, waiters, lock, abandoned>>

\* __aenter__ on an existing entry that is not refused.  wait=False gets
\* here too when the flag is clear, even if others queue.
EnterExisting(t, k, wait) ==
    LET l == lock_index[k] IN
    /\ pc[t] = "idle"
    /\ l # NoLock
    /\ wait \/ ~Refuses(l)
    /\ ref_count' = CountIn(l)
    /\ key' = [key EXCEPT ![t] = k]
    /\ lock' = [lock EXCEPT ![t] = l]
    /\ \/ /\ AcquiresAtOnce(l)
          /\ locked' = [locked EXCEPT ![l] = TRUE]
          /\ pc' = [pc EXCEPT ![t] = "holding"]
          /\ UNCHANGED waiters
       \/ /\ ~AcquiresAtOnce(l)
          /\ waiters' = [waiters EXCEPT ![l] = Append(@, t)]
          /\ pc' = [pc EXCEPT ![t] = "waiting"]
          /\ UNCHANGED locked
    /\ UNCHANGED <<lock_index, abandoned>>

\* The caller's handler of LockShouldWaitError ends the request.
Handled(t) ==
    /\ pc[t] = "refused"
    /\ pc' = [pc EXCEPT ![t] = "idle"]
    /\ key' = [key EXCEPT ![t] = NoKey]
    /\ UNCHANGED <<lock_index, ref_count, locked, waiters, lock, abandoned>>

\* The woken task runs again: acquire and __aenter__ return.
Resume(t) ==
    LET l == lock[t] IN
    /\ pc[t] = "woken"
    /\ waiters' = [waiters EXCEPT ![l] = Without(@, t)]
    /\ locked' = [locked EXCEPT ![l] = TRUE]
    /\ pc' = [pc EXCEPT ![t] = "holding"]
    /\ UNCHANGED <<lock_index, ref_count, key, lock, abandoned>>

\* task.cancel() of a task suspended in acquire.
Cancel(t) ==
    /\ pc[t] \in {"waiting", "woken"}
    /\ abandoned[lock[t]] < MaxAbandon
    /\ abandoned' = [abandoned EXCEPT ![lock[t]] = @ + 1]
    /\ pc' = [pc EXCEPT ![t] = IF @ = "waiting" THEN "cancelled" ELSE "doomed"]
    /\ UNCHANGED <<lock_index, ref_count, locked, waiters, key, lock>>

\* The cancelled task runs again: acquire leaves the queue, wakes the next
\* task if the lock is free, and raises.  __aexit__ is not called, so the
\* reference counted in __aenter__ is never given back.
Abort(t) ==
    LET l == lock[t]
        rest == Without(waiters[l], t)
        pcs == [pc EXCEPT ![t] = "idle"]
    IN
    /\ pc[t] \in {"cancelled", "doomed"}
    /\ waiters' = [waiters EXCEPT ![l] = rest]
    /\ pc' = PassOn(l, rest, pcs)
    /\ key' = [key EXCEPT ![t] = NoKey]
    /\ lock' = [lock EXCEPT ![t] = NoLock]
    /\ UNCHANGED <<lock_index, ref_count, locked, abandoned>>

\* Slip: only the last user releases the lock.
ReleaseLast(t, l) ==
    /\ locked' = [locked EXCEPT ![l] = @ /\ ref_count[l] > 1]
    /\ pc' = [pc EXCEPT ![t] = "idle"]

\* self.lock.release() at the end of t's block.
Release(t, l) ==
    /\ locked' = [locked EXCEPT ![l] = FALSE]
    /\ pc' = WakeUpFirst(waiters[l], [pc EXCEPT ![t] = "idle"])

\* __aexit__, however the block ends.
Exit(t) ==
    LET l == lock[t] IN
    /\ pc[t] = "holding"
    /\ Release(t, l)
    /\ ref_count' = [ref_count EXCEPT ![l] = @ - 1]
    /\ lock_index' = EntryAfterExit(key[t], l)
    /\ key' = [key EXCEPT ![t] = NoKey]
    /\ lock' = [lock EXCEPT ![t] = NoLock]
    /\ UNCHANGED <<waiters, abandoned>>

Enter(t) ==
    \E k \in Key :
        \/ EnterNew(t, k)
        \/ EnterRefused(t, k)
        \/ \E wait \in BOOLEAN : EnterExisting(t, k, wait)

Next ==
    \E t \in Task :
        Enter(t) \/ Handled(t) \/ Resume(t) \/ Cancel(t) \/ Abort(t) \/ Exit(t)

Spec == Init /\ [][Next]_vars

\* The event loop runs every task that is ready, and the blocks end: the
\* polling in them is bounded by confirmation_timeout, the calls by the
\* HTTP clients' timeouts.  Nobody is obliged to enter or to be cancelled.
Fairness ==
    \A t \in Task : WF_vars(Handled(t) \/ Resume(t) \/ Abort(t) \/ Exit(t))

FairSpec == Spec /\ Fairness

-----------------------------------------------------------------------------
\* No two tasks are ever inside the blocks of one key.
MutualExclusion ==
    \A t, u \in Task :
        pc[t] = "holding" /\ pc[u] = "holding" /\ key[t] = key[u] => t = u

\* While a task is in the block of a key or queues for it, the dictionary
\* keeps the very lock object the task uses: a newcomer cannot make a second
\* lock for the key.
EntryWhileInUse ==
    \A t \in Task : pc[t] \notin {"idle", "refused"} =>
        lock_index[key[t]] = lock[t]

\* The tasks whose reference the counter will still give back.
Users(l) == {t \in Task : lock[t] = l /\ pc[t] \in {"waiting", "woken", "holding"}}

\* The counter on a lock object is the number of tasks that use it, plus the
\* acquisitions that were cancelled before they got it.
RefCountExact ==
    \A l \in Lock : (\E k \in Key : lock_index[k] = l) =>
        ref_count[l] = abandoned[l] + Cardinality(Users(l))

\* LockShouldWaitError is raised only while another task is really inside
\* the block of the key: neither a cancelled acquisition, whose reference is
\* never given back, nor a block that has ended keeps a key refused.
RefusedOnlyWhenHeld ==
    [][\A t \in Task : pc[t] = "idle" /\ pc'[t] = "refused" =>
        \E u \in Task \ {t} : pc[u] = "holding" /\ key[u] = key'[t]]_vars

\* A task that waits gets the lock, or is cancelled.
Progress ==
    \A t \in Task :
        pc[t] = "waiting" ~> pc[t] \in {"holding", "idle"}

\* Lock objects, counters and queues implement a mutex per key.
Wants == {p \in Task \X Key : pc[p[1]] \in Queued /\ key[p[1]] = p[2]}
Holds == {p \in Task \X Key : pc[p[1]] = "holding" /\ key[p[1]] = p[2]}

Mutex == INSTANCE KeyMutex WITH wants <- Wants, holds <- Holds

\* What the callers rely on: the tasks inside and queued, seen without the
\* lock objects, behave as KeyMutex says.
Abstract == Mutex!Spec
=============================================================================
