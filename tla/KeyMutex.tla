------------------------------ MODULE KeyMutex ------------------------------
(***************************************************************************)
(* What the callers of OperationLock (src/NFTorrent/locks.py) are promised *)
(* of `async with OperationLock(key, index, wait)`: at most one task is    *)
(* inside the block of a key.  A task may take a free key at once, queue   *)
(* for it, be granted it when nobody has it, give up, or release it.       *)
(* There are no lock objects, counters or queues here: OperationLock.tla   *)
(* implements this module with them.                                       *)
(***************************************************************************)
CONSTANTS Task, Key

VARIABLES
    wants,      \* the pairs <<t, k>> of a task queued for a key
    holds       \* the pairs <<t, k>> of a task inside the block of a key

vars == <<wants, holds>>

TypeOK ==
    /\ wants \subseteq Task \X Key
    /\ holds \subseteq Task \X Key

Init ==
    /\ wants = {}
    /\ holds = {}

Busy(t) == \E k \in Key : <<t, k>> \in wants \cup holds
Free(k) == \A u \in Task : <<u, k>> \notin holds

\* The fast path: nobody has the key.
Take(t, k) ==
    /\ ~Busy(t)
    /\ Free(k)
    /\ holds' = holds \cup {<<t, k>>}
    /\ UNCHANGED wants

Queue(t, k) ==
    /\ ~Busy(t)
    /\ wants' = wants \cup {<<t, k>>}
    /\ UNCHANGED holds

Grant(t, k) ==
    /\ <<t, k>> \in wants
    /\ Free(k)
    /\ wants' = wants \ {<<t, k>>}
    /\ holds' = holds \cup {<<t, k>>}

\* A queued task is cancelled.
Withdraw(t, k) ==
    /\ <<t, k>> \in wants
    /\ wants' = wants \ {<<t, k>>}
    /\ UNCHANGED holds

Release(t, k) ==
    /\ <<t, k>> \in holds
    /\ holds' = holds \ {<<t, k>>}
    /\ UNCHANGED wants

Next ==
    \E t \in Task, k \in Key :
        \/ Take(t, k) \/ Queue(t, k) \/ Grant(t, k)
        \/ Withdraw(t, k) \/ Release(t, k)

Spec == Init /\ [][Next]_vars
=============================================================================
