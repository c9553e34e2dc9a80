----------------------------- MODULE Supervisor -----------------------------
(***************************************************************************)
(* The supervision of the liteserver processes by TonlibManager            *)
(* (src/NFTorrent/tonlib/manager.py, check_children_alive).                *)
(*                                                                         *)
(* A pass looks at the workers in the order of their index.  It has no     *)
(* await, so it is one step; an exception ends it before the remaining     *)
(* workers are looked at.  A dead worker is respawned restart_timeout      *)
(* after its last start, restart_retry_count times in a retry window that  *)
(* opens at its first death and lasts restart_retry_timeout; a window that *)
(* has expired is closed by one more respawn.                              *)
(*                                                                         *)
(* Times are kept as the time left: `current_time >= start_mt +            *)
(* restart_timeout` is cooldown = 0, and `current_time > restart_retry_mt` *)
(* is retry_left = 0.                                                      *)
(***************************************************************************)
EXTENDS Integers, FiniteSets

CONSTANTS
    WorkerCount,     \* workers_num: the indices are 0 .. WorkerCount - 1
    RetryTimeout,    \* restart_retry_timeout
    RetryCount,      \* restart_retry_count
    RestartTimeout,  \* restart_timeout
    Fragile,         \* the workers whose process may fail to start
    None

Worker == 0 .. WorkerCount - 1

ASSUME CountAssumption == WorkerCount \in Nat /\ RetryCount \in Nat \ {0}
ASSUME TimeAssumption == RetryTimeout \in Nat /\ RestartTimeout \in Nat \ {0}
ASSUME FragileAssumption == Fragile \subseteq Worker
ASSUME NoneAssumption == None \notin Int

VARIABLES
    process,   \* process[w]: the operating system's process runs
    wctl,      \* wctl[w]: the fields of WorkerControl the pass uses
    recent     \* history: ages below RetryTimeout of w's respawns

vars == <<process, wctl, recent>>

\* The window's remaining time is RetryTimeout + 1 when it opens: it has
\* expired when the time is later than restart_retry_mt, not when it is equal.
Control == [is_alive    : BOOLEAN,
            is_enabled  : BOOLEAN,
            cooldown    : 0 .. RestartTimeout,
            retry_left  : 0 .. RetryTimeout + 1 \cup {None},
            retry_count : 0 .. RetryCount \cup {None}]

Spawned == {"up", "gone", "raises"}

\* What Process.start and the is_alive() that follows it come to: the process
\* runs; it has exited already; start raises (OSError, no resources).
Outcomes == {[w \in Worker |-> IF w \in Fragile THEN o[w] ELSE "up"] :
                o \in [Fragile -> Spawned]}

TypeOK ==
    /\ process \in [Worker -> BOOLEAN]
    /\ wctl \in [Worker -> Control]
    /\ recent \in [Worker -> SUBSET (0 .. RetryTimeout - 1)]

\* The constructor's spawn_worker of every worker (one that raises there ends
\* the program).
Init ==
    /\ process \in {p \in [Worker -> BOOLEAN] : \A w \in Worker \ Fragile : p[w]}
    /\ wctl = [w \in Worker |-> [is_alive    |-> process[w],
                                 is_enabled  |-> TRUE,
                                 cooldown    |-> RestartTimeout,
                                 retry_left  |-> None,
                                 retry_count |-> None]]
    /\ recent = [w \in Worker |-> {}]

-----------------------------------------------------------------------------
\* The steps of one turn of the pass's loop, on the control record c.

\* Slip: an expired window does not enable the worker again.
AllowedInWindow(c) == \/ c.retry_left = None
                      \/ c.retry_count > 0

\* is_enabled
Allowed(c) == \/ c.retry_left = None
              \/ c.retry_left = 0
              \/ c.retry_count > 0

\* Slip: a death is recorded, but no retry window opens.
NoticeOnly(c, up) == [c EXCEPT !.is_alive = up]

\* Slip: every death opens a window, and gives the retries back.
NoticeAfresh(c, up) ==
    IF c.is_alive /\ ~up
    THEN [c EXCEPT !.is_alive = up,
                   !.retry_left = RetryTimeout + 1,
                   !.retry_count = RetryCount]
    ELSE [c EXCEPT !.is_alive = up]

\* A worker that was alive at the last look and is not now: the first death
\* opens the retry window.
Notice(c, up) ==
    IF c.is_alive /\ ~up /\ c.retry_left = None
    THEN [c EXCEPT !.is_alive = up,
                   !.retry_left = RetryTimeout + 1,
                   !.retry_count = RetryCount]
    ELSE [c EXCEPT !.is_alive = up]

\* One retry is used; an expired window is closed.
Charge(c) ==
    IF c.retry_left = 0
    THEN [c EXCEPT !.retry_left = None, !.retry_count = None]
    ELSE [c EXCEPT !.retry_count = @ - 1]

\* spawn_worker(force_restart=True): terminate_worker, a new process.
Respawn(c, outcome) ==
    [c EXCEPT !.is_alive = outcome = "up", !.cooldown = RestartTimeout]

\* w's record when its turn comes to the decision whether to respawn.
Looked(w) == Notice([wctl[w] EXCEPT !.is_enabled = Allowed(wctl[w])], process[w])

Due(c) == ~c.is_alive /\ c.is_enabled /\ c.cooldown = 0

\* `restart_retry_count -= 1` on None: TypeError.
Unrecorded(c) == Due(c) /\ c.retry_count = None

Restarts(c) == Due(c) /\ c.retry_count # None

\* The workers whose turn raises.
Raising(looked, outcome) ==
    {w \in Worker : \/ Unrecorded(looked[w])
                    \/ Restarts(looked[w]) /\ outcome[w] = "raises"}

\* The handler of Exception is outside the loop over the workers.
Reached(raising) == {w \in Worker : \A v \in raising : w <= v}

\* One pass over the workers.
CheckChildrenAlive ==
    LET looked == [w \in Worker |-> Looked(w)]
    IN  \E outcome \in Outcomes :
            LET reached == Reached(Raising(looked, outcome))
                restarted == {w \in reached : Restarts(looked[w])}
            IN  /\ wctl' = [w \in Worker |->
                              IF w \in restarted
                              THEN Respawn(Charge(looked[w]), outcome[w])
                              ELSE IF w \in reached THEN looked[w] ELSE wctl[w]]
                /\ process' = [w \in Worker |->
                                 IF w \in restarted THEN outcome[w] = "up" ELSE process[w]]
                /\ recent' = [w \in Worker |->
                                IF w \in restarted
                                THEN recent[w] \cup ({0} \cap 0 .. RetryTimeout - 1)
                                ELSE recent[w]]

\* The process exits, whatever the reason.
Die(w) ==
    /\ process[w]
    /\ process' = [process EXCEPT ![w] = FALSE]
    /\ UNCHANGED <<wctl, recent>>

\* Time passes.
Elapse(n) == IF n \in Nat \ {0} THEN n - 1 ELSE n

Tick ==
    /\ wctl' = [w \in Worker |-> [wctl[w] EXCEPT !.cooldown = Elapse(@),
                                                 !.retry_left = Elapse(@)]]
    /\ recent' = [w \in Worker |-> {a + 1 : a \in recent[w]} \cap 0 .. RetryTimeout - 1]
    /\ UNCHANGED process

Next == CheckChildrenAlive \/ Tick \/ \E w \in Worker : Die(w)

Spec == Init /\ [][Next]_vars

\* The event loop runs the pass every second or, after an exception, ten
\* seconds later; the clock never stops.
Fairness == WF_vars(CheckChildrenAlive) /\ WF_vars(Tick)

FairSpec == Spec /\ Fairness

-----------------------------------------------------------------------------
\* A crashing worker cannot be respawned without end: any period of
\* RetryTimeout touches at most two retry windows, each of which pays for
\* RetryCount respawns, and one respawn that closes an expired window.
RestartBudget == \A w \in Worker : Cardinality(recent[w]) <= 2 * RetryCount + 1

\* The pass found w dead and keeps no retry window for it: the next turn that
\* wants to respawn w raises.
Wedged(w) == ~process[w] /\ ~wctl[w].is_alive /\ wctl[w].retry_left = None

\* Only a process that failed to start can bring the supervision into the
\* state its loop cannot handle; crashes at any other moment never do.
WedgedOnlyIfFragile == \A w \in Worker : Wedged(w) => w \in Fragile

\* A worker whose process is gone is brought back, whatever else fails: its
\* retries may be used up, but the window then expires.  It holds for the
\* workers that come before every fragile one in the pass.
BroughtBack ==
    \A w \in Worker : (\A f \in Fragile : w < f) => (~process[w] ~> process[w])
=============================================================================
