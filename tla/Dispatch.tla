------------------------------ MODULE Dispatch ------------------------------
(***************************************************************************)
(* A request's way to a liteserver worker and back                         *)
(* (src/NFTorrent/tonlib/manager.py: select_worker,                        *)
(* dispatch_request_to_worker, dispatch_archival_request, raw_run_method,  *)
(* toncenter_run_method, read_results, terminate_worker; worker.py:        *)
(* main_loop, process_task).                                               *)
(*                                                                         *)
(* A request registers a future under a fresh task id, hands the task to   *)
(* a thread that puts it on the worker's queue, and waits for the future.  *)
(* The worker's process runs its tasks concurrently and answers in any     *)
(* order; a reader task of the manager completes the futures.  Meanwhile   *)
(* the process may die and be respawned with new queues, the wait may time *)
(* out and the caller may be cancelled.                                    *)
(*                                                                         *)
(* A task id is <<request, attempt>>: the code draws it from the clock and *)
(* a random number, and it is taken to be unique.  A worker's is_sync is   *)
(* not tracked (module Consensus does that): any worker the manager thinks *)
(* alive may be selected, and none may be.  The deadlines are not          *)
(* measured: a wait may time out, and a worker may skip a task, any time.  *)
(***************************************************************************)
EXTENDS Integers, Sequences, FiniteSets, SequencesExt

CONSTANTS
    Worker,
    Request,
    Answer,       \* the kinds of answers of the worker process
    RetriedOn,    \* the kinds of failures that are instances of TonlibError
    PublicRequest, \* the requests that can be put to the public API (toncenter) instead
    MaxDeaths,    \* bound: processes that die
    None

\* An answer is a result, a TonlibError, another exception, or nothing at all:
\* a result of None and no exception.
ASSUME AnswerAssumption == Answer \subseteq {"result", "error", "failure", "nothing"}
ASSUME PublicAssumption == PublicRequest \subseteq Request
ASSUME BoundAssumption == IsFiniteSet(Request) /\ MaxDeaths \in Nat
ASSUME RetryAssumption == RetriedOn \subseteq {"error", "noresponse"}

Task == Request \X {1, 2}
Outcome == {"result", "error", "failure", "timeout", "noresponse", "noworker", "public"}
FutureState == {"pending", "result", "error", "failure", "cancelled"}

ASSUME NoneAssumption == None \notin Worker \cup Outcome \cup FutureState

VARIABLES
    pc,             \* the request's coroutine
    attempt,        \* 1: dispatch_request, 2: dispatch_archival_request
    at,             \* the worker selected
    queue_open,     \* the put goes to a queue of the worker's present process
    outcome,        \* how the request ended
    futures,        \* futures[w]: WorkerControl.futures, None for no entry
    pending_tasks,  \* WorkerControl.pending_tasks
    is_alive,       \* WorkerControl.is_alive
    process,        \* the worker's process runs
    inbox,          \* input_queue
    running,        \* the tasks process_task works on
    outbox,         \* output_queue: task and kind of answer
    computed,       \* history: tasks a worker computed a result for
    silent,         \* history: tasks answered with nothing
    deaths          \* bound counter

reqVars == <<pc, attempt, at, queue_open, outcome>>
poolVars == <<is_alive, process, deaths>>
procVars == <<inbox, running, outbox, computed, silent>>
vars == <<reqVars, futures, pending_tasks, poolVars, procVars>>

TypeOK ==
    /\ pc \in [Request -> {"idle", "sending", "waiting", "public", "ended"}]
    /\ attempt \in [Request -> 1 .. 2]
    /\ at \in [Request -> Worker \cup {None}]
    /\ queue_open \in [Request -> BOOLEAN]
    /\ outcome \in [Request -> Outcome \cup {None}]
    /\ futures \in [Worker -> [Task -> FutureState \cup {None}]]
    /\ pending_tasks \in [Worker -> Nat]
    /\ is_alive \in [Worker -> BOOLEAN]
    /\ process \in [Worker -> BOOLEAN]
    /\ inbox \in [Worker -> Seq(Task)]
    /\ running \in [Worker -> SUBSET Task]
    /\ outbox \in [Worker -> Seq(Task \X Answer \cup Task \X {"failure"})]
    /\ computed \subseteq Task
    /\ silent \subseteq Task
    /\ deaths \in 0 .. MaxDeaths

Init ==
    /\ pc = [r \in Request |-> "idle"]
    /\ attempt = [r \in Request |-> 1]
    /\ at = [r \in Request |-> None]
    /\ queue_open = [r \in Request |-> FALSE]
    /\ outcome = [r \in Request |-> None]
    /\ futures = [w \in Worker |-> [t \in Task |-> None]]
    /\ pending_tasks = [w \in Worker |-> 0]
    /\ is_alive = [w \in Worker |-> TRUE]
    /\ process = [w \in Worker |-> TRUE]
    /\ inbox = [w \in Worker |-> <<>>]
    /\ running = [w \in Worker |-> {}]
    /\ outbox = [w \in Worker |-> <<>>]
    /\ computed = {}
    /\ silent = {}
    /\ deaths = 0

-----------------------------------------------------------------------------
\* The request's coroutine.

TaskOf(r) == <<r, attempt[r]>>
Future(r) == futures[at[r]][TaskOf(r)]

\* dispatch_request_to_worker, up to its first await, on the manager's state f
\* (futures) and n (pending_tasks).
Register(r, i, w, f, n) ==
    /\ pc' = [pc EXCEPT ![r] = "sending"]
    /\ attempt' = [attempt EXCEPT ![r] = i]
    /\ at' = [at EXCEPT ![r] = w]
    /\ queue_open' = [queue_open EXCEPT ![r] = TRUE]
    /\ futures' = [f EXCEPT ![w][<<r, i>>] = "pending"]
    /\ pending_tasks' = [n EXCEPT ![w] = @ + 1]
    /\ UNCHANGED outcome

\* The coroutine is done.
EndWith(r, o) ==
    /\ pc' = [pc EXCEPT ![r] = "ended"]
    /\ outcome' = [outcome EXCEPT ![r] = o]
    /\ at' = [at EXCEPT ![r] = None]
    /\ queue_open' = [queue_open EXCEPT ![r] = FALSE]
    /\ UNCHANGED attempt

\* Slip: the future stays in the dictionary when its wait has failed.
PopIfDone(r) == IF Future(r) = "pending" THEN futures
                ELSE [futures EXCEPT ![at[r]][TaskOf(r)] = None]

\* finally: futures.pop, pending_tasks -= 1
Popped(r) == [futures EXCEPT ![at[r]][TaskOf(r)] = None]

Uncounted(r) == [pending_tasks EXCEPT ![at[r]] = @ - 1]

\* dispatch_request: select_worker, then the dispatch.
Begin(r, w) ==
    /\ pc[r] = "idle" /\ is_alive[w]
    /\ Register(r, 1, w, futures, pending_tasks)
    /\ UNCHANGED <<poolVars, procVars>>

\* TonlibSelectWorkerError: no worker is alive and in sync.
NoWorker(r) ==
    /\ pc[r] = "idle"
    /\ \/ r \notin PublicRequest /\ EndWith(r, "noworker")
       \/ /\ r \in PublicRequest
          /\ pc' = [pc EXCEPT ![r] = "public"]
          /\ UNCHANGED <<attempt, at, queue_open, outcome>>
    /\ UNCHANGED <<futures, pending_tasks, poolVars, procVars>>

\* The public API answers, fails, or is not waited for; module RateLimit has
\* the way to it.  A failure is not answered by another attempt.
PublicEnds(r) ==
    /\ pc[r] = "public"
    /\ EndWith(r, "public") \/ EndWith(r, "failure")
    /\ UNCHANGED <<futures, pending_tasks, poolVars, procVars>>

\* The attempt has ended with the kind o: a TonlibError of the first attempt
\* is answered by a second one with a worker of the manager's choice, if
\* there is one; the public API is not asked then.
Leave(r, o) ==
    IF attempt[r] = 1 /\ o \in RetriedOn
    THEN \/ \E w \in Worker : is_alive[w] /\ Register(r, 2, w, Popped(r), Uncounted(r))
         \/ EndWith(r, "noworker") /\ futures' = Popped(r) /\ pending_tasks' = Uncounted(r)
    ELSE EndWith(r, o) /\ futures' = Popped(r) /\ pending_tasks' = Uncounted(r)

\* The thread's put is done and the coroutine starts to wait.
Sent(r) ==
    /\ pc[r] = "sending" /\ queue_open[r]
    /\ inbox' = [inbox EXCEPT ![at[r]] = Append(@, TaskOf(r))]
    /\ pc' = [pc EXCEPT ![r] = "waiting"]
    /\ UNCHANGED <<attempt, at, queue_open, outcome, futures, pending_tasks, poolVars,
                   running, outbox, computed, silent>>

\* The worker was terminated meanwhile: the put was in time but its queue is
\* gone, or it finds the queue closed and raises ValueError.
SentNowhere(r) ==
    /\ pc[r] = "sending" /\ ~queue_open[r]
    /\ \/ /\ pc' = [pc EXCEPT ![r] = "waiting"]
          /\ UNCHANGED <<attempt, at, queue_open, outcome, futures, pending_tasks>>
       \/ Leave(r, "failure")
    /\ UNCHANGED <<poolVars, procVars>>

\* What the wait for a completed future raises or returns.
Kind(state) == IF state = "cancelled" THEN "noresponse" ELSE state

\* The future was completed or, by terminate_worker, cancelled.
Resolve(r) ==
    /\ pc[r] = "waiting" /\ Future(r) # "pending"
    /\ Leave(r, Kind(Future(r)))
    /\ UNCHANGED <<poolVars, procVars>>

\* asyncio.wait_for gives up.
TimeOut(r) ==
    /\ pc[r] = "waiting" /\ Future(r) = "pending"
    /\ Leave(r, "timeout")
    /\ UNCHANGED <<poolVars, procVars>>

\* The task that runs the request is cancelled: the CancelledError becomes a
\* TonlibNoResponse.  A put that is under way may still reach the queue.
Cancel(r) ==
    /\ \/ pc[r] = "waiting" /\ Future(r) = "pending" /\ UNCHANGED inbox
       \/ pc[r] = "sending" /\ UNCHANGED inbox
       \/ /\ pc[r] = "sending" /\ queue_open[r]
          /\ inbox' = [inbox EXCEPT ![at[r]] = Append(@, TaskOf(r))]
    /\ Leave(r, "noresponse")
    /\ UNCHANGED <<poolVars, running, outbox, computed, silent>>

-----------------------------------------------------------------------------
\* The worker's process.

\* main_loop starts process_task, which does not run a task past its deadline.
Take(w) ==
    /\ process[w] /\ inbox[w] # <<>>
    /\ inbox' = [inbox EXCEPT ![w] = Tail(@)]
    /\ \/ running' = [running EXCEPT ![w] = @ \cup {Head(inbox[w])}] /\ UNCHANGED outbox
       \/ /\ outbox' = [outbox EXCEPT ![w] = Append(@, <<Head(inbox[w]), "failure">>)]
          /\ UNCHANGED running
    /\ UNCHANGED <<reqVars, futures, pending_tasks, poolVars, computed, silent>>

\* process_task is done with the task.
Work(w, t, a) ==
    /\ process[w] /\ t \in running[w]
    /\ running' = [running EXCEPT ![w] = @ \ {t}]
    /\ outbox' = [outbox EXCEPT ![w] = Append(@, <<t, a>>)]
    /\ computed' = IF a = "result" THEN computed \cup {t} ELSE computed
    /\ silent' = IF a = "nothing" THEN silent \cup {t} ELSE silent
    /\ UNCHANGED <<reqVars, futures, pending_tasks, poolVars, inbox>>

\* Slip: an answer completes some pending future of the worker.
CompleteSome(w, t, a) ==
    IF a # "nothing" /\ \E u \in Task : futures[w][u] = "pending"
    THEN [futures EXCEPT ![w][CHOOSE u \in Task : futures[w][u] = "pending"] = a]
    ELSE futures

\* The reader completes a future that is there and not done.
Completed(w, t, a) ==
    IF a # "nothing" /\ futures[w][t] = "pending"
    THEN [futures EXCEPT ![w][t] = a] ELSE futures

\* read_results, TASK_RESULT.
Deliver(w) ==
    /\ outbox[w] # <<>>
    /\ LET m == Head(outbox[w]) IN futures' = Completed(w, m[1], m[2])
    /\ outbox' = [outbox EXCEPT ![w] = Tail(@)]
    /\ UNCHANGED <<reqVars, pending_tasks, poolVars, inbox, running, computed, silent>>

-----------------------------------------------------------------------------
\* The life of the processes.

\* The process exits: its tasks are lost, and so are the answers the feeder
\* thread of its queue has not written yet.
Die(w) ==
    /\ process[w] /\ deaths < MaxDeaths
    /\ deaths' = deaths + 1
    /\ process' = [process EXCEPT ![w] = FALSE]
    /\ running' = [running EXCEPT ![w] = {}]
    /\ \E n \in 0 .. Len(outbox[w]) :
        outbox' = [outbox EXCEPT ![w] = SubSeq(@, 1, n)]
    /\ UNCHANGED <<reqVars, futures, pending_tasks, is_alive, inbox, computed, silent>>

\* check_children_alive looks at the process.
Notice(w) ==
    /\ is_alive' = [is_alive EXCEPT ![w] = process[w]]
    /\ UNCHANGED <<reqVars, futures, pending_tasks, process, deaths, procVars>>

\* Slip: the requests at the worker are left to wait.
KeepFutures(w) == futures

\* terminate_worker: f.cancel() for the futures that are not done.
CancelFutures(w) ==
    [futures EXCEPT ![w] = [t \in Task |-> IF @[t] = "pending" THEN "cancelled" ELSE @[t]]]

\* spawn_worker of a worker known to be dead; up: the start succeeds.
Respawn(w, up) ==
    /\ ~process[w] /\ ~is_alive[w]
    /\ futures' = CancelFutures(w)
    /\ queue_open' = [r \in Request |-> queue_open[r] /\ at[r] # w]
    /\ inbox' = [inbox EXCEPT ![w] = <<>>]
    /\ outbox' = [outbox EXCEPT ![w] = <<>>]
    /\ process' = [process EXCEPT ![w] = up]
    /\ is_alive' = [is_alive EXCEPT ![w] = up]
    /\ UNCHANGED <<pc, attempt, at, outcome, pending_tasks, deaths, running, computed, silent>>

Caller(r) ==
    \/ \E w \in Worker : Begin(r, w)
    \/ NoWorker(r)
    \/ PublicEnds(r)
    \/ Sent(r)
    \/ SentNowhere(r)
    \/ Resolve(r)
    \/ TimeOut(r)
    \/ Cancel(r)

Process(w) ==
    \/ Take(w)
    \/ \E t \in Task, a \in Answer : Work(w, t, a)
    \/ Deliver(w)
    \/ Die(w)
    \/ Notice(w)
    \/ \E up \in BOOLEAN : Respawn(w, up)

Next == (\E r \in Request : Caller(r)) \/ (\E w \in Worker : Process(w))

Spec == Init /\ [][Next]_vars

\* The event loop resumes the coroutines whose awaits are over, a process
\* takes its tasks and ends them, the reader polls, the supervision runs.
Turns ==
    /\ \A r \in Request : WF_vars(Sent(r)) /\ WF_vars(SentNowhere(r)) /\ WF_vars(Resolve(r))
    /\ \A w \in Worker :
        /\ WF_vars(Take(w))
        /\ \A t \in Task : WF_vars(\E a \in Answer : Work(w, t, a))
        /\ WF_vars(Deliver(w))
        /\ WF_vars(Notice(w))

\* A dead worker is respawned in the end.  No timer is relied on.
FairSpec == Spec /\ Turns /\ \A w \in Worker : WF_vars(Respawn(w, TRUE))

-----------------------------------------------------------------------------
Active(r) == pc[r] \in {"sending", "waiting"}

\* The futures a worker's record keeps are those of the requests under way at
\* this worker, and pending_tasks is their number: no schedule of timeouts,
\* cancellations, retries and respawns leaks or loses one.
NoFutureLeaks ==
    \A w \in Worker :
        LET here == {r \in Request : Active(r) /\ at[r] = w}
        IN  /\ {t \in Task : futures[w][t] # None} = {TaskOf(r) : r \in here}
            /\ pending_tasks[w] = Cardinality(here)

OnItsWay(t, w) ==
    \/ \E i \in DOMAIN inbox[w] : inbox[w][i] = t
    \/ t \in running[w]
    \/ \E i \in DOMAIN outbox[w] : outbox[w][i][1] = t

\* A request that waits for a worker whose process runs waits for a task that
\* this process still has, or that it answered with nothing: no respawn
\* leaves a request behind to wait for its predecessor.
NoOrphanedWait ==
    \A r \in Request :
        pc[r] = "waiting" /\ process[at[r]] /\ Future(r) = "pending"
            => OnItsWay(TaskOf(r), at[r]) \/ TaskOf(r) \in silent

\* The refinement mapping: a request is computed when one of its tasks is.
AskedRequests == {r \in Request : pc[r] # "idle"}
ComputedRequests == {r \in Request : \E i \in {1, 2} : <<r, i>> \in computed}
EndedRequests == {<<r, outcome[r]>> : r \in {q \in Request : pc[q] = "ended"}}

Call == INSTANCE RemoteCall WITH
            asked <- AskedRequests, computed <- ComputedRequests, ended <- EndedRequests

\* Dispatch implements RemoteCall: a request ends once and its outcome stays,
\* and it returns a result only if a worker computed one for it, also when an
\* answer of the first attempt arrives during the second.
Abstract == Call!Spec

\* Every request that is made ends without the help of its timer, since a
\* respawn frees what waits for the dead process; only a request that the
\* worker has answered with nothing needs the timer.  (Nothing is said of the
\* public API, whose rate limit may let a request wait for ever.)
Ends ==
    \A r \in Request :
        Active(r) ~> pc[r] = "ended" \/ \E i \in {1, 2} : <<r, i>> \in silent
=============================================================================
