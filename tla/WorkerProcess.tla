---------------------------- MODULE WorkerProcess ----------------------------
(***************************************************************************)
(* The life of a liteserver worker's process (src/NFTorrent/tonlib/        *)
(* worker.py): its first synchronisation, the verification, the tasks      *)
(* report_sync and main_loop, and its end, which may remove the keystore   *)
(* that the next process of the worker would use.                          *)
(*                                                                         *)
(* One tick is retry_timeout, a second.  The process is prompt: time does  *)
(* not pass while one of its coroutines is due.  What it serves meanwhile  *)
(* is Dispatch, what becomes of its reports Consensus.                     *)
(***************************************************************************)
EXTENDS Naturals

CONSTANTS
    SyncTimeout,      \* settings.sync_timeout
    VerifyTimeout,    \* sync_verify_timeout
    RequestTimeout,   \* tonlib answers or raises within this time
    KeystoreRemoveOnFail \* the constructor's argument

VARIABLES
    phase,            \* where run() is
    asking,           \* the phase's loop waits for tonlib, not for its next turn
    wait,             \* time left of that wait
    deadline,         \* time left until sync_mtimeout
    poll,             \* time left of main_loop's input_queue.get
    exit_event,       \* set by the manager, or by shutdown()
    failures,         \* blockchain_failures is not zero
    keystore,         \* "none", "good", or what it is once tonlib raised BlockDeleted on it:
                      \* "bad" if process_task met it, else "suspect"
    age,              \* history: time since the phase began or tonlib last answered it
    exit_age,         \* history: time since the manager set exit_event
    excused           \* history: nobody was left to see the failure, or to remove the keystore

vars == <<phase, asking, wait, deadline, poll, exit_event, failures, keystore,
                 age, exit_age, excused>>

Retry == 1
Poll == 1

Synchronising == {"sync", "verify", "running"}
Ending == {"completed", "closing"}

TypeOK ==
    /\ phase \in {"absent"} \cup Synchronising \cup Ending
    /\ asking \in BOOLEAN
    /\ wait \in Nat
    /\ deadline \in Nat
    /\ poll \in 0..Poll
    /\ exit_event \in BOOLEAN
    /\ failures \in BOOLEAN
    /\ keystore \in {"none", "good", "suspect", "bad"}
    /\ age \in Nat
    /\ exit_age \in Nat
    /\ excused \in BOOLEAN

Init ==
    /\ phase = "absent"
    /\ asking = FALSE
    /\ wait = 0
    /\ deadline = 0
    /\ poll = 0
    /\ exit_event = FALSE
    /\ failures = FALSE
    /\ keystore = "none"
    /\ age = 0
    /\ exit_age = 0
    /\ excused = FALSE

-----------------------------------------------------------------------------
\* Helpers.

\* The phase's request to tonlib; sync_initial gives it what is left of its time.
Request(p, left) ==
    /\ asking' = TRUE
    /\ wait' = IF p = "sync" THEN left ELSE RequestTimeout

\* The time a phase has without an answer.
Timeout(p) == IF p = "verify" THEN VerifyTimeout ELSE SyncTimeout

\* A phase begins; its loop is not entered if the process is to exit.
Begin(p) ==
    /\ phase' = p
    /\ deadline' = Timeout(p)
    /\ age' = 0
    /\ poll' = IF p = "running" /\ ~ exit_event' THEN Poll ELSE 0
    /\ IF exit_event'
       THEN asking' = FALSE /\ wait' = 0
       ELSE Request(p, Timeout(p))

Following(p) == IF p = "sync" THEN "verify" ELSE "running"

\* No loop is left that waits for tonlib.
Leave(p) ==
    /\ phase' = p
    /\ asking' = FALSE
    /\ wait' = 0
    /\ deadline' = 0
    /\ age' = 0

\* asyncio.wait returns: a task has ended.
Complete == Leave("completed")

\* shutdown() is under way; main_loop's thread may still be in get().
Close == Leave("closing")

RemoveKeystore ==
    /\ keystore' = "none"
    /\ excused' = FALSE

\* tonlib has raised something to a task that handles every TonlibException alike; if it
\* was BlockDeleted, nobody counts it.
Swallowed == keystore' \in {keystore, IF keystore = "good" THEN "suspect" ELSE keystore}

\* The deadline after tonlib has answered report_sync.
Renewed == SyncTimeout

\* Slip: a failed request renews the deadline too.
NeverExpired == FALSE

\* Whether an exception of tonlib comes too late to try again.
Expired == deadline = 0

\* main_loop's test at the head of its loop.
SeesFailure == failures

\* Slip: only a process that was not told to exit removes the keystore.
RemovesUnlessTold == KeystoreRemoveOnFail /\ failures /\ ~ exit_event

\* Whether run() removes the keystore at its end.
Removes == KeystoreRemoveOnFail /\ failures

-----------------------------------------------------------------------------
\* Actions.

\* run() up to its first request.
Start ==
    /\ phase = "absent"
    /\ exit_event' = FALSE
    /\ Begin("sync")
    /\ failures' = FALSE
    /\ keystore' = IF keystore = "none" THEN "good" ELSE keystore
    /\ exit_age' = 0
    /\ UNCHANGED excused

\* tonlib answers sync_initial or sync_verify.
Synchronised ==
    /\ phase \in {"sync", "verify"}
    /\ asking
    /\ UNCHANGED exit_event
    /\ Begin(Following(phase))
    /\ UNCHANGED <<failures, keystore, exit_age, excused>>

\* tonlib answers report_sync: the block is put on the queue, and the loop sleeps.
Report ==
    /\ phase = "running"
    /\ asking
    /\ asking' = FALSE
    /\ wait' = Retry
    /\ deadline' = Renewed
    /\ age' = 0
    /\ UNCHANGED <<phase, poll, exit_event, failures, keystore, exit_age, excused>>

\* tonlib raises, BlockDeleted perhaps, and there is time to try again.
Retries ==
    /\ phase \in Synchronising
    /\ asking
    /\ ~ Expired
    /\ asking' = FALSE
    /\ wait' = Retry
    /\ Swallowed
    /\ UNCHANGED <<phase, deadline, poll, exit_event, failures, age, exit_age, excused>>

\* tonlib raises in report_archival, which logs it and sleeps.
ReportArchival ==
    /\ phase = "running"
    /\ Swallowed
    /\ UNCHANGED <<phase, asking, wait, deadline, poll, exit_event, failures, age, exit_age, excused>>

\* The first phases fail, for want of time or by another exception, tonlib.init
\* included: the keystore goes, whatever the reason, and the process exits with 11.
InitFails ==
    /\ phase \in {"sync", "verify"}
    /\ asking
    /\ Close
    /\ IF KeystoreRemoveOnFail THEN RemoveKeystore ELSE Swallowed /\ UNCHANGED excused
    /\ exit_event' = TRUE
    /\ UNCHANGED <<poll, failures, exit_age>>

\* report_sync fails for want of time, or one of the three tasks by another exception.
TaskFails ==
    /\ phase = "running"
    /\ Complete
    /\ Swallowed
    /\ UNCHANGED <<poll, exit_event, failures, exit_age, excused>>

\* A sleep is over, and the loop is at its head.
Turn ==
    /\ phase \in Synchronising
    /\ ~ asking
    /\ wait = 0
    /\ UNCHANGED exit_event
    /\ \/ /\ ~ exit_event
          /\ Request(phase, deadline)
          /\ UNCHANGED <<phase, deadline, poll, age>>
       \/ /\ exit_event /\ phase # "running"
          /\ Begin(Following(phase))
       \/ /\ exit_event /\ phase = "running"
          /\ Complete
          /\ UNCHANGED poll
    /\ UNCHANGED <<failures, keystore, exit_age, excused>>

\* A task has come or get() has timed out: main_loop is at the head of its loop.
MainLoop ==
    /\ phase = "running"
    /\ \/ /\ exit_event \/ SeesFailure
          /\ Complete
          /\ poll' = 0
       \/ /\ ~ (exit_event \/ SeesFailure)
          /\ poll' = Poll
          /\ UNCHANGED <<phase, asking, wait, deadline, age>>
    /\ UNCHANGED <<exit_event, failures, keystore, exit_age, excused>>

\* A request in process_task raises BlockDeleted, which is counted; those of the closing process still run
\* while it waits for its tasks.
BlockDeleted ==
    /\ phase \in {"running"} \cup Ending
    /\ failures' = TRUE
    /\ keystore' = IF keystore = "none" THEN "none" ELSE "bad"
    /\ excused' = (excused \/ phase = "closing")
    /\ UNCHANGED <<phase, asking, wait, deadline, poll, exit_event, age, exit_age>>

\* run() goes on after asyncio.wait.
Finish ==
    /\ phase = "completed"
    /\ Close
    /\ IF Removes THEN RemoveKeystore ELSE UNCHANGED <<keystore, excused>>
    /\ exit_event' = TRUE
    /\ UNCHANGED <<poll, failures, exit_age>>

\* shutdown() has waited for the tasks and the threads.
Exit ==
    /\ phase = "closing"
    /\ phase' = "absent"
    /\ poll' = 0
    /\ UNCHANGED <<asking, wait, deadline, exit_event, failures, keystore, age, exit_age, excused>>

\* The manager terminates the worker.
Terminate ==
    /\ phase \in Synchronising
    /\ ~ exit_event
    /\ exit_event' = TRUE
    /\ exit_age' = 0
    /\ UNCHANGED <<phase, asking, wait, deadline, poll, failures, keystore, age, excused>>

\* The process is killed from outside.
Kill ==
    /\ phase # "absent"
    /\ phase' = "absent"
    /\ asking' = FALSE
    /\ wait' = 0
    /\ deadline' = 0
    /\ poll' = 0
    /\ age' = 0
    /\ excused' = (excused \/ failures)
    /\ UNCHANGED <<exit_event, failures, keystore, exit_age>>

\* Something of the process is due: a wait of a loop, main_loop's get, the steps of its end.
Prompt ==
    \/ phase \in Synchronising /\ wait = 0
    \/ phase \in {"running", "closing"} /\ poll = 0
    \/ phase = "completed"

Tick ==
    /\ phase # "absent"
    /\ ~ Prompt
    /\ wait' = IF wait = 0 THEN 0 ELSE wait - 1
    /\ deadline' = IF deadline = 0 THEN 0 ELSE deadline - 1
    /\ poll' = IF poll = 0 THEN 0 ELSE poll - 1
    /\ age' = age + 1
    /\ exit_age' = IF exit_event THEN exit_age + 1 ELSE 0
    /\ UNCHANGED <<phase, asking, exit_event, failures, keystore, excused>>

Next ==
    \/ Start \/ Synchronised \/ Report \/ Retries \/ ReportArchival \/ InitFails \/ TaskFails
    \/ Turn \/ MainLoop \/ BlockDeleted \/ Finish \/ Exit \/ Terminate \/ Kill \/ Tick

Spec == Init /\ [][Next]_vars

-----------------------------------------------------------------------------
\* Properties.

\* How long a phase may go without an answer of tonlib: its timeout, and one more turn
\* of its loop, as the time is looked at only when a request has failed.
CutOff(p) ==
    CASE p = "sync" -> SyncTimeout - 1 + Retry
      [] p = "verify" -> VerifyTimeout - 1 + Retry + RequestTimeout
      [] p = "running" -> SyncTimeout - 1 + Retry + RequestTimeout

\* How long a process may take to end once it has been told to.
Farewell == IF SyncTimeout > RequestTimeout + Retry THEN SyncTimeout ELSE RequestTimeout + Retry

\* A process whose liteserver no longer answers gives up in time, in each of its phases;
\* a process told to exit is gone before its pending request and one turn are over.
StopsInTime ==
    /\ phase \in Synchronising => age <= CutOff(phase)
    /\ phase # "absent" => exit_age <= Farewell

\* Where the keystore is to be removed on a failure, one on which a request of
\* process_task met BlockDeleted is never left to the next process, whichever task ends
\* the process first, unless the process was killed or the failure came after run() had
\* looked for it.  One on which only the process's own synchronisation met it may stay.
BadKeystoreRemoved ==
    KeystoreRemoveOnFail /\ phase = "absent" /\ keystore = "bad" => excused

=============================================================================
