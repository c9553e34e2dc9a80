----------------------------- MODULE BotPolling -----------------------------
(***************************************************************************)
(* Which replica of the server polls Telegram (IndexDb.bot_polling and     *)
(* EtcdPoolLock, src/NFTorrent/indexer/indexdb.py).  A replica polls under *)
(* a lock of etcd whose lease it renews after three quarters of its time;  *)
(* a second replica that polled would be refused by Telegram, and make the *)
(* first one fail.                                                         *)
(*                                                                         *)
(* etcd is external: a key under a lease, which it removes when the lease  *)
(* runs out; any call may fail, and none takes longer than CallTime.  So   *)
(* is aiogram: start_polling ends when stop_polling is called, and no      *)
(* later than StopTime after its task was cancelled.                       *)
(***************************************************************************)
EXTENDS Naturals

CONSTANTS
    Replica,
    Ttl,           \* etcd_lock_ttl_sec, in ticks
    CallTime,      \* etcd_timeout_sec
    StopTime,
    Pause          \* restart_timeout

VARIABLES
    place,         \* place[i]: where the replica's bot_polling stands
    refresh,       \* refresh[i]: where its refresh_loop stands, while it polls
    reply,         \* reply[i]: the TTL that etcd has answered
    clock,         \* clock[i]: time left of the sleep or of the call
    polls,         \* polls[i]: start_polling is running
    lease,         \* lease[i]: time left of the key that the replica holds in etcd, 0 if none
    stage,         \* stage[i]: where IndexDb.shutdown stands
    cut            \* history: cut[i]: bot_polling was cancelled while it waited for its children

pollVars == <<place, refresh, reply, clock, polls, lease, stage, cut>>

Places == {"resting", "entering", "entered", "polling", "stopping", "releasing", "orphan", "ended"}
Timed == {"resting", "entered", "polling", "stopping"}

TypeOK ==
    /\ place \in [Replica -> Places]
    /\ refresh \in [Replica -> {"info", "renew", "answered", "nap"}]
    /\ reply \in [Replica -> 0..Ttl]
    /\ clock \in [Replica -> Nat]
    /\ polls \in [Replica -> BOOLEAN]
    /\ lease \in [Replica -> 0..Ttl]
    /\ stage \in [Replica -> {"up", "halting", "joining", "cancelled", "dead"}]
    /\ cut \in [Replica -> BOOLEAN]

Init ==
    /\ place = [i \in Replica |-> "resting"]
    /\ refresh = [i \in Replica |-> "nap"]
    /\ reply = [i \in Replica |-> 0]
    /\ clock = [i \in Replica |-> 0]
    /\ polls = [i \in Replica |-> FALSE]
    /\ lease = [i \in Replica |-> 0]
    /\ stage = [i \in Replica |-> "up"]
    /\ cut = [i \in Replica |-> FALSE]

-----------------------------------------------------------------------------
\* Helpers.

Goes(i, p, time) ==
    /\ place' = [place EXCEPT ![i] = p]
    /\ clock' = [clock EXCEPT ![i] = time]

\* bot_polling waits for restart_timeout, or returns if it was cancelled.
Rests(i) == IF stage[i] = "cancelled" THEN Goes(i, "ended", 0) ELSE Goes(i, "resting", Pause)

\* Lock.acquire: a lease, then the key under it if no other key is there.
Granted(i) ==
    /\ \A j \in Replica : lease[j] = 0
    /\ \E age \in 0..CallTime : lease' = [lease EXCEPT ![i] = Ttl - age]

\* Slip: the refresh loop sleeps as long as the lease lasts.
NapForTtl(ttl) == ttl

\* The refresh loop sleeps three quarters of the time that etcd has told.
Nap(ttl) == (3 * ttl) \div 4

-----------------------------------------------------------------------------
\* EtcdPoolLock.

Enter(i) ==
    /\ place[i] = "resting"
    /\ clock[i] = 0
    /\ Goes(i, "entering", 0)
    /\ UNCHANGED <<refresh, reply, polls, lease, stage, cut>>

Acquire(i) ==
    /\ place[i] = "entering"
    /\ Granted(i)
    /\ Goes(i, "entered", CallTime)
    /\ UNCHANGED <<refresh, reply, polls, stage, cut>>

\* Slip: bot_polling ends when the lock is refused.
EndsWhenRefused(i) ==
    /\ place[i] = "entering"
    /\ Goes(i, "ended", 0)
    /\ UNCHANGED <<refresh, reply, polls, lease, stage, cut>>

\* EtcdLockError: another replica has the lock, or no peer has answered.
Refused(i) ==
    /\ place[i] = "entering"
    /\ Goes(i, "resting", Pause)
    /\ UNCHANGED <<refresh, reply, polls, lease, stage, cut>>

\* The replica was told that its key is in etcd: both children are created.
BeginPolling(i) ==
    /\ place[i] = "entered"
    /\ Goes(i, "polling", CallTime)
    /\ refresh' = [refresh EXCEPT ![i] = "info"]
    /\ polls' = [polls EXCEPT ![i] = TRUE]
    /\ UNCHANGED <<reply, lease, stage, cut>>

\* etcd has the key, but its answer is lost.
AnswerLost(i) ==
    /\ place[i] = "entered"
    /\ Goes(i, "resting", Pause)
    /\ UNCHANGED <<refresh, reply, polls, lease, stage, cut>>

\* __exit__, in its thread: the key is deleted, or left to its lease.
Release(i) ==
    /\ place[i] = "releasing"
    /\ \E left \in {0, lease[i]} : lease' = [lease EXCEPT ![i] = left]
    /\ Rests(i)
    /\ UNCHANGED <<refresh, reply, polls, stage, cut>>

-----------------------------------------------------------------------------
\* The children: refresh_loop and start_polling.

\* etcd answers lease_info, or renews the lease.
Process(i) ==
    /\ place[i] = "polling"
    /\ \/ /\ refresh[i] = "info"
          /\ UNCHANGED lease
       \/ /\ refresh[i] = "renew"
          /\ lease[i] > 0
          /\ lease' = [lease EXCEPT ![i] = Ttl]
    /\ refresh' = [refresh EXCEPT ![i] = "answered"]
    /\ reply' = [reply EXCEPT ![i] = lease'[i]]
    /\ UNCHANGED <<place, clock, polls, stage, cut>>

Refreshed(i) ==
    /\ place[i] = "polling"
    /\ refresh[i] = "answered"
    /\ refresh' = [refresh EXCEPT ![i] = "nap"]
    /\ clock' = [clock EXCEPT ![i] = Nap(reply[i])]
    /\ reply' = [reply EXCEPT ![i] = 0]
    /\ UNCHANGED <<place, polls, lease, stage, cut>>

RefreshDue(i) ==
    /\ place[i] = "polling"
    /\ refresh[i] = "nap"
    /\ clock[i] = 0
    /\ refresh' = [refresh EXCEPT ![i] = "renew"]
    /\ clock' = [clock EXCEPT ![i] = CallTime]
    /\ UNCHANGED <<place, reply, polls, lease, stage, cut>>

\* bot_polling cancels its children, and waits for them.
StopsChildren(i) ==
    /\ Goes(i, "stopping", StopTime)
    /\ refresh' = [refresh EXCEPT ![i] = "nap"]
    /\ reply' = [reply EXCEPT ![i] = 0]

\* The refresh loop ends, with the error of its call or with the lease.
RefreshFails(i) ==
    /\ place[i] = "polling"
    /\ refresh[i] /= "nap"
    /\ StopsChildren(i)
    /\ UNCHANGED <<polls, lease, stage, cut>>

\* start_polling ends: by itself, told by stop_polling, or cancelled.
PollingEnds(i) ==
    /\ polls[i]
    /\ polls' = [polls EXCEPT ![i] = FALSE]
    /\ IF place[i] = "polling"
         THEN StopsChildren(i)
         ELSE UNCHANGED <<place, refresh, reply, clock>>
    /\ UNCHANGED <<lease, stage, cut>>

ChildrenEnded(i) ==
    /\ place[i] = "stopping"
    /\ ~polls[i]
    /\ Goes(i, "releasing", 0)
    /\ UNCHANGED <<refresh, reply, polls, lease, stage, cut>>

-----------------------------------------------------------------------------
\* IndexDb.shutdown: stop_polling, tg_user_queue.join(), and the tasks are cancelled.

\* stop_polling waits for the end of start_polling, and raises if none runs.
Shutdown(i) ==
    /\ stage[i] = "up"
    /\ stage' = [stage EXCEPT ![i] = IF polls[i] THEN "halting" ELSE "joining"]
    /\ UNCHANGED <<place, refresh, reply, clock, polls, lease, cut>>

Halted(i) ==
    /\ stage[i] = "halting"
    /\ ~polls[i]
    /\ stage' = [stage EXCEPT ![i] = "joining"]
    /\ UNCHANGED <<place, refresh, reply, clock, polls, lease, cut>>

\* What bot_polling makes of the cancellation.  A thread in acquire goes on.
Cancel(i) ==
    /\ stage[i] = "joining"
    /\ stage' = [stage EXCEPT ![i] = "cancelled"]
    /\ \/ /\ place[i] \in {"resting", "entered"}
          /\ Goes(i, "ended", 0)
          /\ UNCHANGED <<refresh, reply, cut>>
       \/ /\ place[i] = "entering"
          /\ Goes(i, "orphan", 0)
          /\ UNCHANGED <<refresh, reply, cut>>
       \/ /\ place[i] = "polling"
          /\ StopsChildren(i)
          /\ UNCHANGED cut
       \/ /\ place[i] = "stopping"
          /\ Goes(i, "releasing", 0)
          /\ cut' = [cut EXCEPT ![i] = polls[i]]
          /\ UNCHANGED <<refresh, reply>>
       \/ /\ place[i] = "releasing"
          /\ UNCHANGED <<place, clock, refresh, reply, cut>>
    /\ UNCHANGED <<polls, lease>>

\* Nobody is told what the thread has acquired, or that it was refused.
OrphanEnds(i) ==
    /\ place[i] = "orphan"
    /\ Goes(i, "ended", 0)
    /\ \/ Granted(i)
       \/ UNCHANGED lease
    /\ UNCHANGED <<refresh, reply, polls, stage, cut>>

\* The server dies, and etcd keeps its key until the lease ends.
Kill(i) ==
    /\ stage[i] /= "dead"
    /\ stage' = [stage EXCEPT ![i] = "dead"]
    /\ Goes(i, "ended", 0)
    /\ refresh' = [refresh EXCEPT ![i] = "nap"]
    /\ reply' = [reply EXCEPT ![i] = 0]
    /\ polls' = [polls EXCEPT ![i] = FALSE]
    /\ UNCHANGED <<lease, cut>>

\* Time does not pass while a replica is late.
Tick ==
    /\ \A i \in Replica : place[i] \in Timed => clock[i] > 0
    /\ clock' = [i \in Replica |-> IF clock[i] > 0 THEN clock[i] - 1 ELSE 0]
    /\ lease' = [i \in Replica |-> IF lease[i] > 0 THEN lease[i] - 1 ELSE 0]
    /\ UNCHANGED <<place, refresh, reply, polls, stage, cut>>

-----------------------------------------------------------------------------

\* What a running replica does by itself, failures apart.
Runs(i) ==
    \/ Enter(i) \/ BeginPolling(i) \/ Release(i) \/ ChildrenEnded(i)
    \/ Process(i) \/ Refreshed(i) \/ RefreshDue(i)
    \/ Halted(i) \/ OrphanEnds(i)

Fails(i) == Refused(i) \/ AnswerLost(i) \/ RefreshFails(i) \/ PollingEnds(i)

Next ==
    \/ \E i \in Replica : Runs(i) \/ Acquire(i) \/ Fails(i) \/ Shutdown(i) \/ Cancel(i) \/ Kill(i)
    \/ Tick

(***************************************************************************)
(* A coroutine that can go on does, a call that etcd does not answer       *)
(* fails, and time passes.  etcd serves a replica that keeps trying, and   *)
(* does not lose every answer.                                             *)
(***************************************************************************)
Fairness ==
    /\ \A i \in Replica :
          /\ WF_pollVars(Runs(i))
          /\ WF_pollVars(Refused(i))
          /\ WF_pollVars(place[i] = "polling" /\ RefreshFails(i))
          /\ WF_pollVars(place[i] /= "polling" /\ PollingEnds(i))
          /\ SF_pollVars(Acquire(i))
          /\ SF_pollVars(BeginPolling(i))
    /\ WF_pollVars(Tick)

Spec == Init /\ [][Next]_pollVars /\ Fairness

-----------------------------------------------------------------------------

(***************************************************************************)
(* Two replicas never poll at once, whatever etcd refuses and whoever      *)
(* dies: the lease of a replica outlives its polling.  The exception is a  *)
(* replica whose task was cancelled while it waited for its children: it   *)
(* releases the lock before start_polling has ended.                       *)
(***************************************************************************)
OnePoller ==
    \A i, j \in Replica : polls[i] /\ polls[j] /\ i /= j => cut[i] \/ cut[j]

(***************************************************************************)
(* While one of the servers is up, Telegram is polled again and again:     *)
(* after a refused lock, a failed renewal, an error of start_polling, the  *)
(* death of the poller, and a key that nobody knows to hold.               *)
(***************************************************************************)
PollingResumes ==
    []<>(\E i \in Replica : stage[i] = "up") => []<>(\E i \in Replica : polls[i])

=============================================================================
