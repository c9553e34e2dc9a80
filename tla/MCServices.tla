------------------------------ MODULE MCServices ------------------------------
(***************************************************************************)
(* Seven parts of the server that do not touch each other's state, checked *)
(* in one run: RateLimit (extended, for its assumption on the constants),  *)
(* WorkerProcess, UserQueue, RandomFeed, BotPolling, NftReads, NodeState.  *)
(*                                                                         *)
(* A behaviour exercises one of them, and leaves the others as they are    *)
(* initially: their state spaces add up, and do not multiply.              *)
(***************************************************************************)
EXTENDS RateLimit, TLC

CONSTANTS
    SyncTimeout, VerifyTimeout, RequestTimeout, KeystoreRemoveOnFail,
    Instance, TgUser, QueueSize, BulkSize, MaxRegister,
    Limit, MaxId, MaxRows, Fraction,
    Replica, Ttl, CallTime, StopTime, Pause,
    Reader, Expire, Latency, Wait,
    CacheTime, CheckTime, AnswerTime

VARIABLES
    service,       \* the part that the behaviour exercises
    phase, asking, wait, deadline, poll, exit_event, failures, keystore, age, exit_age, excused,
    queue, unfinished, loop, bulk, taken, adding, users, stage, registered, lost_users, raced,
    at, rows, last_id, start, n, p0, p1, x0, x1, result, found,
    bot_place, refresh, reply, clock, polls, lease, bot_stage, cut,
    read_place, read_clock, read_age, syncs, run_cache, data_cache,
    known, since, check, timer, counted, spent, peers, few_for, failing, accepted

Worker == INSTANCE WorkerProcess
Users == INSTANCE UserQueue WITH lost <- lost_users
Feed == INSTANCE RandomFeed
Bot == INSTANCE BotPolling WITH place <- bot_place, stage <- bot_stage
Reads == INSTANCE NftReads WITH place <- read_place, clock <- read_clock, age <- read_age
Node == INSTANCE NodeState

workerVars ==
    <<phase, asking, wait, deadline, poll, exit_event, failures, keystore, age, exit_age, excused>>
usersVars ==
    <<queue, unfinished, loop, bulk, taken, adding, users, stage, registered, lost_users, raced>>
feedVars == <<at, rows, last_id, start, n, p0, p1, x0, x1, result, found>>
botVars == <<bot_place, refresh, reply, clock, polls, lease, bot_stage, cut>>
readsVars == <<read_place, read_clock, read_age, syncs, run_cache, data_cache>>
nodeVars == <<known, since, check, timer, counted, spent, peers, few_for, failing, accepted>>

\* The lives of a result and of the node's state are longer than a call.
ASSUME AgesAssumption ==
    /\ Expire \in Nat \ {0} /\ Latency \in Nat /\ Wait \in Nat
    /\ CacheTime \in Nat /\ CheckTime \in Nat /\ AnswerTime \in 0..CacheTime

\* A phase of a worker's process has time for a turn of its loop.
ASSUME TimeoutsAssumption ==
    /\ SyncTimeout \in Nat \ {0} /\ VerifyTimeout \in Nat \ {0} /\ RequestTimeout \in Nat
    /\ KeystoreRemoveOnFail \in BOOLEAN

\* A bulk has room for a user.
ASSUME BulkAssumption == BulkSize \in Nat \ {0}

\* What the refresh loop leaves of a lease, when etcd took its time to grant it and
\* to tell of it, is enough for a call that fails and for the polling to stop.
ASSUME LeaseAssumption ==
    /\ Ttl \in Nat /\ CallTime \in Nat /\ StopTime \in Nat /\ Pause \in Nat
    /\ 2 * CallTime <= Ttl
    /\ 2 * CallTime + StopTime < (Ttl - 2 * CallTime) - (3 * (Ttl - 2 * CallTime)) \div 4

Service == {"rate", "worker", "users", "feed", "bot", "reads", "node"}

\* Two users of a wallet, one of them with a second wallet.
ThreeUsers == {[owner |-> 1, user |-> 1], [owner |-> 1, user |-> 2], [owner |-> 2, user |-> 1]}

\* The feed's tables are tried in the behaviours about the feed only.
ServicesInit ==
    /\ service \in Service
    /\ Init
    /\ Worker!Init
    /\ Users!Init
    /\ Feed!Init
    /\ service = "feed" \/ last_id = 0
    /\ Bot!Init
    /\ Reads!Init
    /\ Node!Init
    /\ service = "node" \/ peers = "enough"

RateStep == service = "rate" /\ Next
WorkerStep == service = "worker" /\ Worker!Next
UsersStep == service = "users" /\ Users!Next
FeedStep == service = "feed" /\ Feed!Next
BotStep == service = "bot" /\ Bot!Next
ReadsStep == service = "reads" /\ Reads!Next
NodeStep == service = "node" /\ Node!Next

ServicesNext ==
    /\ UNCHANGED service
    /\ \/ RateStep
          /\ UNCHANGED <<workerVars, usersVars, feedVars, botVars, readsVars, nodeVars>>
       \/ WorkerStep
          /\ UNCHANGED <<vars, usersVars, feedVars, botVars, readsVars, nodeVars>>
       \/ UsersStep
          /\ UNCHANGED <<vars, workerVars, feedVars, botVars, readsVars, nodeVars>>
       \/ FeedStep
          /\ UNCHANGED <<vars, workerVars, usersVars, botVars, readsVars, nodeVars>>
       \/ BotStep
          /\ UNCHANGED <<vars, workerVars, usersVars, feedVars, readsVars, nodeVars>>
       \/ ReadsStep
          /\ UNCHANGED <<vars, workerVars, usersVars, feedVars, botVars, nodeVars>>
       \/ NodeStep
          /\ UNCHANGED <<vars, workerVars, usersVars, feedVars, botVars, readsVars>>

\* The fairness of each part, in the behaviours about it.
UsersFairness ==
    \A i \in Instance :
        /\ WF_usersVars(service = "users" /\ Users!InitializeDb(i))
        /\ WF_usersVars(service = "users" /\ Users!Turn(i))

FeedFairness == WF_feedVars(service = "feed" /\ Feed!Climb)

BotFairness ==
    /\ \A i \in Replica :
          /\ WF_botVars(service = "bot" /\ Bot!Runs(i))
          /\ WF_botVars(service = "bot" /\ Bot!Refused(i))
          /\ WF_botVars(service = "bot" /\ bot_place[i] = "polling" /\ Bot!RefreshFails(i))
          /\ WF_botVars(service = "bot" /\ bot_place[i] /= "polling" /\ Bot!PollingEnds(i))
          /\ SF_botVars(service = "bot" /\ Bot!Acquire(i))
          /\ SF_botVars(service = "bot" /\ Bot!BeginPolling(i))
    /\ WF_botVars(service = "bot" /\ Bot!Tick)

allVars == <<service, vars, workerVars, usersVars, feedVars, botVars, readsVars, nodeVars>>

ServicesSpec ==
    /\ ServicesInit /\ [][ServicesNext]_allVars
    /\ UsersFairness /\ FeedFairness /\ BotFairness

-----------------------------------------------------------------------------
\* The parts' properties, by their names.

\* worker.py: a worker gives up in time, and ends in time when it is told to.
StopsInTime == Worker!StopsInTime

\* worker.py: no keystore that process_task found bad is left to the next process.
BadKeystoreRemoved == Worker!BadKeystoreRemoved

\* indexdb.py: an accepted user is stored, on its way, or lost in one of the named ways.
UsersKept == Users!UsersKept

\* indexdb.py: only a race of two instances gives an owner a second row.
SecondRowOnlyByRace == Users!SecondRowOnlyByRace

\* indexdb.py: an accepted user is not on its way for ever, shutdown or not.
UsersServed == service = "users" => Users!UsersServed

\* indexdb.py: the random feed is answered exactly from the segments named there.
FeedAnswered == service = "feed" => Feed!FeedAnswered

\* indexdb.py: two replicas never poll Telegram at once.
OnePoller == Bot!OnePoller

\* indexdb.py: Telegram is polled again and again while a server is up.
PollingResumes == service = "bot" => Bot!PollingResumes

\* webserver.py, manager.py: a synchronisation stores data of a bounded age.
StoredIsRecent == Reads!StoredIsRecent

\* ipfs/manager.py: an upload is accepted by a count of peers of a bounded age.
AcceptedOnRecentCount == Node!AcceptedOnRecentCount
=============================================================================
