------------------------------ MODULE NodeState ------------------------------
(***************************************************************************)
(* What an instance knows of its IPFS cluster (check_ipfs_alive,           *)
(* get_node_state, src/NFTorrent/ipfs/manager.py): create_content accepts  *)
(* an upload by the cached number of peers, and get_healthcheck reports    *)
(* it.  The state is read again when it is older than CacheTime, and kept  *)
(* when the reading fails.                                                 *)
(***************************************************************************)
EXTENDS Naturals

CONSTANTS
    CacheTime,     \* node_state_cache_timeout, in ticks
    CheckTime,     \* node_state_check_timeout
    AnswerTime     \* request_timeout

VARIABLES
    known,         \* node_state: "none", "enough" or "few" peers
    since,         \* time since node_state_time, up to what the cache can tell
    check,         \* "sleeping", "calling", or "counted" once the cluster has told its peers
    timer,         \* time left of the sleep or of the calls
    counted,       \* the peers that the cluster has told
    spent,         \* time since the calls began
    peers,         \* the peers that there are
    few_for,       \* history: time since the peers were enough
    failing,       \* history: the last reading has failed
    accepted       \* history: an upload was accepted without excuse

nodeVars == <<known, since, check, timer, counted, spent, peers, few_for, failing, accepted>>

Bound == CacheTime + CheckTime + AnswerTime

TypeOK ==
    /\ known \in {"none", "enough", "few"}
    /\ since \in 0..(CacheTime + 1)
    /\ check \in {"sleeping", "calling", "counted"}
    /\ timer \in 0..(CheckTime + AnswerTime)
    /\ counted \in {"none", "enough", "few"}
    /\ spent \in 0..AnswerTime
    /\ peers \in {"enough", "few"}
    /\ few_for \in 0..(Bound + 1)
    /\ failing \in BOOLEAN
    /\ accepted \in BOOLEAN

Init ==
    /\ known = "none"
    /\ since = 0
    /\ check = "sleeping"
    /\ timer = 0
    /\ counted = "none"
    /\ spent = 0
    /\ peers \in {"enough", "few"}
    /\ few_for = 0
    /\ failing = FALSE
    /\ accepted = FALSE

-----------------------------------------------------------------------------
\* Helpers.

Less(time) == IF time = 0 THEN 0 ELSE time - 1

Capped(time, most) == IF time > most THEN most ELSE time

\* Whether get_node_state reads the state again.
Stale == known = "none" \/ since > CacheTime

\* Slip: node_state_time is taken when the answers are there.
AgeOfNone == 0

\* The age of the state that has been read: node_state_time is taken before the calls.
AgeOfRead == spent

Sleeps ==
    /\ check' = "sleeping"
    /\ timer' = CheckTime
    /\ counted' = "none"
    /\ spent' = 0

-----------------------------------------------------------------------------
\* Actions.

\* check_ipfs_alive: the state is fresh enough, or the three calls begin.
Check ==
    /\ check = "sleeping"
    /\ timer = 0
    /\ \/ /\ ~ Stale
          /\ Sleeps
       \/ /\ Stale
          /\ check' = "calling"
          /\ timer' = AnswerTime
          /\ UNCHANGED <<counted, spent>>
    /\ UNCHANGED <<known, since, peers, few_for, failing, accepted>>

\* The cluster counts its peers.
Count ==
    /\ check = "calling"
    /\ check' = "counted"
    /\ counted' = peers
    /\ UNCHANGED <<known, since, timer, spent, peers, few_for, failing, accepted>>

\* All three have answered.
Read ==
    /\ check = "counted"
    /\ known' = counted
    /\ since' = Capped(AgeOfRead, CacheTime + 1)
    /\ failing' = FALSE
    /\ Sleeps
    /\ UNCHANGED <<peers, few_for, accepted>>

\* One of them fails: the state remains, and so does its time.
ReadFails ==
    /\ check # "sleeping"
    /\ failing' = TRUE
    /\ Sleeps
    /\ UNCHANGED <<known, since, peers, few_for, accepted>>

\* create_content, with the cached state; without one it raises.
CreateContent ==
    /\ known = "enough"
    /\ accepted' = (accepted \/ (few_for > Bound /\ ~ failing))
    /\ UNCHANGED <<known, since, check, timer, counted, spent, peers, few_for, failing>>

\* Peers of the cluster come and go.
Change ==
    /\ peers' \in {"enough", "few"} \ {peers}
    /\ few_for' = 0
    /\ UNCHANGED <<known, since, check, timer, counted, spent, failing, accepted>>

\* Time does not pass while the task is late.
Tick ==
    /\ timer > 0
    /\ timer' = timer - 1
    /\ since' = Capped(since + 1, CacheTime + 1)
    /\ spent' = IF check = "sleeping" THEN 0 ELSE spent + 1
    /\ few_for' = IF peers = "few" THEN Capped(few_for + 1, Bound + 1) ELSE 0
    /\ UNCHANGED <<known, check, counted, peers, failing, accepted>>

Next == Check \/ Count \/ Read \/ ReadFails \/ CreateContent \/ Change \/ Tick

Spec == Init /\ [][Next]_nodeVars

-----------------------------------------------------------------------------

(***************************************************************************)
(* An upload is accepted with too few peers in the cluster only for a      *)
(* bounded time after they have become too few: the cache's time, one      *)
(* sleep and one reading.  The exception is a node whose last reading has  *)
(* failed: it goes by its last state until one succeeds, for ever if need  *)
(* be.                                                                     *)
(***************************************************************************)
AcceptedOnRecentCount == ~ accepted

=============================================================================
