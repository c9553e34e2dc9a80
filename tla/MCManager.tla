----------------------------- MODULE MCManager -----------------------------
(***************************************************************************)
(* The two loops of TonlibManager that watch the liteserver workers:       *)
(* Supervisor (extended, for its assumptions on the constants) with two    *)
(* workers, the second of which may fail to start, and Consensus with      *)
(* three, the fewest of which one may lag while the other two are enough   *)
(* (two where liveness is checked).                                        *)
(*                                                                         *)
(* A behaviour is about one of them, and the other stays as it is          *)
(* initially: Consensus has workers of its own, since it assumes less      *)
(* about their deaths and respawns than Supervisor says.                   *)
(***************************************************************************)
EXTENDS Supervisor

CONSTANTS
    Liteserver,    \* Consensus' workers
    MaxSeqno       \* Consensus' blocks at the end of the chain

ASSUME LiteserverAssumption == IsFiniteSet(Liteserver)
ASSUME SeqnoAssumption == MaxSeqno \in Nat

VARIABLES
    subject,       \* the loop that the behaviour is about
    life, is_alive, is_sync, last_block, consensus_block, reported

Blocks == INSTANCE Consensus WITH Worker <- Liteserver, process <- life

blocksVars == <<life, is_alive, is_sync, last_block, consensus_block, reported>>

LastFragile == {1}

allVars == <<subject, vars, blocksVars>>

\* In a behaviour about the consensus no process of the supervision has failed to start.
ManagerInit ==
    /\ subject \in {"supervision", "consensus"}
    /\ Init /\ Blocks!Init
    /\ subject = "consensus" => \A w \in Worker : process[w]

SupervisionStep == subject = "supervision" /\ Next /\ UNCHANGED blocksVars
BlocksStep == subject = "consensus" /\ Blocks!Next /\ UNCHANGED vars

ManagerNext == UNCHANGED subject /\ (SupervisionStep \/ BlocksStep)

\* The fairness of each loop, in the behaviours about it.
SupervisionFairness ==
    /\ WF_vars(subject = "supervision" /\ CheckChildrenAlive)
    /\ WF_vars(subject = "supervision" /\ Tick)

BlocksFairness ==
    /\ WF_blocksVars(subject = "consensus" /\ Blocks!CheckWorking)
    /\ \A w \in Liteserver :
        /\ WF_blocksVars(subject = "consensus" /\ Blocks!LookAt(w))
        /\ WF_blocksVars(subject = "consensus" /\ Blocks!CatchUp(w))

ManagerSpec ==
    /\ ManagerInit /\ [][ManagerNext]_allVars
    /\ SupervisionFairness /\ BlocksFairness

\* The behaviours about the consensus alone.
BlocksInit == ManagerInit /\ subject = "consensus"

BlocksSpec == BlocksInit /\ [][ManagerNext]_allVars /\ BlocksFairness

-----------------------------------------------------------------------------
\* Consensus' properties, by their names.

\* manager.py, select_worker: no worker lives on its predecessor's report.
SelectableIsCurrent == Blocks!SelectableIsCurrent

\* manager.py, check_working: the consensus block moves by quorum.
QuorumKnows == Blocks!QuorumKnows

\* manager.py, check_working: the comment on the quorum, without a condition.
SixtyPercentKnow == Blocks!SixtyPercentKnow

\* manager.py, check_working, select_worker: there is a worker to serve.
LivingServe == subject = "consensus" => Blocks!LivingServe
=============================================================================
