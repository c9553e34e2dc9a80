----------------------------- MODULE Consensus -----------------------------
(***************************************************************************)
(* How TonlibManager decides which liteserver workers are in step with the *)
(* chain (src/NFTorrent/tonlib/manager.py, check_working): the workers     *)
(* report the last block they know, the manager derives a consensus block  *)
(* from the reports, and a worker takes requests while it is alive and its *)
(* last report is not behind the consensus block.                          *)
(*                                                                         *)
(* check_working has no await between its reads and its writes, so a round *)
(* is one step.  The workers' processes die at any time; the manager       *)
(* notices that and respawns them (module Supervisor says when).           *)
(*                                                                         *)
(* A liteserver reports blocks of one chain: it may lag behind by any      *)
(* number of blocks, and go back.  The chain never rests, so a block is    *)
(* named by its place at the chain's end: MaxSeqno is always the newest    *)
(* block, the others follow downwards, and 0 stands for all that are older *)
(* than block 1.  A new block moves every known one down by a place.       *)
(***************************************************************************)
EXTENDS Integers, FiniteSets, FiniteSetsExt

CONSTANTS
    Worker,      \* the liteserver workers, finitely many
    MaxSeqno     \* bound: the blocks told apart at the chain's end

VARIABLES
    process,          \* the operating system's process of each worker
    is_alive,         \* WorkerControl.is_alive
    is_sync,          \* WorkerControl.is_sync
    last_block,       \* WorkerControl.last_block, -1 when there was no report
    consensus_block,  \* TonlibManager.consensus_block
    reported          \* history: w's present process has reported a block

vars == <<process, is_alive, is_sync, last_block, consensus_block, reported>>

Seqno == 0 .. MaxSeqno

\* A process has exited when it is "dead", and its queue is still read; it
\* has never run when it is "unborn", because Process.start raised.
State == {"running", "dead", "unborn"}

TypeOK ==
    /\ process \in [Worker -> State]
    /\ is_alive \in [Worker -> BOOLEAN]
    /\ is_sync \in [Worker -> BOOLEAN]
    /\ last_block \in [Worker -> Seqno \cup {-1}]
    /\ consensus_block \in Seqno \cup {-1}
    /\ reported \in [Worker -> BOOLEAN]

Init ==
    /\ process = [w \in Worker |-> "running"]
    /\ is_alive = [w \in Worker |-> TRUE]
    /\ is_sync = [w \in Worker |-> FALSE]
    /\ last_block = [w \in Worker |-> -1]
    /\ consensus_block = -1
    /\ reported = [w \in Worker |-> FALSE]

-----------------------------------------------------------------------------
\* The blocks the round starts from: those of dead workers count as well.
LastBlocks == {last_block[w] : w \in Worker} \ {-1}

BestBlock == Max(LastBlocks)

\* The workers whose report lies in the last n + 1 blocks: the sum of
\* strats[0 .. n].
Within(n) == {w \in Worker : last_block[w] \in LastBlocks /\ last_block[w] >= BestBlock - n}

Suitable == Within(3)

\* Slip: any worker's report is enough.
AnyReport(n) == Cardinality(Within(n)) >= 1

\* sm >= total_suitable * 0.6
Enough(n) == 10 * Cardinality(Within(n)) >= 6 * Cardinality(Suitable)

\* consensus_block_seqno: the first of the four newest blocks that enough of
\* the suitable workers know.
ConsensusSeqno ==
    BestBlock - CHOOSE n \in 0 .. 3 : Enough(n) /\ \A m \in 0 .. n - 1 : ~Enough(m)

\* `if consensus_block_seqno > self.consensus_block`
NextConsensus == IF ConsensusSeqno > consensus_block THEN ConsensusSeqno ELSE consensus_block

\* Slip: a worker at the consensus block is not in sync.
Beyond(block, consensus) == block > consensus

InStep(block, consensus) == block >= consensus

\* A round of check_working.
CheckWorking ==
    /\ LastBlocks # {}
    /\ consensus_block' = NextConsensus
    /\ is_sync' = [w \in Worker |-> InStep(last_block[w], consensus_block')]
    /\ UNCHANGED <<process, is_alive, last_block, reported>>

\* read_results, LAST_BLOCK_UPDATE: whatever block the worker's report_sync
\* has put on the queue, also when its process has died since.
Report(w, b) ==
    /\ process[w] # "unborn"
    /\ last_block' = [last_block EXCEPT ![w] = b]
    /\ reported' = [reported EXCEPT ![w] = TRUE]
    /\ UNCHANGED <<process, is_alive, is_sync, consensus_block>>

\* check_children_alive looks at the process.
LookAt(w) ==
    /\ is_alive' = [is_alive EXCEPT ![w] = process[w] = "running"]
    /\ UNCHANGED <<process, is_sync, last_block, consensus_block, reported>>

\* Slip: spawn_worker leaves the predecessor's block.
KeepBlock(w) == last_block

\* spawn_worker: wctl.last_block = -1
ForgetBlock(w) == [last_block EXCEPT ![w] = -1]

\* spawn_worker for a worker the manager knows to be dead.
Respawn(w) ==
    /\ process[w] # "running" /\ ~is_alive[w]
    /\ process' = [process EXCEPT ![w] = "running"]
    /\ is_alive' = [is_alive EXCEPT ![w] = TRUE]
    /\ is_sync' = [is_sync EXCEPT ![w] = FALSE]
    /\ last_block' = ForgetBlock(w)
    /\ reported' = [reported EXCEPT ![w] = FALSE]
    /\ UNCHANGED consensus_block

\* spawn_worker whose Process.start raises: terminate_worker has ended the
\* predecessor's reader, the assignments that follow start() are skipped.
RespawnFails(w) ==
    /\ process[w] # "running" /\ ~is_alive[w]
    /\ process' = [process EXCEPT ![w] = "unborn"]
    /\ is_sync' = [is_sync EXCEPT ![w] = FALSE]
    /\ reported' = [reported EXCEPT ![w] = FALSE]
    /\ UNCHANGED <<is_alive, last_block, consensus_block>>

\* The process exits.
Die(w) ==
    /\ process[w] = "running"
    /\ process' = [process EXCEPT ![w] = "dead"]
    /\ UNCHANGED <<is_alive, is_sync, last_block, consensus_block, reported>>

\* A block's place after the chain has grown.
Older(b) == IF b > 0 THEN b - 1 ELSE b

\* The chain grows.  It is at most MaxSeqno - 3 blocks ahead of the
\* consensus block, so that whoever is moved out at 0 is neither in sync nor
\* suitable in a round that raises the consensus block.
Grow ==
    /\ consensus_block > 3
    /\ consensus_block' = Older(consensus_block)
    /\ last_block' = [w \in Worker |-> Older(last_block[w])]
    /\ UNCHANGED <<process, is_alive, is_sync, reported>>

Next ==
    \/ CheckWorking
    \/ Grow
    \/ \E w \in Worker :
        \/ \E b \in Seqno : Report(w, b)
        \/ LookAt(w)
        \/ Respawn(w)
        \/ RespawnFails(w)
        \/ Die(w)

Spec == Init /\ [][Next]_vars

\* A worker the consensus has passed, or that has not reported yet, reports
\* a block that is not behind.
CatchUp(w) ==
    /\ process[w] = "running"
    /\ last_block[w] = -1 \/ last_block[w] < consensus_block
    /\ \E b \in Seqno : b >= consensus_block /\ Report(w, b)

\* The loops run every second, a live worker reports every second, and its
\* liteserver does not stay behind the others for ever.
Fairness ==
    /\ WF_vars(CheckWorking)
    /\ \A w \in Worker : WF_vars(LookAt(w)) /\ WF_vars(CatchUp(w))

FairSpec == Spec /\ Fairness

-----------------------------------------------------------------------------
\* select_worker's condition.
Selectable(w) == is_alive[w] /\ is_sync[w]

\* A worker gets into service, or stays in it when the consensus block
\* rises, only by a block that its present process has itself reported and
\* that is not behind the consensus block: neither a respawn, nor one that
\* fails halfway, nor a late report or a round between them lets a worker
\* live on its predecessor's block.
SelectableIsCurrent ==
    [][\A w \in Worker :
        Selectable(w)' /\ (~Selectable(w) \/ consensus_block' > consensus_block)
            => reported'[w] /\ last_block'[w] >= consensus_block']_vars

\* While no worker has fallen behind the newest four blocks, the consensus
\* block moves only to a block that 60% of the reporting workers know.
QuorumKnows ==
    [][consensus_block' > consensus_block /\ (\A b \in LastBlocks : b >= BestBlock - 3)
        => 10 * Cardinality({w \in Worker : last_block[w] >= consensus_block'})
             >= 6 * Cardinality({w \in Worker : last_block[w] # -1})]_vars

\* The comment at the consensus rule: "at least 60% of ls know it".
SixtyPercentKnow ==
    [][consensus_block' > consensus_block
        => 10 * Cardinality({w \in Worker : last_block[w] >= consensus_block'})
             >= 6 * Cardinality({w \in Worker : last_block[w] # -1})]_vars

\* No process starts or exits, and reports come from running ones and do
\* not go back; the chain grows and workers lag as before.  (Only Grow moves
\* the consensus block to a lower place.)
Calm ==
    /\ process' = process
    /\ consensus_block' >= consensus_block =>
        \A w \in Worker : last_block'[w] # last_block[w] =>
            process[w] = "running" /\ last_block'[w] > last_block[w]

\* When deaths, respawns and backward reports cease, a request always finds
\* a worker from some time on, if a process is left at all: though a worker
\* drops out whenever the quorum passes it, and the dead keep voting with the
\* block they died with, the rounds never leave the living without one in
\* service.
LivingServe ==
    <>[][Calm]_vars => <>[]((\E w \in Worker : process[w] = "running")
                                => \E w \in Worker : Selectable(w))
=============================================================================
