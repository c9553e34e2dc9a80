------------------------------ MODULE Indexer ------------------------------
(***************************************************************************)
(* The indexer of a collection (src/NFTorrent/indexer/indexdb.py:          *)
(* EtcdPoolLock, nft_indexer, _nft_indexer_cycle, sync_collection_upsert,  *)
(* sync_collection_nft_bulk_insert).                                       *)
(*                                                                         *)
(* Several instances of the server index one collection.  A cycle runs     *)
(* under a lock in etcd, whose lease a task of its own refreshes; it reads *)
(* the collection's index from the database and the chain's from a         *)
(* liteserver, requests the NFTs between them one by one, and stores those *)
(* it got together with the new index in one transaction.  An NFT whose    *)
(* request fails is passed over.                                           *)
(*                                                                         *)
(* The transaction runs in a thread.  When the refresh fails, the cycle is *)
(* cancelled and the lock released, but the thread goes on: what is left   *)
(* of a cycle may commit while another instance works under the lock.      *)
(***************************************************************************)
EXTENDS Integers, FiniteSets

CONSTANTS
    Instance,
    BulkSize,     \* settings.bulk_size
    MaxIndex,     \* bound: NFTs of the collection
    MaxLoss,      \* bound: locks lost
    MaxFail,      \* bound: failures of cycles and instances
    None

ASSUME BoundAssumption == MaxIndex \in Nat /\ MaxLoss \in Nat /\ MaxFail \in Nat
ASSUME BulkAssumption == BulkSize \in Nat \ {0}
ASSUME NoneAssumption == None \notin Instance

VARIABLES
    next_item_index,  \* on the chain
    index,            \* the table pets_collection
    rows,             \* the table pet_memory_nft: the NFTs' indices
    holder,           \* etcd: the instance whose lease keeps the lock's key
    pc,               \* pc[i]: i's nft_indexer
    cycle,            \* cycle[i]: data.instance.index, next_index and bulk
    late,             \* late[i]: bulks that threads of i still insert
    skipped,          \* history: NFTs passed over
    losses, failures  \* bound counters

db == <<index, rows>>
vars == <<next_item_index, db, holder, pc, cycle, late, skipped, losses, failures>>

Nfts == 0 .. MaxIndex - 1
Working == {"refreshing", "asking", "fetching", "inserting"}

Cycle == [index : 0 .. MaxIndex, goal : 0 .. MaxIndex, bulk : SUBSET Nfts]
Insert == [index : 0 .. MaxIndex, bulk : SUBSET Nfts]

TypeOK ==
    /\ next_item_index \in 0 .. MaxIndex
    /\ index \in 0 .. MaxIndex
    /\ rows \subseteq Nfts
    /\ holder \in Instance \cup {None}
    /\ pc \in [Instance -> {"idle", "closing"} \cup Working]
    /\ cycle \in [Instance -> Cycle]
    /\ late \in [Instance -> SUBSET Insert]
    /\ skipped \subseteq Nfts
    /\ losses \in 0 .. MaxLoss
    /\ failures \in 0 .. MaxFail

NoCycle == [index |-> 0, goal |-> 0, bulk |-> {}]

Init ==
    /\ next_item_index \in 0 .. MaxIndex
    /\ index = 0
    /\ rows = {}
    /\ holder = None
    /\ pc = [i \in Instance |-> "idle"]
    /\ cycle = [i \in Instance |-> NoCycle]
    /\ late = [i \in Instance |-> {}]
    /\ skipped = {}
    /\ losses = 0
    /\ failures = 0

-----------------------------------------------------------------------------
\* A cycle.

\* The cycle's task is done; what it has collected is dropped.
Close(i) ==
    /\ pc' = [pc EXCEPT ![i] = "closing"]
    /\ cycle' = [cycle EXCEPT ![i] = NoCycle]

\* EtcdPoolLock.__enter__: a free key is taken through one of the peers.
Acquire(i) ==
    /\ pc[i] = "idle" /\ holder = None
    /\ holder' = i
    /\ pc' = [pc EXCEPT ![i] = "refreshing"]
    /\ UNCHANGED <<next_item_index, db, cycle, late, skipped, losses, failures>>

\* sync_collection_upsert
RefreshCollection(i) ==
    /\ pc[i] = "refreshing"
    /\ cycle' = [cycle EXCEPT ![i] = [NoCycle EXCEPT !.index = index]]
    /\ pc' = [pc EXCEPT ![i] = "asking"]
    /\ UNCHANGED <<next_item_index, db, holder, late, skipped, losses, failures>>

\* tonlib.get_collection_data: the answer may come from a cache or from a
\* liteserver that lags behind.
NextIndex(i, goal) ==
    /\ pc[i] = "asking" /\ goal <= next_item_index
    /\ \/ /\ cycle[i].index < goal
          /\ cycle' = [cycle EXCEPT ![i].goal = goal]
          /\ pc' = [pc EXCEPT ![i] = "fetching"]
       \/ cycle[i].index >= goal /\ Close(i)
    /\ UNCHANGED <<next_item_index, db, holder, late, skipped, losses, failures>>

\* The loop's condition.
More(c) == c.index < c.goal /\ Cardinality(c.bulk) < BulkSize

\* get_nft_item_address, get_nft_data and get_cid_info succeed.
Fetch(i) ==
    /\ pc[i] = "fetching" /\ More(cycle[i])
    /\ cycle' = [cycle EXCEPT ![i].bulk = @ \cup {cycle[i].index}, ![i].index = @ + 1]
    /\ UNCHANGED <<next_item_index, db, holder, pc, late, skipped, losses, failures>>

\* get_nft_data raises TonlibRequestError: no worker was in sync, the
\* contract's answer is not an NFT's, or its index is not the expected one.
PassOver(i) ==
    /\ pc[i] = "fetching" /\ More(cycle[i])
    /\ cycle' = [cycle EXCEPT ![i].index = @ + 1]
    /\ skipped' = skipped \cup {cycle[i].index}
    /\ UNCHANGED <<next_item_index, db, holder, pc, late, losses, failures>>

\* Slip: a bulk is stored when it is full.
FullBulk(c) == Cardinality(c.bulk) = BulkSize

\* `if len(bulk)`: the index is stored with a bulk or not at all.
HasBulk(c) == c.bulk # {}

StartInsert(i) ==
    /\ pc[i] = "fetching" /\ ~More(cycle[i])
    /\ \/ HasBulk(cycle[i]) /\ pc' = [pc EXCEPT ![i] = "inserting"] /\ UNCHANGED cycle
       \/ ~HasBulk(cycle[i]) /\ Close(i)
    /\ UNCHANGED <<next_item_index, db, holder, late, skipped, losses, failures>>

\* Slip: rows that are there already are no reason to give up.
StoreIndex(ins) == index' = ins.index /\ rows' = IF ins.bulk \cap rows = {}
                                                 THEN rows \cup ins.bulk ELSE rows

\* sync_collection_nft_bulk_insert: one transaction adds the rows and sets
\* the index; a row that is there already (collection_index_uk) undoes both.
Store(ins) ==
    IF ins.bulk \cap rows = {}
    THEN rows' = rows \cup ins.bulk /\ index' = ins.index
    ELSE UNCHANGED db

InsertOf(i) == [index |-> cycle[i].index, bulk |-> cycle[i].bulk]

Commit(i) ==
    /\ pc[i] = "inserting"
    /\ Store(InsertOf(i))
    /\ Close(i)
    /\ UNCHANGED <<next_item_index, holder, late, skipped, losses, failures>>

\* Any other exception in the cycle; a transaction is rolled back.
CycleFails(i) ==
    /\ pc[i] \in Working
    /\ failures < MaxFail
    /\ failures' = failures + 1
    /\ Close(i)
    /\ UNCHANGED <<next_item_index, db, holder, late, skipped, losses>>

\* Lock.release deletes the key that is the instance's own.
KeyAfterRelease(i) == IF holder = i THEN None ELSE holder

\* EtcdPoolLock.__exit__
Release(i) ==
    /\ pc[i] = "closing"
    /\ holder' = KeyAfterRelease(i)
    /\ pc' = [pc EXCEPT ![i] = "idle"]
    /\ UNCHANGED <<next_item_index, db, cycle, late, skipped, losses, failures>>

-----------------------------------------------------------------------------
\* The lock and the threads.

\* The cycle is cancelled because refresh_loop has raised, with the lease gone
\* or etcd out of reach, or because nft_indexer itself is cancelled at
\* shutdown.  A thread that inserts the bulk goes on.
Interrupt(i) ==
    /\ pc[i] \in Working
    /\ \/ holder # i /\ UNCHANGED losses
       \/ holder = i /\ losses < MaxLoss /\ losses' = losses + 1
    /\ late' = IF pc[i] = "inserting"
               THEN [late EXCEPT ![i] = @ \cup {InsertOf(i)}] ELSE late
    /\ Close(i)
    /\ UNCHANGED <<next_item_index, db, holder, skipped, failures>>

\* A thread whose cycle was cancelled ends: with its commit or a rollback.
LateEnd(i, ins) ==
    /\ ins \in late[i]
    /\ late' = [late EXCEPT ![i] = @ \ {ins}]
    /\ Store(ins) \/ UNCHANGED db
    /\ UNCHANGED <<next_item_index, holder, pc, cycle, skipped, losses, failures>>

\* The lease of a running cycle expires before it is refreshed: the refresh
\* waits three quarters of the lease's time, and the event loop may stall.
Expire(i) ==
    /\ holder = i /\ pc[i] # "idle"
    /\ losses < MaxLoss
    /\ losses' = losses + 1
    /\ holder' = None
    /\ UNCHANGED <<next_item_index, db, pc, cycle, late, skipped, failures>>

\* The lease of an instance that is gone expires.
ExpireUnused(i) ==
    /\ holder = i /\ pc[i] = "idle"
    /\ holder' = None
    /\ UNCHANGED <<next_item_index, db, pc, cycle, late, skipped, losses, failures>>

\* The task is cancelled while a thread acquires the lock for it: nobody
\* releases the lock.
Orphan(i) ==
    /\ pc[i] = "idle" /\ holder = None
    /\ failures < MaxFail
    /\ failures' = failures + 1
    /\ holder' = i
    /\ UNCHANGED <<next_item_index, db, pc, cycle, late, skipped, losses>>

\* The instance dies with its threads; idle stands for its successor, which
\* does not own the lease.
Crash(i) ==
    /\ failures < MaxFail
    /\ failures' = failures + 1
    /\ pc' = [pc EXCEPT ![i] = "idle"]
    /\ cycle' = [cycle EXCEPT ![i] = NoCycle]
    /\ late' = [late EXCEPT ![i] = {}]
    /\ UNCHANGED <<next_item_index, db, holder, skipped, losses>>

\* An NFT is minted.
Mint ==
    /\ next_item_index < MaxIndex
    /\ next_item_index' = next_item_index + 1
    /\ UNCHANGED <<db, holder, pc, cycle, late, skipped, losses, failures>>

CycleStep(i) ==
    \/ Acquire(i)
    \/ RefreshCollection(i)
    \/ \E goal \in 0 .. MaxIndex : NextIndex(i, goal)
    \/ Fetch(i)
    \/ PassOver(i)
    \/ StartInsert(i)
    \/ Commit(i)
    \/ Release(i)

Trouble(i) ==
    \/ CycleFails(i)
    \/ Interrupt(i)
    \/ \E ins \in late[i] : LateEnd(i, ins)
    \/ Expire(i)
    \/ ExpireUnused(i)
    \/ Orphan(i)
    \/ Crash(i)

Next == Mint \/ \E i \in Instance : CycleStep(i) \/ Trouble(i)

Spec == Init /\ [][Next]_vars

\* The event loop runs the cycle's steps, the collection's data is fresh again
\* and again, a refresh that cannot succeed fails, leases nobody refreshes
\* expire, and threads end.
Fairness ==
    \A i \in Instance :
        /\ WF_vars(CycleStep(i))
        /\ SF_vars(NextIndex(i, next_item_index))
        /\ WF_vars(ExpireUnused(i))
        /\ WF_vars(\E ins \in late[i] : LateEnd(i, ins))

FairSpec == Spec /\ Fairness

-----------------------------------------------------------------------------
\* Every NFT below the collection's index is stored, or its request failed:
\* no interleaving of cycles, late threads, lost leases and crashes makes the
\* indexer forget one.
NothingForgotten == \A n \in 0 .. index - 1 : n \in rows \cup skipped

\* The index is not behind a row that is there (such a row would fail every
\* bulk that contains it), if no lock was lost, whatever requests failed, and
\* if no request failed, whatever locks were lost: in the first case the lock
\* protects the index and in the second the unique constraint does.
IndexNotBehind == losses = 0 \/ skipped = {} => rows \subseteq 0 .. index - 1

\* An NFT of the collection is stored or passed over in the end, unless the
\* index has fallen behind.
CatchesUp ==
    \A n \in Nfts :
        n < next_item_index ~> \/ n \in rows \cup skipped
                               \/ ~(rows \subseteq 0 .. index - 1)
=============================================================================
