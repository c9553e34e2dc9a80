--------------------------- MODULE IndexerProofs ---------------------------
(***************************************************************************)
(* Proofs about Indexer, for any set of instances and any bounds.          *)
(*                                                                         *)
(* What a transaction may do to the tables depends on what its cycle saw   *)
(* earlier, so the invariant speaks of the inserts that are being          *)
(* collected, run or left over: each knows of every NFT below its index    *)
(* that it is stored, passed over or in its bulk (Fit).  That alone gives  *)
(* NothingForgotten.  For IndexNotBehind there are two arguments.  Without *)
(* an NFT passed over the rows are exactly those below the index, and a    *)
(* bulk disjoint from them can only lie above it.  Without a lost lock     *)
(* only the lock's holder works, so its index is not behind the table's    *)
(* (Guarded).                                                              *)
(***************************************************************************)
EXTENDS Indexer, TLAPS

\* An insert knows all NFTs below its index, and inserts only such.
Fit(ins) ==
    /\ \A n \in 0 .. ins.index - 1 : n \in rows \cup skipped \cup ins.bulk
    /\ ins.bulk \subseteq 0 .. ins.index - 1

CycleInv ==
    \A i \in Instance :
        /\ Fit(InsertOf(i))
        /\ pc[i] = "inserting" => cycle[i].bulk # {}

LateInv == \A i \in Instance : \A ins \in late[i] : Fit(ins) /\ ins.bulk # {}

Guarded ==
    losses = 0 =>
        \A i \in Instance :
            /\ late[i] = {}
            /\ pc[i] # "idle" => holder = i
            /\ pc[i] \in {"asking", "fetching", "inserting"} => index <= cycle[i].index

\* The inductive invariant.
IInv == TypeOK /\ NothingForgotten /\ IndexNotBehind /\ CycleInv /\ LateInv /\ Guarded

-----------------------------------------------------------------------------
\* An insert stays fit when rows and skipped only grow.
LEMMA FitStays ==
    ASSUME rows \subseteq rows', skipped \subseteq skipped', NEW ins, Fit(ins)
    PROVE  Fit(ins)'
  BY DEF Fit

\* The records the steps make are typed.
LEMMA InsertTyped ==
    ASSUME TypeOK, NEW i \in Instance
    PROVE  InsertOf(i) \in Insert
  BY DEF TypeOK, InsertOf, Cycle, Insert

\* A transaction keeps the tables right: one that finds a row that is there
\* leaves them alone, any other one stores NFTs none of which lies below a
\* protected index.
LEMMA StoreStep ==
    ASSUME IInv, NEW ins \in Insert, Fit(ins), ins.bulk # {},
           losses = 0 => index <= ins.index,
           Store(ins), UNCHANGED <<skipped, losses>>
    PROVE  /\ rows \subseteq rows'
           /\ rows' \subseteq Nfts /\ index' \in 0 .. MaxIndex
           /\ NothingForgotten'
           /\ IndexNotBehind'
           /\ losses = 0 => index' \in {index, ins.index}
  <1> USE DEF IInv
  <1>1. CASE ins.bulk \cap rows # {}
    BY <1>1 DEF Store, db, TypeOK, NothingForgotten, IndexNotBehind
  <1>2. CASE ins.bulk \cap rows = {}
    <2>1. rows' = rows \cup ins.bulk /\ index' = ins.index
      BY <1>2 DEF Store
    <2>2. ins.index \in 0 .. MaxIndex /\ ins.bulk \subseteq Nfts
      BY DEF Insert
    <2>3. index \in 0 .. MaxIndex /\ rows \subseteq Nfts /\ MaxIndex \in Nat
      BY BoundAssumption DEF TypeOK
    <2>4. NothingForgotten'
      BY <2>1 DEF NothingForgotten, Fit
    <2>5. ASSUME losses = 0 \/ skipped = {} PROVE rows' \subseteq 0 .. index' - 1
      <3>1. rows \subseteq 0 .. index - 1
        BY <2>5 DEF IndexNotBehind
      <3>2. index <= ins.index
        <4>1. CASE losses = 0
          BY <4>1
        <4>2. CASE skipped = {}
          <5>1. PICK b \in ins.bulk : TRUE
            OBVIOUS
          <5>2. b \in 0 .. ins.index - 1 /\ b \notin rows
            BY <1>2, <5>1 DEF Fit
          <5>3. b \notin 0 .. index - 1
            BY <4>2, <5>2 DEF NothingForgotten
          <5> QED BY <2>2, <2>3, <5>2, <5>3
        <4> QED BY <2>5, <4>1, <4>2
      <3>3. ASSUME NEW n \in rows' PROVE n \in 0 .. index' - 1
        <4>1. n \in 0 .. index - 1 \/ n \in 0 .. ins.index - 1
          BY <2>1, <3>1, <3>3 DEF Fit
        <4> QED BY <2>1, <2>2, <2>3, <3>2, <4>1
      <3> QED BY <3>3
    <2> QED BY <2>1, <2>2, <2>3, <2>4, <2>5 DEF IndexNotBehind
  <1> QED BY <1>1, <1>2

-----------------------------------------------------------------------------
\* Nothing is stored, collected or locked at first.
LEMMA InitIInv == Init => IInv
  BY BoundAssumption, NoneAssumption
     DEF Init, IInv, TypeOK, NothingForgotten, IndexNotBehind, CycleInv, LateInv, Guarded,
         NoCycle, Fit, InsertOf, Cycle, Nfts

\* A step that leaves the tables alone keeps what is said about them.
LEMMA TablesKept ==
    ASSUME IInv, UNCHANGED db, skipped \subseteq skipped', losses' = 0 => losses = 0
    PROVE  NothingForgotten' /\ IndexNotBehind' /\ (\A ins : Fit(ins) => Fit(ins)')
  <1>1. NothingForgotten' /\ IndexNotBehind'
    BY DEF IInv, db, NothingForgotten, IndexNotBehind
  <1>2. rows \subseteq rows'
    BY DEF db
  <1> QED BY <1>1, <1>2, FitStays

\* An empty cycle is fit.
LEMMA NoCycleFits ==
    /\ NoCycle \in Cycle
    /\ Fit([index |-> 0, bulk |-> {}])
    /\ Fit([index |-> 0, bulk |-> {}])'
  <1>1. NoCycle \in Cycle
    BY BoundAssumption DEF NoCycle, Cycle
  <1>2. 0 .. 0 - 1 = {}
    OBVIOUS
  <1>3. Fit([index |-> 0, bulk |-> {}])
    BY <1>2 DEF Fit
  <1>4. Fit([index |-> 0, bulk |-> {}])'
    BY <1>2 DEF Fit
  <1> QED BY <1>1, <1>3, <1>4

-----------------------------------------------------------------------------
PC == {"idle", "closing"} \cup Working
Reading == {"asking", "fetching", "inserting"}

\* A step of the instance i that leaves its nft_indexer at p with the cycle c
\* preserves the invariant if the tables and the late inserts stay right and,
\* while no lock was lost, i works only as the holder.
LEMMA InstanceStep ==
    ASSUME IInv, NEW i \in Instance, NEW p \in PC, NEW c \in Cycle,
           pc' = [pc EXCEPT ![i] = p],
           cycle' = [cycle EXCEPT ![i] = c],
           next_item_index' = next_item_index,
           index' \in 0 .. MaxIndex, rows' \subseteq Nfts, skipped' \subseteq Nfts,
           holder' \in Instance \cup {None},
           failures' \in 0 .. MaxFail,
           losses' \in 0 .. MaxLoss,
           late' \in [Instance -> SUBSET Insert],
           NothingForgotten', IndexNotBehind', LateInv',
           \A ins : Fit(ins) => Fit(ins)',
           Fit([index |-> c.index, bulk |-> c.bulk])',
           p = "inserting" => c.bulk # {},
           losses' = 0 =>
             /\ losses = 0
             /\ late' = late
             /\ \A j \in Instance \ {i} : holder = j => holder' = j
             /\ p # "idle" => holder' = i
             /\ p \in Reading => index' <= c.index
             /\ index' = index \/ pc[i] # "idle"
    PROVE  IInv'
  <1>1. /\ pc'[i] = p /\ cycle'[i] = c
        /\ \A j \in Instance \ {i} : pc'[j] = pc[j] /\ cycle'[j] = cycle[j]
    BY DEF IInv, TypeOK
  <1>2. TypeOK'
    BY DEF IInv, TypeOK, PC
  <1>3. CycleInv'
    <2> SUFFICES ASSUME NEW j \in Instance
                 PROVE  Fit(InsertOf(j))' /\ (pc'[j] = "inserting" => cycle'[j].bulk # {})
      BY DEF CycleInv
    <2>1. CASE j = i
      <3>1. InsertOf(j)' = [index |-> c.index, bulk |-> c.bulk]
        BY <1>1, <2>1 DEF InsertOf
      <3> QED BY <1>1, <2>1, <3>1
    <2>2. CASE j # i
      <3>1. InsertOf(j)' = InsertOf(j)
        BY <1>1, <2>2 DEF InsertOf
      <3>2. Fit(InsertOf(j)) /\ (pc[j] = "inserting" => cycle[j].bulk # {})
        BY DEF IInv, CycleInv
      <3> QED BY <1>1, <2>2, <3>1, <3>2
    <2> QED BY <2>1, <2>2
  <1>4. Guarded'
    <2> SUFFICES ASSUME losses' = 0, NEW j \in Instance
                 PROVE  /\ late'[j] = {}
                        /\ pc'[j] # "idle" => holder' = j
                        /\ pc'[j] \in Reading => index' <= cycle'[j].index
      BY DEF Guarded, Reading
    <2>1. /\ late[j] = {}
          /\ pc[j] # "idle" => holder = j
          /\ pc[j] \in Reading => index <= cycle[j].index
          /\ pc[i] # "idle" => holder = i
      BY DEF IInv, Guarded, Reading
    <2>2. CASE j = i
      BY <1>1, <2>1, <2>2
    <2>3. CASE j # i
      <3>1. pc[i] # "idle" => pc[j] = "idle"
        BY <2>1, <2>3
      <3> QED BY <1>1, <2>1, <2>3, <3>1 DEF Reading
    <2> QED BY <2>2, <2>3
  <1> QED BY <1>2, <1>3, <1>4 DEF IInv

\* A step that closes i's cycle, or ends its close, and keeps the tables.
LEMMA QuietStep ==
    ASSUME IInv, NEW i \in Instance, NEW p \in {"idle", "closing"},
           pc' = [pc EXCEPT ![i] = p],
           cycle' = [cycle EXCEPT ![i] = NoCycle],
           UNCHANGED <<next_item_index, db, skipped>>,
           holder' \in Instance \cup {None},
           failures' \in 0 .. MaxFail,
           losses' \in 0 .. MaxLoss,
           late' \in [Instance -> SUBSET Insert],
           LateInv',
           losses' = 0 =>
             /\ losses = 0
             /\ late' = late
             /\ \A j \in Instance \ {i} : holder = j => holder' = j
             /\ p # "idle" => holder' = i
    PROVE  IInv'
  <1>1. p \in PC /\ p \notin Reading /\ p # "inserting"
    BY DEF PC, Reading
  <1>2. NothingForgotten' /\ IndexNotBehind' /\ \A ins : Fit(ins) => Fit(ins)'
    BY TablesKept
  <1>3. index' = index /\ rows' = rows
    BY DEF db
  <1>4. index' \in 0 .. MaxIndex /\ rows' \subseteq Nfts /\ skipped' \subseteq Nfts
    BY <1>3 DEF IInv, TypeOK
  <1>5. /\ NoCycle \in Cycle
        /\ Fit([index |-> NoCycle.index, bulk |-> NoCycle.bulk])'
    BY NoCycleFits DEF NoCycle
  <1> QED BY <1>1, <1>2, <1>3, <1>4, <1>5, InstanceStep

\* A late insert is untouched by a step that leaves late alone.
LEMMA LateKept ==
    ASSUME IInv, UNCHANGED late, rows \subseteq rows', skipped \subseteq skipped'
    PROVE  LateInv' /\ late' \in [Instance -> SUBSET Insert]
  BY FitStays DEF IInv, LateInv, TypeOK

\* What the invariant says of the instance that takes a step.
LEMMA InstanceFacts ==
    ASSUME IInv, NEW i \in Instance
    PROVE  /\ pc[i] \in PC /\ cycle[i] \in Cycle /\ InsertOf(i) \in Insert
           /\ index \in 0 .. MaxIndex /\ rows \subseteq Nfts /\ skipped \subseteq Nfts
           /\ holder \in Instance \cup {None}
           /\ failures \in 0 .. MaxFail /\ losses \in 0 .. MaxLoss
           /\ Fit(InsertOf(i))
           /\ pc[i] = "inserting" => cycle[i].bulk # {}
           /\ losses = 0 => /\ late[i] = {}
                            /\ pc[i] # "idle" => holder = i
                            /\ pc[i] \in Reading => index <= cycle[i].index
  BY InsertTyped DEF IInv, TypeOK, PC, CycleInv, Guarded, Reading

\* A step of the cycle's work: the tables and the late inserts are untouched,
\* and a free lock may be taken.
LEMMA WorkStep ==
    ASSUME IInv, NEW i \in Instance, NEW p \in PC, NEW c \in Cycle,
           pc' = [pc EXCEPT ![i] = p],
           cycle' = [cycle EXCEPT ![i] = c],
           UNCHANGED <<next_item_index, db, late, losses, failures>>,
           skipped \subseteq skipped', skipped' \subseteq Nfts,
           holder' = holder \/ (holder = None /\ holder' = i),
           Fit([index |-> c.index, bulk |-> c.bulk])',
           p = "inserting" => c.bulk # {},
           losses = 0 => /\ p # "idle" => holder' = i
                         /\ p \in Reading => index <= c.index
    PROVE  IInv'
  <1>1. /\ NothingForgotten' /\ IndexNotBehind' /\ \A ins : Fit(ins) => Fit(ins)'
        /\ LateInv' /\ late' \in [Instance -> SUBSET Insert]
    BY TablesKept, LateKept DEF db
  <1>2. /\ index' = index /\ index' \in 0 .. MaxIndex /\ rows' \subseteq Nfts
        /\ failures' \in 0 .. MaxFail /\ losses' \in 0 .. MaxLoss
        /\ holder' \in Instance \cup {None}
    BY InstanceFacts DEF db
  <1>3. \A j \in Instance \ {i} : holder = j => holder' = j
    BY NoneAssumption
  <1> QED BY <1>1, <1>2, <1>3, InstanceStep

\* EtcdPoolLock.__enter__: the instance was idle and reads nothing yet.
LEMMA AcquireStep == ASSUME IInv, NEW i \in Instance, Acquire(i) PROVE IInv'
  <1>1. PICK c \in Cycle : c = cycle[i]
    BY InstanceFacts
  <1>2. cycle' = [cycle EXCEPT ![i] = c]
    BY <1>1 DEF Acquire, IInv, TypeOK
  <1>3. "refreshing" \in PC /\ "refreshing" \notin Reading
    BY DEF PC, Working, Reading
  <1>4. rows' = rows /\ skipped' = skipped
    BY DEF Acquire, db
  <1>5. Fit([index |-> c.index, bulk |-> c.bulk])
    BY <1>1, InstanceFacts DEF InsertOf
  <1>6. Fit([index |-> c.index, bulk |-> c.bulk])'
    BY <1>4, <1>5 DEF Fit
  <1>7. skipped' \subseteq Nfts
    BY <1>4, InstanceFacts
  <1> QED BY <1>2, <1>3, <1>4, <1>6, <1>7, WorkStep DEF Acquire

\* sync_collection_upsert: the cycle starts at the table's index, below which
\* nothing is forgotten.
LEMMA RefreshCollectionStep ==
    ASSUME IInv, NEW i \in Instance, RefreshCollection(i) PROVE IInv'
  <1>1. PICK c : c = [NoCycle EXCEPT !.index = index]
    OBVIOUS
  <1>2. c \in Cycle /\ c.index = index /\ c.bulk = {}
    BY <1>1, NoCycleFits, InstanceFacts DEF NoCycle, Cycle
  <1>3. pc[i] = "refreshing" /\ cycle' = [cycle EXCEPT ![i] = c]
        /\ pc' = [pc EXCEPT ![i] = "asking"]
        /\ UNCHANGED <<next_item_index, db, holder, late, skipped, losses, failures>>
    BY <1>1 DEF RefreshCollection
  <1>4. "asking" \in PC
    BY DEF PC, Working
  <1>5. Fit([index |-> c.index, bulk |-> c.bulk])'
    BY <1>2, <1>3 DEF Fit, IInv, NothingForgotten, db
  <1>6. index <= c.index /\ skipped' \subseteq Nfts /\ (losses = 0 => holder' = i)
    BY <1>2, <1>3, InstanceFacts
  <1> QED BY <1>2, <1>3, <1>4, <1>5, <1>6, WorkStep

\* get_collection_data: an answer ahead of the index is fetched up to, any
\* other one ends the cycle.
LEMMA NextIndexStep ==
    ASSUME IInv, NEW i \in Instance, NEW goal \in 0 .. MaxIndex, NextIndex(i, goal)
    PROVE  IInv'
  <1>1. /\ pc[i] = "asking"
        /\ UNCHANGED <<next_item_index, db, holder, late, skipped, losses, failures>>
    BY DEF NextIndex
  <1>2. /\ skipped' \subseteq Nfts
        /\ losses = 0 => holder' = i /\ index <= cycle[i].index
    BY <1>1, InstanceFacts DEF Reading
  <1>3. CASE cycle' = [cycle EXCEPT ![i].goal = goal] /\ pc' = [pc EXCEPT ![i] = "fetching"]
    <2>1. PICK c : c = [cycle[i] EXCEPT !.goal = goal]
      OBVIOUS
    <2>2. cycle' = [cycle EXCEPT ![i] = c]
      BY <1>3, <2>1 DEF IInv, TypeOK
    <2>3. c \in Cycle /\ c.index = cycle[i].index /\ c.bulk = cycle[i].bulk
      BY <2>1, InstanceFacts DEF Cycle
    <2>4. Fit([index |-> c.index, bulk |-> c.bulk])
      BY <2>3, InstanceFacts DEF InsertOf
    <2>5. Fit([index |-> c.index, bulk |-> c.bulk])'
      BY <1>1, <2>4 DEF Fit, db
    <2>6. "fetching" \in PC
      BY DEF PC, Working
    <2> QED BY <1>1, <1>2, <1>3, <2>2, <2>3, <2>5, <2>6, WorkStep
  <1>4. CASE Close(i)
    <2>1. LateInv' /\ late' \in [Instance -> SUBSET Insert]
      BY <1>1, LateKept DEF db
    <2> QED BY <1>1, <1>2, <1>4, <2>1, InstanceFacts, QuietStep DEF Close
  <1> QED BY <1>3, <1>4 DEF NextIndex

\* The loop's body: the NFT at the index is in the bulk or passed over before
\* the index moves on.
LEMMA LoopStep ==
    ASSUME IInv, NEW i \in Instance, pc[i] = "fetching", More(cycle[i]),
           NEW c, c.index = cycle[i].index + 1,
           c \in [index : Int, goal : 0 .. MaxIndex, bulk : SUBSET Int],
           cycle' = [cycle EXCEPT ![i] = c],
           UNCHANGED <<next_item_index, db, holder, pc, late, losses, failures>>,
           \/ c.bulk = cycle[i].bulk \cup {cycle[i].index} /\ skipped' = skipped
           \/ c.bulk = cycle[i].bulk /\ skipped' = skipped \cup {cycle[i].index}
    PROVE  IInv'
  <1>1. /\ cycle[i].index \in 0 .. MaxIndex /\ cycle[i].goal \in 0 .. MaxIndex
        /\ cycle[i].bulk \subseteq Nfts /\ MaxIndex \in Nat
        /\ cycle[i].index < cycle[i].goal
    BY InstanceFacts, BoundAssumption DEF Cycle, More
  <1>2. cycle[i].index \in Nfts
    BY <1>1 DEF Nfts
  <1>3. c \in Cycle /\ skipped' \subseteq Nfts /\ skipped \subseteq skipped'
    BY <1>1, <1>2, InstanceFacts DEF Cycle
  <1>4. /\ \A n \in 0 .. cycle[i].index - 1 : n \in rows \cup skipped \cup cycle[i].bulk
        /\ cycle[i].bulk \subseteq 0 .. cycle[i].index - 1
    BY InstanceFacts DEF Fit, InsertOf
  <1>5. Fit([index |-> c.index, bulk |-> c.bulk])'
    <2>1. ASSUME NEW n \in 0 .. c.index - 1 PROVE n \in rows' \cup skipped' \cup c.bulk
      <3>1. n \in 0 .. cycle[i].index - 1 \/ n = cycle[i].index
        BY <1>1, <2>1
      <3> QED BY <1>4, <3>1 DEF db
    <2>2. ASSUME NEW n \in c.bulk PROVE n \in 0 .. c.index - 1
      <3>1. n \in cycle[i].bulk \/ n = cycle[i].index
        BY <2>2
      <3>2. n \in 0 .. cycle[i].index - 1 \/ n = cycle[i].index
        BY <1>4, <3>1
      <3> QED BY <1>1, <3>2
    <2> QED BY <2>1, <2>2 DEF Fit
  <1>6. /\ pc' = [pc EXCEPT ![i] = "fetching"] /\ "fetching" \in PC
        /\ losses = 0 => holder' = i /\ index <= c.index
    BY <1>1, InstanceFacts DEF IInv, TypeOK, PC, Working, Reading
  <1> QED BY <1>3, <1>5, <1>6, WorkStep

\* get_nft_item_address, get_nft_data and get_cid_info succeed.
LEMMA FetchStep == ASSUME IInv, NEW i \in Instance, Fetch(i) PROVE IInv'
  <1>1. /\ cycle[i] \in [index : Int, goal : 0 .. MaxIndex, bulk : SUBSET Int]
        /\ cycle[i].index \in Int /\ cycle[i].bulk \in SUBSET Int
    BY InstanceFacts DEF Cycle, Nfts
  <1>2. PICK b \in SUBSET Int : b = cycle[i].bulk \cup {cycle[i].index}
    BY <1>1
  <1>3. PICK n \in Int : n = cycle[i].index + 1
    BY <1>1
  <1>4. PICK c : c = [cycle[i] EXCEPT !.bulk = b, !.index = n]
    OBVIOUS
  <1>5. cycle' = [cycle EXCEPT ![i] = c]
    BY <1>2, <1>3, <1>4 DEF Fetch, IInv, TypeOK, Cycle
  <1>6. /\ c.index = n /\ c.bulk = b
        /\ c \in [index : Int, goal : 0 .. MaxIndex, bulk : SUBSET Int]
    BY <1>1, <1>4
  <1> QED BY <1>2, <1>3, <1>5, <1>6, LoopStep DEF Fetch

\* get_nft_data fails: the NFT is passed over.
LEMMA PassOverStep == ASSUME IInv, NEW i \in Instance, PassOver(i) PROVE IInv'
  <1>1. PICK c : c = [cycle[i] EXCEPT !.index = @ + 1]
    OBVIOUS
  <1>2. cycle' = [cycle EXCEPT ![i] = c]
    BY <1>1 DEF PassOver, IInv, TypeOK
  <1>3. /\ c.index = cycle[i].index + 1 /\ c.bulk = cycle[i].bulk
        /\ c \in [index : Int, goal : 0 .. MaxIndex, bulk : SUBSET Int]
    BY <1>1, InstanceFacts DEF Cycle, Nfts
  <1> QED BY <1>2, <1>3, LoopStep DEF PassOver

\* The loop is over: a bulk is inserted, an empty one ends the cycle.
LEMMA StartInsertStep == ASSUME IInv, NEW i \in Instance, StartInsert(i) PROVE IInv'
  <1>1. /\ pc[i] = "fetching"
        /\ UNCHANGED <<next_item_index, db, holder, late, skipped, losses, failures>>
    BY DEF StartInsert
  <1>2. /\ skipped' \subseteq Nfts
        /\ losses = 0 => holder' = i /\ index <= cycle[i].index
    BY <1>1, InstanceFacts DEF Reading
  <1>3. CASE HasBulk(cycle[i]) /\ pc' = [pc EXCEPT ![i] = "inserting"] /\ UNCHANGED cycle
    <2>1. PICK c \in Cycle : c = cycle[i]
      BY InstanceFacts
    <2>2. cycle' = [cycle EXCEPT ![i] = c] /\ c.bulk # {}
      BY <1>3, <2>1 DEF IInv, TypeOK, HasBulk
    <2>3. Fit([index |-> c.index, bulk |-> c.bulk])
      BY <2>1, InstanceFacts DEF InsertOf
    <2>4. Fit([index |-> c.index, bulk |-> c.bulk])'
      BY <1>1, <2>3 DEF Fit, db
    <2>5. "inserting" \in PC
      BY DEF PC, Working
    <2> QED BY <1>1, <1>2, <1>3, <2>1, <2>2, <2>4, <2>5, WorkStep
  <1>4. CASE Close(i)
    <2>1. LateInv' /\ late' \in [Instance -> SUBSET Insert]
      BY <1>1, LateKept DEF db
    <2> QED BY <1>1, <1>2, <1>4, <2>1, InstanceFacts, QuietStep DEF Close
  <1> QED BY <1>3, <1>4 DEF StartInsert

-----------------------------------------------------------------------------
\* The transaction of a running cycle: without a lost lock no other instance
\* has moved the table's index since the cycle read it.
LEMMA CommitStep == ASSUME IInv, NEW i \in Instance, Commit(i) PROVE IInv'
  <1>1. PICK ins \in Insert : ins = InsertOf(i)
    BY InstanceFacts
  <1>2. /\ pc[i] = "inserting" /\ Store(ins)
        /\ pc' = [pc EXCEPT ![i] = "closing"] /\ cycle' = [cycle EXCEPT ![i] = NoCycle]
        /\ UNCHANGED <<next_item_index, holder, late, skipped, losses, failures>>
    BY <1>1 DEF Commit, Close
  <1>3. Fit(ins) /\ ins.bulk # {} /\ (losses = 0 => index <= ins.index)
    BY <1>1, <1>2, InstanceFacts DEF InsertOf, Reading
  <1>4. /\ rows \subseteq rows' /\ rows' \subseteq Nfts /\ index' \in 0 .. MaxIndex
        /\ NothingForgotten' /\ IndexNotBehind'
    BY <1>2, <1>3, StoreStep
  <1>5. \A x : Fit(x) => Fit(x)'
    BY <1>2, <1>4, FitStays
  <1>6. LateInv' /\ late' \in [Instance -> SUBSET Insert]
    BY <1>2, <1>4, LateKept
  <1>7. "closing" \in PC /\ "closing" \notin Reading
    BY DEF PC, Reading
  <1>8. NoCycle \in Cycle /\ Fit([index |-> NoCycle.index, bulk |-> NoCycle.bulk])'
    BY NoCycleFits DEF NoCycle
  <1>9. /\ skipped' \subseteq Nfts /\ holder' \in Instance \cup {None}
        /\ failures' \in 0 .. MaxFail /\ losses' \in 0 .. MaxLoss
        /\ losses' = 0 => losses = 0 /\ late' = late /\ holder' = i
    BY <1>2, InstanceFacts
  <1> QED BY <1>2, <1>4, <1>5, <1>6, <1>7, <1>8, <1>9, InstanceStep

\* An exception closes the cycle.
LEMMA CycleFailsStep == ASSUME IInv, NEW i \in Instance, CycleFails(i) PROVE IInv'
  <1>1. /\ pc[i] # "idle" /\ failures < MaxFail /\ failures' = failures + 1
        /\ pc' = [pc EXCEPT ![i] = "closing"] /\ cycle' = [cycle EXCEPT ![i] = NoCycle]
        /\ UNCHANGED <<next_item_index, db, holder, late, skipped, losses>>
    BY DEF CycleFails, Close, Working
  <1>2. LateInv' /\ late' \in [Instance -> SUBSET Insert]
    BY <1>1, LateKept DEF db
  <1>3. failures' \in 0 .. MaxFail
    BY <1>1, BoundAssumption, InstanceFacts
  <1> QED BY <1>1, <1>2, <1>3, InstanceFacts, QuietStep

\* EtcdPoolLock.__exit__ deletes no other instance's key.
LEMMA ReleaseStep == ASSUME IInv, NEW i \in Instance, Release(i) PROVE IInv'
  <1>1. PICK c \in Cycle : c = cycle[i]
    BY InstanceFacts
  <1>2. /\ holder' = KeyAfterRelease(i)
        /\ pc' = [pc EXCEPT ![i] = "idle"] /\ cycle' = [cycle EXCEPT ![i] = c]
        /\ UNCHANGED <<next_item_index, db, late, skipped, losses, failures>>
    BY <1>1 DEF Release, IInv, TypeOK
  <1>3. /\ holder' \in Instance \cup {None}
        /\ \A j \in Instance \ {i} : holder = j => holder' = j
    BY <1>2, InstanceFacts DEF KeyAfterRelease
  <1>4. /\ NothingForgotten' /\ IndexNotBehind' /\ \A x : Fit(x) => Fit(x)'
        /\ LateInv' /\ late' \in [Instance -> SUBSET Insert]
    BY <1>2, TablesKept, LateKept DEF db
  <1>5. Fit([index |-> c.index, bulk |-> c.bulk])
    BY <1>1, InstanceFacts DEF InsertOf
  <1>6. /\ index' = index /\ index' \in 0 .. MaxIndex /\ rows' \subseteq Nfts
        /\ skipped' \subseteq Nfts
        /\ failures' \in 0 .. MaxFail /\ losses' \in 0 .. MaxLoss
    BY <1>2, InstanceFacts DEF db
  <1>7. "idle" \in PC /\ "idle" \notin Reading
    BY DEF PC, Reading
  <1>8. Fit([index |-> c.index, bulk |-> c.bulk])'
    BY <1>4, <1>5
  <1> QED BY <1>2, <1>3, <1>4, <1>6, <1>7, <1>8, InstanceStep

\* A cancelled cycle leaves at most the insert it was running; a lock counts
\* as lost unless it was lost before.
LEMMA InterruptStep == ASSUME IInv, NEW i \in Instance, Interrupt(i) PROVE IInv'
  <1>1. /\ pc[i] # "idle"
        /\ pc' = [pc EXCEPT ![i] = "closing"] /\ cycle' = [cycle EXCEPT ![i] = NoCycle]
        /\ UNCHANGED <<next_item_index, db, holder, skipped, failures>>
    BY DEF Interrupt, Close, Working
  <1>2. losses' \in 0 .. MaxLoss /\ losses' # 0
    <2>1. CASE holder # i /\ UNCHANGED losses
      BY <1>1, <2>1, InstanceFacts
    <2>2. CASE losses < MaxLoss /\ losses' = losses + 1
      BY <2>2, InstanceFacts, BoundAssumption
    <2> QED BY <2>1, <2>2 DEF Interrupt
  <1>3. \/ late' = late
        \/ pc[i] = "inserting" /\ late' = [late EXCEPT ![i] = @ \cup {InsertOf(i)}]
    BY DEF Interrupt
  <1>4. late \in [Instance -> SUBSET Insert] /\ InsertOf(i) \in Insert
    BY InstanceFacts DEF IInv, TypeOK
  <1>5. late' \in [Instance -> SUBSET Insert]
    BY <1>3, <1>4
  <1>6. ASSUME NEW j \in Instance, NEW ins \in late'[j]
        PROVE  Fit(ins) /\ ins.bulk # {}
    <2>1. CASE ins \in late[j]
      BY <2>1 DEF IInv, LateInv
    <2>2. CASE ins \notin late[j]
      <3>1. pc[i] = "inserting" /\ ins = InsertOf(i)
        BY <1>3, <1>4, <1>6, <2>2
      <3> QED BY <3>1, InstanceFacts DEF InsertOf
    <2> QED BY <2>1, <2>2
  <1>7. \A x : Fit(x) => Fit(x)'
    BY <1>1, FitStays DEF db
  <1>8. LateInv'
    BY <1>6, <1>7 DEF LateInv
  <1> QED BY <1>1, <1>2, <1>5, <1>8, InstanceFacts, QuietStep

\* The instance dies with its threads.
LEMMA CrashStep == ASSUME IInv, NEW i \in Instance, Crash(i) PROVE IInv'
  <1>1. /\ failures < MaxFail /\ failures' = failures + 1
        /\ pc' = [pc EXCEPT ![i] = "idle"] /\ cycle' = [cycle EXCEPT ![i] = NoCycle]
        /\ late' = [late EXCEPT ![i] = {}]
        /\ UNCHANGED <<next_item_index, db, holder, skipped, losses>>
    BY DEF Crash
  <1>2. late \in [Instance -> SUBSET Insert]
    BY DEF IInv, TypeOK
  <1>3. late' \in [Instance -> SUBSET Insert] /\ \A j \in Instance : late'[j] \subseteq late[j]
    BY <1>1, <1>2
  <1>4. \A x : Fit(x) => Fit(x)'
    BY <1>1, FitStays DEF db
  <1>5. LateInv'
    BY <1>3, <1>4 DEF IInv, LateInv
  <1>6. failures' \in 0 .. MaxFail
    BY <1>1, BoundAssumption, InstanceFacts
  <1>7. losses = 0 => late' = late
    BY <1>1, <1>2, InstanceFacts
  <1> QED BY <1>1, <1>3, <1>5, <1>6, <1>7, InstanceFacts, QuietStep

-----------------------------------------------------------------------------
\* What is left of a cancelled cycle commits or is rolled back: that happens
\* only after a lost lock.
LEMMA LateEndStep ==
    ASSUME IInv, NEW i \in Instance, NEW ins \in late[i], LateEnd(i, ins)
    PROVE  IInv'
  <1>1. /\ late' = [late EXCEPT ![i] = @ \ {ins}]
        /\ Store(ins) \/ UNCHANGED db
        /\ UNCHANGED <<next_item_index, holder, pc, cycle, skipped, losses, failures>>
    BY DEF LateEnd
  <1>2. losses # 0
    BY DEF IInv, Guarded
  <1>3. late \in [Instance -> SUBSET Insert]
    BY DEF IInv, TypeOK
  <1>4. ins \in Insert /\ Fit(ins) /\ ins.bulk # {}
    BY <1>3 DEF IInv, LateInv
  <1>5. /\ rows \subseteq rows' /\ rows' \subseteq Nfts /\ index' \in 0 .. MaxIndex
        /\ NothingForgotten' /\ IndexNotBehind'
    <2>1. CASE Store(ins)
      BY <1>1, <1>2, <1>4, <2>1, StoreStep
    <2>2. CASE UNCHANGED db
      BY <1>1, <2>2 DEF IInv, TypeOK, NothingForgotten, IndexNotBehind, db
    <2> QED BY <1>1, <2>1, <2>2
  <1>6. \A x : Fit(x) => Fit(x)'
    BY <1>1, <1>5, FitStays
  <1>7. late' \in [Instance -> SUBSET Insert] /\ \A j \in Instance : late'[j] \subseteq late[j]
    BY <1>1, <1>3
  <1>8. LateInv'
    BY <1>6, <1>7 DEF IInv, LateInv
  <1>9. CycleInv'
    <2>1. ASSUME NEW j \in Instance
          PROVE  Fit(InsertOf(j))' /\ (pc'[j] = "inserting" => cycle'[j].bulk # {})
      <3>1. InsertOf(j)' = InsertOf(j)
        BY <1>1 DEF InsertOf
      <3>2. Fit(InsertOf(j)) /\ (pc[j] = "inserting" => cycle[j].bulk # {})
        BY DEF IInv, CycleInv
      <3> QED BY <1>1, <1>5, <3>1, <3>2 DEF Fit
    <2> QED BY <2>1 DEF CycleInv
  <1>10. TypeOK'
    BY <1>1, <1>5, <1>7 DEF IInv, TypeOK
  <1>11. Guarded'
    BY <1>1, <1>2 DEF Guarded
  <1> QED BY <1>5, <1>8, <1>9, <1>10, <1>11 DEF IInv

\* A step of the lock's lease or of the chain leaves the cycles and tables alone.
LEMMA OutsideStep ==
    ASSUME IInv, UNCHANGED <<db, pc, cycle, late, skipped>>,
           next_item_index' \in 0 .. MaxIndex,
           holder' \in Instance \cup {None},
           losses' \in 0 .. MaxLoss, failures' \in 0 .. MaxFail,
           losses' = 0 => /\ losses = 0
                          /\ \A j \in Instance : pc[j] # "idle" /\ holder = j => holder' = j
    PROVE  IInv'
  <1>1. NothingForgotten' /\ IndexNotBehind'
    BY TablesKept
  <1>2. TypeOK'
    BY DEF IInv, TypeOK, db
  <1>3. CycleInv'
    BY DEF IInv, CycleInv, InsertOf, Fit, db
  <1>4. LateInv'
    BY LateKept DEF db
  <1>5. Guarded'
    BY DEF IInv, Guarded, db
  <1> QED BY <1>1, <1>2, <1>3, <1>4, <1>5 DEF IInv

\* Leases expire, locks are orphaned, NFTs are minted.
LEMMA ExpireStep == ASSUME IInv, NEW i \in Instance, Expire(i) PROVE IInv'
  BY InstanceFacts, BoundAssumption, OutsideStep DEF Expire, IInv, TypeOK

\* Nobody works under the lease of an idle instance.
LEMMA ExpireUnusedStep == ASSUME IInv, NEW i \in Instance, ExpireUnused(i) PROVE IInv'
  BY InstanceFacts, OutsideStep DEF ExpireUnused, IInv, TypeOK

\* An orphan is taken from nobody.
LEMMA OrphanStep == ASSUME IInv, NEW i \in Instance, Orphan(i) PROVE IInv'
  BY InstanceFacts, BoundAssumption, NoneAssumption, OutsideStep DEF Orphan, IInv, TypeOK

\* The collection grows within its bound.
LEMMA MintStep == ASSUME IInv, Mint PROVE IInv'
  BY BoundAssumption, OutsideStep DEF Mint, IInv, TypeOK

\* Every step preserves the invariant.
LEMMA NextIInv == IInv /\ [Next]_vars => IInv'
  <1> SUFFICES ASSUME IInv, [Next]_vars PROVE IInv'
    OBVIOUS
  <1>1. CASE Mint
    BY <1>1, MintStep
  <1>2. ASSUME NEW i \in Instance, CycleStep(i) PROVE IInv'
    BY <1>2, AcquireStep, RefreshCollectionStep, NextIndexStep, FetchStep, PassOverStep,
       StartInsertStep, CommitStep, ReleaseStep DEF CycleStep
  <1>3. ASSUME NEW i \in Instance, Trouble(i) PROVE IInv'
    BY <1>3, CycleFailsStep, InterruptStep, LateEndStep, ExpireStep, ExpireUnusedStep,
       OrphanStep, CrashStep DEF Trouble
  <1>4. CASE UNCHANGED vars
    BY <1>4, OutsideStep DEF vars, IInv, TypeOK
  <1> QED BY <1>1, <1>2, <1>3, <1>4 DEF Next

\* The invariant, from which the three theorems follow.
LEMMA Invariance == Spec => []IInv
  BY InitIInv, NextIInv, PTL DEF Spec

\* The collection's index, its table, the lock and the cycles keep their types.
THEOREM Typing == Spec => []TypeOK
  <1>1. IInv => TypeOK
    BY DEF IInv
  <1> QED BY <1>1, Invariance, PTL

\* _nft_indexer_cycle: whatever cycles, late inserts, lost leases and crashes
\* interleave, an NFT below the collection's index is stored or was passed over.
THEOREM NothingIsForgotten == Spec => []NothingForgotten
  <1>1. IInv => NothingForgotten
    BY DEF IInv
  <1> QED BY <1>1, Invariance, PTL

\* EtcdPoolLock protects the index while no lock is lost; the constraint
\* collection_index_uk protects it while no NFT is passed over.
THEOREM IndexIsProtected == Spec => []IndexNotBehind
  <1>1. IInv => IndexNotBehind
    BY DEF IInv
  <1> QED BY <1>1, Invariance, PTL
=============================================================================
