--------------------------- MODULE NftTasksProofs ---------------------------
(***************************************************************************)
(* Proofs about the queue of scheduled NFT tasks, for any number of NFTs,  *)
(* servers and rows.                                                       *)
(*                                                                         *)
(* The inductive invariant IInv says who has a claimed row: the rows of a  *)
(* batch have no time, are in the table and in no other batch, and their   *)
(* NFTs were found in the database; what a batch or a synchronisation is   *)
(* about to store is never later than the chain says and comes with a task *)
(* for the due date, if that lies ahead.  The proofs of the three          *)
(* invariants of the queue start from it, each with an induction of its    *)
(* own.                                                                    *)
(***************************************************************************)
EXTENDS NftTasks, FiniteSetTheorems, SequenceTheorems, WellFoundedInduction, TLAPS

\* A batch b whose rows are those of the table q.
Held(b, q) ==
    /\ b.left \subseteq b.tasks
    /\ b.pc = "idle" => b.tasks = {} /\ b.upd = {} /\ b.new = <<>>
    /\ \A i \in b.tasks : q[i] # None /\ q[i].time = None /\ b.nfts[q[i].nft] # None
    /\ b.pc = "updating" => \A i \in b.left : q[i].type = "due"
    /\ \A j \in 1 .. Len(b.new) :
            b.new[j].time # None /\ \E i \in b.tasks : q[i].nft = b.new[j].nft

\* There is room for two tasks for each row of the batch.
Room(b) ==
    /\ Len(b.new) <= 2 * MaxTasks
    /\ b.pc = "updating" => Len(b.new) + 2 * Cardinality(b.left) <= 2 * MaxTasks

\* The tasks have one for n's due date if it lies ahead.
Follows(tasks, n, due) == due > now => \E j \in 1 .. Len(tasks) : IsDueRow(tasks[j], n)

\* What the batch is going to store.
Noted(b) ==
    \A n \in b.upd : /\ b.nfts[n] # None
                     /\ b.nfts[n].due <= chain_due[n]
                     /\ Follows(b.new, n, b.nfts[n].due)

\* What a synchronisation of n is going to store.
SyncSound(n, s) ==
    /\ s.row.due <= chain_due[n]
    /\ Follows(s.new, n, s.row.due)
    /\ \A j \in 1 .. Len(s.new) : s.new[j].time # None /\ s.new[j].nft = n
    /\ \A j, k \in 1 .. Len(s.new) : IsDueRow(s.new[j], n) /\ IsDueRow(s.new[k], n) => j = k

Apart == \A p, q \in Processor : p # q => batch[p].tasks \cap batch[q].tasks = {}

BatchesInv == \A p \in Processor : Held(batch[p], queue) /\ Room(batch[p]) /\ Noted(batch[p])

RowsInv ==
    /\ \A i \in TaskId : queue[i] # None => db[queue[i].nft] # None
    /\ \A n \in Nft : db[n] # None => db[n].due <= chain_due[n]
    /\ \A n \in Nft : syncing[n] # None => db[n] # None /\ SyncSound(n, syncing[n]) /\ syncs[n] < MaxSync

IInv == TypeOK /\ Apart /\ BatchesInv /\ RowsInv

-----------------------------------------------------------------------------
(* The rows that are inserted.                                             *)

\* The number of ids of F up to i.
Rank(F, i) == Cardinality({j \in F : j <= i})

\* The ids are counted one by one.
LEMMA RankStep ==
    ASSUME NEW F \in SUBSET TaskId
    PROVE  /\ IsFiniteSet(F) /\ Cardinality(F) \in Nat
           /\ \A i \in 0 .. MaxTasks : Rank(F, i) \in Nat
           /\ Rank(F, 0) = 0 /\ Rank(F, MaxTasks) = Cardinality(F)
           /\ \A i \in TaskId : Rank(F, i) = Rank(F, i - 1) + (IF i \in F THEN 1 ELSE 0)
<1>0. IsFiniteSet(TaskId)
  BY BoundAssumption, FS_Interval DEF TaskId
<1>1. IsFiniteSet(F) /\ Cardinality(F) \in Nat
  <2>1. IsFiniteSet(F)
    BY <1>0, FS_Subset
  <2> QED BY <2>1, FS_CardinalityType
<1>2. ASSUME NEW i \in Int
      PROVE  IsFiniteSet({j \in F : j <= i}) /\ Rank(F, i) \in Nat
  <2> DEFINE S == {j \in F : j <= i}
  <2>1. S \in SUBSET F /\ Rank(F, i) = Cardinality(S)
    BY DEF Rank
  <2> HIDE DEF S
  <2>2. IsFiniteSet(S) /\ Rank(F, i) \in Nat
    BY <1>1, <2>1, FS_Subset, FS_CardinalityType
  <2> QED BY <2>2 DEF S
<1>3. Rank(F, 0) = 0
  <2> DEFINE S == {j \in F : j <= 0}
  <2>1. \A j \in F : ~ (j <= 0)
    BY DEF TaskId
  <2>2. S = {} /\ Rank(F, 0) = Cardinality(S)
    BY <2>1, Zenon DEF Rank
  <2> HIDE DEF S
  <2> QED BY <2>2, FS_EmptySet
<1>4. Rank(F, MaxTasks) = Cardinality(F)
  <2> DEFINE S == {j \in F : j <= MaxTasks}
  <2>1. \A j \in F : j <= MaxTasks
    BY DEF TaskId
  <2>2. S = F /\ Rank(F, MaxTasks) = Cardinality(S)
    BY <2>1, Zenon DEF Rank
  <2> HIDE DEF S
  <2> QED BY <2>2
<1>5. ASSUME NEW i \in TaskId
      PROVE  Rank(F, i) = Rank(F, i - 1) + (IF i \in F THEN 1 ELSE 0)
  <2> DEFINE S == {j \in F : j <= i - 1}
             T == {j \in F : j <= i}
  <2>1. i - 1 \in Int /\ ~ (i <= i - 1)
    BY DEF TaskId
  <2>2. IsFiniteSet(S) /\ i \notin S
    BY <1>2, <2>1
  <2>3. \A j \in F : j <= i <=> j <= i - 1 \/ j = i
    BY DEF TaskId
  <2>4. /\ i \in F => T = S \cup {i}
        /\ i \notin F => T = S
    BY <2>3, Zenon
  <2>5. Rank(F, i) = Cardinality(T) /\ Rank(F, i - 1) = Cardinality(S)
    BY DEF Rank
  <2> HIDE DEF S, T
  <2>6. Cardinality(S \cup {i}) = Cardinality(S) + 1 /\ Cardinality(S) \in Nat
    BY <2>2, FS_AddElement, FS_CardinalityType
  <2>7. CASE i \in F
    BY <2>4, <2>5, <2>6, <2>7
  <2>8. CASE i \notin F
    BY <2>4, <2>5, <2>6, <2>8
  <2> QED BY <2>7, <2>8
<1>6. ASSUME NEW i \in 0 .. MaxTasks
      PROVE  Rank(F, i) \in Nat
  <2>1. i \in Int
    OBVIOUS
  <2> QED BY <1>2, <2>1
<1> QED BY <1>1, <1>3, <1>4, <1>5, <1>6

\* The numbers of different ids differ.
LEMMA RankGrows ==
    ASSUME NEW F \in SUBSET TaskId, NEW i \in TaskId, NEW k \in F, i < k
    PROVE  Rank(F, i) < Rank(F, k)
<1>1. k \in TaskId /\ k - 1 \in 0 .. MaxTasks /\ i \in 0 .. MaxTasks
  BY BoundAssumption DEF TaskId
<1>2. /\ Rank(F, k) = Rank(F, k - 1) + 1
      /\ Rank(F, k - 1) \in Nat /\ Rank(F, i) \in Nat /\ IsFiniteSet(F)
  BY <1>1, RankStep
<1>3. Rank(F, i) <= Rank(F, k - 1)
  <2> DEFINE S == {j \in F : j <= i}
             T == {j \in F : j <= k - 1}
  <2>1. \A j \in F : j <= i => j <= k - 1
    BY DEF TaskId
  <2>2. S \in SUBSET T /\ T \in SUBSET F
    BY <2>1, Zenon
  <2>3. Rank(F, i) = Cardinality(S) /\ Rank(F, k - 1) = Cardinality(T)
    BY DEF Rank
  <2> HIDE DEF S, T
  <2>4. IsFiniteSet(T)
    BY <1>2, <2>2, FS_Subset
  <2> QED BY <2>2, <2>3, <2>4, FS_Subset
<1> QED BY <1>2, <1>3

LessThan == {p \in Nat \X Nat : p[1] < p[2]}

\* No infinite descent.
LEMMA LessThanWellFounded == IsWellFoundedOn(LessThan, Nat)
<1>1. LessThan = OpToRel(<, Nat)
  BY Zenon DEF LessThan, OpToRel
<1> QED BY Zenon, <1>1, NatLessThanWellFounded

\* Every number up to the size of F is the number of an id.
LEMMA RankOnto ==
    ASSUME NEW F \in SUBSET TaskId, NEW k \in 1 .. Cardinality(F)
    PROVE  \E i \in F : Rank(F, i) = k
<1> DEFINE T == {i \in 0 .. MaxTasks : Rank(F, i) >= k}
<1>1. MaxTasks \in T
  BY RankStep, BoundAssumption
<1>2. T \subseteq Nat /\ T # {}
  BY <1>1
<1>3. PICK m \in T : \A u \in T : <<u, m>> \notin LessThan
  <2> HIDE DEF T
  <2> QED BY <1>2, LessThanWellFounded, WFMin
<1>4. m \in 0 .. MaxTasks /\ Rank(F, m) >= k /\ Rank(F, m) \in Nat /\ k \in Nat \ {0}
  BY RankStep
<1>5. m # 0
  BY <1>4, RankStep
<1>6. m \in TaskId /\ m - 1 \in 0 .. MaxTasks
  BY <1>4, <1>5, BoundAssumption DEF TaskId
<1>7. Rank(F, m) = Rank(F, m - 1) + (IF m \in F THEN 1 ELSE 0) /\ Rank(F, m - 1) \in Nat
  BY <1>6, RankStep
<1>8. ~ Rank(F, m - 1) >= k
  <2>1. SUFFICES ASSUME Rank(F, m - 1) >= k PROVE FALSE
    OBVIOUS
  <2>2. m - 1 \in T
    BY <1>6, <2>1
  <2>3. <<m - 1, m>> \notin LessThan
    BY <1>3, <2>2
  <2> QED BY <1>4, <1>5, <2>3, BoundAssumption DEF LessThan
<1> QED BY <1>4, <1>7, <1>8

Table == [TaskId -> Row \cup {None}]

\* Rows stay, free ids get rows of the list, and each row of the list that fits gets an id.
LEMMA InsertedRows ==
    ASSUME NEW q \in Table, NEW rows \in Seq(Row)
    PROVE  LET r == Inserted(q, rows)
           IN  /\ r \in Table
               /\ \A i \in TaskId : q[i] # None => r[i] = q[i]
               /\ \A i \in TaskId : r[i] = q[i] \/ \E j \in 1 .. Len(rows) : r[i] = rows[j]
               /\ Fits(q, rows) => \A j \in 1 .. Len(rows) : \E i \in TaskId : r[i] = rows[j]
<1> DEFINE F == Free(q)
           r == Inserted(q, rows)
<1>1. F \in SUBSET TaskId
  BY DEF Free
<1>2. \A i \in F : Rank(F, i) \in Nat \ {0}
  <2> TAKE i \in F
  <2>1. i \in TaskId /\ i - 1 \in 0 .. MaxTasks
    BY <1>1, BoundAssumption DEF TaskId
  <2> HIDE DEF F
  <2>2. Rank(F, i) = Rank(F, i - 1) + 1 /\ Rank(F, i - 1) \in Nat
    BY <1>1, <2>1, RankStep
  <2> QED BY <2>2
<1>3. r = [i \in TaskId |-> IF i \in F /\ Rank(F, i) <= Len(rows) THEN rows[Rank(F, i)] ELSE q[i]]
  BY DEF Inserted, Rank
<1>4. \A i \in F : Rank(F, i) <= Len(rows) => Rank(F, i) \in 1 .. Len(rows)
  BY <1>2
<1>5. \A i \in TaskId : q[i] # None <=> i \notin F
  BY DEF Free
<1>6. Fits(q, rows) => \A j \in 1 .. Len(rows) : \E i \in F : Rank(F, i) = j
  <2> SUFFICES ASSUME Fits(q, rows), NEW j \in 1 .. Len(rows)
               PROVE  \E i \in F : Rank(F, i) = j
    OBVIOUS
  <2>1. Len(rows) <= Cardinality(F) /\ Cardinality(F) \in Nat /\ Len(rows) \in Nat
    BY <1>1, RankStep DEF Fits
  <2>2. j \in 1 .. Cardinality(F)
    BY <2>1
  <2> QED BY <1>1, <2>2, RankOnto
<1> HIDE DEF F, r
<1>7. \A j \in 1 .. Len(rows) : rows[j] \in Row
  OBVIOUS
<1>8. r \in Table
  BY <1>3, <1>4, <1>7 DEF Table
<1>9. \A i \in TaskId : q[i] # None => r[i] = q[i]
  BY <1>3, <1>5
<1>10. \A i \in TaskId : r[i] = q[i] \/ \E j \in 1 .. Len(rows) : r[i] = rows[j]
  BY <1>3, <1>4
<1>11. Fits(q, rows) => \A j \in 1 .. Len(rows) : \E i \in TaskId : r[i] = rows[j]
  <2> SUFFICES ASSUME Fits(q, rows), NEW j \in 1 .. Len(rows)
               PROVE  \E i \in TaskId : r[i] = rows[j]
    OBVIOUS
  <2>1. PICK i \in F : Rank(F, i) = j
    BY <1>6
  <2>2. r[i] = rows[j]
    BY <1>1, <1>3, <2>1
  <2> QED BY <1>1, <2>2
<1> QED BY <1>8, <1>9, <1>10, <1>11 DEF r

-----------------------------------------------------------------------------
(* The tasks that follow.                                                  *)

LEMMA NewRows ==
    ASSUME NEW n \in Nft, NEW due \in Time, now \in Time
    PROVE  /\ NoticeRow(n) \in Row /\ NoticeRow(n).time # None /\ NoticeRow(n).nft = n
           /\ ~ IsDueRow(NoticeRow(n), n)
           /\ DueRow(n, due) \in Row /\ DueRow(n, due).time # None /\ DueRow(n, due).nft = n
           /\ IsDueRow(DueRow(n, due), n)
<1>1. now \in -Expired .. MaxTime /\ now # None
  BY OffsetAssumption, BoundAssumption, NoneAssumption DEF Time
<1>2. DueTime(due) \in -Expired .. MaxTime /\ DueTime(due) # None
  BY OffsetAssumption, BoundAssumption, NoneAssumption DEF Time, DueTime
<1> QED BY <1>1, <1>2 DEF NoticeRow, DueRow, Row, IsDueRow

LEMMA FollowingSound ==
    ASSUME NEW n \in Nft, NEW old, NEW due \in Time, now \in Time
    PROVE  LET f == Following(n, old, due)
           IN  /\ f \in Seq(Row) /\ Len(f) \in 0 .. 2
               /\ \A j \in 1 .. Len(f) : f[j].time # None /\ f[j].nft = n
               /\ Follows(f, n, due)
               /\ \A j, k \in 1 .. Len(f) : IsDueRow(f[j], n) /\ IsDueRow(f[k], n) => j = k
<1> DEFINE notice == NoticeRow(n)
           next == DueRow(n, due)
           f == Following(n, old, due)
<1>1. /\ notice \in Row /\ notice.time # None /\ notice.nft = n /\ ~ IsDueRow(notice, n)
      /\ next \in Row /\ next.time # None /\ next.nft = n /\ IsDueRow(next, n)
  BY NewRows
<1>2. f = (IF due # old THEN <<notice>> ELSE <<>>) \o (IF due > now THEN <<next>> ELSE <<>>)
  BY DEF Following
<1>3. \/ f = <<notice>> \o <<next>>
      \/ f = <<next>>
      \/ ~ (due > now) /\ (f = <<notice>> \/ f = <<>>)
  <2> HIDE DEF f, notice, next
  <2>1. <<notice>> \in Seq(Row)
    BY <1>1
  <2>2. <<next>> \in Seq(Row)
    BY <1>1
  <2>3. <<>> \in Seq(Row)
    OBVIOUS
  <2>4. <<>> \o <<next>> = <<next>> /\ <<notice>> \o <<>> = <<notice>> /\ <<>> \o <<>> = <<>>
    BY <2>1, <2>2, <2>3, ConcatEmptySeq
  <2> QED BY <1>2, <2>4
<1> HIDE DEF f, notice, next
<1>4. CASE f = <<notice>> \o <<next>>
  <2>0. notice \in Row /\ next \in Row
    BY <1>1
  <2>1. Len(f) = 2 /\ f[1] = notice /\ f[2] = next /\ f \in Seq(Row)
    BY <1>4, <2>0
  <2>2. \A j \in 1 .. Len(f) : j = 1 \/ j = 2
    BY <2>1
  <2> QED BY <1>1, <2>1, <2>2 DEF Follows, f
<1>5. CASE f = <<next>>
  <2>1. Len(f) = 1 /\ f[1] = next /\ f \in Seq(Row)
    BY <1>1, <1>5
  <2>2. \A j \in 1 .. Len(f) : j = 1
    BY <2>1
  <2> QED BY <1>1, <2>1, <2>2 DEF Follows, f
<1>6. CASE ~ (due > now) /\ f = <<notice>>
  <2>1. Len(f) = 1 /\ f[1] = notice /\ f \in Seq(Row)
    BY <1>1, <1>6
  <2>2. \A j \in 1 .. Len(f) : j = 1
    BY <2>1
  <2> QED BY <1>1, <1>6, <2>1, <2>2 DEF Follows, f
<1>7. CASE ~ (due > now) /\ f = <<>>
  <2>1. Len(f) = 0 /\ f \in Seq(Row)
    BY <1>7
  <2> QED BY <1>7, <2>1 DEF Follows, f
<1> QED BY <1>3, <1>4, <1>5, <1>6, <1>7

\* What follows is put behind what was noted before.
LEMMA Appended ==
    ASSUME NEW s \in Seq(Row), NEW f \in Seq(Row), NEW n, NEW due
    PROVE  /\ s \o f \in Seq(Row) /\ Len(s \o f) = Len(s) + Len(f)
           /\ \A j \in 1 .. Len(s \o f) : \/ j \in 1 .. Len(s) /\ (s \o f)[j] = s[j]
                                          \/ j - Len(s) \in 1 .. Len(f) /\ (s \o f)[j] = f[j - Len(s)]
           /\ \A j \in 1 .. Len(s) : j \in 1 .. Len(s \o f) /\ (s \o f)[j] = s[j]
           /\ Follows(s, n, due) \/ Follows(f, n, due) => Follows(s \o f, n, due)
<1> DEFINE t == s \o f
<1>1. t \in Seq(Row) /\ Len(t) = Len(s) + Len(f) /\ Len(s) \in Nat /\ Len(f) \in Nat
  OBVIOUS
<1>2. \A j \in 1 .. Len(s) : j \in 1 .. Len(t) /\ t[j] = s[j]
  OBVIOUS
<1>3. \A j \in 1 .. Len(t) : \/ j \in 1 .. Len(s) /\ t[j] = s[j]
                             \/ j - Len(s) \in 1 .. Len(f) /\ t[j] = f[j - Len(s)]
  OBVIOUS
<1>4. \A k \in 1 .. Len(f) : Len(s) + k \in 1 .. Len(t) /\ t[Len(s) + k] = f[k]
  OBVIOUS
<1> HIDE DEF t
<1>5. Follows(s, n, due) \/ Follows(f, n, due) => Follows(t, n, due)
  BY <1>2, <1>4 DEF Follows
<1> QED BY <1>1, <1>2, <1>3, <1>5 DEF t

-----------------------------------------------------------------------------
(* The steps of a processor.                                               *)

\* Batches others have do not mind what happens to p's.
LEMMA BatchStep ==
    ASSUME TypeOK, Apart, BatchesInv, RowsInv, NEW p \in Processor, NEW b \in Batch,
           batch' = [batch EXCEPT ![p] = b], b.tasks \subseteq batch[p].tasks,
           Held(b, queue), Room(b), Noted(b),
           UNCHANGED <<now, chain_due, db, queue, syncing, syncs>>
    PROVE  batch' \in [Processor -> Batch] /\ Apart' /\ BatchesInv' /\ RowsInv'
<1>1. batch' \in [Processor -> Batch]
  BY DEF TypeOK
<1>2. batch'[p] = b /\ \A q \in Processor \ {p} : batch'[q] = batch[q]
  BY DEF TypeOK
<1>3. Apart'
  BY <1>2 DEF Apart
<1>4. BatchesInv'
  <2> SUFFICES ASSUME NEW q \in Processor
               PROVE  (Held(batch[q], queue) /\ Room(batch[q]) /\ Noted(batch[q]))'
    BY DEF BatchesInv
  <2>1. CASE q = p
    BY <1>2, <2>1 DEF Held, Room, Noted, Follows
  <2>2. CASE q # p
    <3>1. Held(batch[q], queue) /\ Room(batch[q]) /\ Noted(batch[q]) /\ batch'[q] = batch[q]
      BY <1>2, <2>2 DEF BatchesInv
    <3> QED BY <3>1 DEF Held, Room, Noted, Follows
  <2> QED BY <2>1, <2>2
<1>5. RowsInv'
  BY DEF RowsInv, SyncSound, Follows
<1> QED BY <1>1, <1>3, <1>4, <1>5

\* What an invariant says of a batch.
LEMMA BatchFacts ==
    ASSUME IInv, NEW p \in Processor
    PROVE  /\ batch[p] \in Batch
           /\ Held(batch[p], queue) /\ Room(batch[p]) /\ Noted(batch[p])
           /\ \A i \in batch[p].tasks : /\ i \in TaskId /\ queue[i] \in Row /\ queue[i].nft \in Nft
                                        /\ batch[p].nfts[queue[i].nft] \in NftRow
           /\ \A i \in batch[p].left : i \in batch[p].tasks
<1>1. batch[p] \in Batch
  BY DEF IInv, TypeOK
<1>2. Held(batch[p], queue) /\ Room(batch[p]) /\ Noted(batch[p])
  BY DEF IInv, BatchesInv
<1>3. \A i \in batch[p].tasks : /\ i \in TaskId /\ queue[i] \in Row /\ queue[i].nft \in Nft
                                /\ batch[p].nfts[queue[i].nft] \in NftRow
  <2> TAKE i \in batch[p].tasks
  <2>1. i \in TaskId /\ queue[i] # None /\ batch[p].nfts[queue[i].nft] # None
    BY <1>1, <1>2 DEF Held, Batch
  <2>2. queue[i] \in Row
    BY <2>1 DEF IInv, TypeOK
  <2>3. queue[i].nft \in Nft
    BY <2>2 DEF Row
  <2>4. batch[p].nfts \in [Nft -> NftRow \cup {None}]
    BY <1>1 DEF Batch
  <2> QED BY <2>1, <2>2, <2>3, <2>4
<1> QED BY <1>1, <1>2, <1>3 DEF Held

\* An NFT has been read: one row of the batch less is to be looked at, and at most two
\* tasks are added.
LEMMA UpdateStep ==
    ASSUME IInv, NEW p \in Processor, NEW i \in TaskId, UpdateNft(p, i)
    PROVE  IInv'
<1> DEFINE o == batch[p]
           n == queue[i].nft
           due == chain_due[n]
           f == Following(n, o.nfts[n].due, due)
           upd == IF due # o.nfts[n].due THEN o.upd \cup {n} ELSE o.upd
           b == [o EXCEPT !.left = o.left \ {i},
                          !.nfts = [o.nfts EXCEPT ![n] = [o.nfts[n] EXCEPT !.due = due]],
                          !.error = o.error \ {n}, !.upd = upd, !.new = o.new \o f]
<1>1. /\ o \in Batch /\ Held(o, queue) /\ Room(o) /\ Noted(o)
      /\ o.pc = "updating" /\ i \in o.left /\ n \in Nft /\ o.nfts[n] \in NftRow
  BY BatchFacts DEF UpdateNft
<1>2. batch' = [batch EXCEPT ![p] = b]
  BY <1>1 DEF UpdateNft, IInv, TypeOK, Batch, NftRow
<1>3. now \in Time /\ due \in Time
  BY <1>1 DEF IInv, TypeOK
<1>4. /\ f \in Seq(Row) /\ Len(f) \in 0 .. 2
      /\ \A j \in 1 .. Len(f) : f[j].time # None /\ f[j].nft = n
      /\ Follows(f, n, due)
  BY <1>1, <1>3, FollowingSound
<1> DEFINE row == [o.nfts[n] EXCEPT !.due = due]
<1>5. row \in NftRow /\ row.due = due /\ row # None
  BY <1>1, <1>3, NoneAssumption DEF NftRow
<1>6. /\ o.left \subseteq TaskId /\ o.tasks \subseteq TaskId /\ o.error \subseteq Nft /\ o.upd \subseteq Nft
      /\ o.nfts \in [Nft -> NftRow \cup {None}] /\ o.new \in Seq(Row)
  BY <1>1 DEF Batch
<1>7. /\ b.pc = "updating" /\ b.tasks = o.tasks /\ b.left = o.left \ {i} /\ b.upd = upd
      /\ b.nfts = [o.nfts EXCEPT ![n] = row] /\ b.new = o.new \o f
  BY <1>1 DEF Batch
<1> HIDE DEF f, row
<1>8. b \in Batch
  <2>1. [o.nfts EXCEPT ![n] = row] \in [Nft -> NftRow \cup {None}]
    BY <1>5, <1>6
  <2>2. o.new \o f \in Seq(Row)
    BY <1>4, <1>6
  <2>3. upd \subseteq Nft
    BY <1>1, <1>6
  <2> HIDE DEF upd
  <2> QED BY <1>1, <1>6, <2>1, <2>2, <2>3 DEF Batch, row
<1> HIDE DEF b
<1>9. Held(b, queue)
  <2>1. \A k \in b.tasks : queue[k] # None /\ queue[k].time = None /\ b.nfts[queue[k].nft] # None
    BY <1>1, <1>5, <1>6, <1>7 DEF Held
  <2>2. \A j \in 1 .. Len(b.new) :
            b.new[j].time # None /\ \E k \in b.tasks : queue[k].nft = b.new[j].nft
    <3> SUFFICES ASSUME NEW j \in 1 .. Len(b.new)
                 PROVE  b.new[j].time # None /\ \E k \in b.tasks : queue[k].nft = b.new[j].nft
      OBVIOUS
    <3>1. CASE j \in 1 .. Len(o.new) /\ b.new[j] = o.new[j]
      BY <1>1, <1>7, <3>1 DEF Held
    <3>2. CASE j - Len(o.new) \in 1 .. Len(f) /\ b.new[j] = f[j - Len(o.new)]
      <4>1. b.new[j].time # None /\ b.new[j].nft = n
        BY <1>4, <3>2
      <4>2. i \in b.tasks
        BY <1>1, <1>7 DEF Held
      <4> QED BY <4>1, <4>2
    <3> QED BY <1>4, <1>6, <1>7, <3>1, <3>2, Appended
  <2> QED BY <1>1, <1>7, <2>1, <2>2 DEF Held
<1>10. Room(b)
  <2>1. IsFiniteSet(o.left)
    BY <1>6, RankStep
  <2>2. Cardinality(o.left) \in Nat /\ Cardinality(o.left \ {i}) = Cardinality(o.left) - 1
    <3> DEFINE S == o.left
    <3>1. IsFiniteSet(S) /\ i \in S
      BY <1>1, <2>1
    <3> HIDE DEF S
    <3>2. Cardinality(S) \in Nat /\ Cardinality(S \ {i}) = Cardinality(S) - 1
      BY <3>1, FS_RemoveElement, FS_CardinalityType
    <3> QED BY <3>2 DEF S
  <2>3. Len(b.new) = Len(o.new) + Len(f) /\ Len(o.new) \in Nat
    BY <1>4, <1>6, <1>7
  <2>4. Cardinality(o.left \ {i}) \in Nat
    BY <2>1, FS_RemoveElement, FS_CardinalityType
  <2>5. Len(o.new) + 2 * Cardinality(o.left) <= 2 * MaxTasks
    BY <1>1 DEF Room
  <2>6. Len(b.new) + 2 * (Cardinality(o.left) - 1) <= 2 * MaxTasks
    <3> DEFINE l == Len(o.new)
               c == Cardinality(o.left)
               k == Len(f)
    <3>1. l \in Nat /\ c \in Nat /\ k \in 0 .. 2 /\ l + 2 * c <= 2 * MaxTasks /\ Len(b.new) = l + k
      BY <1>4, <2>2, <2>3, <2>5
    <3> HIDE DEF l, c, k
    <3>2. l + k + 2 * (c - 1) <= 2 * MaxTasks
      BY <3>1, BoundAssumption
    <3> QED BY <3>1, <3>2 DEF c
  <2>7. Len(b.new) + 2 * Cardinality(b.left) <= 2 * MaxTasks
    BY <1>7, <2>2, <2>6
  <2>8. Len(b.new) \in Nat /\ Cardinality(b.left) \in Nat
    BY <1>4, <1>7, <2>3, <2>4
  <2>9. Len(b.new) <= 2 * MaxTasks
    BY <2>7, <2>8, BoundAssumption
  <2> QED BY <2>7, <2>9 DEF Room
<1>11. Noted(b)
  <2> SUFFICES ASSUME NEW m \in b.upd
               PROVE  /\ b.nfts[m] # None
                      /\ b.nfts[m].due <= chain_due[m]
                      /\ Follows(b.new, m, b.nfts[m].due)
    BY DEF Noted
  <2>1. m \in Nft /\ (m = n \/ m \in o.upd)
    BY <1>1, <1>6, <1>7
  <2>2. CASE m = n
    <3>1. b.nfts[m] = row
      BY <1>1, <1>6, <1>7, <2>2
    <3>2. Follows(b.new, n, due)
      BY <1>4, <1>6, <1>7, Appended
    <3> QED BY <1>3, <1>5, <2>2, <3>1, <3>2 DEF Time
  <2>3. CASE m # n
    <3>1. b.nfts[m] = o.nfts[m]
      BY <1>6, <1>7, <2>1, <2>3
    <3>2. o.nfts[m] # None /\ o.nfts[m].due <= chain_due[m] /\ Follows(o.new, m, o.nfts[m].due)
      BY <1>1, <2>1, <2>3 DEF Noted
    <3>3. Follows(b.new, m, o.nfts[m].due)
      BY <1>4, <1>6, <1>7, <3>2, Appended
    <3> QED BY <3>1, <3>2, <3>3
  <2> QED BY <2>2, <2>3
<1>12. UNCHANGED <<now, chain_due, db, queue, syncing, sent, early, lost, syncs, extended, failed>>
  BY DEF UpdateNft
<1>13. batch' \in [Processor -> Batch] /\ Apart' /\ BatchesInv' /\ RowsInv'
  BY <1>2, <1>7, <1>8, <1>9, <1>10, <1>11, <1>12, BatchStep DEF IInv
<1> QED BY <1>12, <1>13 DEF IInv, TypeOK

\* A row of the batch less is to be looked at.
LEMMA LookedAt ==
    ASSUME NEW o \in Batch, Room(o), NEW i \in o.left, NEW b \in Batch,
           b.pc = o.pc, b.left = o.left \ {i}, b.new = o.new
    PROVE  Room(b)
<1> DEFINE S == o.left
           T == b.left
           l == Len(o.new)
<1>1. S \in SUBSET TaskId /\ T \in SUBSET S /\ l \in Nat
  BY DEF Batch
<1>2. l <= 2 * MaxTasks /\ (o.pc = "updating" => l + 2 * Cardinality(S) <= 2 * MaxTasks)
  BY DEF Room
<1>3. Len(b.new) = l
  OBVIOUS
<1> HIDE DEF S, T, l
<1>4. IsFiniteSet(S)
  BY <1>1, RankStep
<1>5. IsFiniteSet(T) /\ Cardinality(T) <= Cardinality(S)
  BY <1>1, <1>4, FS_Subset
<1>6. Cardinality(S) \in Nat /\ Cardinality(T) \in Nat
  BY <1>4, <1>5, FS_CardinalityType
<1>7. b.pc = "updating" => l + 2 * Cardinality(T) <= 2 * MaxTasks
  BY <1>1, <1>2, <1>5, <1>6, BoundAssumption
<1> QED BY <1>2, <1>3, <1>7 DEF Room, T

LEMMA UpdateErrorStep ==
    ASSUME IInv, NEW p \in Processor, NEW i \in TaskId, UpdateError(p, i)
    PROVE  IInv'
<1> DEFINE o == batch[p]
           n == queue[i].nft
           b == [o EXCEPT !.left = o.left \ {i}, !.error = o.error \cup {n}]
<1>1. /\ o \in Batch /\ Held(o, queue) /\ Room(o) /\ Noted(o)
      /\ o.pc = "updating" /\ i \in o.left /\ n \in Nft
  BY BatchFacts DEF UpdateError
<1>2. batch' = [batch EXCEPT ![p] = b]
  BY <1>1 DEF UpdateError, IInv, TypeOK, Batch
<1>3. /\ b \in Batch /\ b.pc = o.pc /\ b.tasks = o.tasks /\ b.left = o.left \ {i}
      /\ b.upd = o.upd /\ b.nfts = o.nfts /\ b.new = o.new
  BY <1>1 DEF Batch
<1> HIDE DEF b
<1>4. Room(b)
  BY <1>1, <1>3, LookedAt
<1>5. Held(b, queue)
  BY <1>1, <1>3 DEF Held
<1>6. Noted(b)
  BY <1>1, <1>3 DEF Noted
<1>7. UNCHANGED <<now, chain_due, db, queue, syncing, sent, early, syncs, extended>>
  BY DEF UpdateError
<1>8. lost' \subseteq Nft /\ failed' \in 0 .. MaxFail
  BY <1>1, BoundAssumption DEF UpdateError, IInv, TypeOK
<1>9. batch' \in [Processor -> Batch] /\ Apart' /\ BatchesInv' /\ RowsInv'
  BY <1>2, <1>3, <1>4, <1>5, <1>6, <1>7, BatchStep DEF IInv
<1> QED BY <1>7, <1>8, <1>9 DEF IInv, TypeOK

LEMMA UpdatedStep ==
    ASSUME IInv, NEW p \in Processor, Updated(p)
    PROVE  IInv'
<1> DEFINE o == batch[p]
           b == [o EXCEPT !.pc = "processing", !.left = o.tasks]
<1>1. o \in Batch /\ Held(o, queue) /\ Room(o) /\ Noted(o) /\ o.pc = "updating"
  BY BatchFacts DEF Updated
<1>2. batch' = [batch EXCEPT ![p] = b]
  BY <1>1 DEF Updated, IInv, TypeOK, Batch
<1>3. /\ b \in Batch /\ b.pc = "processing" /\ b.tasks = o.tasks /\ b.left = o.tasks
      /\ b.upd = o.upd /\ b.nfts = o.nfts /\ b.new = o.new
  BY <1>1 DEF Batch
<1> HIDE DEF b
<1>4. Room(b)
  BY <1>1, <1>3 DEF Room
<1>5. Held(b, queue)
  BY <1>1, <1>3 DEF Held
<1>6. Noted(b)
  BY <1>1, <1>3 DEF Noted
<1>7. UNCHANGED <<now, chain_due, db, queue, syncing, sent, early, lost, syncs, extended, failed>>
  BY DEF Updated
<1>8. batch' \in [Processor -> Batch] /\ Apart' /\ BatchesInv' /\ RowsInv'
  BY <1>2, <1>3, <1>4, <1>5, <1>6, <1>7, BatchStep DEF IInv
<1> QED BY <1>7, <1>8 DEF IInv, TypeOK

\* An idle processor has nothing in hand.
LEMMA IdleSound ==
    /\ Idle \in Batch /\ Held(Idle, queue) /\ Room(Idle) /\ Noted(Idle)
    /\ Idle.pc = "idle" /\ Idle.tasks = {} /\ Idle.left = {} /\ Idle.upd = {} /\ Idle.new = <<>>
<1>1. <<>> \in Seq(Row) /\ Len(<<>>) = 0
  OBVIOUS
<1>2. Idle \in Batch /\ Idle.tasks = {} /\ Idle.left = {} /\ Idle.upd = {} /\ Idle.new = <<>>
      /\ Idle.pc = "idle"
  BY <1>1 DEF Idle, Batch
<1>3. Room(Idle)
  BY <1>1, <1>2, BoundAssumption DEF Room
<1>4. Held(Idle, queue) /\ Noted(Idle)
  BY <1>1, <1>2 DEF Held, Noted
<1> QED BY <1>2, <1>3, <1>4

LEMMA AbandonStep ==
    ASSUME IInv, NEW p \in Processor, Abandon(p),
           UNCHANGED <<now, chain_due, db, queue, syncing, syncs>>
    PROVE  /\ batch' \in [Processor -> Batch] /\ Apart' /\ BatchesInv' /\ RowsInv'
           /\ lost' \subseteq Nft
<1>1. batch' = [batch EXCEPT ![p] = Idle] /\ lost' = lost \cup InHands(p)
  BY DEF Abandon
<1>2. InHands(p) \subseteq Nft
  BY BatchFacts DEF InHands
<1>3. batch' \in [Processor -> Batch] /\ Apart' /\ BatchesInv' /\ RowsInv'
  <2>1. Idle.tasks \subseteq batch[p].tasks
    BY IdleSound
  <2>2. TypeOK /\ Apart /\ BatchesInv /\ RowsInv
    BY DEF IInv
  <2> QED BY <1>1, <2>1, <2>2, IdleSound, BatchStep
<1> QED BY <1>1, <1>2, <1>3 DEF IInv, TypeOK

LEMMA FailStep ==
    ASSUME IInv, NEW p \in Processor, Fail(p)
    PROVE  IInv'
<1>1. /\ batch' \in [Processor -> Batch] /\ Apart' /\ BatchesInv' /\ RowsInv'
      /\ lost' \subseteq Nft
  BY AbandonStep DEF Fail
<1>2. failed' \in 0 .. MaxFail
  BY BoundAssumption DEF Fail, IInv, TypeOK
<1> QED BY <1>1, <1>2 DEF Fail, IInv, TypeOK

\* A task has been processed, or its exception has ended the batch.
LEMMA ProcessStep ==
    ASSUME IInv, NEW p \in Processor, NEW i \in TaskId, ProcessTask(p, i)
    PROVE  IInv'
<1> DEFINE o == batch[p]
           n == queue[i].nft
           row == [o.nfts[n] EXCEPT !.last_notified = [time |-> now, naive |-> FALSE]]
           b == [o EXCEPT !.left = o.left \ {i}]
           c == [o EXCEPT !.left = o.left \ {i}, !.nfts = [o.nfts EXCEPT ![n] = row]]
<1>1. /\ o \in Batch /\ Held(o, queue) /\ Room(o) /\ Noted(o)
      /\ o.pc = "processing" /\ i \in o.left /\ n \in Nft /\ o.nfts[n] \in NftRow
  BY BatchFacts DEF ProcessTask
<1>2. UNCHANGED <<now, chain_due, db, queue, syncing, syncs, extended, failed>>
  BY DEF ProcessTask
<1>3. now \in Time
  BY DEF IInv, TypeOK
<1>4. row \in NftRow /\ row.due = o.nfts[n].due /\ row # None
  <2>1. [time |-> now, naive |-> FALSE] \in Stamp
    BY <1>3 DEF Stamp
  <2>2. row \in NftRow /\ row.due = o.nfts[n].due
    BY <1>1, <2>1 DEF NftRow
  <2> QED BY <2>2, NoneAssumption
<1>5. sent' \in [Nft -> Time \cup {None}] /\ early' \subseteq Nft
  <2>1. sent \in [Nft -> Time \cup {None}] /\ early \subseteq Nft
    BY DEF IInv, TypeOK
  <2>2. \/ sent' = sent /\ early' = early
        \/ sent' = [sent EXCEPT ![n] = now] /\ (early' = early \cup {n} \/ early' = early)
    BY DEF ProcessTask
  <2> QED BY <1>1, <1>3, <2>1, <2>2
<1>6. \/ Abandon(p)
      \/ batch' = [batch EXCEPT ![p] = b] /\ lost' = lost
      \/ batch' = [batch EXCEPT ![p] = c] /\ lost' = lost
  <2>1. \/ Abandon(p)
        \/ batch' = [batch EXCEPT ![p].left = @ \ {i}] /\ lost' = lost
        \/ /\ batch' = [batch EXCEPT ![p].left = @ \ {i},
                                     ![p].nfts[n].last_notified = [time |-> now, naive |-> FALSE]]
           /\ lost' = lost
    BY DEF ProcessTask
  <2> QED BY <1>1, <2>1 DEF IInv, TypeOK, Batch, NftRow
<1> HIDE DEF row
<1>7. /\ b \in Batch /\ b.pc = o.pc /\ b.tasks = o.tasks /\ b.left = o.left \ {i}
      /\ b.upd = o.upd /\ b.nfts = o.nfts /\ b.new = o.new
  BY <1>1 DEF Batch
<1>8. /\ c \in Batch /\ c.pc = o.pc /\ c.tasks = o.tasks /\ c.left = o.left \ {i}
      /\ c.upd = o.upd /\ c.nfts = [o.nfts EXCEPT ![n] = row] /\ c.new = o.new
  <2>1. o.nfts \in [Nft -> NftRow \cup {None}] /\ o.left \subseteq TaskId
    BY <1>1 DEF Batch
  <2>2. [o.nfts EXCEPT ![n] = row] \in [Nft -> NftRow \cup {None}]
    BY <1>4, <2>1
  <2> QED BY <1>1, <2>1, <2>2 DEF Batch
<1> HIDE DEF b, c
<1>9. CASE Abandon(p)
  BY <1>2, <1>5, <1>9, AbandonStep DEF IInv, TypeOK
<1>10. CASE batch' = [batch EXCEPT ![p] = b] /\ lost' = lost
  <2>1. Room(b)
    BY <1>1, <1>7, LookedAt
  <2>2. Held(b, queue)
    BY <1>1, <1>7 DEF Held
  <2>3. Noted(b)
    BY <1>1, <1>7 DEF Noted
  <2>4. batch' \in [Processor -> Batch] /\ Apart' /\ BatchesInv' /\ RowsInv'
    BY <1>2, <1>7, <1>10, <2>1, <2>2, <2>3, BatchStep DEF IInv
  <2> QED BY <1>2, <1>5, <1>10, <2>4 DEF IInv, TypeOK
<1>11. CASE batch' = [batch EXCEPT ![p] = c] /\ lost' = lost
  <2>0. o.nfts \in [Nft -> NftRow \cup {None}] /\ o.upd \subseteq Nft
    BY <1>1 DEF Batch
  <2>1. Room(c)
    BY <1>1, <1>8, LookedAt
  <2>2. Held(c, queue)
    <3>1. \A k \in c.tasks : queue[k] # None /\ queue[k].time = None /\ c.nfts[queue[k].nft] # None
      BY <1>1, <1>4, <1>8, <2>0 DEF Held
    <3> QED BY <1>1, <1>8, <3>1 DEF Held
  <2>3. Noted(c)
    BY <1>1, <1>4, <1>8, <2>0 DEF Noted
  <2>4. batch' \in [Processor -> Batch] /\ Apart' /\ BatchesInv' /\ RowsInv'
    BY <1>2, <1>8, <1>11, <2>1, <2>2, <2>3, BatchStep DEF IInv
  <2> QED BY <1>2, <1>5, <1>11, <2>4 DEF IInv, TypeOK
<1> QED BY <1>6, <1>9, <1>10, <1>11

-----------------------------------------------------------------------------
(* The steps that change the tables.                                       *)

\* A batch does not mind what happens to the others, nor to rows it does not have.
LEMMA Untouched ==
    ASSUME IInv, NEW q \in Processor, batch'[q] = batch[q],
           \A i \in batch[q].tasks : queue'[i] = queue[i],
           now' = now, chain_due' = chain_due
    PROVE  (Held(batch[q], queue) /\ Room(batch[q]) /\ Noted(batch[q]))'
<1>1. Held(batch[q], queue) /\ Room(batch[q]) /\ Noted(batch[q])
  BY BatchFacts
<1>2. Held(batch[q], queue')
  <2>1. batch[q].left \subseteq batch[q].tasks
    BY <1>1 DEF Held
  <2> QED BY <1>1, <2>1 DEF Held
<1>3. Noted(batch[q])'
  BY <1>1 DEF Noted, Follows
<1>4. Held(batch'[q], queue') /\ Room(batch'[q])
  BY <1>1, <1>2
<1> QED BY <1>3, <1>4 DEF Held, Room, Noted

\* What a session reads is a row.
LEMMA LoadedRow ==
    ASSUME NEW row \in NftRow
    PROVE  Loaded(row) \in NftRow /\ Loaded(row) # None
<1>1. CASE row.last_notified = None
  BY <1>1, NoneAssumption DEF Loaded
<1>2. CASE row.last_notified # None
  <2>1. row.last_notified \in Stamp
    BY <1>2 DEF NftRow
  <2>2. [row.last_notified EXCEPT !.naive = TRUE] \in Stamp
    BY <2>1 DEF Stamp
  <2>3. Loaded(row) = [row EXCEPT !.last_notified = [row.last_notified EXCEPT !.naive = TRUE]]
    BY <1>2, <2>1, NoneAssumption DEF Loaded, NftRow
  <2>4. Loaded(row) \in NftRow
    BY <2>2, <2>3 DEF NftRow
  <2> QED BY <2>4, NoneAssumption
<1> QED BY <1>1, <1>2

\* A claim takes rows that nobody has.
LEMMA FetchStep ==
    ASSUME IInv, NEW p \in Processor, Fetch(p)
    PROVE  IInv'
<1> PICK ids \in SUBSET {i \in TaskId : IsDue(i)} :
            /\ queue' = ClaimRows(ids)
            /\ batch' = [batch EXCEPT ![p] =
                            [Idle EXCEPT
                               !.pc = "updating",
                               !.tasks = ids,
                               !.left = {i \in ids : queue[i].type = "due"},
                               !.nfts = [n \in Nft |-> IF \E i \in ids : queue[i].nft = n
                                                       THEN Loaded(db[n]) ELSE None]]]
  BY DEF Fetch
<1> DEFINE left == {i \in ids : queue[i].type = "due"}
           nfts == [n \in Nft |-> IF \E i \in ids : queue[i].nft = n THEN Loaded(db[n]) ELSE None]
           b == [Idle EXCEPT !.pc = "updating", !.tasks = ids, !.left = left, !.nfts = nfts]
<1>1. UNCHANGED <<now, chain_due, db, syncing, sent, early, lost, syncs, extended, failed>>
      /\ batch[p].pc = "idle"
  BY DEF Fetch
<1>2. batch' = [batch EXCEPT ![p] = b]
  OBVIOUS
<1>3. \A i \in ids : i \in TaskId /\ queue[i] \in Row /\ queue[i].time # None /\ queue[i].nft \in Nft
                     /\ db[queue[i].nft] # None
  BY DEF IsDue, IInv, TypeOK, RowsInv, Row
<1>4. /\ \A i \in TaskId \ ids : queue'[i] = queue[i]
      /\ \A i \in ids : /\ queue'[i] \in Row /\ queue'[i].time = None /\ queue'[i].nft = queue[i].nft
                        /\ queue'[i].type = queue[i].type /\ queue'[i] # None
  <2>1. queue' = [i \in TaskId |-> IF i \in ids THEN [queue[i] EXCEPT !.time = None] ELSE queue[i]]
    BY DEF ClaimRows
  <2>2. \A r \in Row : /\ [r EXCEPT !.time = None] \in Row /\ [r EXCEPT !.time = None].time = None
                       /\ [r EXCEPT !.time = None].nft = r.nft /\ [r EXCEPT !.time = None].type = r.type
    BY DEF Row
  <2> QED BY <1>3, <2>1, <2>2, NoneAssumption
<1>5. queue' \in [TaskId -> Row \cup {None}]
  <2>1. queue' = [i \in TaskId |-> IF i \in ids THEN [queue[i] EXCEPT !.time = None] ELSE queue[i]]
    BY DEF ClaimRows
  <2>2. \A i \in TaskId : queue'[i] \in Row \cup {None}
    BY <1>4 DEF IInv, TypeOK
  <2> QED BY <2>1, <2>2
<1>6. \A n \in Nft : db[n] \in NftRow => Loaded(db[n]) \in NftRow /\ Loaded(db[n]) # None
  BY LoadedRow
<1>7. nfts \in [Nft -> NftRow \cup {None}] /\ \A i \in ids : nfts[queue[i].nft] # None
  BY <1>3, <1>6 DEF IInv, TypeOK
<1>8. /\ b \in Batch /\ b.pc = "updating" /\ b.tasks = ids /\ b.left = left
      /\ b.upd = {} /\ b.new = <<>> /\ b.nfts = nfts
  <2>1. ids \subseteq TaskId /\ left \subseteq TaskId
    BY <1>3
  <2> HIDE DEF left, nfts
  <2> QED BY <1>7, <2>1, IdleSound DEF Batch
<1> HIDE DEF b, nfts
<1>9. Held(b, queue')
  <2>1. \A i \in b.tasks : queue'[i] # None /\ queue'[i].time = None /\ b.nfts[queue'[i].nft] # None
    BY <1>4, <1>7, <1>8
  <2>2. \A i \in b.left : i \in b.tasks /\ queue'[i].type = "due"
    BY <1>4, <1>8
  <2>3. Len(b.new) = 0
    BY <1>8
  <2> QED BY <1>8, <2>1, <2>2, <2>3 DEF Held
<1>10. Room(b)
  <2>1. IsFiniteSet(TaskId) /\ Cardinality(TaskId) = MaxTasks
    <3>1. 1 \in Int /\ MaxTasks \in Int
      BY BoundAssumption
    <3>2. IsFiniteSet(1 .. MaxTasks)
      BY <3>1, FS_Interval
    <3>3. Cardinality(1 .. MaxTasks) = IF 1 > MaxTasks THEN 0 ELSE MaxTasks - 1 + 1
      BY <3>1, FS_Interval
    <3> QED BY <3>2, <3>3, BoundAssumption DEF TaskId
  <2>2. b.left \in SUBSET TaskId /\ Len(b.new) = 0
    BY <1>8 DEF Batch
  <2>3. Cardinality(b.left) <= MaxTasks /\ Cardinality(b.left) \in Nat
    BY <2>1, <2>2, FS_Subset, FS_CardinalityType
  <2> QED BY <2>2, <2>3, BoundAssumption DEF Room
<1>12. batch' \in [Processor -> Batch] /\ batch'[p] = b
       /\ \A q \in Processor \ {p} : batch'[q] = batch[q]
  BY <1>2, <1>8 DEF IInv, TypeOK
<1>13. \A q \in Processor \ {p} : batch[q].tasks \cap ids = {}
  BY <1>3, BatchFacts DEF Held
<1>14. Apart'
  BY <1>8, <1>12, <1>13 DEF Apart, IInv
<1>15. BatchesInv'
  <2> SUFFICES ASSUME NEW q \in Processor
               PROVE  (Held(batch[q], queue) /\ Room(batch[q]) /\ Noted(batch[q]))'
    BY DEF BatchesInv
  <2>1. CASE q = p
    <3>1. Held(batch'[q], queue') /\ Room(batch'[q])
      BY <1>9, <1>10, <1>12, <2>1
    <3>2. batch'[q].upd = {}
      BY <1>8, <1>12, <2>1
    <3> QED BY <3>1, <3>2 DEF Held, Room, Noted
  <2>2. CASE q # p
    <3>1. batch'[q] = batch[q] /\ \A i \in batch[q].tasks : queue'[i] = queue[i]
      BY <1>4, <1>12, <1>13, <2>2, BatchFacts
    <3> QED BY <1>1, <3>1, Untouched
  <2> QED BY <2>1, <2>2
<1>16. RowsInv'
  <2>1. \A i \in TaskId : queue'[i] # None => db'[queue'[i].nft] # None
    BY <1>1, <1>3, <1>4 DEF RowsInv, IInv
  <2> QED BY <1>1, <2>1 DEF RowsInv, IInv, SyncSound, Follows
<1> QED BY <1>1, <1>5, <1>12, <1>14, <1>15, <1>16 DEF IInv, TypeOK

\* Rows of the table that are in nobody's batch come and go.
LEMMA TableStep ==
    ASSUME IInv, UNCHANGED <<now, chain_due, batch>>,
           \A i \in TaskId : queue[i] # None => queue'[i] = queue[i]
    PROVE  batch' \in [Processor -> Batch] /\ Apart' /\ BatchesInv'
<1>1. batch' \in [Processor -> Batch] /\ Apart'
  BY DEF IInv, TypeOK, Apart
<1>2. BatchesInv'
  <2> SUFFICES ASSUME NEW q \in Processor
               PROVE  (Held(batch[q], queue) /\ Room(batch[q]) /\ Noted(batch[q]))'
    BY DEF BatchesInv
  <2>1. \A i \in batch[q].tasks : i \in TaskId /\ queue[i] # None
    BY BatchFacts DEF Held
  <2> QED BY <2>1, Untouched
<1> QED BY <1>1, <1>2

\* The indexer's insert.
LEMMA IndexStep ==
    ASSUME IInv, NEW n \in Nft, Index(n)
    PROVE  IInv'
<1> DEFINE rows == IF chain_due[n] < now THEN <<>> ELSE <<NoticeRow(n), DueRow(n, chain_due[n])>>
           row == [due |-> chain_due[n], last_notified |-> None]
<1>1. /\ UNCHANGED <<now, chain_due, batch, syncing, sent, early, lost, syncs, extended, failed>>
      /\ db[n] = None /\ db' = [db EXCEPT ![n] = row]
      /\ queue' = Inserted(queue, rows)
  BY DEF Index
<1>2. /\ db \in [Nft -> NftRow \cup {None}] /\ queue \in Table /\ chain_due[n] \in Time /\ now \in Time
  BY DEF IInv, TypeOK, Table
<1>3. row \in NftRow /\ row # None /\ row.due = chain_due[n]
  BY <1>2, NoneAssumption DEF NftRow
<1>4. rows \in Seq(Row) /\ \A j \in 1 .. Len(rows) : rows[j].nft = n
  <2> DEFINE notice == NoticeRow(n)
             next == DueRow(n, chain_due[n])
  <2>1. notice \in Row /\ next \in Row /\ notice.nft = n /\ next.nft = n
    BY <1>2, NewRows
  <2>2. rows = <<>> \/ rows = <<notice, next>>
    OBVIOUS
  <2> HIDE DEF rows, notice, next
  <2>3. CASE rows = <<>>
    BY <2>3
  <2>4. CASE rows = <<notice, next>>
    <3>1. rows \in Seq(Row) /\ Len(rows) = 2 /\ rows[1] = notice /\ rows[2] = next
      BY <2>1, <2>4
    <3>2. \A j \in 1 .. Len(rows) : j = 1 \/ j = 2
      BY <3>1
    <3> QED BY <2>1, <3>1, <3>2
  <2> QED BY <2>2, <2>3, <2>4
<1> HIDE DEF rows, row
<1>5. /\ queue' \in Table
      /\ \A i \in TaskId : queue[i] # None => queue'[i] = queue[i]
      /\ \A i \in TaskId : queue'[i] = queue[i] \/ \E j \in 1 .. Len(rows) : queue'[i] = rows[j]
  BY <1>1, <1>2, <1>4, InsertedRows
<1>6. db' \in [Nft -> NftRow \cup {None}] /\ db'[n] = row /\ \A m \in Nft \ {n} : db'[m] = db[m]
  BY <1>1, <1>2, <1>3
<1>7. batch' \in [Processor -> Batch] /\ Apart' /\ BatchesInv'
  BY <1>1, <1>5, TableStep
<1>8. RowsInv'
  <2>1. \A m \in Nft : db[m] # None => db'[m] # None
    BY <1>1, <1>6
  <2>2. \A i \in TaskId : queue'[i] # None => db'[queue'[i].nft] # None
    <3> SUFFICES ASSUME NEW i \in TaskId, queue'[i] # None PROVE db'[queue'[i].nft] # None
      OBVIOUS
    <3>1. CASE queue'[i] = queue[i]
      <4>1. queue[i].nft \in Nft /\ db[queue[i].nft] # None
        BY <1>2, <3>1 DEF IInv, RowsInv, Table, Row
      <4> QED BY <2>1, <3>1, <4>1
    <3>2. CASE \E j \in 1 .. Len(rows) : queue'[i] = rows[j]
      BY <1>3, <1>4, <1>6, <3>2
    <3> QED BY <1>5, <3>1, <3>2
  <2>3. \A m \in Nft : db'[m] # None => db'[m].due <= chain_due'[m]
    BY <1>1, <1>2, <1>3, <1>6 DEF IInv, RowsInv, Time
  <2>4. \A m \in Nft : syncing[m] # None => db[m] # None /\ SyncSound(m, syncing[m]) /\ syncs[m] < MaxSync
    BY DEF IInv, RowsInv
  <2>5. \A m \in Nft : syncing'[m] # None =>
            db'[m] # None /\ SyncSound(m, syncing[m])' /\ syncs'[m] < MaxSync
    BY <1>1, <2>1, <2>4 DEF SyncSound, Follows
  <2> QED BY <2>2, <2>3, <2>5 DEF RowsInv
<1> QED BY <1>1, <1>5, <1>6, <1>7, <1>8 DEF IInv, TypeOK, Table

\* A synchronisation is started.
LEMMA SyncReadStep ==
    ASSUME IInv, NEW n \in Nft, SyncRead(n)
    PROVE  IInv'
<1> DEFINE row == [Loaded(db[n]) EXCEPT !.due = chain_due[n]]
           f == Following(n, db[n].due, chain_due[n])
           s == [row |-> row, new |-> f]
<1>1. /\ UNCHANGED <<now, chain_due, db, queue, batch, sent, early, lost, syncs, extended, failed>>
      /\ db[n] # None /\ syncs[n] < MaxSync /\ syncing' = [syncing EXCEPT ![n] = s]
  BY DEF SyncRead
<1>2. db[n] \in NftRow /\ chain_due[n] \in Time /\ now \in Time /\ syncing \in [Nft -> Sync \cup {None}]
  BY <1>1 DEF IInv, TypeOK
<1>3. row \in NftRow /\ row.due = chain_due[n]
  BY <1>2, LoadedRow DEF NftRow
<1>4. /\ f \in Seq(Row)
      /\ \A j \in 1 .. Len(f) : f[j].time # None /\ f[j].nft = n
      /\ Follows(f, n, chain_due[n])
      /\ \A j, k \in 1 .. Len(f) : IsDueRow(f[j], n) /\ IsDueRow(f[k], n) => j = k
  BY <1>2, FollowingSound
<1> HIDE DEF row, f
<1>5. s \in Sync /\ s.row = row /\ s.new = f
  BY <1>3, <1>4 DEF Sync
<1>6. SyncSound(n, s)
  BY <1>2, <1>3, <1>4, <1>5 DEF SyncSound, Time
<1> HIDE DEF s
<1>7. /\ syncing' \in [Nft -> Sync \cup {None}] /\ syncing'[n] = s
      /\ \A m \in Nft \ {n} : syncing'[m] = syncing[m]
  BY <1>1, <1>2, <1>5
<1>8. batch' \in [Processor -> Batch] /\ Apart' /\ BatchesInv'
  BY <1>1, TableStep
<1>9. RowsInv'
  <2>1. \A m \in Nft : syncing'[m] # None => SyncSound(m, syncing'[m]) /\ db[m] # None /\ syncs[m] < MaxSync
    BY <1>1, <1>6, <1>7 DEF IInv, RowsInv
  <2>2. \A m \in Nft : syncing'[m] # None =>
            SyncSound(m, syncing[m])' /\ db'[m] # None /\ syncs'[m] < MaxSync
    BY <1>1, <2>1 DEF SyncSound, Follows
  <2> QED BY <1>1, <2>2 DEF IInv, RowsInv
<1> QED BY <1>1, <1>7, <1>8, <1>9 DEF IInv, TypeOK

\* A synchronisation stores what it has in hand.
LEMMA SyncWriteStep ==
    ASSUME IInv, NEW n \in Nft, SyncWrite(n)
    PROVE  IInv'
<1> DEFINE s == syncing[n]
<1>1. /\ UNCHANGED <<now, chain_due, batch, sent, early, lost, extended, failed>>
      /\ s # None /\ db' = [db EXCEPT ![n] = s.row] /\ queue' = Inserted(queue, s.new)
      /\ syncing' = [syncing EXCEPT ![n] = None] /\ syncs' = [syncs EXCEPT ![n] = @ + 1]
  BY DEF SyncWrite
<1>2. /\ s \in Sync /\ SyncSound(n, s) /\ db[n] # None /\ syncs[n] < MaxSync
      /\ db \in [Nft -> NftRow \cup {None}] /\ queue \in Table
      /\ syncing \in [Nft -> Sync \cup {None}] /\ syncs \in [Nft -> 0 .. MaxSync]
  BY <1>1 DEF IInv, RowsInv, TypeOK, Table
<1>3. s.row \in NftRow /\ s.row # None /\ s.new \in Seq(Row)
  BY <1>2, NoneAssumption DEF Sync
<1>4. s.row.due <= chain_due[n] /\ \A j \in 1 .. Len(s.new) : s.new[j].nft = n
  BY <1>2 DEF SyncSound
<1> HIDE DEF s
<1>5. /\ queue' \in Table
      /\ \A i \in TaskId : queue[i] # None => queue'[i] = queue[i]
      /\ \A i \in TaskId : queue'[i] = queue[i] \/ \E j \in 1 .. Len(s.new) : queue'[i] = s.new[j]
  BY <1>1, <1>2, <1>3, InsertedRows
<1>6. db' \in [Nft -> NftRow \cup {None}] /\ db'[n] = s.row /\ \A m \in Nft \ {n} : db'[m] = db[m]
  BY <1>1, <1>2, <1>3
<1>7. syncing' \in [Nft -> Sync \cup {None}] /\ syncing'[n] = None
      /\ \A m \in Nft \ {n} : syncing'[m] = syncing[m] /\ syncs'[m] = syncs[m]
  BY <1>1, <1>2
<1>8. syncs' \in [Nft -> 0 .. MaxSync]
  BY <1>1, <1>2, BoundAssumption
<1>9. batch' \in [Processor -> Batch] /\ Apart' /\ BatchesInv'
  BY <1>1, <1>5, TableStep
<1>10. RowsInv'
  <2>1. \A m \in Nft : db[m] # None => db'[m] # None
    BY <1>3, <1>6
  <2>2. \A i \in TaskId : queue'[i] # None => db'[queue'[i].nft] # None
    <3> SUFFICES ASSUME NEW i \in TaskId, queue'[i] # None PROVE db'[queue'[i].nft] # None
      OBVIOUS
    <3>1. CASE queue'[i] = queue[i]
      <4>1. queue[i].nft \in Nft /\ db[queue[i].nft] # None
        BY <1>2, <3>1 DEF IInv, RowsInv, Table, Row
      <4> QED BY <2>1, <3>1, <4>1
    <3>2. CASE \E j \in 1 .. Len(s.new) : queue'[i] = s.new[j]
      BY <1>3, <1>4, <1>6, <3>2
    <3> QED BY <1>5, <3>1, <3>2
  <2>3. \A m \in Nft : db'[m] # None => db'[m].due <= chain_due'[m]
    BY <1>1, <1>4, <1>6 DEF IInv, RowsInv
  <2>4. \A m \in Nft : syncing[m] # None => db[m] # None /\ SyncSound(m, syncing[m]) /\ syncs[m] < MaxSync
    BY DEF IInv, RowsInv
  <2>5. \A m \in Nft : syncing'[m] # None =>
            db'[m] # None /\ SyncSound(m, syncing'[m]) /\ syncs'[m] < MaxSync
    BY <1>7, <2>1, <2>4
  <2>6. \A m \in Nft : syncing'[m] # None =>
            db'[m] # None /\ SyncSound(m, syncing[m])' /\ syncs'[m] < MaxSync
    BY <1>1, <2>5 DEF SyncSound, Follows
  <2> QED BY <2>2, <2>3, <2>6 DEF RowsInv
<1> QED BY <1>1, <1>5, <1>6, <1>7, <1>8, <1>9, <1>10 DEF IInv, TypeOK, Table

\* What the completing transaction leaves of the table.
LEMMA WrittenRows ==
    ASSUME IInv, NEW p \in Processor, Write(p)
    PROVE  LET rest == DeleteRows(batch[p].tasks)
           IN  /\ rest \in Table /\ queue' \in Table
               /\ \A i \in batch[p].tasks : rest[i] = None
               /\ \A i \in TaskId \ batch[p].tasks : rest[i] = queue[i]
               /\ \A i \in TaskId \ batch[p].tasks : queue[i] # None => queue'[i] = queue[i]
               /\ \A i \in TaskId : \/ i \notin batch[p].tasks /\ queue'[i] = queue[i]
                                    \/ queue'[i] = None
                                    \/ \E j \in 1 .. Len(batch[p].new) : queue'[i] = batch[p].new[j]
               /\ \A j \in 1 .. Len(batch[p].new) : \E i \in TaskId : queue'[i] = batch[p].new[j]
<1> DEFINE o == batch[p]
           rest == DeleteRows(o.tasks)
<1>1. queue' = Inserted(rest, o.new) /\ Fits(rest, o.new)
  BY DEF Write
<1>2. o \in Batch /\ Held(o, queue) /\ queue \in Table
  BY BatchFacts DEF IInv, TypeOK, Table
<1>3. o.tasks \subseteq TaskId /\ o.new \in Seq(Row)
  BY <1>2 DEF Batch
<1>4. \A i \in o.tasks : queue[i] # None /\ queue[i].time = None
  BY <1>2 DEF Held
<1>5. \A i \in o.tasks : rest[i] = None
  BY <1>3, <1>4 DEF DeleteRows
<1>6. \A i \in TaskId \ o.tasks : rest[i] = queue[i]
  BY DEF DeleteRows
<1>7. rest \in Table
  BY <1>2 DEF DeleteRows, Table
<1> HIDE DEF o, rest
<1>8. /\ queue' \in Table
      /\ \A i \in TaskId : rest[i] # None => queue'[i] = rest[i]
      /\ \A i \in TaskId : queue'[i] = rest[i] \/ \E j \in 1 .. Len(o.new) : queue'[i] = o.new[j]
      /\ \A j \in 1 .. Len(o.new) : \E i \in TaskId : queue'[i] = o.new[j]
  BY <1>1, <1>3, <1>7, InsertedRows
<1> QED BY <1>5, <1>6, <1>7, <1>8 DEF o, rest

\* The completing transaction.
LEMMA WriteStep ==
    ASSUME IInv, NEW p \in Processor, Write(p)
    PROVE  IInv'
<1> DEFINE o == batch[p]
<1>1. /\ UNCHANGED <<now, chain_due, syncing, sent, early, lost, syncs, extended, failed>>
      /\ batch' = [batch EXCEPT ![p] = Idle]
      /\ db' = [n \in Nft |-> IF n \in o.upd THEN o.nfts[n] ELSE db[n]]
  BY DEF Write
<1>2. /\ o \in Batch /\ Held(o, queue) /\ Noted(o)
      /\ db \in [Nft -> NftRow \cup {None}] /\ queue \in Table /\ batch \in [Processor -> Batch]
  BY BatchFacts DEF IInv, TypeOK, Table
<1>3. o.upd \subseteq Nft /\ o.nfts \in [Nft -> NftRow \cup {None}] /\ o.tasks \subseteq TaskId
  BY <1>2 DEF Batch
<1>4. db' \in [Nft -> NftRow \cup {None}]
  BY <1>1, <1>2, <1>3
<1>5. \A n \in Nft : \/ n \in o.upd /\ db'[n] = o.nfts[n] /\ db'[n] # None /\ db'[n].due <= chain_due[n]
                     \/ n \notin o.upd /\ db'[n] = db[n]
  BY <1>1, <1>2, <1>3 DEF Noted
<1>6. /\ queue' \in Table
      /\ \A i \in TaskId \ o.tasks : queue[i] # None => queue'[i] = queue[i]
      /\ \A i \in TaskId : \/ queue'[i] = queue[i]
                           \/ queue'[i] = None
                           \/ \E j \in 1 .. Len(o.new) : queue'[i] = o.new[j]
  BY WrittenRows
<1>7. batch' \in [Processor -> Batch] /\ batch'[p] = Idle
      /\ \A q \in Processor \ {p} : batch'[q] = batch[q]
  BY <1>1, <1>2, IdleSound
<1>8. Apart'
  BY <1>7, IdleSound DEF Apart, IInv
<1>9. BatchesInv'
  <2> SUFFICES ASSUME NEW q \in Processor
               PROVE  (Held(batch[q], queue) /\ Room(batch[q]) /\ Noted(batch[q]))'
    BY DEF BatchesInv
  <2>1. CASE q = p
    <3>1. batch'[q] = Idle
      BY <1>7, <2>1
    <3>2. Len(<<>>) = 0
      OBVIOUS
    <3> QED BY <3>1, <3>2, IdleSound DEF Held, Room, Noted
  <2>2. CASE q # p
    <3>1. \A i \in batch[q].tasks : i \in TaskId \ o.tasks /\ queue[i] # None
      BY <2>2, BatchFacts DEF Held, IInv, Apart
    <3> QED BY <1>1, <1>6, <1>7, <2>2, <3>1, Untouched
  <2> QED BY <2>1, <2>2
<1>10. RowsInv'
  <2>1. \A n \in Nft : db[n] # None => db'[n] # None
    BY <1>5
  <2>2. \A j \in 1 .. Len(o.new) : o.new[j].nft \in Nft /\ db[o.new[j].nft] # None
    <3> TAKE j \in 1 .. Len(o.new)
    <3>1. PICK i \in o.tasks : queue[i].nft = o.new[j].nft
      BY <1>2 DEF Held
    <3>2. i \in TaskId /\ queue[i] # None /\ queue[i].nft \in Nft
      BY <1>2, <1>3, BatchFacts DEF Held
    <3> QED BY <3>1, <3>2 DEF IInv, RowsInv
  <2>3. \A i \in TaskId : queue'[i] # None => db'[queue'[i].nft] # None
    <3> SUFFICES ASSUME NEW i \in TaskId, queue'[i] # None PROVE db'[queue'[i].nft] # None
      OBVIOUS
    <3>1. CASE queue'[i] = queue[i]
      <4>1. queue[i].nft \in Nft /\ db[queue[i].nft] # None
        BY <1>2, <3>1 DEF IInv, RowsInv, Table, Row
      <4> QED BY <2>1, <3>1, <4>1
    <3>2. CASE \E j \in 1 .. Len(o.new) : queue'[i] = o.new[j]
      BY <2>1, <2>2, <3>2
    <3> QED BY <1>6, <3>1, <3>2
  <2>4. \A n \in Nft : db'[n] # None => db'[n].due <= chain_due'[n]
    BY <1>1, <1>5 DEF IInv, RowsInv
  <2>5. \A m \in Nft : syncing[m] # None => db[m] # None /\ SyncSound(m, syncing[m]) /\ syncs[m] < MaxSync
    BY DEF IInv, RowsInv
  <2>6. \A m \in Nft : syncing'[m] # None =>
            db'[m] # None /\ SyncSound(m, syncing[m])' /\ syncs'[m] < MaxSync
    BY <1>1, <2>1, <2>5 DEF SyncSound, Follows
  <2> QED BY <2>3, <2>4, <2>6 DEF RowsInv
<1> QED BY <1>1, <1>4, <1>6, <1>7, <1>8, <1>9, <1>10 DEF IInv, TypeOK, Table

\* Due times on the chain grow.
LEMMA ExtendStep ==
    ASSUME IInv, NEW n \in Nft, NEW due \in Time, Extend(n, due)
    PROVE  IInv'
<1>1. /\ UNCHANGED <<now, db, queue, batch, syncing, sent, early, lost, syncs, failed>>
      /\ due > chain_due[n] /\ chain_due' = [chain_due EXCEPT ![n] = due]
      /\ extended' \in 0 .. MaxExtend
  BY BoundAssumption DEF Extend, IInv, TypeOK
<1>2. chain_due \in [Nft -> Time]
  BY DEF IInv, TypeOK
<1>3. chain_due' \in [Nft -> Time] /\ \A m \in Nft : chain_due[m] <= chain_due'[m]
  BY <1>1, <1>2 DEF Time
<1>4. \A m \in Nft : chain_due[m] \in Int /\ chain_due'[m] \in Int
  BY <1>2, <1>3 DEF Time
<1>5. \A r \in NftRow : r.due \in Int
  BY DEF NftRow, Time
<1>6. Apart'
  BY <1>1 DEF IInv, Apart
<1>7. BatchesInv'
  <2> SUFFICES ASSUME NEW q \in Processor
               PROVE  (Held(batch[q], queue) /\ Room(batch[q]) /\ Noted(batch[q]))'
    BY DEF BatchesInv
  <2>1. Held(batch[q], queue) /\ Room(batch[q]) /\ Noted(batch[q]) /\ batch[q] \in Batch
    BY BatchFacts
  <2>2. \A m \in batch[q].upd : m \in Nft /\ batch[q].nfts[m] \in NftRow
    BY <2>1 DEF Noted, Batch
  <2>3. \A m \in batch[q].upd : batch[q].nfts[m].due <= chain_due'[m]
    BY <1>3, <1>4, <1>5, <2>1, <2>2 DEF Noted
  <2> QED BY <1>1, <2>1, <2>3 DEF Held, Room, Noted, Follows
<1>8. RowsInv'
  <2>1. \A m \in Nft : db[m] # None => db[m].due <= chain_due'[m]
    BY <1>3, <1>4, <1>5 DEF IInv, RowsInv, TypeOK
  <2>2. \A m \in Nft : syncing[m] # None =>
            db[m] # None /\ SyncSound(m, syncing[m])' /\ syncs[m] < MaxSync
    <3> SUFFICES ASSUME NEW m \in Nft, syncing[m] # None
                 PROVE  db[m] # None /\ SyncSound(m, syncing[m])' /\ syncs[m] < MaxSync
      OBVIOUS
    <3>1. db[m] # None /\ SyncSound(m, syncing[m]) /\ syncs[m] < MaxSync
      BY DEF IInv, RowsInv
    <3>2. syncing[m].row \in NftRow
      BY DEF IInv, TypeOK, Sync
    <3>3. syncing[m].row.due <= chain_due'[m]
      BY <1>3, <1>4, <1>5, <3>1, <3>2 DEF SyncSound
    <3> QED BY <1>1, <3>1, <3>3 DEF SyncSound, Follows
  <2> QED BY <1>1, <2>1, <2>2 DEF IInv, RowsInv
<1> QED BY <1>1, <1>3, <1>6, <1>7, <1>8 DEF IInv, TypeOK

\* What has a task still to come for a later due time has it all the more later.
LEMMA TickStep ==
    ASSUME IInv, Tick
    PROVE  IInv'
<1>1. /\ UNCHANGED <<chain_due, db, queue, batch, syncing, sent, early, lost, syncs, extended, failed>>
      /\ now \in Time /\ now' \in Time /\ now' = now + 1
  BY BoundAssumption DEF Tick, IInv, TypeOK, Time
<1>3. \A r \in NftRow : r.due \in Int
  BY DEF NftRow, Time
<1>4. Apart'
  BY <1>1 DEF IInv, Apart
<1>5. BatchesInv'
  <2> SUFFICES ASSUME NEW q \in Processor
               PROVE  (Held(batch[q], queue) /\ Room(batch[q]) /\ Noted(batch[q]))'
    BY DEF BatchesInv
  <2>1. Held(batch[q], queue) /\ Room(batch[q]) /\ Noted(batch[q]) /\ batch[q] \in Batch
    BY BatchFacts
  <2>2. \A m \in batch[q].upd : m \in Nft /\ batch[q].nfts[m] \in NftRow
    BY <2>1 DEF Noted, Batch
  <2>3. \A m \in batch[q].upd : Follows(batch[q].new, m, batch[q].nfts[m].due)'
    BY <1>1, <1>3, <2>1, <2>2 DEF Noted, Follows, Time
  <2> QED BY <1>1, <2>1, <2>3 DEF Held, Room, Noted
<1>6. RowsInv'
  <2>1. \A m \in Nft : syncing[m] # None =>
            db[m] # None /\ SyncSound(m, syncing[m])' /\ syncs[m] < MaxSync
    <3> SUFFICES ASSUME NEW m \in Nft, syncing[m] # None
                 PROVE  db[m] # None /\ SyncSound(m, syncing[m])' /\ syncs[m] < MaxSync
      OBVIOUS
    <3>1. db[m] # None /\ SyncSound(m, syncing[m]) /\ syncs[m] < MaxSync
      BY DEF IInv, RowsInv
    <3>2. syncing[m].row.due \in Int
      BY <1>3 DEF IInv, TypeOK, Sync
    <3> QED BY <1>1, <3>1, <3>2 DEF SyncSound, Follows, Time
  <2> QED BY <1>1, <2>1 DEF IInv, RowsInv
<1> QED BY <1>1, <1>4, <1>5, <1>6 DEF IInv, TypeOK

\* At the start the tables are empty and nobody has anything in hand.
LEMMA InitIInv == Init => IInv
<1> SUFFICES ASSUME Init PROVE IInv
  OBVIOUS
<1>1. TypeOK
  BY IdleSound, BoundAssumption DEF Init, TypeOK, Time
<1>2. \A p \in Processor : batch[p] = Idle
  BY DEF Init
<1>3. Apart /\ BatchesInv
  BY <1>2, IdleSound DEF Apart, BatchesInv
<1>4. RowsInv
  BY DEF Init, RowsInv
<1> QED BY <1>1, <1>3, <1>4 DEF IInv

LEMMA NextIInv == IInv /\ [Next]_vars => IInv'
<1> SUFFICES ASSUME IInv, [Next]_vars PROVE IInv'
  OBVIOUS
<1>1. CASE Tick
  BY <1>1, TickStep
<1>2. ASSUME NEW p \in Processor, ProcessorStep(p)
      PROVE  IInv'
  <2>1. CASE Fetch(p)
    BY <2>1, FetchStep
  <2>2. ASSUME NEW i \in TaskId, UpdateNft(p, i) \/ UpdateError(p, i) \/ ProcessTask(p, i)
        PROVE  IInv'
    BY <2>2, UpdateStep, UpdateErrorStep, ProcessStep
  <2>3. CASE Updated(p)
    BY <2>3, UpdatedStep
  <2>4. CASE Write(p)
    BY <2>4, WriteStep
  <2>5. CASE Fail(p)
    BY <2>5, FailStep
  <2> QED BY <1>2, <2>1, <2>2, <2>3, <2>4, <2>5 DEF ProcessorStep
<1>3. ASSUME NEW n \in Nft, NftStep(n)
      PROVE  IInv'
  BY <1>3, IndexStep, SyncReadStep, SyncWriteStep, ExtendStep DEF NftStep
<1>4. CASE UNCHANGED vars
  BY <1>4 DEF vars, IInv, TypeOK, Apart, BatchesInv, RowsInv, Held, Room, Noted, SyncSound, Follows
<1> QED BY <1>1, <1>2, <1>3, <1>4 DEF Next

LEMMA Invariance == Spec => []IInv
<1> QED BY InitIInv, NextIInv, PTL DEF Spec

\* The variables keep to their types.
THEOREM Typing == Spec => []TypeOK
<1>1. IInv => TypeOK
  BY DEF IInv
<1> QED BY <1>1, Invariance, PTL

-----------------------------------------------------------------------------
(* What the steps do to the rows and the batches.                          *)

LEMMA FetchFacts ==
    ASSUME IInv, NEW p \in Processor, Fetch(p)
    PROVE  \E ids \in SUBSET TaskId :
              /\ batch[p].pc = "idle" /\ batch[p].new = <<>>
              /\ batch'[p].pc = "updating" /\ batch'[p].tasks = ids /\ batch'[p].new = <<>>
              /\ batch'[p].left = {i \in ids : queue[i].type = "due"}
              /\ \A q \in Processor \ {p} : batch'[q] = batch[q]
              /\ \A i \in TaskId \ ids : queue'[i] = queue[i]
              /\ \A i \in ids : /\ queue[i] \in Row /\ queue[i] # None /\ queue[i].time # None
                                /\ queue'[i] # None /\ queue'[i].time = None
                                /\ queue'[i].nft = queue[i].nft /\ queue'[i].type = queue[i].type
              /\ UNCHANGED <<now, chain_due, db, syncing, lost, syncs>>
<1> PICK ids \in SUBSET {i \in TaskId : IsDue(i)} :
            /\ queue' = ClaimRows(ids)
            /\ batch' = [batch EXCEPT ![p] =
                            [Idle EXCEPT
                               !.pc = "updating",
                               !.tasks = ids,
                               !.left = {i \in ids : queue[i].type = "due"},
                               !.nfts = [n \in Nft |-> IF \E i \in ids : queue[i].nft = n
                                                       THEN Loaded(db[n]) ELSE None]]]
  BY DEF Fetch
<1> DEFINE left == {i \in ids : queue[i].type = "due"}
           nfts == [n \in Nft |-> IF \E i \in ids : queue[i].nft = n THEN Loaded(db[n]) ELSE None]
           b == [Idle EXCEPT !.pc = "updating", !.tasks = ids, !.left = left, !.nfts = nfts]
<1>1. batch[p].pc = "idle" /\ batch[p].new = <<>>
  BY BatchFacts DEF Fetch, Held
<1>2. UNCHANGED <<now, chain_due, db, syncing, lost, syncs>>
  BY DEF Fetch
<1>3. batch' = [batch EXCEPT ![p] = b] /\ batch \in [Processor -> Batch]
  BY DEF IInv, TypeOK
<1>4. b.pc = "updating" /\ b.tasks = ids /\ b.left = left /\ b.new = <<>>
  <2> HIDE DEF left, nfts
  <2> QED BY DEF Idle
<1> HIDE DEF b
<1>5. batch'[p] = b /\ \A q \in Processor \ {p} : batch'[q] = batch[q]
  BY <1>3
<1>6. \A i \in ids : i \in TaskId /\ queue[i] \in Row /\ queue[i] # None /\ queue[i].time # None
  BY DEF IsDue, IInv, TypeOK
<1>7. /\ \A i \in TaskId \ ids : queue'[i] = queue[i]
      /\ \A i \in ids : /\ queue'[i] # None /\ queue'[i].time = None
                        /\ queue'[i].nft = queue[i].nft /\ queue'[i].type = queue[i].type
  <2>1. queue' = [i \in TaskId |-> IF i \in ids THEN [queue[i] EXCEPT !.time = None] ELSE queue[i]]
    BY DEF ClaimRows
  <2>2. \A r \in Row : /\ [r EXCEPT !.time = None] \in Row /\ [r EXCEPT !.time = None].time = None
                       /\ [r EXCEPT !.time = None].nft = r.nft /\ [r EXCEPT !.time = None].type = r.type
    BY DEF Row
  <2> QED BY <1>6, <2>1, <2>2, NoneAssumption
<1> HIDE DEF left
<1>8. /\ batch'[p].pc = "updating" /\ batch'[p].tasks = ids /\ batch'[p].new = <<>>
      /\ batch'[p].left = left
  BY <1>4, <1>5
<1>9. ids \in SUBSET TaskId
  BY <1>6
<1> QED BY <1>1, <1>2, <1>5, <1>6, <1>7, <1>8, <1>9 DEF left

LEMMA UpdateFacts ==
    ASSUME IInv, NEW p \in Processor, NEW i \in TaskId, UpdateNft(p, i)
    PROVE  \E old :
              LET n == queue[i].nft
                  f == Following(n, old, chain_due[n])
              IN  /\ batch[p].pc = "updating" /\ i \in batch[p].left
                  /\ queue[i] # None /\ IsDueRow(queue[i], n) /\ n \in Nft /\ chain_due[n] \in Time
                  /\ batch'[p].pc = "updating" /\ batch'[p].tasks = batch[p].tasks
                  /\ batch'[p].left = batch[p].left \ {i} /\ batch'[p].new = batch[p].new \o f
                  /\ batch[p].new \in Seq(Row)
                  /\ f \in Seq(Row) /\ Follows(f, n, chain_due[n])
                  /\ \A j \in 1 .. Len(f) : f[j].nft = n
                  /\ \A j, k \in 1 .. Len(f) : IsDueRow(f[j], n) /\ IsDueRow(f[k], n) => j = k
                  /\ \A q \in Processor \ {p} : batch'[q] = batch[q]
                  /\ UNCHANGED <<now, chain_due, db, queue, syncing, lost, syncs>>
<1> DEFINE o == batch[p]
           n == queue[i].nft
           old == o.nfts[n].due
           due == chain_due[n]
           f == Following(n, old, due)
<1>1. /\ o \in Batch /\ Held(o, queue) /\ o.pc = "updating" /\ i \in o.left /\ n \in Nft
      /\ batch \in [Processor -> Batch]
  BY BatchFacts DEF UpdateNft, IInv, TypeOK
<1>2. queue[i] # None /\ queue[i].type = "due" /\ o.new \in Seq(Row)
  BY <1>1 DEF Held, Batch
<1>3. now \in Time /\ due \in Time
  BY <1>1 DEF IInv, TypeOK
<1>4. /\ f \in Seq(Row)
      /\ \A j \in 1 .. Len(f) : f[j].time # None /\ f[j].nft = n
      /\ Follows(f, n, due)
      /\ \A j, k \in 1 .. Len(f) : IsDueRow(f[j], n) /\ IsDueRow(f[k], n) => j = k
  BY <1>1, <1>3, FollowingSound
<1>5. /\ batch'[p].pc = "updating" /\ batch'[p].tasks = o.tasks
      /\ batch'[p].left = o.left \ {i} /\ batch'[p].new = o.new \o f
  BY <1>1 DEF UpdateNft, Batch
<1>6. \A q \in Processor \ {p} : batch'[q] = batch[q]
  BY <1>1 DEF UpdateNft
<1>7. UNCHANGED <<now, chain_due, db, queue, syncing, lost, syncs>>
  BY DEF UpdateNft
<1> HIDE DEF f
<1>8. /\ o.pc = "updating" /\ i \in o.left
      /\ queue[i] # None /\ IsDueRow(queue[i], n) /\ n \in Nft /\ due \in Time
      /\ batch'[p].pc = "updating" /\ batch'[p].tasks = o.tasks
      /\ batch'[p].left = o.left \ {i} /\ batch'[p].new = o.new \o f
      /\ o.new \in Seq(Row)
      /\ f \in Seq(Row) /\ Follows(f, n, due)
      /\ \A j \in 1 .. Len(f) : f[j].nft = n
      /\ \A j, k \in 1 .. Len(f) : IsDueRow(f[j], n) /\ IsDueRow(f[k], n) => j = k
      /\ \A q \in Processor \ {p} : batch'[q] = batch[q]
      /\ UNCHANGED <<now, chain_due, db, queue, syncing, lost, syncs>>
  BY <1>1, <1>2, <1>3, <1>4, <1>5, <1>6, <1>7 DEF IsDueRow
<1> WITNESS old
<1> QED BY <1>8 DEF f

\* The other steps within a batch read no NFT: they lose it, or only look at one row less.
LEMMA OtherFacts ==
    ASSUME IInv, NEW p \in Processor,
           \/ \E i \in TaskId : UpdateError(p, i) \/ ProcessTask(p, i)
           \/ Updated(p)
           \/ Fail(p)
    PROVE  /\ batch[p].pc # "idle"
           /\ \A q \in Processor \ {p} : batch'[q] = batch[q]
           /\ UNCHANGED <<now, chain_due, db, queue, syncing, syncs>> /\ lost \subseteq lost'
           /\ \/ batch'[p] = Idle /\ InHands(p) \subseteq lost'
              \/ /\ batch'[p].pc # "idle" /\ batch'[p].tasks = batch[p].tasks
                 /\ batch'[p].new = batch[p].new
                 /\ batch'[p].pc = "updating" =>
                        batch[p].pc = "updating" /\ batch'[p].left \subseteq batch[p].left
                 /\ \A i \in batch[p].left : batch[p].pc = "updating" =>
                        \/ batch'[p].pc = "updating" /\ i \in batch'[p].left
                        \/ queue[i].nft \in lost'
<1>0. batch \in [Processor -> Batch]
  BY DEF IInv, TypeOK
<1>1. ASSUME Abandon(p)
      PROVE  /\ batch'[p] = Idle /\ InHands(p) \subseteq lost' /\ lost \subseteq lost'
             /\ \A q \in Processor \ {p} : batch'[q] = batch[q]
  BY <1>0, <1>1 DEF Abandon
<1>2. CASE \E i \in TaskId : UpdateError(p, i)
  <2>1. PICK i \in TaskId : UpdateError(p, i)
    BY <1>2
  <2>2. /\ batch'[p].pc = "updating" /\ batch[p].pc = "updating" /\ batch'[p].tasks = batch[p].tasks
        /\ batch'[p].new = batch[p].new /\ batch'[p].left = batch[p].left \ {i}
    BY <1>0, <2>1 DEF UpdateError, Batch
  <2>3. queue[i].nft \in lost' /\ \A q \in Processor \ {p} : batch'[q] = batch[q]
    BY <1>0, <2>1 DEF UpdateError
  <2>4. UNCHANGED <<now, chain_due, db, queue, syncing, syncs>> /\ lost \subseteq lost'
    BY <2>1 DEF UpdateError
  <2> QED BY <2>2, <2>3, <2>4
<1>3. CASE \E i \in TaskId : ProcessTask(p, i)
  <2>1. PICK i \in TaskId : ProcessTask(p, i)
    BY <1>3
  <2>2. batch[p].pc = "processing" /\ UNCHANGED <<now, chain_due, db, queue, syncing, syncs>>
    BY <2>1 DEF ProcessTask
  <2>3. \/ Abandon(p)
        \/ batch' = [batch EXCEPT ![p].left = @ \ {i}] /\ lost' = lost
        \/ /\ batch' = [batch EXCEPT ![p].left = @ \ {i},
                                     ![p].nfts[queue[i].nft].last_notified = [time |-> now, naive |-> FALSE]]
           /\ lost' = lost
    BY <2>1 DEF ProcessTask
  <2>4. CASE Abandon(p)
    BY <1>1, <2>2, <2>4
  <2>5. CASE batch' = [batch EXCEPT ![p].left = @ \ {i}] /\ lost' = lost
    BY <1>0, <2>2, <2>5 DEF Batch
  <2>6. CASE /\ batch' = [batch EXCEPT ![p].left = @ \ {i},
                                       ![p].nfts[queue[i].nft].last_notified = [time |-> now, naive |-> FALSE]]
             /\ lost' = lost
    BY <1>0, <2>2, <2>6 DEF Batch
  <2> QED BY <2>3, <2>4, <2>5, <2>6
<1>4. CASE Updated(p)
  <2>1. /\ batch'[p].pc = "processing" /\ batch[p].pc = "updating" /\ batch'[p].tasks = batch[p].tasks
        /\ batch'[p].new = batch[p].new /\ batch[p].left = {}
    BY <1>0, <1>4 DEF Updated, Batch
  <2>2. \A q \in Processor \ {p} : batch'[q] = batch[q]
    BY <1>0, <1>4 DEF Updated
  <2>3. UNCHANGED <<now, chain_due, db, queue, syncing, syncs>> /\ lost' = lost
    BY <1>4 DEF Updated
  <2> QED BY <2>1, <2>2, <2>3
<1>5. CASE Fail(p)
  BY <1>1, <1>5 DEF Fail
<1> QED BY <1>2, <1>3, <1>4, <1>5

\* The rows of a new NFT.
LEMMA IndexFacts ==
    ASSUME IInv, NEW n \in Nft, Index(n)
    PROVE  \E rows \in Seq(Row) :
              /\ Fits(queue, rows) /\ queue' = Inserted(queue, rows)
              /\ \A j \in 1 .. Len(rows) : rows[j].time # None /\ rows[j].nft = n
              /\ Follows(rows, n, chain_due[n])
              /\ \A j, k \in 1 .. Len(rows) : IsDueRow(rows[j], n) /\ IsDueRow(rows[k], n) => j = k
              /\ db[n] = None /\ db'[n].due = chain_due[n] /\ \A m \in Nft \ {n} : db'[m] = db[m]
              /\ UNCHANGED <<now, chain_due, batch, syncing, lost, syncs>>
<1> DEFINE notice == NoticeRow(n)
           next == DueRow(n, chain_due[n])
           rows == IF chain_due[n] < now THEN <<>> ELSE <<notice, next>>
<1>1. /\ UNCHANGED <<now, chain_due, batch, syncing, lost, syncs>>
      /\ Fits(queue, rows) /\ queue' = Inserted(queue, rows) /\ db[n] = None
  BY DEF Index
<1>2. db'[n].due = chain_due[n] /\ \A m \in Nft \ {n} : db'[m] = db[m]
  BY DEF Index, IInv, TypeOK
<1>3. now \in Int /\ chain_due[n] \in Int
  BY DEF IInv, TypeOK, Time
<1>4. /\ notice \in Row /\ next \in Row /\ notice.time # None /\ next.time # None
      /\ notice.nft = n /\ next.nft = n /\ ~ IsDueRow(notice, n) /\ IsDueRow(next, n)
  BY NewRows DEF IInv, TypeOK
<1>5. (rows = <<>> /\ chain_due[n] < now) \/ rows = <<notice, next>>
  OBVIOUS
<1> HIDE DEF rows, notice, next
<1>6. CASE rows = <<>> /\ chain_due[n] < now
  <2>1. rows \in Seq(Row) /\ Len(rows) = 0 /\ ~ (chain_due[n] > now)
    BY <1>3, <1>6
  <2>2. Follows(rows, n, chain_due[n])
    BY <2>1 DEF Follows
  <2>3. \A j \in 1 .. Len(rows) : FALSE
    BY <2>1
  <2> QED BY <1>1, <1>2, <2>1, <2>2, <2>3
<1>7. CASE rows = <<notice, next>>
  <2>1. rows \in Seq(Row) /\ Len(rows) = 2 /\ rows[1] = notice /\ rows[2] = next
    BY <1>4, <1>7
  <2>2. \A j \in 1 .. Len(rows) : j = 1 \/ j = 2
    BY <2>1
  <2>3. Follows(rows, n, chain_due[n])
    BY <1>4, <2>1 DEF Follows
  <2> QED BY <1>1, <1>2, <1>4, <2>1, <2>2, <2>3
<1> QED BY <1>5, <1>6, <1>7

-----------------------------------------------------------------------------
(* Stuck rows.                                                             *)

\* A step that leaves the table alone, and batches too, unless their NFTs are lost.
LEMMA StuckQuiet ==
    ASSUME IInv, StuckOnlyAfterError, queue' = queue, lost \subseteq lost',
           \A p \in Processor :
               \/ batch'[p].tasks = batch[p].tasks /\ (batch[p].pc # "idle" => batch'[p].pc # "idle")
               \/ \A i \in batch[p].tasks : queue[i].nft \in lost'
    PROVE  StuckOnlyAfterError'
<1> SUFFICES ASSUME NEW i \in TaskId, queue'[i] # None, queue'[i].time = None, queue'[i].nft \notin lost'
             PROVE  \E p \in Processor : batch'[p].pc # "idle" /\ i \in batch'[p].tasks
  BY DEF StuckOnlyAfterError
<1>1. PICK p \in Processor : batch[p].pc # "idle" /\ i \in batch[p].tasks
  BY DEF StuckOnlyAfterError
<1> QED BY <1>1

\* A step that inserts rows.
LEMMA StuckInsert ==
    ASSUME IInv, StuckOnlyAfterError, UNCHANGED <<batch, lost>>, NEW rows \in Seq(Row),
           queue' = Inserted(queue, rows), \A j \in 1 .. Len(rows) : rows[j].time # None
    PROVE  StuckOnlyAfterError'
<1> SUFFICES ASSUME NEW i \in TaskId, queue'[i] # None, queue'[i].time = None, queue'[i].nft \notin lost'
             PROVE  \E p \in Processor : batch'[p].pc # "idle" /\ i \in batch'[p].tasks
  BY DEF StuckOnlyAfterError
<1>1. queue \in Table
  BY DEF IInv, TypeOK, Table
<1>2. queue'[i] = queue[i]
  BY <1>1, InsertedRows
<1> QED BY <1>2 DEF StuckOnlyAfterError

LEMMA StuckNext == IInv /\ StuckOnlyAfterError /\ [Next]_vars => StuckOnlyAfterError'
<1> SUFFICES ASSUME IInv, StuckOnlyAfterError, [Next]_vars PROVE StuckOnlyAfterError'
  OBVIOUS
<1>1. ASSUME NEW p \in Processor, Fetch(p)
      PROVE  StuckOnlyAfterError'
  <2> SUFFICES ASSUME NEW i \in TaskId, queue'[i] # None, queue'[i].time = None, queue'[i].nft \notin lost'
               PROVE  \E q \in Processor : batch'[q].pc # "idle" /\ i \in batch'[q].tasks
    BY DEF StuckOnlyAfterError
  <2>1. PICK ids \in SUBSET TaskId :
            /\ batch[p].pc = "idle" /\ batch'[p].pc = "updating" /\ batch'[p].tasks = ids
            /\ \A q \in Processor \ {p} : batch'[q] = batch[q]
            /\ \A k \in TaskId \ ids : queue'[k] = queue[k]
            /\ lost' = lost
    BY <1>1, FetchFacts
  <2>2. CASE i \in ids
    BY <2>1, <2>2
  <2>3. CASE i \notin ids
    <3>1. PICK q \in Processor : batch[q].pc # "idle" /\ i \in batch[q].tasks
      BY <2>1, <2>3 DEF StuckOnlyAfterError
    <3>2. q # p /\ batch'[q] = batch[q]
      BY <2>1, <3>1
    <3> QED BY <3>1, <3>2
  <2> QED BY <2>2, <2>3
<1>2. ASSUME NEW p \in Processor, NEW i \in TaskId, UpdateNft(p, i)
      PROVE  StuckOnlyAfterError'
  BY <1>2, UpdateFacts, StuckQuiet
<1>3. ASSUME NEW p \in Processor,
             \/ \E i \in TaskId : UpdateError(p, i) \/ ProcessTask(p, i)
             \/ Updated(p)
             \/ Fail(p)
      PROVE  StuckOnlyAfterError'
  <2>1. /\ \A q \in Processor \ {p} : batch'[q] = batch[q]
        /\ queue' = queue /\ lost \subseteq lost'
        /\ \/ batch'[p] = Idle /\ InHands(p) \subseteq lost'
           \/ batch'[p].pc # "idle" /\ batch'[p].tasks = batch[p].tasks
    BY <1>3, OtherFacts
  <2>2. InHands(p) \subseteq lost' => \A i \in batch[p].tasks : queue[i].nft \in lost'
    BY DEF InHands
  <2> QED BY <2>1, <2>2, StuckQuiet
<1>4. ASSUME NEW p \in Processor, Write(p)
      PROVE  StuckOnlyAfterError'
  <2> SUFFICES ASSUME NEW i \in TaskId, queue'[i] # None, queue'[i].time = None, queue'[i].nft \notin lost'
               PROVE  \E q \in Processor : batch'[q].pc # "idle" /\ i \in batch'[q].tasks
    BY DEF StuckOnlyAfterError
  <2>1. \A j \in 1 .. Len(batch[p].new) : batch[p].new[j].time # None
    BY BatchFacts DEF Held
  <2>2. i \notin batch[p].tasks /\ queue'[i] = queue[i]
    BY <1>4, <2>1, WrittenRows
  <2>3. lost' = lost /\ \A q \in Processor \ {p} : batch'[q] = batch[q]
    BY <1>4 DEF Write, IInv, TypeOK
  <2>4. PICK q \in Processor : batch[q].pc # "idle" /\ i \in batch[q].tasks
    BY <2>2, <2>3 DEF StuckOnlyAfterError
  <2> QED BY <2>2, <2>3, <2>4
<1>5. ASSUME NEW n \in Nft, Index(n)
      PROVE  StuckOnlyAfterError'
  BY <1>5, IndexFacts, StuckInsert
<1>6. ASSUME NEW n \in Nft, SyncWrite(n)
      PROVE  StuckOnlyAfterError'
  <2>1. UNCHANGED <<batch, lost>> /\ queue' = Inserted(queue, syncing[n].new) /\ syncing[n] # None
    BY <1>6 DEF SyncWrite
  <2>2. syncing[n] \in Sync /\ SyncSound(n, syncing[n])
    BY <2>1 DEF IInv, TypeOK, RowsInv
  <2>3. syncing[n].new \in Seq(Row) /\ \A j \in 1 .. Len(syncing[n].new) : syncing[n].new[j].time # None
    BY <2>2 DEF Sync, SyncSound
  <2> QED BY <2>1, <2>3, StuckInsert
<1>7. ASSUME UNCHANGED <<queue, batch, lost>>
      PROVE  StuckOnlyAfterError'
  BY <1>7, StuckQuiet
<1>8. ASSUME NEW p \in Processor, ProcessorStep(p)
      PROVE  StuckOnlyAfterError'
  BY <1>1, <1>2, <1>3, <1>4, <1>8 DEF ProcessorStep
<1>9. ASSUME NEW n \in Nft, NftStep(n)
      PROVE  StuckOnlyAfterError'
  BY <1>5, <1>6, <1>7, <1>9 DEF NftStep, SyncRead, Extend
<1>10. CASE UNCHANGED vars \/ Tick
  BY <1>7, <1>10 DEF vars, Tick
<1> QED BY <1>8, <1>9, <1>10 DEF Next

\* A claimed row is in the hands of a processor, or one of its NFT's tasks failed: no
\* interleaving of claims, completions and inserts leaves a row that nobody has.
THEOREM StuckRowsAreErrors == Spec => []StuckOnlyAfterError
<1>1. Init => StuckOnlyAfterError
  BY DEF Init, StuckOnlyAfterError
<1> QED BY <1>1, StuckNext, Invariance, PTL DEF Spec

-----------------------------------------------------------------------------
(* The chain of due-date tasks.                                            *)

\* A due-date task of n is in the table or in somebody's hands.
Expected(n) ==
    \/ \E i \in TaskId : queue[i] # None /\ queue[i].time # None /\ IsDueRow(queue[i], n)
    \/ \E p \in Processor :
          \/ \E i \in TaskId : i \in batch[p].left /\ batch[p].pc = "updating" /\ IsDueRow(queue[i], n)
          \/ \E j \in 1 .. Len(batch[p].new) : IsDueRow(batch[p].new[j], n)

Kept == \A n \in Nft \ lost : db[n] # None /\ db[n].due > now => Expected(n)

\* The sets of due-date tasks are finite, before a step and after it.
LEMMA DueTasksFinite ==
    ASSUME NEW n \in Nft
    PROVE  /\ IsFiniteSet(Waiting(n)) /\ Cardinality(Waiting(n)) \in Nat
           /\ IsFiniteSet(Claimed(n)) /\ Cardinality(Claimed(n)) \in Nat
           /\ IsFiniteSet(Coming(n)) /\ Cardinality(Coming(n)) \in Nat
           /\ IsFiniteSet(Waiting(n)') /\ Cardinality(Waiting(n)') \in Nat
           /\ IsFiniteSet(Claimed(n)') /\ Cardinality(Claimed(n)') \in Nat
           /\ IsFiniteSet(Coming(n)') /\ Cardinality(Coming(n)') \in Nat
<1>1. /\ Waiting(n) \in SUBSET TaskId /\ Claimed(n) \in SUBSET TaskId
      /\ Waiting(n)' \in SUBSET TaskId /\ Claimed(n)' \in SUBSET TaskId
  BY DEF Waiting, Claimed
<1>2. IsFiniteSet(Processor \X (1 .. 2 * MaxTasks))
  <2>1. 1 \in Int /\ 2 * MaxTasks \in Int
    BY BoundAssumption
  <2>2. IsFiniteSet(1 .. 2 * MaxTasks)
    BY <2>1, FS_Interval
  <2> QED BY <2>2, BoundAssumption, FS_Product
<1>3. /\ Coming(n) \in SUBSET (Processor \X (1 .. 2 * MaxTasks))
      /\ Coming(n)' \in SUBSET (Processor \X (1 .. 2 * MaxTasks))
  BY DEF Coming
<1>4. /\ IsFiniteSet(Waiting(n)) /\ IsFiniteSet(Claimed(n))
      /\ IsFiniteSet(Waiting(n)') /\ IsFiniteSet(Claimed(n)')
  BY <1>1, RankStep
<1>5. IsFiniteSet(Coming(n)) /\ IsFiniteSet(Coming(n)')
  BY <1>2, <1>3, FS_Subset
<1> QED BY <1>4, <1>5, FS_CardinalityType

\* What is expected is counted.
LEMMA ExpectedCounted ==
    ASSUME IInv, NEW n \in Nft, Expected(n)
    PROVE  DueTasks(n) >= 1
<1>1. Waiting(n) # {} \/ Claimed(n) # {} \/ Coming(n) # {}
  <2>1. CASE \E i \in TaskId : queue[i] # None /\ queue[i].time # None /\ IsDueRow(queue[i], n)
    BY <2>1 DEF Waiting
  <2>2. CASE \E p \in Processor : \E i \in TaskId :
               i \in batch[p].left /\ batch[p].pc = "updating" /\ IsDueRow(queue[i], n)
    <3>1. PICK p \in Processor, i \in TaskId :
                 i \in batch[p].left /\ batch[p].pc = "updating" /\ IsDueRow(queue[i], n)
      BY <2>2
    <3>2. i \in TaskId /\ queue[i] # None
      BY <3>1, BatchFacts DEF Held
    <3>3. i \in Claimed(n)
      BY <3>1, <3>2 DEF Claimed
    <3> QED BY <3>3
  <2>3. CASE \E p \in Processor : \E j \in 1 .. Len(batch[p].new) : IsDueRow(batch[p].new[j], n)
    <3>1. PICK p \in Processor : \E j \in 1 .. Len(batch[p].new) : IsDueRow(batch[p].new[j], n)
      BY <2>3
    <3>2. PICK j \in 1 .. Len(batch[p].new) : IsDueRow(batch[p].new[j], n)
      BY <3>1
    <3>3. Len(batch[p].new) \in Nat /\ Len(batch[p].new) <= 2 * MaxTasks
      BY BatchFacts DEF Room, Batch
    <3>4. j \in 1 .. 2 * MaxTasks /\ j <= Len(batch[p].new)
      BY <3>3, BoundAssumption
    <3>5. <<p, j>> \in Coming(n)
      BY <3>2, <3>4 DEF Coming
    <3> QED BY <3>5
  <2> QED BY <2>1, <2>2, <2>3 DEF Expected
<1>2. /\ Waiting(n) # {} => Cardinality(Waiting(n)) # 0
      /\ Claimed(n) # {} => Cardinality(Claimed(n)) # 0
      /\ Coming(n) # {} => Cardinality(Coming(n)) # 0
  BY DueTasksFinite, FS_EmptySet
<1> DEFINE w == Cardinality(Waiting(n))
           c == Cardinality(Claimed(n))
           k == Cardinality(Coming(n))
<1>3. w \in Nat /\ c \in Nat /\ k \in Nat /\ (w # 0 \/ c # 0 \/ k # 0)
  BY <1>1, <1>2, DueTasksFinite
<1>4. DueTasks(n) = w + c + k
  BY DEF DueTasks
<1> HIDE DEF w, c, k
<1> QED BY <1>3, <1>4

\* Rows that are inserted leave what is expected.
LEMMA ExpectedInserted ==
    ASSUME IInv, NEW n \in Nft, Expected(n), batch' = batch,
           \A i \in TaskId : queue[i] # None => queue'[i] = queue[i]
    PROVE  Expected(n)'
<1>1. CASE \E i \in TaskId : queue[i] # None /\ queue[i].time # None /\ IsDueRow(queue[i], n)
  BY <1>1 DEF Expected, IsDueRow
<1>2. CASE \E p \in Processor : \E i \in TaskId :
             i \in batch[p].left /\ batch[p].pc = "updating" /\ IsDueRow(queue[i], n)
  <2>1. PICK p \in Processor, i \in TaskId :
               i \in batch[p].left /\ batch[p].pc = "updating" /\ IsDueRow(queue[i], n)
    BY <1>2
  <2>2. i \in TaskId /\ queue[i] # None
    BY <2>1, BatchFacts DEF Held
  <2>3. i \in batch'[p].left /\ batch'[p].pc = "updating" /\ queue'[i] = queue[i]
    BY <2>1, <2>2
  <2> QED BY <2>1, <2>3 DEF Expected, IsDueRow
<1>3. CASE \E p \in Processor : \E j \in 1 .. Len(batch[p].new) : IsDueRow(batch[p].new[j], n)
  BY <1>3 DEF Expected, IsDueRow
<1> QED BY <1>1, <1>2, <1>3 DEF Expected

\* A claim takes a due-date task into the processor's hands.
LEMMA ExpectedFetch ==
    ASSUME IInv, NEW p \in Processor, Fetch(p), NEW n \in Nft, Expected(n)
    PROVE  Expected(n)'
<1>1. PICK ids \in SUBSET TaskId :
              /\ batch[p].pc = "idle" /\ batch[p].new = <<>>
              /\ batch'[p].pc = "updating" /\ batch'[p].tasks = ids /\ batch'[p].new = <<>>
              /\ batch'[p].left = {i \in ids : queue[i].type = "due"}
              /\ \A q \in Processor \ {p} : batch'[q] = batch[q]
              /\ \A i \in TaskId \ ids : queue'[i] = queue[i]
              /\ \A i \in ids : /\ queue[i] \in Row /\ queue[i] # None /\ queue[i].time # None
                                /\ queue'[i] # None /\ queue'[i].time = None
                                /\ queue'[i].nft = queue[i].nft /\ queue'[i].type = queue[i].type
  BY FetchFacts
<1>2. CASE \E i \in TaskId : queue[i] # None /\ queue[i].time # None /\ IsDueRow(queue[i], n)
  <2>1. PICK i \in TaskId : queue[i] # None /\ queue[i].time # None /\ IsDueRow(queue[i], n)
    BY <1>2
  <2>2. CASE i \in ids
    <3>1. i \in batch'[p].left /\ IsDueRow(queue'[i], n)
      BY <1>1, <2>1, <2>2 DEF IsDueRow
    <3> QED BY <1>1, <3>1 DEF Expected, IsDueRow
  <2>3. CASE i \notin ids
    BY <1>1, <2>1, <2>3 DEF Expected, IsDueRow
  <2> QED BY <2>2, <2>3
<1>3. CASE \E q \in Processor : \E i \in TaskId :
             i \in batch[q].left /\ batch[q].pc = "updating" /\ IsDueRow(queue[i], n)
  <2>1. PICK q \in Processor, i \in TaskId :
               i \in batch[q].left /\ batch[q].pc = "updating" /\ IsDueRow(queue[i], n)
    BY <1>3
  <2>2. i \in TaskId /\ queue[i].time = None
    BY <2>1, BatchFacts DEF Held
  <2>3. q # p /\ i \notin ids
    BY <1>1, <2>1, <2>2
  <2>4. batch'[q] = batch[q] /\ queue'[i] = queue[i]
    BY <1>1, <2>2, <2>3
  <2> QED BY <2>1, <2>4 DEF Expected, IsDueRow
<1>4. CASE \E q \in Processor : \E j \in 1 .. Len(batch[q].new) : IsDueRow(batch[q].new[j], n)
  <2>1. PICK q \in Processor : \E j \in 1 .. Len(batch[q].new) : IsDueRow(batch[q].new[j], n)
    BY <1>4
  <2>2. q # p
    <3>1. Len(<<>>) = 0
      OBVIOUS
    <3> QED BY <1>1, <2>1, <3>1
  <2>3. batch'[q] = batch[q]
    BY <1>1, <2>2
  <2> QED BY <2>1, <2>3 DEF Expected, IsDueRow
<1> QED BY <1>2, <1>3, <1>4 DEF Expected

\* The processor looked at the due-date task: the one that follows is noted, if the due
\* time lies ahead.
LEMMA ExpectedUpdate ==
    ASSUME IInv, NEW p \in Processor, NEW i \in TaskId, UpdateNft(p, i), NEW n \in Nft, Expected(n),
           db[n] # None, db[n].due > now
    PROVE  Expected(n)'
<1> DEFINE m == queue[i].nft
           due == chain_due[m]
<1>1. PICK f \in Seq(Row) :
              /\ batch[p].pc = "updating" /\ i \in batch[p].left
              /\ IsDueRow(queue[i], m) /\ m \in Nft /\ due \in Time
              /\ batch'[p].pc = "updating"
              /\ batch'[p].left = batch[p].left \ {i} /\ batch'[p].new = batch[p].new \o f
              /\ batch[p].new \in Seq(Row) /\ Follows(f, m, due)
              /\ \A q \in Processor \ {p} : batch'[q] = batch[q]
              /\ UNCHANGED <<now, queue>>
  BY UpdateFacts
<1>2. \A j \in 1 .. Len(batch[p].new) :
          j \in 1 .. Len(batch'[p].new) /\ batch'[p].new[j] = batch[p].new[j]
  BY <1>1, Appended
<1>3. CASE n = m
  <2>1. due > now
    <3>1. db[n] \in NftRow /\ db[n].due <= due /\ now \in Int
      BY <1>3 DEF IInv, TypeOK, RowsInv, Time
    <3>2. db[n].due \in Int /\ due \in Int
      BY <1>1, <3>1 DEF NftRow, Time
    <3> QED BY <3>1, <3>2
  <2>2. Follows(batch[p].new \o f, m, due)
    BY <1>1, Appended
  <2>3. \E j \in 1 .. Len(batch'[p].new) : IsDueRow(batch'[p].new[j], n)
    BY <1>1, <1>3, <2>1, <2>2 DEF Follows
  <2> QED BY <2>3 DEF Expected, IsDueRow
<1>4. CASE n # m
  <2>1. CASE \E k \in TaskId : queue[k] # None /\ queue[k].time # None /\ IsDueRow(queue[k], n)
    BY <1>1, <2>1 DEF Expected, IsDueRow
  <2>2. CASE \E q \in Processor : \E k \in TaskId :
               k \in batch[q].left /\ batch[q].pc = "updating" /\ IsDueRow(queue[k], n)
    <3>1. PICK q \in Processor, k \in TaskId :
                 k \in batch[q].left /\ batch[q].pc = "updating" /\ IsDueRow(queue[k], n)
      BY <2>2
    <3>2. k # i
      BY <1>4, <3>1 DEF IsDueRow
    <3>3. k \in batch'[q].left /\ batch'[q].pc = "updating" /\ queue'[k] = queue[k]
      BY <1>1, <3>1, <3>2
    <3> QED BY <3>1, <3>3 DEF Expected, IsDueRow
  <2>3. CASE \E q \in Processor : \E j \in 1 .. Len(batch[q].new) : IsDueRow(batch[q].new[j], n)
    <3>1. PICK q \in Processor : \E j \in 1 .. Len(batch[q].new) : IsDueRow(batch[q].new[j], n)
      BY <2>3
    <3>2. PICK j \in 1 .. Len(batch[q].new) : IsDueRow(batch[q].new[j], n)
      BY <3>1
    <3>3. j \in 1 .. Len(batch'[q].new) /\ batch'[q].new[j] = batch[q].new[j]
      BY <1>1, <1>2, <3>2
    <3> QED BY <3>2, <3>3 DEF Expected, IsDueRow
  <2> QED BY <2>1, <2>2, <2>3 DEF Expected
<1> QED BY <1>3, <1>4

\* Other steps within a batch drop a due-date task only with its NFT.
LEMMA ExpectedOther ==
    ASSUME IInv, NEW p \in Processor, NEW n \in Nft, Expected(n), n \notin lost',
           \/ \E i \in TaskId : UpdateError(p, i) \/ ProcessTask(p, i)
           \/ Updated(p)
           \/ Fail(p)
    PROVE  Expected(n)'
<1>1. /\ \A q \in Processor \ {p} : batch'[q] = batch[q]
      /\ queue' = queue
      /\ \/ batch'[p] = Idle /\ InHands(p) \subseteq lost'
         \/ /\ batch'[p].new = batch[p].new
            /\ \A i \in batch[p].left : batch[p].pc = "updating" =>
                   \/ batch'[p].pc = "updating" /\ i \in batch'[p].left
                   \/ queue[i].nft \in lost'
  BY OtherFacts
<1>2. InHands(p) \subseteq lost' => \A i \in batch[p].tasks : queue[i].nft \in lost'
  BY DEF InHands
<1>3. CASE \E i \in TaskId : queue[i] # None /\ queue[i].time # None /\ IsDueRow(queue[i], n)
  BY <1>1, <1>3 DEF Expected, IsDueRow
<1>4. CASE \E q \in Processor : \E i \in TaskId :
              i \in batch[q].left /\ batch[q].pc = "updating" /\ IsDueRow(queue[i], n)
  <2>1. PICK q \in Processor, i \in TaskId :
                i \in batch[q].left /\ batch[q].pc = "updating" /\ IsDueRow(queue[i], n)
    BY <1>4
  <2>2. i \in batch[q].tasks /\ queue[i].nft = n
    BY <2>1, BatchFacts DEF IsDueRow
  <2>3. i \in batch'[q].left /\ batch'[q].pc = "updating"
    BY <1>1, <1>2, <2>1, <2>2
  <2> QED BY <1>1, <2>1, <2>3 DEF Expected, IsDueRow
<1>5. CASE \E q \in Processor : \E j \in 1 .. Len(batch[q].new) : IsDueRow(batch[q].new[j], n)
  <2>1. PICK q \in Processor : \E j \in 1 .. Len(batch[q].new) : IsDueRow(batch[q].new[j], n)
    BY <1>5
  <2>2. PICK j \in 1 .. Len(batch[q].new) : IsDueRow(batch[q].new[j], n)
    BY <2>1
  <2>3. \E i \in batch[q].tasks : queue[i].nft = n
    BY <2>2, BatchFacts DEF Held, IsDueRow
  <2>4. batch'[q].new = batch[q].new
    BY <1>1, <1>2, <2>3
  <2> QED BY <2>2, <2>4 DEF Expected, IsDueRow
<1> QED BY <1>3, <1>4, <1>5 DEF Expected

\* The completing transaction inserts what was noted, for the due times it stores.
LEMMA ExpectedWrite ==
    ASSUME IInv, NEW p \in Processor, Write(p), NEW n \in Nft,
           db[n] # None /\ db[n].due > now => Expected(n),
           db'[n] # None, db'[n].due > now
    PROVE  Expected(n)'
<1> DEFINE o == batch[p]
<1>1. /\ o \in Batch /\ Held(o, queue) /\ Noted(o) /\ o.pc = "processing"
      /\ \A q \in Processor \ {p} : batch'[q] = batch[q]
      /\ db'[n] = IF n \in o.upd THEN o.nfts[n] ELSE db[n]
  BY BatchFacts DEF Write, IInv, TypeOK
<1>2. /\ queue' \in Table
      /\ \A i \in TaskId \ o.tasks : queue[i] # None => queue'[i] = queue[i]
      /\ \A j \in 1 .. Len(o.new) : \E i \in TaskId : queue'[i] = o.new[j]
  BY WrittenRows
<1>3. ASSUME NEW j \in 1 .. Len(o.new), IsDueRow(o.new[j], n)
      PROVE  Expected(n)'
  <2>1. PICK i \in TaskId : queue'[i] = o.new[j]
    BY <1>2
  <2>2. o.new[j] \in Row
    BY <1>1 DEF Batch
  <2>3. o.new[j].time # None /\ o.new[j] # None
    BY <1>1, <2>2, NoneAssumption DEF Held
  <2> QED BY <1>3, <2>1, <2>3 DEF Expected, IsDueRow
<1>4. CASE n \in o.upd
  BY <1>1, <1>3, <1>4 DEF Noted, Follows
<1>5. CASE n \notin o.upd
  <2>0. Expected(n)
    BY <1>1, <1>5
  <2>1. CASE \E i \in TaskId : queue[i] # None /\ queue[i].time # None /\ IsDueRow(queue[i], n)
    <3>1. PICK i \in TaskId : queue[i] # None /\ queue[i].time # None /\ IsDueRow(queue[i], n)
      BY <2>1
    <3>2. queue'[i] = queue[i]
      BY <1>1, <1>2, <3>1 DEF Held
    <3> QED BY <3>1, <3>2 DEF Expected, IsDueRow
  <2>2. CASE \E q \in Processor : \E i \in TaskId :
                i \in batch[q].left /\ batch[q].pc = "updating" /\ IsDueRow(queue[i], n)
    <3>1. PICK q \in Processor, i \in TaskId :
                  i \in batch[q].left /\ batch[q].pc = "updating" /\ IsDueRow(queue[i], n)
      BY <2>2
    <3>2. q # p /\ batch'[q] = batch[q]
      BY <1>1, <3>1
    <3>3. i \in batch[q].tasks /\ queue[i] # None
      BY <3>1, BatchFacts DEF Held
    <3>4. i \notin o.tasks
      BY <3>2, <3>3 DEF IInv, Apart
    <3>5. queue'[i] = queue[i]
      BY <1>2, <3>3, <3>4
    <3> QED BY <3>1, <3>2, <3>5 DEF Expected, IsDueRow
  <2>3. CASE \E q \in Processor : \E j \in 1 .. Len(batch[q].new) : IsDueRow(batch[q].new[j], n)
    <3>1. PICK q \in Processor : \E j \in 1 .. Len(batch[q].new) : IsDueRow(batch[q].new[j], n)
      BY <2>3
    <3>2. CASE q = p
      BY <1>3, <3>1, <3>2
    <3>3. CASE q # p
      BY <1>1, <3>1, <3>3 DEF Expected, IsDueRow
    <3> QED BY <3>2, <3>3
  <2> QED BY <2>0, <2>1, <2>2, <2>3 DEF Expected
<1> QED BY <1>4, <1>5

\* Rows that hold a task for the due time make it expected.
LEMMA ExpectedRows ==
    ASSUME IInv, NEW n \in Nft, NEW rows \in Seq(Row), Fits(queue, rows), queue' = Inserted(queue, rows),
           NEW j \in 1 .. Len(rows), IsDueRow(rows[j], n), rows[j].time # None
    PROVE  Expected(n)'
<1>1. queue \in Table
  BY DEF IInv, TypeOK, Table
<1>2. PICK i \in TaskId : queue'[i] = rows[j]
  BY <1>1, InsertedRows
<1>3. rows[j] # None
  <2>1. rows[j] \in Row
    OBVIOUS
  <2> QED BY <2>1, NoneAssumption
<1> QED BY <1>2, <1>3 DEF Expected, IsDueRow

LEMMA KeptNext == IInv /\ Kept /\ [Next]_vars => Kept'
<1> SUFFICES ASSUME IInv, Kept, [Next]_vars,
                    NEW n \in Nft, n \notin lost', db'[n] # None, db'[n].due > now'
             PROVE  Expected(n)'
  BY DEF Kept
<1>1. ASSUME UNCHANGED <<now, db, lost>>
      PROVE  Expected(n)
  BY <1>1 DEF Kept
<1>2. ASSUME UNCHANGED <<queue, batch>>, Expected(n)
      PROVE  Expected(n)'
  BY <1>2 DEF Expected, IsDueRow
<1>3. ASSUME NEW p \in Processor, Fetch(p)
      PROVE  Expected(n)'
  BY <1>1, <1>3, ExpectedFetch DEF Fetch
<1>4. ASSUME NEW p \in Processor, NEW i \in TaskId, UpdateNft(p, i)
      PROVE  Expected(n)'
  <2>1. UNCHANGED <<now, db, lost>>
    BY <1>4 DEF UpdateNft
  <2>2. db[n] # None /\ db[n].due > now
    BY <2>1
  <2> QED BY <1>1, <1>4, <2>1, <2>2, ExpectedUpdate
<1>5. ASSUME NEW p \in Processor,
             \/ \E i \in TaskId : UpdateError(p, i) \/ ProcessTask(p, i)
             \/ Updated(p)
             \/ Fail(p)
      PROVE  Expected(n)'
  <2>1. UNCHANGED <<now, db>> /\ lost \subseteq lost'
    BY <1>5, OtherFacts
  <2>2. Expected(n)
    BY <2>1 DEF Kept
  <2> QED BY <1>5, <2>2, ExpectedOther
<1>6. ASSUME NEW p \in Processor, Write(p)
      PROVE  Expected(n)'
  <2>1. now' = now /\ lost' = lost
    BY <1>6 DEF Write
  <2> QED BY <1>6, <2>1, ExpectedWrite DEF Kept
<1>7. ASSUME NEW m \in Nft, Index(m)
      PROVE  Expected(n)'
  <2>1. PICK rows \in Seq(Row) :
              /\ Fits(queue, rows) /\ queue' = Inserted(queue, rows)
              /\ \A j \in 1 .. Len(rows) : rows[j].time # None
              /\ Follows(rows, m, chain_due[m])
              /\ db'[m].due = chain_due[m] /\ \A k \in Nft \ {m} : db'[k] = db[k]
              /\ UNCHANGED <<now, batch, lost>>
    BY <1>7, IndexFacts
  <2>2. CASE n = m
    <3>1. PICK j \in 1 .. Len(rows) : IsDueRow(rows[j], n)
      BY <2>1, <2>2 DEF Follows
    <3> QED BY <2>1, <3>1, ExpectedRows
  <2>3. CASE n # m
    <3>1. Expected(n)
      BY <2>1, <2>3 DEF Kept
    <3>2. queue \in Table
      BY DEF IInv, TypeOK, Table
    <3> QED BY <2>1, <3>1, <3>2, InsertedRows, ExpectedInserted
  <2> QED BY <2>2, <2>3
<1>8. ASSUME NEW m \in Nft, SyncWrite(m)
      PROVE  Expected(n)'
  <2>1. /\ UNCHANGED <<now, batch, lost>> /\ Fits(queue, syncing[m].new) /\ syncing[m] # None
        /\ queue' = Inserted(queue, syncing[m].new) /\ db' = [db EXCEPT ![m] = syncing[m].row]
    BY <1>8 DEF SyncWrite
  <2>2. /\ SyncSound(m, syncing[m]) /\ syncing[m].new \in Seq(Row)
        /\ db \in [Nft -> NftRow \cup {None}] /\ queue \in Table
    BY <2>1 DEF IInv, TypeOK, RowsInv, Sync, Table
  <2>3. CASE n = m
    <3>1. db'[n] = syncing[m].row
      BY <2>1, <2>2, <2>3
    <3>2. PICK j \in 1 .. Len(syncing[m].new) : IsDueRow(syncing[m].new[j], n)
      BY <2>1, <2>2, <2>3, <3>1 DEF SyncSound, Follows
    <3>3. syncing[m].new[j].time # None
      BY <2>2 DEF SyncSound
    <3> QED BY <2>1, <2>2, <3>2, <3>3, ExpectedRows
  <2>4. CASE n # m
    <3>1. db'[n] = db[n]
      BY <2>1, <2>2, <2>4
    <3>2. Expected(n)
      BY <2>1, <3>1 DEF Kept
    <3> QED BY <2>1, <2>2, <3>2, InsertedRows, ExpectedInserted
  <2> QED BY <2>3, <2>4
<1>9. CASE Tick
  <2>1. UNCHANGED <<db, queue, batch, lost>> /\ now' = now + 1 /\ now \in Int
    BY <1>9 DEF Tick, IInv, TypeOK, Time
  <2>2. db[n].due > now
    <3>1. db[n].due \in Int
      BY <2>1 DEF IInv, TypeOK, NftRow, Time
    <3> QED BY <2>1, <3>1
  <2> QED BY <1>2, <2>1, <2>2 DEF Kept
<1>10. ASSUME NEW p \in Processor, ProcessorStep(p)
       PROVE  Expected(n)'
  BY <1>3, <1>4, <1>5, <1>6, <1>10 DEF ProcessorStep
<1>11. ASSUME NEW m \in Nft, NftStep(m)
       PROVE  Expected(n)'
  BY <1>1, <1>2, <1>7, <1>8, <1>11 DEF NftStep, SyncRead, Extend
<1>12. CASE UNCHANGED vars
  BY <1>1, <1>2, <1>12 DEF vars
<1> QED BY <1>9, <1>10, <1>11, <1>12 DEF Next

\* While an NFT's due time lies ahead a task will look at it, unless one of its tasks
\* failed: processors, synchronisations and the indexer never break the chain between them.
THEOREM ChainOfTasksKept == Spec => []DueTaskKept
<1>1. Init => Kept
  BY DEF Init, Kept
<1>2. IInv /\ Kept => DueTaskKept
  BY ExpectedCounted DEF Kept, DueTaskKept
<1> QED BY <1>1, <1>2, KeptNext, Invariance, PTL DEF Spec

-----------------------------------------------------------------------------
(* The number of due-date tasks: each step but those of the indexer and of *)
(* a synchronisation moves them from one of the three sets to another.     *)

DueIds(q, n) == {i \in TaskId : q[i] # None /\ q[i].time # None /\ IsDueRow(q[i], n)}
DueIndices(rows, n) == {j \in 1 .. Len(rows) : IsDueRow(rows[j], n)}

LEMMA AtMost ==
    ASSUME NEW T, IsFiniteSet(T), NEW S \in SUBSET T
    PROVE  Cardinality(S) \in Nat /\ Cardinality(T) \in Nat /\ Cardinality(S) <= Cardinality(T)
BY FS_Subset, FS_CardinalityType

LEMMA AtMostBoth ==
    ASSUME NEW S, NEW T, IsFiniteSet(S), IsFiniteSet(T)
    PROVE  /\ IsFiniteSet(S \cup T)
           /\ Cardinality(S \cup T) \in Nat /\ Cardinality(S) \in Nat /\ Cardinality(T) \in Nat
           /\ Cardinality(S \cup T) <= Cardinality(S) + Cardinality(T)
<1>1. IsFiniteSet(S \cap T)
  BY FS_Intersection
<1>2. /\ Cardinality(S \cup T) \in Nat /\ Cardinality(S) \in Nat /\ Cardinality(T) \in Nat
      /\ Cardinality(S \cap T) \in Nat /\ IsFiniteSet(S \cup T)
  BY <1>1, FS_Union, FS_CardinalityType
<1>3. Cardinality(S \cup T) = Cardinality(S) + Cardinality(T) - Cardinality(S \cap T)
  BY FS_Union
<1> QED BY <1>2, <1>3

LEMMA AtMostWithout ==
    ASSUME NEW S, IsFiniteSet(S), NEW T \in SUBSET S
    PROVE  /\ IsFiniteSet(S \ T) /\ IsFiniteSet(T)
           /\ Cardinality(S \ T) \in Nat /\ Cardinality(S) \in Nat /\ Cardinality(T) \in Nat
           /\ Cardinality(S \ T) = Cardinality(S) - Cardinality(T)
<1>1. S \cap T = T
  OBVIOUS
<1>2. IsFiniteSet(S \ T) /\ IsFiniteSet(T) /\ Cardinality(S \ T) = Cardinality(S) - Cardinality(S \cap T)
  BY FS_Difference, FS_Subset
<1> QED BY <1>1, <1>2, FS_CardinalityType

LEMMA AtMostOne ==
    ASSUME NEW S, \A x, y \in S : x = y
    PROVE  IsFiniteSet(S) /\ Cardinality(S) \in Nat /\ Cardinality(S) <= 1
<1>1. CASE S = {}
  BY <1>1, FS_EmptySet
<1>2. CASE S # {}
  <2>1. PICK x \in S : TRUE
    BY <1>2
  <2>2. S = {x}
    BY <2>1
  <2> QED BY <2>2, FS_Singleton
<1> QED BY <1>1, <1>2

\* Inserting rows adds a due-date task for each due-date task of the list at most.
LEMMA InsertedDue ==
    ASSUME NEW n \in Nft, NEW q \in Table, NEW rows \in Seq(Row)
    PROVE  /\ IsFiniteSet(DueIds(q, n)) /\ IsFiniteSet(DueIndices(rows, n))
           /\ Cardinality(DueIds(Inserted(q, rows), n)) \in Nat
           /\ Cardinality(DueIds(q, n)) \in Nat /\ Cardinality(DueIndices(rows, n)) \in Nat
           /\ Cardinality(DueIds(Inserted(q, rows), n))
                 <= Cardinality(DueIds(q, n)) + Cardinality(DueIndices(rows, n))
<1> DEFINE F == Free(q)
           r == Inserted(q, rows)
           V == DueIds(q, n)
           J == DueIndices(rows, n)
           N == {i \in F : Rank(F, i) \in J}
           f == [i \in N |-> Rank(F, i)]
<1>1. F \in SUBSET TaskId
  BY DEF Free
<1>2. r = [i \in TaskId |-> IF i \in F /\ Rank(F, i) <= Len(rows) THEN rows[Rank(F, i)] ELSE q[i]]
  BY DEF Inserted, Rank
<1>3. \A i \in F : Rank(F, i) \in Nat \ {0} /\ q[i] = None /\ i \in TaskId
  <2> TAKE i \in F
  <2>1. i \in TaskId /\ i - 1 \in 0 .. MaxTasks
    BY <1>1, BoundAssumption DEF TaskId
  <2>2. q[i] = None
    BY DEF Free
  <2> HIDE DEF F
  <2>3. Rank(F, i) = Rank(F, i - 1) + 1 /\ Rank(F, i - 1) \in Nat
    BY <1>1, <2>1, RankStep
  <2> QED BY <2>1, <2>2, <2>3
<1>4. IsFiniteSet(V) /\ IsFiniteSet(J)
  <2>1. V \in SUBSET TaskId
    BY DEF DueIds
  <2>2. J \in SUBSET (1 .. Len(rows)) /\ 1 \in Int /\ Len(rows) \in Int
    BY DEF DueIndices
  <2> HIDE DEF V, J
  <2>3. IsFiniteSet(1 .. Len(rows))
    BY <2>2, FS_Interval
  <2> QED BY <2>1, <2>2, <2>3, RankStep, FS_Subset
<1> HIDE DEF F, r
<1>5. DueIds(r, n) \in SUBSET (V \cup N)
  <2> SUFFICES ASSUME NEW i \in TaskId, r[i] # None, r[i].time # None, IsDueRow(r[i], n)
               PROVE  i \in V \/ i \in N
    BY DEF DueIds
  <2>1. CASE i \in F /\ Rank(F, i) <= Len(rows)
    <3>1. r[i] = rows[Rank(F, i)] /\ Rank(F, i) \in 1 .. Len(rows)
      BY <1>2, <1>3, <2>1
    <3> QED BY <2>1, <3>1 DEF DueIndices
  <2>2. CASE ~ (i \in F /\ Rank(F, i) <= Len(rows))
    <3>1. r[i] = q[i]
      BY <1>2, <2>2
    <3> QED BY <3>1 DEF DueIds
  <2> QED BY <2>1, <2>2
<1>6. f \in Injection(N, J)
  <2>1. \A i, k \in N : i # k => f[i] # f[k]
    <3> SUFFICES ASSUME NEW i \in N, NEW k \in N, i # k PROVE Rank(F, i) # Rank(F, k)
      OBVIOUS
    <3>1. i \in TaskId /\ k \in TaskId /\ i \in F /\ k \in F
      BY <1>1
    <3>2. i < k \/ k < i
      BY <3>1, BoundAssumption DEF TaskId
    <3>3. Rank(F, i) \in Nat /\ Rank(F, k) \in Nat
      BY <1>3, <3>1
    <3>4. CASE i < k
      BY <1>1, <3>1, <3>3, <3>4, RankGrows
    <3>5. CASE k < i
      BY <1>1, <3>1, <3>3, <3>5, RankGrows
    <3> QED BY <3>2, <3>4, <3>5
  <2>2. f \in [N -> J]
    OBVIOUS
  <2> HIDE DEF f, N, J
  <2> QED BY <2>1, <2>2 DEF Injection, IsInjective
<1> HIDE DEF f, N, J, V
<1>7. IsFiniteSet(N) /\ Cardinality(N) <= Cardinality(J)
  BY <1>4, <1>6, FS_Injection
<1>8. /\ IsFiniteSet(V \cup N) /\ Cardinality(V \cup N) <= Cardinality(V) + Cardinality(N)
      /\ Cardinality(V) \in Nat /\ Cardinality(N) \in Nat /\ Cardinality(V \cup N) \in Nat
  BY <1>4, <1>7, AtMostBoth
<1>9. Cardinality(DueIds(r, n)) \in Nat /\ Cardinality(DueIds(r, n)) <= Cardinality(V \cup N)
  BY <1>5, <1>8, AtMost
<1>10. Cardinality(J) \in Nat
  BY <1>4, FS_CardinalityType
<1>11. Cardinality(DueIds(r, n)) <= Cardinality(V) + Cardinality(J)
  BY <1>7, <1>8, <1>9, <1>10
<1> QED BY <1>4, <1>8, <1>9, <1>10, <1>11 DEF V, J, r

\* Nothing is added to any of the three sets.
LEMMA NoMore ==
    ASSUME NEW n \in Nft, Waiting(n)' \subseteq Waiting(n), Claimed(n)' \subseteq Claimed(n),
           Coming(n)' \subseteq Coming(n)
    PROVE  DueTasks(n)' <= DueTasks(n)
<1>1. /\ Cardinality(Waiting(n)') <= Cardinality(Waiting(n))
      /\ Cardinality(Claimed(n)') <= Cardinality(Claimed(n))
      /\ Cardinality(Coming(n)') <= Cardinality(Coming(n))
  BY DueTasksFinite, FS_Subset
<1> QED BY <1>1, DueTasksFinite DEF DueTasks

\* Rows that are inserted add their due-date tasks.
LEMMA InsertMore ==
    ASSUME IInv, NEW n \in Nft, NEW rows \in Seq(Row), queue' = Inserted(queue, rows), batch' = batch
    PROVE  DueTasks(n)' <= DueTasks(n) + Cardinality(DueIndices(rows, n))
<1>0. queue \in Table
  BY DEF IInv, TypeOK, Table
<1>1. Waiting(n) = DueIds(queue, n) /\ Waiting(n)' = DueIds(queue', n)
  BY DEF Waiting, DueIds
<1>2. /\ Cardinality(Waiting(n)') <= Cardinality(Waiting(n)) + Cardinality(DueIndices(rows, n))
      /\ Cardinality(DueIndices(rows, n)) \in Nat
  BY <1>0, <1>1, InsertedDue
<1>3. Claimed(n)' \subseteq Claimed(n)
  <2> SUFFICES ASSUME NEW i \in Claimed(n)' PROVE i \in Claimed(n)
    OBVIOUS
  <2>1. PICK q \in Processor : batch[q].pc = "updating" /\ i \in batch[q].left
    BY DEF Claimed
  <2>2. i \in TaskId /\ queue[i] # None
    BY <2>1, BatchFacts DEF Held
  <2>3. queue'[i] = queue[i]
    BY <1>0, <2>2, InsertedRows
  <2>4. IsDueRow(queue[i], n)
    BY <2>3 DEF Claimed, IsDueRow
  <2> QED BY <2>1, <2>2, <2>4 DEF Claimed
<1>4. Coming(n)' = Coming(n)
  BY DEF Coming, IsDueRow
<1>5. Cardinality(Claimed(n)') <= Cardinality(Claimed(n))
  BY <1>3, DueTasksFinite, FS_Subset
<1> DEFINE w == Cardinality(Waiting(n))
           c == Cardinality(Claimed(n))
           k == Cardinality(Coming(n))
           w2 == Cardinality(Waiting(n)')
           c2 == Cardinality(Claimed(n)')
           d == Cardinality(DueIndices(rows, n))
<1>6. w \in Nat /\ c \in Nat /\ k \in Nat /\ w2 \in Nat /\ c2 \in Nat /\ d \in Nat
      /\ w2 <= w + d /\ c2 <= c
  BY <1>2, <1>5, DueTasksFinite
<1>7. DueTasks(n) = w + c + k /\ DueTasks(n)' = w2 + c2 + k
  BY <1>4 DEF DueTasks
<1> HIDE DEF w, c, k, w2, c2, d
<1>8. DueTasks(n)' <= DueTasks(n) + d
  BY <1>6, <1>7
<1> QED BY <1>8 DEF d

\* An NFT that is not in the database has no tasks.
LEMMA NoneBefore ==
    ASSUME IInv, NEW n \in Nft, db[n] = None
    PROVE  DueTasks(n) = 0
<1>1. ASSUME NEW i \in TaskId, queue[i] # None
      PROVE  queue[i].nft # n
  BY <1>1 DEF IInv, RowsInv
<1>2. Waiting(n) = {} /\ Claimed(n) = {}
  BY <1>1 DEF Waiting, Claimed, IsDueRow
<1>3. Coming(n) = {}
  <2> SUFFICES ASSUME NEW c \in Coming(n) PROVE FALSE
    OBVIOUS
  <2>1. /\ c[1] \in Processor /\ c[2] \in 1 .. Len(batch[c[1]].new)
        /\ IsDueRow(batch[c[1]].new[c[2]], n)
    <3>1. c[1] \in Processor /\ c[2] \in 1 .. 2 * MaxTasks /\ c[2] <= Len(batch[c[1]].new)
          /\ IsDueRow(batch[c[1]].new[c[2]], n)
      BY DEF Coming
    <3>2. Len(batch[c[1]].new) \in Nat
      BY <3>1, BatchFacts DEF Batch
    <3> QED BY <3>1, <3>2, BoundAssumption
  <2>2. PICK i \in batch[c[1]].tasks : queue[i].nft = n
    BY <2>1, BatchFacts DEF Held, IsDueRow
  <2>3. i \in TaskId /\ queue[i] # None
    BY <2>1, <2>2, BatchFacts DEF Held
  <2> QED BY <1>1, <2>2, <2>3
<1>4. Cardinality(Waiting(n)) = 0 /\ Cardinality(Claimed(n)) = 0 /\ Cardinality(Coming(n)) = 0
  BY <1>2, <1>3, FS_EmptySet
<1> QED BY <1>4 DEF DueTasks

\* A claim only moves due-date tasks into the processor's hands.
LEMMA FetchNoMore ==
    ASSUME IInv, NEW n \in Nft, NEW p \in Processor, Fetch(p)
    PROVE  DueTasks(n)' <= DueTasks(n)
<1>1. PICK ids \in SUBSET TaskId :
              /\ batch'[p].pc = "updating" /\ batch'[p].new = <<>>
              /\ batch'[p].left = {i \in ids : queue[i].type = "due"}
              /\ \A q \in Processor \ {p} : batch'[q] = batch[q]
              /\ \A i \in TaskId \ ids : queue'[i] = queue[i]
              /\ \A i \in ids : /\ queue[i] # None /\ queue[i].time # None
                                /\ queue'[i] # None /\ queue'[i].time = None
                                /\ queue'[i].nft = queue[i].nft /\ queue'[i].type = queue[i].type
  BY FetchFacts
<1> DEFINE W == Waiting(n)
           C == Claimed(n)
           K == Coming(n)
           W2 == Waiting(n)'
           C2 == Claimed(n)'
           K2 == Coming(n)'
           D == {i \in ids : IsDueRow(queue[i], n)}
<1>2. D \subseteq W
  BY <1>1 DEF Waiting
<1>3. W2 \subseteq W \ D
  <2> SUFFICES ASSUME NEW i \in W2 PROVE i \in W /\ i \notin D
    OBVIOUS
  <2>1. i \in TaskId /\ queue'[i] # None /\ queue'[i].time # None /\ IsDueRow(queue'[i], n)
    BY DEF Waiting, IsDueRow
  <2>2. i \notin ids /\ queue'[i] = queue[i]
    BY <1>1, <2>1
  <2> QED BY <2>1, <2>2 DEF Waiting
<1>4. C2 \subseteq C \cup D
  <2> SUFFICES ASSUME NEW i \in C2, i \notin D PROVE i \in C
    OBVIOUS
  <2>1. i \in TaskId /\ queue'[i] # None /\ IsDueRow(queue'[i], n)
    BY DEF Claimed, IsDueRow
  <2>2. PICK q \in Processor : batch'[q].pc = "updating" /\ i \in batch'[q].left
    BY DEF Claimed
  <2>3. i \notin ids
    BY <1>1, <2>1 DEF IsDueRow
  <2>4. queue'[i] = queue[i] /\ batch'[q] = batch[q]
    BY <1>1, <2>1, <2>2, <2>3
  <2> QED BY <2>1, <2>2, <2>4 DEF Claimed
<1>5. K2 \subseteq K
  <2> SUFFICES ASSUME NEW c \in K2 PROVE c \in K
    OBVIOUS
  <2>1. /\ c \in Processor \X (1 .. 2 * MaxTasks) /\ c[2] <= Len(batch'[c[1]].new)
        /\ IsDueRow(batch'[c[1]].new[c[2]], n)
    BY DEF Coming, IsDueRow
  <2>2. c[1] # p
    <3>1. Len(<<>>) = 0 /\ c[2] >= 1
      BY <2>1
    <3> QED BY <1>1, <2>1, <3>1
  <2>3. batch'[c[1]] = batch[c[1]]
    BY <1>1, <2>1, <2>2
  <2> QED BY <2>1, <2>3 DEF Coming
<1>6. IsFiniteSet(W) /\ IsFiniteSet(C) /\ IsFiniteSet(K)
  BY DueTasksFinite
<1>7. DueTasks(n) = Cardinality(W) + Cardinality(C) + Cardinality(K)
      /\ DueTasks(n)' = Cardinality(W2) + Cardinality(C2) + Cardinality(K2)
  BY DEF DueTasks
<1> HIDE DEF W, C, K, W2, C2, K2, D
<1>8. /\ IsFiniteSet(W \ D) /\ IsFiniteSet(D) /\ Cardinality(W) \in Nat /\ Cardinality(D) \in Nat
      /\ Cardinality(W \ D) = Cardinality(W) - Cardinality(D)
  BY <1>2, <1>6, AtMostWithout
<1>9. IsFiniteSet(C \cup D) /\ Cardinality(C \cup D) <= Cardinality(C) + Cardinality(D)
      /\ Cardinality(C) \in Nat
  BY <1>6, <1>8, AtMostBoth
<1>10. /\ Cardinality(W2) \in Nat /\ Cardinality(W2) <= Cardinality(W \ D)
       /\ Cardinality(C2) \in Nat /\ Cardinality(C2) <= Cardinality(C \cup D) /\ Cardinality(C \cup D) \in Nat
       /\ Cardinality(K2) \in Nat /\ Cardinality(K2) <= Cardinality(K) /\ Cardinality(K) \in Nat
  BY <1>3, <1>4, <1>5, <1>6, <1>8, <1>9, AtMost
<1> QED BY <1>7, <1>8, <1>9, <1>10

\* The due-date task that was looked at makes room for the one that follows.
LEMMA UpdateNoMore ==
    ASSUME IInv, NEW n \in Nft, NEW p \in Processor, NEW i \in TaskId, UpdateNft(p, i)
    PROVE  DueTasks(n)' <= DueTasks(n)
<1> DEFINE m == queue[i].nft
           o == batch[p]
<1>1. PICK f \in Seq(Row) :
              /\ o.pc = "updating" /\ i \in o.left
              /\ queue[i] # None /\ IsDueRow(queue[i], m)
              /\ batch'[p].left = o.left \ {i} /\ batch'[p].new = o.new \o f
              /\ o.new \in Seq(Row)
              /\ \A j \in 1 .. Len(f) : f[j].nft = m
              /\ \A j, k \in 1 .. Len(f) : IsDueRow(f[j], m) /\ IsDueRow(f[k], m) => j = k
              /\ \A q \in Processor \ {p} : batch'[q] = batch[q]
              /\ queue' = queue
  BY UpdateFacts
<1>2. Waiting(n)' = Waiting(n)
  BY <1>1 DEF Waiting, IsDueRow
<1>3. ASSUME NEW k \in Claimed(n)'
      PROVE  k \in Claimed(n) /\ k # i
  <2>1. k \in TaskId /\ queue[k] # None /\ IsDueRow(queue[k], n)
    BY <1>1, <1>3 DEF Claimed, IsDueRow
  <2>2. PICK q \in Processor : batch'[q].pc = "updating" /\ k \in batch'[q].left
    BY <1>3 DEF Claimed
  <2>3. CASE q = p
    BY <1>1, <2>1, <2>2, <2>3 DEF Claimed
  <2>4. CASE q # p
    <3>1. batch[q].pc = "updating" /\ k \in batch[q].left
      BY <1>1, <2>2, <2>4
    <3>2. k \in batch[q].tasks /\ i \in o.tasks
      BY <1>1, <3>1, BatchFacts
    <3>3. k # i
      BY <2>4, <3>2 DEF IInv, Apart
    <3> QED BY <2>1, <3>1, <3>3 DEF Claimed
  <2> QED BY <2>3, <2>4
<1>4. ASSUME NEW c \in Coming(n)', c \notin Coming(n)
      PROVE  /\ c[1] = p /\ c = <<c[1], c[2]>> /\ m = n /\ c[2] \in Nat
             /\ c[2] - Len(o.new) \in 1 .. Len(f) /\ IsDueRow(f[c[2] - Len(o.new)], m)
  <2>1. /\ c \in Processor \X (1 .. 2 * MaxTasks) /\ c[2] <= Len(batch'[c[1]].new)
        /\ IsDueRow(batch'[c[1]].new[c[2]], n)
    BY <1>4 DEF Coming, IsDueRow
  <2>2. c[1] = p
    BY <1>1, <1>4, <2>1 DEF Coming
  <2>3. c[2] \in 1 .. Len(o.new \o f) /\ IsDueRow((o.new \o f)[c[2]], n)
    <3>1. c[2] \in 1 .. 2 * MaxTasks
      BY <2>1
    <3>2. c[2] \in Int /\ c[2] >= 1
      BY <3>1, BoundAssumption
    <3>3. batch'[p].new = o.new \o f /\ Len(o.new \o f) \in Nat
      BY <1>1
    <3>4. c[2] <= Len(batch'[p].new) /\ IsDueRow(batch'[p].new[c[2]], n)
      BY <2>1, <2>2
    <3> QED BY <3>2, <3>3, <3>4
  <2>4. ~ (c[2] \in 1 .. Len(o.new) /\ (o.new \o f)[c[2]] = o.new[c[2]])
    BY <1>4, <2>1, <2>2, <2>3 DEF Coming
  <2>5. c[2] - Len(o.new) \in 1 .. Len(f) /\ (o.new \o f)[c[2]] = f[c[2] - Len(o.new)]
    BY <1>1, <2>3, <2>4, Appended
  <2>6. m = n
    BY <1>1, <2>3, <2>5 DEF IsDueRow
  <2> QED BY <2>1, <2>2, <2>3, <2>5, <2>6
<1>5. CASE n # m
  BY <1>2, <1>3, <1>4, <1>5, NoMore
<1>6. CASE n = m
  <2> DEFINE C == Claimed(n)
             K == Coming(n)
             C2 == Claimed(n)'
             K2 == Coming(n)'
             T == K2 \ K
  <2>1. i \in C
    BY <1>1, <1>6 DEF Claimed
  <2>2. C2 \subseteq C \ {i} /\ K2 \subseteq K \cup T
    BY <1>3
  <2>3. \A c, d \in T : c = d
    <3> SUFFICES ASSUME NEW c \in T, NEW d \in T PROVE c = d
      OBVIOUS
    <3>1. /\ c[1] = p /\ c = <<c[1], c[2]>> /\ c[2] \in Nat
          /\ c[2] - Len(o.new) \in 1 .. Len(f) /\ IsDueRow(f[c[2] - Len(o.new)], m)
      BY <1>4
    <3>2. /\ d[1] = p /\ d = <<d[1], d[2]>> /\ d[2] \in Nat
          /\ d[2] - Len(o.new) \in 1 .. Len(f) /\ IsDueRow(f[d[2] - Len(o.new)], m)
      BY <1>4
    <3> DEFINE j == c[2] - Len(o.new)
               k == d[2] - Len(o.new)
    <3>3. j \in 1 .. Len(f) /\ k \in 1 .. Len(f) /\ IsDueRow(f[j], m) /\ IsDueRow(f[k], m)
      BY <3>1, <3>2
    <3>4. j = k
      <4> HIDE DEF j, k
      <4> QED BY <1>1, <3>3
    <3>5. Len(o.new) \in Nat
      BY <1>1
    <3>6. c[2] = d[2]
      BY <3>1, <3>2, <3>4, <3>5
    <3> QED BY <3>1, <3>2, <3>6
  <2>4. IsFiniteSet(C) /\ IsFiniteSet(K) /\ Cardinality(Waiting(n)) \in Nat
    BY DueTasksFinite
  <2>5. DueTasks(n) = Cardinality(Waiting(n)) + Cardinality(C) + Cardinality(K)
        /\ DueTasks(n)' = Cardinality(Waiting(n)) + Cardinality(C2) + Cardinality(K2)
    BY <1>2 DEF DueTasks
  <2> HIDE DEF C, K, C2, K2, T
  <2>6. /\ IsFiniteSet(C \ {i}) /\ Cardinality(C) \in Nat
        /\ Cardinality(C \ {i}) = Cardinality(C) - 1
    BY <2>1, <2>4, FS_RemoveElement, FS_CardinalityType
  <2>7. IsFiniteSet(T) /\ Cardinality(T) \in Nat /\ Cardinality(T) <= 1
    BY <2>3, AtMostOne
  <2>8. /\ IsFiniteSet(K \cup T) /\ Cardinality(K \cup T) <= Cardinality(K) + Cardinality(T)
        /\ Cardinality(K) \in Nat
    BY <2>4, <2>7, AtMostBoth
  <2>9. /\ Cardinality(C2) \in Nat /\ Cardinality(C2) <= Cardinality(C \ {i})
        /\ Cardinality(K2) \in Nat /\ Cardinality(K2) <= Cardinality(K \cup T) /\ Cardinality(K \cup T) \in Nat
    BY <2>2, <2>6, <2>8, AtMost
  <2> QED BY <2>4, <2>5, <2>6, <2>7, <2>8, <2>9
<1> QED BY <1>5, <1>6

\* The completing transaction turns tasks that were noted into rows.
LEMMA WriteNoMore ==
    ASSUME IInv, NEW n \in Nft, NEW p \in Processor, Write(p)
    PROVE  DueTasks(n)' <= DueTasks(n)
<1> DEFINE o == batch[p]
           rest == DeleteRows(o.tasks)
           J == DueIndices(o.new, n)
           W == Waiting(n)
           C == Claimed(n)
           K == Coming(n)
           W2 == Waiting(n)'
           C2 == Claimed(n)'
           K2 == Coming(n)'
           M == {c \in K : c[1] = p}
           f == [j \in J |-> <<p, j>>]
<1>1. /\ o \in Batch /\ Held(o, queue) /\ Room(o) /\ o.pc = "processing" /\ queue' = Inserted(rest, o.new)
      /\ batch' = [batch EXCEPT ![p] = Idle] /\ batch \in [Processor -> Batch]
  BY BatchFacts DEF Write, IInv, TypeOK
<1>2. /\ rest \in Table
      /\ \A i \in o.tasks : rest[i] = None
      /\ \A i \in TaskId \ o.tasks : rest[i] = queue[i] /\ (queue[i] # None => queue'[i] = queue[i])
  BY WrittenRows
<1>3. batch'[p] = Idle /\ \A q \in Processor \ {p} : batch'[q] = batch[q]
  BY <1>1
<1>4. o.new \in Seq(Row)
  BY <1>1 DEF Batch
<1>5. DueIds(rest, n) \subseteq W
  BY <1>2 DEF DueIds, Waiting
<1>6. W2 = DueIds(queue', n)
  BY DEF Waiting, DueIds
<1>7. C2 \subseteq C
  <2> SUFFICES ASSUME NEW i \in C2 PROVE i \in C
    OBVIOUS
  <2>1. i \in TaskId /\ IsDueRow(queue'[i], n)
    BY DEF Claimed, IsDueRow
  <2>2. PICK q \in Processor : batch'[q].pc = "updating" /\ i \in batch'[q].left
    BY DEF Claimed
  <2>3. q # p /\ batch[q].pc = "updating" /\ i \in batch[q].left
    BY <1>3, <2>2, IdleSound
  <2>4. i \in batch[q].tasks /\ queue[i] # None
    BY <2>3, BatchFacts DEF Held
  <2>5. i \notin o.tasks
    BY <2>3, <2>4 DEF IInv, Apart
  <2>6. queue'[i] = queue[i]
    BY <1>2, <2>1, <2>4, <2>5
  <2> QED BY <2>1, <2>3, <2>4, <2>6 DEF Claimed
<1>8. K2 \subseteq K \ M
  <2> SUFFICES ASSUME NEW c \in K2 PROVE c \in K /\ c[1] # p
    OBVIOUS
  <2>1. /\ c \in Processor \X (1 .. 2 * MaxTasks) /\ c[2] <= Len(batch'[c[1]].new)
        /\ IsDueRow(batch'[c[1]].new[c[2]], n)
    BY DEF Coming, IsDueRow
  <2>2. c[1] # p
    <3>1. Len(<<>>) = 0 /\ c[2] >= 1
      BY <2>1
    <3> QED BY <1>3, <2>1, <3>1, IdleSound
  <2>3. batch'[c[1]] = batch[c[1]]
    BY <1>3, <2>1, <2>2
  <2> QED BY <2>1, <2>2, <2>3 DEF Coming
<1>9. f \in Injection(J, M)
  <2>1. \A j \in J : <<p, j>> \in M
    <3> TAKE j \in J
    <3>1. j \in 1 .. Len(o.new) /\ IsDueRow(o.new[j], n)
      BY DEF DueIndices
    <3>2. Len(o.new) \in Nat /\ Len(o.new) <= 2 * MaxTasks
      BY <1>1, <1>4 DEF Room
    <3>3. j \in 1 .. 2 * MaxTasks /\ j <= Len(o.new)
      BY <3>1, <3>2, BoundAssumption
    <3> QED BY <3>1, <3>3 DEF Coming
  <2> HIDE DEF M, J
  <2>2. f \in [J -> M]
    BY <2>1
  <2>3. \A j, k \in J : j # k => f[j] # f[k]
    OBVIOUS
  <2> HIDE DEF f
  <2> QED BY <2>2, <2>3 DEF Injection, IsInjective
<1>10. M \subseteq K
  OBVIOUS
<1>11. IsFiniteSet(W) /\ IsFiniteSet(C) /\ IsFiniteSet(K)
  BY DueTasksFinite
<1>12. DueTasks(n) = Cardinality(W) + Cardinality(C) + Cardinality(K)
       /\ DueTasks(n)' = Cardinality(W2) + Cardinality(C2) + Cardinality(K2)
  BY DEF DueTasks
<1>13. /\ Cardinality(J) \in Nat /\ Cardinality(W2) \in Nat /\ Cardinality(DueIds(rest, n)) \in Nat
       /\ Cardinality(W2) <= Cardinality(DueIds(rest, n)) + Cardinality(J)
  <2> HIDE DEF rest, J, W2
  <2> USE DEF J
  <2> QED BY <1>1, <1>2, <1>4, <1>6, InsertedDue
<1> HIDE DEF W, C, K, W2, C2, K2, M, J, f, rest
<1>14. /\ IsFiniteSet(K \ M) /\ IsFiniteSet(M) /\ Cardinality(K) \in Nat /\ Cardinality(M) \in Nat
       /\ Cardinality(K \ M) = Cardinality(K) - Cardinality(M)
  BY <1>10, <1>11, AtMostWithout
<1>15. Cardinality(J) <= Cardinality(M)
  BY <1>9, <1>14, FS_Injection
<1>16. /\ Cardinality(DueIds(rest, n)) <= Cardinality(W) /\ Cardinality(W) \in Nat
       /\ Cardinality(C2) <= Cardinality(C) /\ Cardinality(C) \in Nat /\ Cardinality(C2) \in Nat
       /\ Cardinality(K2) <= Cardinality(K \ M) /\ Cardinality(K2) \in Nat
  BY <1>5, <1>7, <1>8, <1>11, <1>14, AtMost
<1> QED BY <1>12, <1>13, <1>14, <1>15, <1>16

\* The list of a new NFT or of a synchronisation has one due-date task at most.
LEMMA OneInList ==
    ASSUME NEW n \in Nft, NEW m \in Nft, NEW rows \in Seq(Row),
           \A j \in 1 .. Len(rows) : rows[j].nft = m,
           \A j, k \in 1 .. Len(rows) : IsDueRow(rows[j], m) /\ IsDueRow(rows[k], m) => j = k
    PROVE  /\ Cardinality(DueIndices(rows, n)) \in Nat /\ Cardinality(DueIndices(rows, n)) <= 1
           /\ n # m => Cardinality(DueIndices(rows, n)) = 0
<1> DEFINE J == DueIndices(rows, n)
<1>1. \A j \in J : j \in 1 .. Len(rows) /\ IsDueRow(rows[j], n) /\ n = m
  BY DEF DueIndices, IsDueRow
<1>2. \A j, k \in J : j = k
  BY <1>1
<1>3. n # m => J = {}
  BY <1>1
<1> HIDE DEF J
<1>4. Cardinality(J) \in Nat /\ Cardinality(J) <= 1 /\ (n # m => Cardinality(J) = 0)
  BY <1>2, <1>3, AtMostOne, FS_EmptySet
<1> QED BY <1>4 DEF J

LEMMA BoundedNext == IInv /\ DueTasksBounded /\ [Next]_vars => DueTasksBounded'
<1> SUFFICES ASSUME IInv, DueTasksBounded, [Next]_vars, NEW n \in Nft
             PROVE  DueTasks(n)' <= 1 + syncs'[n]
  BY DEF DueTasksBounded
<1>1. DueTasks(n) <= 1 + syncs[n] /\ syncs[n] \in Nat
  BY BoundAssumption DEF DueTasksBounded, IInv, TypeOK
<1>2. DueTasks(n) \in Nat /\ DueTasks(n)' \in Nat
  BY DueTasksFinite DEF DueTasks
<1>3. ASSUME DueTasks(n)' <= DueTasks(n), syncs' = syncs
      PROVE  DueTasks(n)' <= 1 + syncs'[n]
  BY <1>1, <1>2, <1>3
<1>4. ASSUME NEW p \in Processor, Fetch(p)
      PROVE  DueTasks(n)' <= 1 + syncs'[n]
  BY <1>3, <1>4, FetchNoMore DEF Fetch
<1>5. ASSUME NEW p \in Processor, NEW i \in TaskId, UpdateNft(p, i)
      PROVE  DueTasks(n)' <= 1 + syncs'[n]
  BY <1>3, <1>5, UpdateNoMore DEF UpdateNft
<1>6. ASSUME NEW p \in Processor,
             \/ \E i \in TaskId : UpdateError(p, i) \/ ProcessTask(p, i)
             \/ Updated(p)
             \/ Fail(p)
      PROVE  DueTasks(n)' <= 1 + syncs'[n]
  <2>1. /\ UNCHANGED <<queue, syncs>> /\ \A q \in Processor \ {p} : batch'[q] = batch[q]
        /\ \/ batch'[p] = Idle
           \/ /\ batch'[p].new = batch[p].new
              /\ batch'[p].pc = "updating" =>
                    batch[p].pc = "updating" /\ batch'[p].left \subseteq batch[p].left
    BY <1>6, OtherFacts
  <2>2. Waiting(n)' = Waiting(n)
    BY <2>1 DEF Waiting, IsDueRow
  <2>3. Claimed(n)' \subseteq Claimed(n)
    <3> SUFFICES ASSUME NEW i \in Claimed(n)' PROVE i \in Claimed(n)
      OBVIOUS
    <3>1. i \in TaskId /\ queue[i] # None /\ IsDueRow(queue[i], n)
      BY <2>1 DEF Claimed, IsDueRow
    <3>2. PICK q \in Processor : batch'[q].pc = "updating" /\ i \in batch'[q].left
      BY DEF Claimed
    <3>3. batch[q].pc = "updating" /\ i \in batch[q].left
      BY <2>1, <3>2, IdleSound
    <3> QED BY <3>1, <3>3 DEF Claimed
  <2>4. Coming(n)' \subseteq Coming(n)
    <3> SUFFICES ASSUME NEW c \in Coming(n)' PROVE c \in Coming(n)
      OBVIOUS
    <3>1. /\ c \in Processor \X (1 .. 2 * MaxTasks) /\ c[2] <= Len(batch'[c[1]].new)
          /\ IsDueRow(batch'[c[1]].new[c[2]], n)
      BY DEF Coming, IsDueRow
    <3>2. ~ (c[1] = p /\ batch'[p] = Idle)
      <4>1. Len(<<>>) = 0 /\ c[2] >= 1
        BY <3>1
      <4> QED BY <3>1, <4>1, IdleSound
    <3>3. batch'[c[1]].new = batch[c[1]].new
      BY <2>1, <3>1, <3>2
    <3> QED BY <3>1, <3>3 DEF Coming
  <2> QED BY <1>3, <2>1, <2>2, <2>3, <2>4, NoMore
<1>7. ASSUME NEW p \in Processor, Write(p)
      PROVE  DueTasks(n)' <= 1 + syncs'[n]
  BY <1>3, <1>7, WriteNoMore DEF Write
<1>8. ASSUME NEW m \in Nft, Index(m)
      PROVE  DueTasks(n)' <= 1 + syncs'[n]
  <2>1. PICK rows \in Seq(Row) :
              /\ queue' = Inserted(queue, rows)
              /\ \A j \in 1 .. Len(rows) : rows[j].nft = m
              /\ \A j, k \in 1 .. Len(rows) : IsDueRow(rows[j], m) /\ IsDueRow(rows[k], m) => j = k
              /\ db[m] = None /\ UNCHANGED <<batch, syncs>>
    BY <1>8, IndexFacts
  <2>2. /\ DueTasks(n)' <= DueTasks(n) + Cardinality(DueIndices(rows, n))
        /\ Cardinality(DueIndices(rows, n)) \in Nat /\ Cardinality(DueIndices(rows, n)) <= 1
        /\ n # m => Cardinality(DueIndices(rows, n)) = 0
    BY <2>1, InsertMore, OneInList
  <2>3. n = m => DueTasks(n) = 0
    BY <2>1, NoneBefore
  <2> QED BY <1>1, <1>2, <2>1, <2>2, <2>3
<1>9. ASSUME NEW m \in Nft, SyncWrite(m)
      PROVE  DueTasks(n)' <= 1 + syncs'[n]
  <2> DEFINE rows == syncing[m].new
  <2>1. /\ batch' = batch /\ queue' = Inserted(queue, rows) /\ syncing[m] # None
        /\ syncs' = [syncs EXCEPT ![m] = @ + 1] /\ syncs \in [Nft -> 0 .. MaxSync]
    BY <1>9 DEF SyncWrite, IInv, TypeOK
  <2>2. SyncSound(m, syncing[m]) /\ rows \in Seq(Row)
    BY <2>1 DEF IInv, TypeOK, RowsInv, Sync
  <2>3. /\ \A j \in 1 .. Len(rows) : rows[j].nft = m
        /\ \A j, k \in 1 .. Len(rows) : IsDueRow(rows[j], m) /\ IsDueRow(rows[k], m) => j = k
    BY <2>2 DEF SyncSound
  <2> HIDE DEF rows
  <2>4. /\ DueTasks(n)' <= DueTasks(n) + Cardinality(DueIndices(rows, n))
        /\ Cardinality(DueIndices(rows, n)) \in Nat /\ Cardinality(DueIndices(rows, n)) <= 1
        /\ n # m => Cardinality(DueIndices(rows, n)) = 0
    BY <2>1, <2>2, <2>3, InsertMore, OneInList
  <2>5. syncs'[n] = IF n = m THEN syncs[n] + 1 ELSE syncs[n]
    BY <2>1
  <2> QED BY <1>1, <1>2, <2>4, <2>5
<1>10. ASSUME UNCHANGED <<queue, batch, syncs>>
       PROVE  DueTasks(n)' <= 1 + syncs'[n]
  <2>1. Waiting(n)' = Waiting(n)
    BY <1>10 DEF Waiting, IsDueRow
  <2>2. Claimed(n)' = Claimed(n)
    BY <1>10 DEF Claimed, IsDueRow
  <2>3. Coming(n)' = Coming(n)
    BY <1>10 DEF Coming, IsDueRow
  <2> QED BY <1>3, <1>10, <2>1, <2>2, <2>3, NoMore
<1>11. ASSUME NEW p \in Processor, ProcessorStep(p)
       PROVE  DueTasks(n)' <= 1 + syncs'[n]
  BY <1>4, <1>5, <1>6, <1>7, <1>11 DEF ProcessorStep
<1>12. ASSUME NEW m \in Nft, NftStep(m)
       PROVE  DueTasks(n)' <= 1 + syncs'[n]
  BY <1>8, <1>9, <1>10, <1>12 DEF NftStep, SyncRead, Extend
<1>13. CASE Tick \/ UNCHANGED vars
  BY <1>10, <1>13 DEF Tick, vars
<1> QED BY <1>11, <1>12, <1>13 DEF Next

\* Due-date tasks do not multiply: an NFT has one, and one more for each synchronisation
\* that stored the NFT, however processors, indexer and web server interleave.
THEOREM TasksDoNotMultiply == Spec => []DueTasksBounded
<1>1. Init => DueTasksBounded
  <2> SUFFICES ASSUME Init, NEW n \in Nft PROVE DueTasks(n) <= 1 + syncs[n]
    BY DEF DueTasksBounded
  <2>1. IInv /\ db[n] = None /\ syncs[n] = 0
    BY InitIInv DEF Init
  <2> QED BY <2>1, NoneBefore
<1> QED BY <1>1, BoundedNext, Invariance, PTL DEF Spec
=============================================================================
