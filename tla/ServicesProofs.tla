--------------------------- MODULE ServicesProofs ---------------------------
(***************************************************************************)
(* Proofs about the parts that MCServices puts together, for any values of *)
(* the constants that its assumptions allow: RateLimit, NftReads,          *)
(* NodeState, BotPolling, WorkerProcess, UserQueue, in this order.         *)
(*                                                                         *)
(* Most of the arguments are about time: what is left of a delay or a      *)
(* deadline makes up for what has passed since an event.  UserQueue's are  *)
(* about who is where: a user in the queue, in a bulk or in a row, a row   *)
(* in a transaction or in the table.                                       *)
(*                                                                         *)
(* A part's steps are steps of the whole that leave the others alone, so   *)
(* an invariant of a part needs its own variables only.                    *)
(***************************************************************************)
EXTENDS MCServices, FiniteSetTheorems, SequenceTheorems, WellFoundedInduction, TLAPS

-----------------------------------------------------------------------------
(* RateLimit: a queue holds tasks that stand in it, each once (QueuesInv); *)
(* this makes every step move one task, and the permits follow by          *)
(* counting.  What is left of the delay, or of the one sleep there is,     *)
(* makes up for what is missing of the interval since the last start       *)
(* (SpacingInv).                                                           *)

\* The queue holds tasks at place p only, and each of them once.
Orderly(tasks, p) ==
    /\ \A i \in 1..Len(tasks) : place[tasks[i]] = p
    /\ \A i, j \in 1..Len(tasks) : tasks[i] = tasks[j] => i = j

QueuesInv == Orderly(pending, "pending") /\ Orderly(line, "queued")

SpacingInv ==
    /\ delay + since_start >= Interval
    /\ delay + since_end >= Interval
    /\ \A c \in Caller : place[c] = "asleep" => nap + since_start >= Interval
    /\ \A c, d \in Caller : place[c] = "asleep" /\ place[d] = "asleep" => c = d

RateInv == TypeOK /\ QueuesInv /\ SpacingInv /\ PermitsAccounted

-----------------------------------------------------------------------------
(* Queues.                                                                 *)

\* What leaving a queue without duplicates leaves of it: members of the queue
\* but the one that has left, each once.
LEMMA LeftProperties ==
    ASSUME NEW tasks \in Seq(Caller), NEW c \in Caller,
           \A i, j \in 1..Len(tasks) : tasks[i] = tasks[j] => i = j
    PROVE  LET left == Left(tasks, c)
           IN  /\ left \in Seq(Caller)
               /\ \A i \in 1..Len(left) : \E j \in 1..Len(tasks) : left[i] = tasks[j] /\ tasks[j] # c
               /\ \A i, j \in 1..Len(left) : left[i] = left[j] => i = j
<1> DEFINE here == {i \in 1..Len(tasks) : tasks[i] = c}
           p == CHOOSE i \in here : TRUE
           w == SubSeq(tasks, 1, p - 1) \o SubSeq(tasks, p + 1, Len(tasks))
<1>1. CASE here = {}
  BY <1>1 DEF Left
<1>2. CASE here # {}
  <2>1. p \in 1..Len(tasks) /\ tasks[p] = c
    BY <1>2
  <2>2. Left(tasks, c) = w
    BY <1>2 DEF Left, RemoveAt
  <2> HIDE DEF here, p
  <2>3. /\ w \in Seq(Caller)
        /\ Len(w) = Len(tasks) - 1
        /\ \A i \in 1..Len(w) : w[i] = IF i < p THEN tasks[i] ELSE tasks[i + 1]
    <3> DEFINE a == SubSeq(tasks, 1, p - 1)
               b == SubSeq(tasks, p + 1, Len(tasks))
    <3>1. a \in Seq(Caller) /\ Len(a) = p - 1 /\ \A i \in 1..p - 1 : a[i] = tasks[i]
      BY <2>1
    <3>2. b \in Seq(Caller) /\ Len(b) = Len(tasks) - p /\ \A i \in 1..Len(tasks) - p : b[i] = tasks[p + i]
      BY <2>1
    <3>3. w = a \o b
      OBVIOUS
    <3> HIDE DEF a, b, w
    <3>4. /\ w \in Seq(Caller)
          /\ Len(w) = Len(a) + Len(b)
          /\ \A i \in 1..Len(a) + Len(b) : w[i] = IF i <= Len(a) THEN a[i] ELSE b[i - Len(a)]
      BY <3>1, <3>2, <3>3, ConcatProperties
    <3>5. Len(w) = Len(tasks) - 1
      BY <2>1, <3>1, <3>2, <3>4
    <3>6. ASSUME NEW i \in 1..Len(w), i < p
          PROVE  w[i] = tasks[i]
      BY <2>1, <3>1, <3>4, <3>5, <3>6
    <3>7. ASSUME NEW i \in 1..Len(w), i >= p
          PROVE  w[i] = tasks[i + 1]
      <4>1. i - (p - 1) \in 1..Len(tasks) - p /\ p + (i - (p - 1)) = i + 1
        BY <2>1, <3>5, <3>7
      <4>2. w[i] = b[i - (p - 1)]
        BY <2>1, <3>1, <3>4, <3>5, <3>7
      <4> QED BY <3>2, <4>1, <4>2
    <3> QED BY <2>1, <3>4, <3>5, <3>6, <3>7
  <2> HIDE DEF w
  <2>4. ASSUME NEW i \in 1..Len(w)
        PROVE  \E j \in 1..Len(tasks) : w[i] = tasks[j] /\ tasks[j] # c
    <3>1. CASE i < p
      BY <2>1, <2>3, <3>1
    <3>2. CASE i >= p
      <4>1. i + 1 \in 1..Len(tasks) /\ i + 1 # p
        BY <2>1, <2>3, <3>2
      <4> QED BY <2>1, <2>3, <3>2, <4>1
    <3> QED BY <2>1, <3>1, <3>2
  <2>5. ASSUME NEW i \in 1..Len(w), NEW j \in 1..Len(w), w[i] = w[j]
        PROVE  i = j
    BY <2>1, <2>3, <2>5
  <2> QED BY <2>2, <2>3, <2>4, <2>5
<1> QED BY <1>1, <1>2

-----------------------------------------------------------------------------
(* Counting.                                                               *)

\* The tasks with a permit are finitely many.
LEMMA HoldersFinite == IsFiniteSet(Holders) /\ IsFiniteSet(Holders')
<1>1. Holders \in SUBSET Caller /\ Holders' \in SUBSET Caller
  BY DEF Holders, At
<1> QED BY <1>1, FS_Subset, RateLimitAssumption

\* A task that gets a permit.
LEMMA HolderComes ==
    ASSUME NEW c \in Caller, c \notin Holders, Holders' = Holders \cup {c}
    PROVE  Cardinality(Holders)' = Cardinality(Holders) + 1
BY HoldersFinite, FS_AddElement

\* A task that leaves with its permit, or without.
LEMMA HolderLeaves ==
    ASSUME NEW c \in Caller, c \in Holders, Holders' = Holders \ {c}
    PROVE  /\ Cardinality(Holders)' = Cardinality(Holders) - 1
           /\ Cardinality(Holders) \in Nat \ {0}
<1>1. Cardinality(Holders) \in Nat /\ Cardinality(Holders') \in Nat
  BY HoldersFinite, FS_CardinalityType
<1>2. Cardinality(Holders') = Cardinality(Holders) - 1
  BY HoldersFinite, FS_RemoveElement
<1> QED BY <1>1, <1>2

-----------------------------------------------------------------------------
(* The invariant.                                                          *)

LEMMA RateInit == Init => RateInv
<1> SUFFICES ASSUME Init PROVE RateInv
  OBVIOUS
<1> USE RateLimitAssumption
<1>1. TypeOK
  BY DEF Init, TypeOK, Places
<1>2. QueuesInv
  BY DEF Init, QueuesInv, Orderly
<1>3. SpacingInv
  BY DEF Init, SpacingInv
<1>4. PermitsAccounted
  <2>1. Holders = {}
    BY DEF Init, Holders, At
  <2> QED BY <2>1, FS_EmptySet DEF Init, PermitsAccounted
<1> QED BY <1>1, <1>2, <1>3, <1>4 DEF RateInv

LEMMA AskStep ==
    ASSUME RateInv, NEW c \in Caller, NEW calls \in {1, 3}, Ask(c, calls)
    PROVE  RateInv'
<1> USE RateLimitAssumption DEF RateInv, Ask, Go
<1>1. TypeOK'
  BY DEF TypeOK, Places
<1>2. QueuesInv'
  <2>1. place' \in [Caller -> Places] /\ pending' \in Seq(Caller) /\ line' = line
    BY <1>1 DEF TypeOK
  <2>2. Orderly(line, "queued")'
    BY <2>1 DEF QueuesInv, Orderly, TypeOK
  <2>3. /\ Len(pending') = Len(pending) + 1
        /\ \A i \in 1..Len(pending) : pending'[i] = pending[i] /\ pending[i] # c
        /\ pending'[Len(pending) + 1] = c
    BY DEF QueuesInv, Orderly, TypeOK
  <2>4. Orderly(pending, "pending")'
    BY <2>1, <2>3 DEF QueuesInv, Orderly, TypeOK
  <2> QED BY <2>2, <2>4 DEF QueuesInv
<1>3. SpacingInv'
  BY DEF SpacingInv, TypeOK
<1>4. PermitsAccounted'
  <2>1. Holders' = Holders
    BY DEF Holders, At, TypeOK
  <2> QED BY <2>1 DEF PermitsAccounted
<1> QED BY <1>1, <1>2, <1>3, <1>4

LEMMA TakePermitStep ==
    ASSUME RateInv, TakePermit
    PROVE  RateInv'
<1> USE RateLimitAssumption DEF RateInv, TakePermit, Go
<1> DEFINE c == Head(pending)
<1>1. TypeOK'
  BY DEF TypeOK, Places
<1>2. c \in Caller /\ place[c] = "pending"
  BY DEF QueuesInv, Orderly, TypeOK
<1>3. QueuesInv'
  <2>1. place' = [place EXCEPT ![c] = "queued"] /\ place' \in [Caller -> Places]
    BY <1>1 DEF TypeOK
  <2>2. /\ Len(pending') = Len(pending) - 1
        /\ \A i \in 1..Len(pending') : pending'[i] = pending[i + 1] /\ pending[i + 1] # c /\ i + 1 \in 1..Len(pending)
    BY DEF QueuesInv, Orderly, TypeOK
  <2>3. Orderly(pending, "pending")'
    BY <1>1, <2>1, <2>2 DEF QueuesInv, Orderly, TypeOK
  <2>4. /\ Len(line') = Len(line) + 1
        /\ \A i \in 1..Len(line) : line'[i] = line[i] /\ line[i] # c
        /\ line'[Len(line) + 1] = c
    BY <1>2 DEF QueuesInv, Orderly, TypeOK
  <2>5. Orderly(line, "queued")'
    BY <1>1, <1>2, <2>1, <2>4 DEF QueuesInv, Orderly, TypeOK
  <2> QED BY <2>3, <2>5 DEF QueuesInv
<1>4. SpacingInv'
  BY <1>2 DEF SpacingInv, TypeOK
<1>5. PermitsAccounted'
  <2>1. c \notin Holders /\ Holders' = Holders \cup {c}
    BY <1>2 DEF Holders, At, TypeOK
  <2>2. Cardinality(Holders)' = Cardinality(Holders) + 1
    BY <1>2, <2>1, HolderComes
  <2>3. Cardinality(Holders) \in Nat
    BY HoldersFinite, FS_CardinalityType
  <2> QED BY <2>2, <2>3 DEF PermitsAccounted, TypeOK
<1> QED BY <1>1, <1>3, <1>4, <1>5

\* A sleep begins, or a call.
LEMMA EnterLockStep ==
    ASSUME RateInv, EnterLock
    PROVE  RateInv'
<1> USE RateLimitAssumption DEF RateInv
<1> DEFINE c == Head(line)
<1>1. c \in Caller /\ place[c] = "queued" /\ line \in Seq(Caller) /\ line # <<>>
  BY DEF QueuesInv, Orderly, TypeOK, EnterLock
<1>2. PICK p \in {"asleep", "calling"} : place' = [place EXCEPT ![c] = p]
  BY DEF EnterLock, Start, Go
<1>3. TypeOK'
  BY <1>1, <1>2 DEF TypeOK, Places, EnterLock, Start, NextStart
<1>4. QueuesInv'
  <2>1. /\ Len(line') = Len(line) - 1
        /\ \A i \in 1..Len(line') : line'[i] = line[i + 1] /\ line[i + 1] # c /\ i + 1 \in 1..Len(line)
    BY <1>1 DEF QueuesInv, Orderly, TypeOK, EnterLock
  <2>2. Orderly(line, "queued")'
    <3>1. \A d \in Caller : d # c => place'[d] = place[d]
      BY <1>2 DEF TypeOK
    <3>2. \A i \in 1..Len(line) : line[i] \in Caller /\ place[line[i]] = "queued"
      BY DEF QueuesInv, Orderly, TypeOK
    <3>3. \A i, j \in 1..Len(line) : line[i] = line[j] => i = j
      BY DEF QueuesInv, Orderly
    <3> HIDE DEF c
    <3>4. Len(line) \in Nat
      BY <1>1
    <3>5. ASSUME NEW i \in 1..Len(line')
          PROVE  place'[line'[i]] = "queued"
      BY <2>1, <3>1, <3>2, <3>5
    <3>6. ASSUME NEW i \in 1..Len(line'), NEW j \in 1..Len(line'), line'[i] = line'[j]
          PROVE  i = j
      <4>1. i + 1 \in 1..Len(line) /\ j + 1 \in 1..Len(line) /\ line[i + 1] = line[j + 1]
        BY <2>1, <3>6
      <4>2. i + 1 = j + 1
        BY <3>3, <4>1
      <4> QED BY <4>2
    <3> QED BY <3>5, <3>6 DEF Orderly
  <2>3. Orderly(pending, "pending")'
    BY <1>1, <1>2, <1>3 DEF QueuesInv, Orderly, TypeOK, EnterLock
  <2> QED BY <2>2, <2>3 DEF QueuesInv
<1>5. SpacingInv'
  <2>1. \A d \in Caller : place[d] # "asleep"
    BY DEF EnterLock, At
  <2>2. CASE MustSleep
    <3>1. nap' = delay /\ since_start' = since_start /\ since_end' = since_end /\ delay' = delay
      BY <2>2 DEF EnterLock
    <3> QED BY <1>1, <1>2, <2>1, <3>1 DEF SpacingInv, TypeOK
  <2>3. CASE ~ MustSleep
    <3>1. place' = [place EXCEPT ![c] = "calling"] /\ delay' = Interval /\ since_start' = 0 /\ since_end' = since_end
      BY <2>3 DEF EnterLock, Start, Go, NextStart
    <3> QED BY <1>1, <2>1, <3>1 DEF SpacingInv, TypeOK
  <2> QED BY <2>2, <2>3
<1>6. PermitsAccounted'
  <2>1. Holders' = Holders
    BY <1>1, <1>2 DEF Holders, At, TypeOK
  <2> QED BY <2>1 DEF PermitsAccounted, EnterLock
<1> QED BY <1>3, <1>4, <1>5, <1>6

LEMMA WakeUpStep ==
    ASSUME RateInv, NEW c \in Caller, WakeUp(c)
    PROVE  RateInv'
<1> USE RateLimitAssumption DEF RateInv, WakeUp, Start, Go, NextStart
<1>1. TypeOK'
  BY DEF TypeOK, Places
<1>2. QueuesInv'
  BY <1>1 DEF QueuesInv, Orderly, TypeOK
<1>3. SpacingInv'
  BY DEF SpacingInv, TypeOK
<1>4. PermitsAccounted'
  <2>1. Holders' = Holders
    BY DEF Holders, At, TypeOK
  <2> QED BY <2>1 DEF PermitsAccounted
<1> QED BY <1>1, <1>2, <1>3, <1>4

LEMMA EndCallStep ==
    ASSUME RateInv, NEW c \in Caller, NEW ok \in BOOLEAN, EndCall(c, ok)
    PROVE  RateInv'
<1> USE RateLimitAssumption DEF RateInv
<1>1. PICK p \in {"pending", "idle"} :
        /\ place' = [place EXCEPT ![c] = p]
        /\ p = "pending" => pending' = Append(pending, c) /\ todo[c] > 1 /\ todo' = [todo EXCEPT ![c] = todo[c] - 1]
        /\ p = "idle" => pending' = pending /\ todo' = [todo EXCEPT ![c] = 0]
  BY DEF EndCall, Go
<1>2. /\ place[c] = "calling"
      /\ permits' = permits + 1 /\ delay' = Interval /\ since_end' = 0
      /\ UNCHANGED <<line, nap, lost, since_start>>
  BY DEF EndCall, Returned
<1>3. Cardinality(Holders)' = Cardinality(Holders) - 1 /\ Cardinality(Holders) \in Nat \ {0}
  <2>1. c \in Holders /\ Holders' = Holders \ {c}
    BY <1>1, <1>2 DEF Holders, At, TypeOK
  <2> QED BY <2>1, HolderLeaves
<1>4. TypeOK'
  <2>1. permits' \in 0..MaxPending
    BY <1>2, <1>3 DEF TypeOK, PermitsAccounted
  <2>2. place' \in [Caller -> Places] /\ pending' \in Seq(Caller)
    <3>1. CASE p = "pending"
      BY <1>1, <3>1 DEF TypeOK, Places
    <3>2. CASE p = "idle"
      BY <1>1, <3>2 DEF TypeOK, Places
    <3> QED BY <3>1, <3>2
  <2>3. todo[c] \in 0..3 /\ (todo[c] > 1 => todo[c] - 1 \in 0..3)
    BY DEF TypeOK
  <2>4. todo' \in [Caller -> 0..3]
    BY <1>1, <2>3 DEF TypeOK
  <2> QED BY <1>2, <2>1, <2>2, <2>4 DEF TypeOK
<1>5. QueuesInv'
  <2>0. \A d \in Caller : d # c => place'[d] = place[d]
    BY <1>1 DEF TypeOK
  <2>1. Orderly(line, "queued")'
    BY <1>2, <2>0 DEF QueuesInv, Orderly, TypeOK
  <2>2. CASE p = "pending"
    <3>1. /\ Len(pending') = Len(pending) + 1
          /\ \A i \in 1..Len(pending) : pending'[i] = pending[i] /\ pending[i] # c
          /\ pending'[Len(pending) + 1] = c
      BY <1>1, <1>2, <2>2 DEF QueuesInv, Orderly, TypeOK
    <3>2. place'[c] = "pending"
      BY <1>1, <2>2 DEF TypeOK
    <3>3. \A i \in 1..Len(pending) : pending[i] \in Caller /\ place[pending[i]] = "pending"
      BY DEF QueuesInv, Orderly, TypeOK
    <3>4. \A i, j \in 1..Len(pending) : pending[i] = pending[j] => i = j
      BY DEF QueuesInv, Orderly
    <3>5. Len(pending) \in Nat
      BY DEF TypeOK
    <3>6. Orderly(pending, "pending")'
      BY <2>0, <3>1, <3>2, <3>3, <3>4, <3>5 DEF Orderly
    <3> QED BY <2>1, <3>6 DEF QueuesInv
  <2>3. CASE p = "idle"
    BY <1>1, <1>2, <1>4, <2>1, <2>3 DEF QueuesInv, Orderly, TypeOK
  <2> QED BY <2>2, <2>3
<1>6. SpacingInv'
  BY <1>1, <1>2, <1>4 DEF SpacingInv, TypeOK
<1>7. PermitsAccounted'
  BY <1>2, <1>3 DEF PermitsAccounted, TypeOK
<1> QED BY <1>4, <1>5, <1>6, <1>7

LEMMA CancelCallStep ==
    ASSUME RateInv, NEW c \in Caller, CancelCall(c)
    PROVE  RateInv'
<1> USE RateLimitAssumption DEF RateInv
<1>1. /\ place[c] \in {"pending", "queued", "asleep"}
      /\ place' = [place EXCEPT ![c] = "idle"]
      /\ todo' = [todo EXCEPT ![c] = 0]
      /\ pending' = Left(pending, c) /\ line' = Left(line, c)
      /\ lost' = IF place[c] = "pending" THEN lost ELSE lost + 1
      /\ nap' = IF place[c] = "asleep" THEN 0 ELSE nap
      /\ UNCHANGED <<permits, delay, since_start, since_end>>
  BY DEF CancelCall, Go
<1>2. /\ pending' \in Seq(Caller)
      /\ \A i \in 1..Len(pending') : \E j \in 1..Len(pending) : pending'[i] = pending[j] /\ pending[j] # c
      /\ \A i, j \in 1..Len(pending') : pending'[i] = pending'[j] => i = j
  <2>1. pending \in Seq(Caller) /\ \A i, j \in 1..Len(pending) : pending[i] = pending[j] => i = j
    BY DEF QueuesInv, Orderly, TypeOK
  <2>2. /\ Left(pending, c) \in Seq(Caller)
        /\ \A i \in 1..Len(Left(pending, c)) : \E j \in 1..Len(pending) : Left(pending, c)[i] = pending[j] /\ pending[j] # c
        /\ \A i, j \in 1..Len(Left(pending, c)) : Left(pending, c)[i] = Left(pending, c)[j] => i = j
    BY ONLY <2>1, c \in Caller, LeftProperties
  <2> QED BY <1>1, <2>2
<1>3. /\ line' \in Seq(Caller)
      /\ \A i \in 1..Len(line') : \E j \in 1..Len(line) : line'[i] = line[j] /\ line[j] # c
      /\ \A i, j \in 1..Len(line') : line'[i] = line'[j] => i = j
  <2>1. line \in Seq(Caller) /\ \A i, j \in 1..Len(line) : line[i] = line[j] => i = j
    BY DEF QueuesInv, Orderly, TypeOK
  <2>2. /\ Left(line, c) \in Seq(Caller)
        /\ \A i \in 1..Len(Left(line, c)) : \E j \in 1..Len(line) : Left(line, c)[i] = line[j] /\ line[j] # c
        /\ \A i, j \in 1..Len(Left(line, c)) : Left(line, c)[i] = Left(line, c)[j] => i = j
    BY ONLY <2>1, c \in Caller, LeftProperties
  <2> QED BY <1>1, <2>2
<1>4. PermitsAccounted' /\ lost' \in 0..MaxPending
  <2>1. CASE place[c] = "pending"
    <3>1. Holders' = Holders
      BY <1>1, <2>1 DEF Holders, At, TypeOK
    <3> QED BY <1>1, <2>1, <3>1 DEF PermitsAccounted, TypeOK
  <2>2. CASE place[c] # "pending"
    <3>1. c \in Holders /\ Holders' = Holders \ {c}
      BY <1>1, <2>2 DEF Holders, At, TypeOK
    <3>2. Cardinality(Holders)' = Cardinality(Holders) - 1 /\ Cardinality(Holders) \in Nat \ {0}
      BY <3>1, HolderLeaves
    <3> QED BY <1>1, <2>2, <3>2 DEF PermitsAccounted, TypeOK
  <2> QED BY <2>1, <2>2
<1>5. TypeOK'
  BY <1>1, <1>2, <1>3, <1>4 DEF TypeOK, Places
<1>6. QueuesInv'
  <2>1. \A d \in Caller : d # c => place'[d] = place[d]
    BY <1>1 DEF TypeOK
  <2>2. Orderly(pending, "pending")'
    BY <1>2, <2>1 DEF QueuesInv, Orderly, TypeOK
  <2>3. Orderly(line, "queued")'
    BY <1>3, <2>1 DEF QueuesInv, Orderly, TypeOK
  <2> QED BY <2>2, <2>3 DEF QueuesInv
<1>7. SpacingInv'
  BY <1>1 DEF SpacingInv, TypeOK
<1> QED BY <1>4, <1>5, <1>6, <1>7

\* Time passes, or nothing happens.
LEMMA TickStep ==
    ASSUME RateInv, Tick \/ UNCHANGED vars
    PROVE  RateInv'
<1> USE RateLimitAssumption DEF RateInv, Tick, vars, Less, More
<1>1. UNCHANGED <<place, todo, pending, line, permits, lost>>
  OBVIOUS
<1>2. TypeOK'
  BY <1>1 DEF TypeOK
<1>3. QueuesInv'
  BY <1>1 DEF QueuesInv, Orderly
<1>4. SpacingInv'
  BY <1>1 DEF SpacingInv, TypeOK
<1>5. PermitsAccounted'
  <2>1. Holders' = Holders
    BY <1>1 DEF Holders, At
  <2> QED BY <1>1, <2>1 DEF PermitsAccounted
<1> QED BY <1>2, <1>3, <1>4, <1>5

LEMMA RateNext == RateInv /\ [Next]_vars => RateInv'
<1> SUFFICES ASSUME RateInv, [Next]_vars PROVE RateInv'
  OBVIOUS
<1> QED
  BY AskStep, TakePermitStep, EnterLockStep, WakeUpStep, EndCallStep, CancelCallStep, TickStep DEF Next

\* The invariant of all behaviours, from which the theorems follow.
LEMMA RateInvariance == Spec => []RateInv
<1> QED BY RateInit, RateNext, PTL DEF Spec

-----------------------------------------------------------------------------
(* The theorems.                                                           *)

\* Every variable keeps its type; permits and lost ones are never more than there were.
THEOREM CallsTyped == Spec => []TypeOK
<1>1. RateInv => TypeOK
  BY DEF RateInv
<1> QED BY <1>1, RateInvariance, PTL

\* Permits are lost by cancellations inside acquire(), and in no other way.
THEOREM PermitsCounted == Spec => []PermitsAccounted
<1>1. RateInv => PermitsAccounted
  BY DEF RateInv
<1> QED BY <1>1, RateInvariance, PTL

\* Calls start an interval apart, for any number of permits: the lock and the sleep
\* under it suffice.
THEOREM CallsAreSpaced == Spec => StartsSpaced
<1> DEFINE Spaced == \A c \in Caller :
        Starts(c) => /\ since_start = Interval
                     /\ since_end = Interval \/ place[c] = "asleep"
<1>1. RateInv /\ [Next]_vars => [Spaced]_vars
  <2> SUFFICES ASSUME RateInv, Next, NEW c \in Caller, Starts(c)
               PROVE  since_start = Interval /\ (since_end = Interval \/ place[c] = "asleep")
    OBVIOUS
  <2> USE RateLimitAssumption DEF RateInv
  <2>1. ASSUME NEW d \in Caller, place' = [place EXCEPT ![d] = "calling"]
        PROVE  d = c
    BY <2>1 DEF Starts, TypeOK
  <2>2. CASE EnterLock
    <3>1. ~ MustSleep
      BY <2>2 DEF EnterLock, Start, Go, Starts, TypeOK
    <3> QED BY <3>1 DEF MustSleep, SpacingInv, TypeOK
  <2>3. ASSUME NEW d \in Caller, WakeUp(d)
        PROVE  place[c] = "asleep" /\ nap = 0
    BY <2>1, <2>3 DEF WakeUp, Start, Go
  <2>4. CASE \E d \in Caller : WakeUp(d)
    BY <2>3, <2>4 DEF SpacingInv, TypeOK
  <2>5. CASE \E d \in Caller, calls \in {1, 3} : Ask(d, calls)
    BY <2>5 DEF Ask, Go, Starts, TypeOK
  <2>6. CASE \E d \in Caller, ok \in BOOLEAN : EndCall(d, ok)
    BY <2>6 DEF EndCall, Go, Starts, TypeOK
  <2>7. CASE \E d \in Caller : CancelCall(d)
    BY <2>7 DEF CancelCall, Go, Starts, TypeOK
  <2>8. CASE TakePermit
    BY <2>8 DEF TakePermit, Go, Starts, TypeOK
  <2>9. CASE Tick
    BY <2>9 DEF Tick, Starts
  <2> QED BY <2>2, <2>4, <2>5, <2>6, <2>7, <2>8, <2>9 DEF Next
<1> QED BY <1>1, RateInvariance, PTL DEF Spec, StartsSpaced

-----------------------------------------------------------------------------
(* NftReads: the age of what a task or a cache has, and what is left of    *)
(* its request or of its life, are bounded together.                       *)

ReadsTyped ==
    /\ read_place \in [Reader -> Reads!Places]
    /\ read_clock \in [Reader -> Nat]
    /\ read_age \in [Reader -> Nat]
    /\ syncs \subseteq Reader
    /\ run_cache \in [left : Nat, age : Nat]
    /\ data_cache \in [left : Nat, age : Nat]

AgesInv ==
    /\ \A r \in Reader :
        /\ read_place[r] = "asking" => read_clock[r] <= Latency
        /\ read_place[r] = "answering" => read_age[r] + read_clock[r] <= Latency
        /\ read_place[r] = "verifying" => read_age[r] + read_clock[r] <= 2 * Latency + Expire - 1
        /\ read_place[r] = "read" => read_age[r] <= Reads!Bound
    /\ run_cache.left > 0 => run_cache.age + run_cache.left <= Latency + Expire
    /\ data_cache.left > 0 => data_cache.age + data_cache.left <= 2 * (Latency + Expire) - 1

ReadsInv == ReadsTyped /\ AgesInv

LEMMA ReadsInit == Reads!Init => ReadsInv
BY AgesAssumption DEF Reads!Init, ReadsInv, ReadsTyped, AgesInv, Reads!Places, Reads!Bound

LEMMA ReadsNext == ReadsInv /\ [Reads!Next]_readsVars => ReadsInv'
<1> SUFFICES ASSUME ReadsInv, [Reads!Next]_readsVars PROVE ReadsInv'
  OBVIOUS
<1> USE AgesAssumption DEF ReadsInv, ReadsTyped, Reads!Places, Reads!Goes, Reads!Holds
<1>1. ASSUME NEW r \in Reader, Reads!Sync(r) PROVE ReadsInv'
  BY <1>1 DEF Reads!Sync, AgesInv
<1>2. ASSUME NEW r \in Reader, Reads!GetNftData(r) PROVE ReadsInv'
  <2>1. ReadsTyped'
    BY <1>2 DEF Reads!GetNftData, Reads!Used
  <2>2. AgesInv'
    BY <1>2 DEF Reads!GetNftData, Reads!Used, Reads!Hit, AgesInv, Reads!Bound
  <2> QED BY <2>1, <2>2
<1>3. ASSUME NEW r \in Reader, Reads!ReadChain(r) PROVE ReadsInv'
  BY <1>3 DEF Reads!ReadChain, AgesInv
<1>4. ASSUME NEW r \in Reader, Reads!Retry(r) PROVE ReadsInv'
  BY <1>4 DEF Reads!Retry, AgesInv
<1>5. ASSUME NEW r \in Reader, Reads!Answer(r) PROVE ReadsInv'
  BY <1>5 DEF Reads!Answer, Reads!Kept, AgesInv
<1>6. ASSUME NEW r \in Reader, Reads!Verified(r) PROVE ReadsInv'
  BY <1>6 DEF Reads!Verified, Reads!Kept, AgesInv, Reads!Bound
<1>7. ASSUME NEW r \in Reader, Reads!Leave(r) PROVE ReadsInv'
  BY <1>7 DEF Reads!Leave, AgesInv
<1>8. CASE Reads!Tick
  <2>1. ReadsTyped'
    BY <1>8 DEF Reads!Tick, Reads!Less, Reads!Older, Reads!Aged
  <2>2. AgesInv'
    BY <1>8 DEF Reads!Tick, Reads!Less, Reads!Older, Reads!Aged, AgesInv, Reads!Bound
  <2> QED BY <2>1, <2>2
<1>9. CASE UNCHANGED readsVars
  BY <1>9 DEF readsVars, AgesInv
<1> QED
  BY <1>1, <1>2, <1>3, <1>4, <1>5, <1>6, <1>7, <1>8, <1>9 DEF Reads!Next, Reads!Store, Reads!Fail

\* What a synchronisation stores was on the chain no longer ago than twice a request
\* and the life of a cache's entry, for any number of readers and any times.
THEOREM StoredDataAreRecent == ServicesSpec => []StoredIsRecent
<1>1. ServicesInit => ReadsInv
  BY ReadsInit DEF ServicesInit
<1>2. [ServicesNext]_allVars => [Reads!Next]_readsVars
  BY DEF ServicesNext, allVars, ReadsStep, readsVars
<1>3. ReadsInv /\ [ServicesNext]_allVars => ReadsInv'
  BY <1>2, ReadsNext
<1>4. ReadsInv => StoredIsRecent
  BY DEF ReadsInv, ReadsTyped, AgesInv, StoredIsRecent, Reads!StoredIsRecent
<1> QED BY <1>1, <1>3, <1>4, PTL DEF ServicesSpec

-----------------------------------------------------------------------------
(* NodeState: the time since the peers became too few, and what is left of *)
(* the sleep or of the reading, are bounded together.                      *)

NodeTyped ==
    /\ known \in {"none", "enough", "few"}
    /\ since \in Nat
    /\ check \in {"sleeping", "calling", "counted"}
    /\ timer \in Nat
    /\ counted \in {"none", "enough", "few"}
    /\ spent \in Nat
    /\ peers \in {"enough", "few"}
    /\ few_for \in Nat
    /\ failing \in BOOLEAN

CountInv ==
    /\ IF check = "sleeping" THEN spent = 0 ELSE spent + timer = AnswerTime
    /\ check = "counted" /\ counted = "enough" => few_for <= spent
    /\ peers = "enough" => few_for = 0
    /\ known = "enough" /\ ~ failing =>
        /\ check = "sleeping" => few_for + timer <= CacheTime + CheckTime
        /\ check = "sleeping" /\ since <= CacheTime => few_for <= since
        /\ check # "sleeping" => few_for + timer <= Node!Bound

NodeInv == NodeTyped /\ CountInv /\ ~ accepted

LEMMA NodeInit == Node!Init => NodeInv
<1> SUFFICES ASSUME Node!Init PROVE NodeInv
  OBVIOUS
<1>1. NodeTyped /\ CountInv
  BY AgesAssumption DEF Node!Init, NodeTyped, CountInv, Node!Bound
<1>2. ~ accepted
  BY Zenon DEF Node!Init
<1> QED BY <1>1, <1>2 DEF NodeInv

\* The upload that is accepted is excused.
LEMMA CreateContentExcused ==
    ASSUME NodeInv, Node!CreateContent
    PROVE  NodeInv'
<1>1. ~ (few_for > Node!Bound /\ ~ failing)
  BY AgesAssumption DEF NodeInv, NodeTyped, CountInv, Node!CreateContent, Node!Bound
<1>2. ~ accepted'
  BY <1>1, Zenon DEF NodeInv, Node!CreateContent
<1>3. NodeTyped' /\ CountInv'
  BY DEF NodeInv, NodeTyped, CountInv, Node!CreateContent
<1> QED BY <1>2, <1>3 DEF NodeInv

LEMMA NodeNext == NodeInv /\ [Node!Next]_nodeVars => NodeInv'
<1> SUFFICES ASSUME NodeInv, [Node!Next]_nodeVars PROVE NodeInv'
  OBVIOUS
<1> USE AgesAssumption DEF NodeTyped, CountInv, Node!Bound, Node!Sleeps, Node!Capped
<1>1. CASE Node!CreateContent
  BY <1>1, CreateContentExcused
<1>2. CASE ~ Node!CreateContent
  <2>1. NodeTyped /\ CountInv /\ ~ accepted
    BY DEF NodeInv
  <2>2. UNCHANGED accepted
    BY <1>2 DEF Node!Next, Node!Check, Node!Count, Node!Read, Node!ReadFails, Node!Change, Node!Tick, nodeVars
  <2>3. ASSUME Node!Check PROVE NodeTyped' /\ CountInv'
    BY <2>1, <2>3 DEF Node!Check, Node!Stale
  <2>4. ASSUME Node!Count PROVE NodeTyped' /\ CountInv'
    BY <2>1, <2>4 DEF Node!Count
  <2>5. ASSUME Node!Read PROVE NodeTyped' /\ CountInv'
    <3>1. spent <= AnswerTime /\ AnswerTime <= CacheTime
      BY <2>1, <2>5 DEF Node!Read
    <3>2. since' = spent
      BY <2>1, <2>5, <3>1 DEF Node!Read, Node!AgeOfRead
    <3>3. /\ check' = "sleeping" /\ timer' = CheckTime /\ spent' = 0 /\ counted' = "none"
          /\ known' = counted /\ few_for' = few_for /\ peers' = peers /\ failing' \in BOOLEAN
      BY <2>5 DEF Node!Read
    <3>4. NodeTyped'
      BY <2>1, <3>2, <3>3
    <3>5. counted = "enough" => few_for <= spent
      BY <2>1, <2>5 DEF Node!Read
    <3>6. CountInv'
      BY <2>1, <3>1, <3>2, <3>3, <3>5
    <3> QED BY <3>4, <3>6
  <2>6. ASSUME Node!ReadFails PROVE NodeTyped' /\ CountInv'
    BY <2>1, <2>6 DEF Node!ReadFails
  <2>7. ASSUME Node!Change PROVE NodeTyped' /\ CountInv'
    BY <2>1, <2>7 DEF Node!Change
  <2>8. ASSUME Node!Tick PROVE NodeTyped' /\ CountInv'
    BY <2>1, <2>8 DEF Node!Tick
  <2>9. ASSUME UNCHANGED nodeVars PROVE NodeTyped' /\ CountInv'
    BY <2>1, <2>9 DEF nodeVars
  <2> QED
    BY <1>2, <2>1, <2>2, <2>3, <2>4, <2>5, <2>6, <2>7, <2>8, <2>9 DEF Node!Next, NodeInv
<1> QED BY <1>1, <1>2

\* An upload with too few peers in the cluster is accepted only within the cache's
\* time, a sleep and a reading after they became too few, or by a node whose last
\* reading has failed.
THEOREM UploadsAcceptedOnRecentCount == ServicesSpec => []AcceptedOnRecentCount
<1>1. ServicesInit => NodeInv
  BY NodeInit DEF ServicesInit
<1>2. [ServicesNext]_allVars => [Node!Next]_nodeVars
  BY DEF ServicesNext, allVars, NodeStep, nodeVars
<1>3. NodeInv /\ [ServicesNext]_allVars => NodeInv'
  BY <1>2, NodeNext
<1>4. NodeInv => AcceptedOnRecentCount
  BY DEF NodeInv, AcceptedOnRecentCount, Node!AcceptedOnRecentCount
<1> QED BY <1>1, <1>3, <1>4, PTL DEF ServicesSpec

-----------------------------------------------------------------------------
(* BotPolling: a replica's key is alive while it polls, and its lease      *)
(* outlives every deadline on the way to the end of its polling.           *)

BotTyped ==
    /\ bot_place \in [Replica -> Bot!Places]
    /\ refresh \in [Replica -> {"info", "renew", "answered", "nap"}]
    /\ reply \in [Replica -> Nat]
    /\ clock \in [Replica -> Nat]
    /\ polls \in [Replica -> BOOLEAN]
    /\ lease \in [Replica -> Nat]
    /\ cut \in [Replica -> BOOLEAN]

\* The lease of replica i against its deadline, at each place.
LeaseCovers(i) ==
    /\ bot_place[i] = "entered" =>
        clock[i] <= CallTime /\ lease[i] >= Ttl - 2 * CallTime + clock[i]
    /\ bot_place[i] = "polling" =>
        /\ refresh[i] = "info" =>
            clock[i] <= CallTime /\ lease[i] >= Ttl - 3 * CallTime + clock[i]
        /\ refresh[i] = "answered" =>
            /\ clock[i] <= CallTime
            /\ lease[i] >= Ttl - 3 * CallTime + clock[i]
            /\ lease[i] >= reply[i] - CallTime + clock[i]
        /\ refresh[i] = "nap" => lease[i] >= clock[i] + CallTime + StopTime + 1
        /\ refresh[i] = "renew" => clock[i] <= CallTime /\ lease[i] >= clock[i] + StopTime + 1
    /\ bot_place[i] = "stopping" => lease[i] >= clock[i] + 1

\* Only one replica has a key in etcd.
OneKey == \A i, j \in Replica : lease[i] > 0 /\ lease[j] > 0 => i = j

PollsInPlace == \A i \in Replica : polls[i] => bot_place[i] \in {"polling", "stopping"} \/ cut[i]

BotInv == BotTyped /\ (\A i \in Replica : LeaseCovers(i)) /\ OneKey /\ PollsInPlace

\* The sleep of the refresh loop leaves enough of the lease, whatever etcd has told it.
LEMMA NapLeavesEnough ==
    ASSUME NEW told \in Nat, NEW left \in Nat,
           left >= Ttl - 3 * CallTime, left >= told - CallTime
    PROVE  left >= Bot!Nap(told) + CallTime + StopTime + 1
BY LeaseAssumption DEF Bot!Nap

LEMMA BotInit == Bot!Init => BotInv
BY DEF Bot!Init, BotInv, BotTyped, LeaseCovers, OneKey, PollsInPlace, Bot!Places

\* Replica k's part of the state stays.
Stays(k) ==
    /\ bot_place'[k] = bot_place[k] /\ refresh'[k] = refresh[k] /\ reply'[k] = reply[k]
    /\ clock'[k] = clock[k] /\ polls'[k] = polls[k] /\ lease'[k] = lease[k] /\ cut'[k] = cut[k]

\* A step of one replica: the invariant is a matter of this replica, but for its key.
LEMMA StepOfOne ==
    ASSUME BotInv, BotTyped', NEW i \in Replica,
           \A k \in Replica : k # i => Stays(k),
           LeaseCovers(i)',
           lease'[i] > 0 => lease[i] > 0 \/ \A k \in Replica : lease[k] = 0,
           polls'[i] => bot_place'[i] \in {"polling", "stopping"} \/ cut'[i]
    PROVE  BotInv'
<1>1. ASSUME NEW k \in Replica PROVE LeaseCovers(k)'
  <2>1. CASE k = i
    BY <2>1
  <2>2. CASE k # i
    <3>1. Stays(k) /\ LeaseCovers(k)
      BY <2>2 DEF BotInv
    <3> QED BY <3>1 DEF Stays, LeaseCovers
  <2> QED BY <2>1, <2>2
<1>2. OneKey'
  <2> SUFFICES ASSUME NEW j \in Replica, NEW k \in Replica, lease'[j] > 0, lease'[k] > 0, j # k
               PROVE  FALSE
    BY DEF OneKey
  <2>1. \A l \in Replica : l # i => lease'[l] = lease[l]
    BY DEF Stays
  <2>2. ~ (lease[j] > 0 /\ lease[k] > 0)
    BY DEF BotInv, OneKey
  <2>3. \A l \in Replica : lease[l] \in Nat /\ lease'[l] \in Nat
    BY DEF BotInv, BotTyped
  <2>4. CASE j = i
    BY <2>1, <2>2, <2>3, <2>4
  <2>5. CASE k = i
    BY <2>1, <2>2, <2>3, <2>5
  <2> QED BY <2>1, <2>2, <2>4, <2>5
<1>3. PollsInPlace'
  <2> SUFFICES ASSUME NEW k \in Replica, polls'[k]
               PROVE  bot_place'[k] \in {"polling", "stopping"} \/ cut'[k]
    BY DEF PollsInPlace
  <2>1. CASE k = i
    BY <2>1
  <2>2. CASE k # i
    BY <2>2 DEF Stays, BotInv, PollsInPlace
  <2> QED BY <2>1, <2>2
<1> QED BY <1>1, <1>2, <1>3 DEF BotInv

\* Time passes for all; no deadline is passed over.
LEMMA BotTick == ASSUME BotInv, Bot!Tick PROVE BotInv'
<1> USE LeaseAssumption
<1>1. BotTyped'
  BY DEF BotInv, BotTyped, Bot!Tick
<1>2. ASSUME NEW k \in Replica PROVE LeaseCovers(k)'
  <2>1. /\ bot_place[k] \in {"entered", "polling", "stopping"} => clock[k] > 0 /\ clock'[k] = clock[k] - 1
        /\ lease'[k] = IF lease[k] > 0 THEN lease[k] - 1 ELSE 0
        /\ bot_place' = bot_place /\ refresh' = refresh /\ reply' = reply
    BY DEF Bot!Tick, Bot!Timed
  <2>2. clock[k] \in Nat /\ lease[k] \in Nat /\ reply[k] \in Nat /\ LeaseCovers(k)
    BY DEF BotInv, BotTyped
  <2> QED BY <2>1, <2>2 DEF LeaseCovers
<1>3. OneKey'
  BY DEF BotInv, BotTyped, OneKey, Bot!Tick
<1>4. PollsInPlace'
  BY DEF BotInv, PollsInPlace, Bot!Tick
<1> QED BY <1>1, <1>2, <1>3, <1>4 DEF BotInv

LEMMA BotNext == BotInv /\ [Bot!Next]_botVars => BotInv'
<1> SUFFICES ASSUME BotInv, [Bot!Next]_botVars PROVE BotInv'
  OBVIOUS
<1> USE LeaseAssumption DEF BotTyped, Bot!Places, Bot!Goes, Stays
<1>0. BotTyped
  BY DEF BotInv
<1>1. ASSUME NEW i \in Replica, Bot!Enter(i) PROVE BotInv'
  <2>1. BotTyped' /\ LeaseCovers(i)' /\ \A k \in Replica : k # i => Stays(k)
    BY <1>0, <1>1 DEF Bot!Enter, LeaseCovers
  <2>2. lease'[i] = lease[i] /\ (polls'[i] => cut'[i])
    BY <1>0, <1>1 DEF Bot!Enter, BotInv, PollsInPlace
  <2> QED BY <2>1, <2>2, StepOfOne
<1>2. ASSUME NEW i \in Replica, Bot!Acquire(i) PROVE BotInv'
  <2>1. PICK age_ \in 0..CallTime : lease' = [lease EXCEPT ![i] = Ttl - age_]
    BY <1>2 DEF Bot!Acquire, Bot!Granted
  <2>2. BotTyped' /\ LeaseCovers(i)' /\ \A k \in Replica : k # i => Stays(k)
    BY <1>0, <1>2, <2>1 DEF Bot!Acquire, LeaseCovers
  <2>3. (\A k \in Replica : lease[k] = 0) /\ (polls'[i] => cut'[i])
    BY <1>0, <1>2 DEF Bot!Acquire, Bot!Granted, BotInv, PollsInPlace
  <2> QED BY <2>2, <2>3, StepOfOne
<1>3. ASSUME NEW i \in Replica, Bot!Refused(i) \/ Bot!AnswerLost(i) PROVE BotInv'
  <2>1. BotTyped' /\ LeaseCovers(i)' /\ \A k \in Replica : k # i => Stays(k)
    BY <1>0, <1>3 DEF Bot!Refused, Bot!AnswerLost, LeaseCovers
  <2>2. lease'[i] = lease[i] /\ (polls'[i] => cut'[i])
    BY <1>0, <1>3 DEF Bot!Refused, Bot!AnswerLost, BotInv, PollsInPlace
  <2> QED BY <2>1, <2>2, StepOfOne
<1>4. ASSUME NEW i \in Replica, Bot!BeginPolling(i) PROVE BotInv'
  <2>1. BotTyped' /\ \A k \in Replica : k # i => Stays(k)
    BY <1>0, <1>4 DEF Bot!BeginPolling
  <2>2. LeaseCovers(i)'
    <3>1. lease[i] >= Ttl - 2 * CallTime + clock[i]
      BY <1>4 DEF Bot!BeginPolling, BotInv, LeaseCovers
    <3> QED BY <1>0, <1>4, <3>1 DEF Bot!BeginPolling, LeaseCovers
  <2>3. lease'[i] = lease[i] /\ bot_place'[i] = "polling"
    BY <1>0, <1>4 DEF Bot!BeginPolling
  <2> QED BY <2>1, <2>2, <2>3, StepOfOne
<1>5. ASSUME NEW i \in Replica, Bot!Release(i) PROVE BotInv'
  <2>1. PICK left \in {0, lease[i]} : lease' = [lease EXCEPT ![i] = left]
    BY <1>5 DEF Bot!Release
  <2>2. PICK p \in {"ended", "resting"}, time \in {0, Pause} :
          bot_place' = [bot_place EXCEPT ![i] = p] /\ clock' = [clock EXCEPT ![i] = time]
    BY <1>5 DEF Bot!Release, Bot!Rests
  <2>3. BotTyped' /\ LeaseCovers(i)' /\ \A k \in Replica : k # i => Stays(k)
    BY <1>0, <1>5, <2>1, <2>2 DEF Bot!Release, LeaseCovers
  <2>4. (lease'[i] > 0 => lease[i] > 0) /\ (polls'[i] => cut'[i])
    BY <1>0, <1>5, <2>1 DEF Bot!Release, BotInv, PollsInPlace
  <2> QED BY <2>3, <2>4, StepOfOne
<1>6. ASSUME NEW i \in Replica, Bot!Process(i) PROVE BotInv'
  <2>1. \A k \in Replica : k # i => Stays(k)
    BY <1>0, <1>6 DEF Bot!Process
  <2>2. /\ bot_place[i] = "polling" /\ clock' = clock /\ bot_place' = bot_place /\ polls' = polls /\ cut' = cut
        /\ lease'[i] > 0 => lease[i] > 0
        /\ lease'[i] \in Nat /\ refresh'[i] = "answered" /\ reply'[i] = lease'[i]
        /\ lease' = [lease EXCEPT ![i] = lease'[i]]
        /\ \/ refresh[i] = "info" /\ lease'[i] = lease[i]
           \/ refresh[i] = "renew" /\ lease'[i] = Ttl
    BY <1>0, <1>6 DEF Bot!Process
  <2>3. BotTyped'
    BY <1>0, <1>6, <2>2 DEF Bot!Process
  <2>4. clock[i] \in Nat /\ clock[i] <= CallTime /\ lease'[i] >= Ttl - 3 * CallTime + clock[i]
    BY <1>0, <2>2 DEF BotInv, LeaseCovers
  <2>5. LeaseCovers(i)'
    BY <2>2, <2>4 DEF LeaseCovers
  <2>6. polls'[i] => bot_place'[i] \in {"polling", "stopping"}
    BY <2>2
  <2> QED BY <2>1, <2>2, <2>3, <2>5, <2>6, StepOfOne
<1>7. ASSUME NEW i \in Replica, Bot!Refreshed(i) PROVE BotInv'
  <2>1. \A k \in Replica : k # i => Stays(k)
    BY <1>0, <1>7 DEF Bot!Refreshed
  <2>2. lease[i] >= Bot!Nap(reply[i]) + CallTime + StopTime + 1
    <3>1. /\ lease[i] >= Ttl - 3 * CallTime + clock[i] /\ lease[i] >= reply[i] - CallTime + clock[i]
          /\ lease[i] \in Nat /\ reply[i] \in Nat /\ clock[i] \in Nat
      BY <1>0, <1>7 DEF Bot!Refreshed, BotInv, LeaseCovers
    <3>2. lease[i] >= Ttl - 3 * CallTime /\ lease[i] >= reply[i] - CallTime
      BY <3>1
    <3> QED BY <3>1, <3>2, NapLeavesEnough
  <2>3. BotTyped' /\ LeaseCovers(i)'
    BY <1>0, <1>7, <2>2 DEF Bot!Refreshed, LeaseCovers, Bot!Nap
  <2>4. lease'[i] = lease[i] /\ bot_place'[i] = "polling"
    BY <1>7 DEF Bot!Refreshed
  <2> QED BY <2>1, <2>3, <2>4, StepOfOne
<1>8. ASSUME NEW i \in Replica, Bot!RefreshDue(i) PROVE BotInv'
  <2>1. BotTyped' /\ \A k \in Replica : k # i => Stays(k)
    BY <1>0, <1>8 DEF Bot!RefreshDue
  <2>2. LeaseCovers(i)'
    BY <1>0, <1>8 DEF Bot!RefreshDue, BotInv, LeaseCovers
  <2>3. lease'[i] = lease[i] /\ bot_place'[i] = "polling"
    BY <1>8 DEF Bot!RefreshDue
  <2> QED BY <2>1, <2>2, <2>3, StepOfOne
<1>9. ASSUME NEW i \in Replica, bot_place[i] = "polling", Bot!StopsChildren(i), lease' = lease, cut' = cut,
             polls' \in [Replica -> BOOLEAN], \A k \in Replica : k # i => polls'[k] = polls[k]
      PROVE  BotInv'
  <2>1. BotTyped' /\ \A k \in Replica : k # i => Stays(k)
    BY <1>0, <1>9 DEF Bot!StopsChildren
  <2>2. lease[i] >= StopTime + 1
    BY <1>0, <1>9 DEF BotInv, LeaseCovers, Bot!Nap
  <2>3. LeaseCovers(i)'
    BY <1>0, <1>9, <2>2 DEF Bot!StopsChildren, LeaseCovers
  <2>4. lease'[i] = lease[i] /\ bot_place'[i] = "stopping"
    BY <1>0, <1>9 DEF Bot!StopsChildren
  <2> QED BY <2>1, <2>3, <2>4, StepOfOne
<1>10. ASSUME NEW i \in Replica, Bot!RefreshFails(i) PROVE BotInv'
  BY <1>0, <1>9, <1>10 DEF Bot!RefreshFails
<1>11. ASSUME NEW i \in Replica, Bot!PollingEnds(i) PROVE BotInv'
  <2>1. polls' = [polls EXCEPT ![i] = FALSE] /\ lease' = lease /\ cut' = cut
    BY <1>11 DEF Bot!PollingEnds
  <2>2. CASE bot_place[i] = "polling"
    <3>1. Bot!StopsChildren(i)
      BY <1>11, <2>2 DEF Bot!PollingEnds
    <3>2. polls' \in [Replica -> BOOLEAN] /\ \A k \in Replica : k # i => polls'[k] = polls[k]
      BY <1>0, <2>1
    <3> QED BY <1>9, <2>1, <2>2, <3>1, <3>2
  <2>3. CASE bot_place[i] # "polling"
    <3>1. UNCHANGED <<bot_place, refresh, reply, clock>>
      BY <1>11, <2>3 DEF Bot!PollingEnds
    <3>2. BotTyped' /\ (\A k \in Replica : k # i => Stays(k)) /\ ~ polls'[i]
      BY <1>0, <2>1, <3>1
    <3>3. LeaseCovers(i)'
      BY <2>1, <3>1 DEF BotInv, LeaseCovers
    <3> QED BY <2>1, <3>2, <3>3, StepOfOne
  <2> QED BY <2>2, <2>3
<1>12. ASSUME NEW i \in Replica, Bot!ChildrenEnded(i) PROVE BotInv'
  <2>1. BotTyped' /\ LeaseCovers(i)' /\ \A k \in Replica : k # i => Stays(k)
    BY <1>0, <1>12 DEF Bot!ChildrenEnded, LeaseCovers
  <2>2. lease'[i] = lease[i] /\ ~ polls'[i]
    BY <1>12 DEF Bot!ChildrenEnded
  <2> QED BY <2>1, <2>2, StepOfOne
<1>13. ASSUME NEW i \in Replica, Bot!Shutdown(i) \/ Bot!Halted(i) PROVE BotInv'
  BY <1>13 DEF Bot!Shutdown, Bot!Halted, BotInv, LeaseCovers, OneKey, PollsInPlace
<1>14. ASSUME NEW i \in Replica, Bot!Cancel(i) PROVE BotInv'
  <2>1. polls' = polls /\ lease' = lease
    BY <1>14 DEF Bot!Cancel
  <2>2. CASE bot_place[i] \in {"resting", "entered", "entering"}
    <3>1. PICK p \in {"ended", "orphan"} :
            bot_place' = [bot_place EXCEPT ![i] = p] /\ clock' = [clock EXCEPT ![i] = 0] /\ UNCHANGED <<refresh, reply, cut>>
      BY <1>14, <2>2 DEF Bot!Cancel
    <3>2. BotTyped' /\ LeaseCovers(i)' /\ \A k \in Replica : k # i => Stays(k)
      BY <1>0, <2>1, <3>1 DEF LeaseCovers
    <3>3. polls'[i] => cut'[i]
      BY <2>1, <2>2, <3>1 DEF BotInv, PollsInPlace
    <3> QED BY <2>1, <3>2, <3>3, StepOfOne
  <2>3. CASE bot_place[i] = "polling"
    BY <1>0, <1>9, <1>14, <2>1, <2>3 DEF Bot!Cancel
  <2>4. CASE bot_place[i] = "stopping"
    <3>1. /\ bot_place' = [bot_place EXCEPT ![i] = "releasing"] /\ clock' = [clock EXCEPT ![i] = 0]
          /\ cut' = [cut EXCEPT ![i] = polls[i]] /\ UNCHANGED <<refresh, reply>>
      BY <1>14, <2>4 DEF Bot!Cancel
    <3>2. BotTyped' /\ LeaseCovers(i)' /\ \A k \in Replica : k # i => Stays(k)
      BY <1>0, <2>1, <3>1 DEF LeaseCovers
    <3>3. polls'[i] => cut'[i]
      BY <1>0, <2>1, <3>1
    <3> QED BY <2>1, <3>2, <3>3, StepOfOne
  <2>5. CASE bot_place[i] = "releasing"
    <3>1. UNCHANGED <<bot_place, clock, refresh, reply, cut>>
      BY <1>14, <2>5 DEF Bot!Cancel
    <3> QED BY <2>1, <3>1 DEF BotInv, LeaseCovers, OneKey, PollsInPlace
  <2> QED BY <1>14, <2>2, <2>3, <2>4, <2>5 DEF Bot!Cancel
<1>15. ASSUME NEW i \in Replica, Bot!OrphanEnds(i) PROVE BotInv'
  <2>1. /\ \/ lease' = lease
           \/ /\ \A k \in Replica : lease[k] = 0
              /\ \E left \in Nat : lease' = [lease EXCEPT ![i] = left]
    BY <1>15 DEF Bot!OrphanEnds, Bot!Granted
  <2>2. BotTyped' /\ LeaseCovers(i)' /\ \A k \in Replica : k # i => Stays(k)
    BY <1>0, <1>15, <2>1 DEF Bot!OrphanEnds, LeaseCovers
  <2>3. polls'[i] => cut'[i]
    BY <1>15 DEF Bot!OrphanEnds, BotInv, PollsInPlace
  <2> QED BY <2>1, <2>2, <2>3, StepOfOne
<1>16. ASSUME NEW i \in Replica, Bot!Kill(i) PROVE BotInv'
  <2>1. BotTyped' /\ LeaseCovers(i)' /\ \A k \in Replica : k # i => Stays(k)
    BY <1>0, <1>16 DEF Bot!Kill, LeaseCovers
  <2>2. lease' = lease /\ ~ polls'[i]
    BY <1>0, <1>16 DEF Bot!Kill
  <2> QED BY <2>1, <2>2, StepOfOne
<1>17. CASE UNCHANGED botVars
  BY <1>17 DEF botVars, BotInv, LeaseCovers, OneKey, PollsInPlace
<1> HIDE DEF BotTyped, Bot!Places, Bot!Goes, Stays
<1> QED
  BY <1>1, <1>2, <1>3, <1>4, <1>5, <1>6, <1>7, <1>8, <1>10, <1>11, <1>12, <1>13, <1>14, <1>15, <1>16, <1>17,
     BotTick DEF Bot!Next, Bot!Runs, Bot!Fails

\* Two replicas never poll at once, for any number of replicas and any times for which
\* a lease outlasts a slow refresh: but for one cancelled while it stops its polling.
THEOREM PollersExclude == ServicesSpec => []OnePoller
<1>1. ServicesInit => BotInv
  BY BotInit DEF ServicesInit
<1>2. [ServicesNext]_allVars => [Bot!Next]_botVars
  BY DEF ServicesNext, allVars, BotStep, botVars
<1>3. BotInv /\ [ServicesNext]_allVars => BotInv'
  BY <1>2, BotNext
<1>4. BotInv => OnePoller
  <2> SUFFICES ASSUME BotInv, NEW i \in Replica, NEW j \in Replica,
                      polls[i], polls[j], i # j, ~ cut[i], ~ cut[j]
               PROVE  FALSE
    BY DEF OnePoller, Bot!OnePoller
  <2>1. ASSUME NEW k \in Replica, polls[k], ~ cut[k] PROVE lease[k] > 0
    <3>1. bot_place[k] \in {"polling", "stopping"}
      BY <2>1 DEF BotInv, PollsInPlace
    <3>2. lease[k] \in Nat /\ clock[k] \in Nat /\ LeaseCovers(k) /\ refresh[k] \in {"info", "renew", "answered", "nap"}
      BY DEF BotInv, BotTyped
    <3> QED BY <3>1, <3>2, LeaseAssumption DEF LeaseCovers, Bot!Nap
  <2> QED BY <2>1 DEF BotInv, OneKey
<1> QED BY <1>1, <1>3, <1>4, PTL DEF ServicesSpec

-----------------------------------------------------------------------------
(* WorkerProcess: what is left of a wait bounds the time since an answer   *)
(* and the time since the process was told to exit.                        *)

WorkerTyped ==
    /\ phase \in {"absent"} \cup Worker!Synchronising \cup Worker!Ending
    /\ asking \in BOOLEAN
    /\ wait \in Nat
    /\ deadline \in Nat
    /\ poll \in 0 .. 1
    /\ exit_event \in BOOLEAN
    /\ age \in Nat
    /\ exit_age \in Nat

\* The time since the last answer, in the phases of the process.
GivesUp ==
    /\ phase = "sync" =>
        /\ deadline > 0 => age + deadline <= SyncTimeout
        /\ age + wait <= SyncTimeout
        /\ asking => wait = deadline
    /\ phase = "verify" =>
        /\ deadline > 0 => age + deadline <= VerifyTimeout
        /\ asking => age + wait <= VerifyTimeout + RequestTimeout
        /\ ~ asking => age + wait <= VerifyTimeout
    /\ phase = "running" =>
        /\ deadline > 0 => age + deadline <= SyncTimeout
        /\ asking => age + wait <= SyncTimeout + RequestTimeout
        /\ ~ asking => age + wait <= SyncTimeout

\* The time since the process was told to exit.
Exits ==
    /\ ~ exit_event => exit_age = 0
    /\ phase \in {"absent", "sync", "verify"} => poll = 0
    /\ exit_event /\ poll > 0 => exit_age + poll <= 1
    /\ phase # "absent" => exit_age <= Worker!Farewell
    /\ exit_event /\ asking /\ phase = "sync" => exit_age + wait <= SyncTimeout
    /\ exit_event /\ asking /\ phase \in {"verify", "running"} => exit_age + wait <= RequestTimeout
    /\ exit_event /\ ~ asking /\ phase \in {"sync", "verify", "running"} =>
        exit_age + wait <= Worker!Farewell
    /\ phase = "verify" /\ asking => wait <= RequestTimeout
    /\ phase = "running" /\ asking => wait <= RequestTimeout
    /\ phase \in {"sync", "verify", "running"} /\ ~ asking => wait <= 1

\* Who is left to see that the keystore is bad, where it is to be removed.
Seen ==
    /\ excused \in BOOLEAN /\ failures \in BOOLEAN
    /\ KeystoreRemoveOnFail /\ keystore = "bad" =>
            excused \/ (failures /\ phase \in {"running", "completed"})

WorkerInv == WorkerTyped /\ GivesUp /\ Exits

LEMMA Farewells ==
    /\ Worker!Farewell \in Nat
    /\ SyncTimeout <= Worker!Farewell /\ RequestTimeout + 1 <= Worker!Farewell
BY TimeoutsAssumption DEF Worker!Farewell, Worker!Retry

LEMMA WorkerInit == Worker!Init => WorkerInv /\ Seen
<1> SUFFICES ASSUME Worker!Init PROVE WorkerInv /\ Seen
  OBVIOUS
<1>1. WorkerTyped
  <2>1. asking \in BOOLEAN /\ exit_event \in BOOLEAN
    BY Zenon DEF Worker!Init
  <2>2. phase = "absent" /\ wait = 0 /\ deadline = 0 /\ poll = 0 /\ age = 0 /\ exit_age = 0
    BY DEF Worker!Init
  <2> QED BY <2>1, <2>2 DEF WorkerTyped
<1>2. GivesUp /\ Exits
  BY DEF Worker!Init, GivesUp, Exits
<1>3. Seen
  BY Zenon DEF Worker!Init, Seen
<1> QED BY <1>1, <1>2, <1>3 DEF WorkerInv

LEMMA WorkerNext == WorkerInv /\ [Worker!Next]_workerVars => WorkerInv'
<1> SUFFICES ASSUME WorkerInv, [Worker!Next]_workerVars PROVE WorkerInv'
  OBVIOUS
<1> USE TimeoutsAssumption, Farewells
    DEF WorkerInv, WorkerTyped, GivesUp, Exits, Worker!Synchronising, Worker!Ending, Worker!Timeout,
        Worker!Retry, Worker!Poll
<1>1. CASE Worker!Start
  <2>1. WorkerTyped'
    BY <1>1 DEF Worker!Start, Worker!Begin, Worker!Request
  <2>2. GivesUp'
    BY <1>1 DEF Worker!Start, Worker!Begin, Worker!Request
  <2>3. Exits'
    BY <1>1 DEF Worker!Start, Worker!Begin, Worker!Request
  <2> QED BY <2>1, <2>2, <2>3
<1>2. CASE Worker!Synchronised
  <2>1. WorkerTyped'
    <3>1. asking' \in BOOLEAN /\ exit_event' \in BOOLEAN
      BY <1>2, Zenon DEF Worker!Synchronised, Worker!Begin, Worker!Request
    <3>2. /\ phase' \in {"verify", "running"} /\ wait' \in {0, RequestTimeout}
          /\ deadline' \in Nat /\ poll' \in 0 .. 1 /\ age' = 0 /\ exit_age' = exit_age
      BY <1>2 DEF Worker!Synchronised, Worker!Begin, Worker!Request, Worker!Following
    <3> QED BY <3>1, <3>2
  <2>2. GivesUp'
    BY <1>2 DEF Worker!Synchronised, Worker!Begin, Worker!Request, Worker!Following
  <2>3. Exits'
    BY <1>2 DEF Worker!Synchronised, Worker!Begin, Worker!Request, Worker!Following
  <2> QED BY <2>1, <2>2, <2>3
<1>3. CASE Worker!Report
  <2>1. WorkerTyped'
    BY <1>3 DEF Worker!Report, Worker!Renewed
  <2>2. GivesUp'
    BY <1>3 DEF Worker!Report, Worker!Renewed
  <2>3. Exits'
    BY <1>3 DEF Worker!Report, Worker!Renewed
  <2> QED BY <2>1, <2>2, <2>3
<1>4. CASE Worker!Retries
  <2>1. WorkerTyped'
    BY <1>4 DEF Worker!Retries, Worker!Expired
  <2>2. GivesUp'
    BY <1>4 DEF Worker!Retries, Worker!Expired
  <2>3. Exits'
    BY <1>4 DEF Worker!Retries, Worker!Expired
  <2> QED BY <2>1, <2>2, <2>3
<1>5. CASE Worker!InitFails
  <2>1. WorkerTyped'
    BY <1>5 DEF Worker!InitFails, Worker!Close, Worker!Leave
  <2>2. GivesUp'
    BY <1>5 DEF Worker!InitFails, Worker!Close, Worker!Leave
  <2>3. Exits'
    BY <1>5 DEF Worker!InitFails, Worker!Close, Worker!Leave
  <2> QED BY <2>1, <2>2, <2>3
<1>6. CASE Worker!TaskFails
  <2>1. WorkerTyped'
    BY <1>6 DEF Worker!TaskFails, Worker!Complete, Worker!Leave
  <2>2. GivesUp'
    BY <1>6 DEF Worker!TaskFails, Worker!Complete, Worker!Leave
  <2>3. Exits'
    BY <1>6 DEF Worker!TaskFails, Worker!Complete, Worker!Leave
  <2> QED BY <2>1, <2>2, <2>3
<1>7. CASE Worker!Turn
  <2>1. WorkerTyped'
    BY <1>7 DEF Worker!Turn, Worker!Begin, Worker!Request, Worker!Following, Worker!Complete, Worker!Leave
  <2>2. GivesUp'
    BY <1>7 DEF Worker!Turn, Worker!Begin, Worker!Request, Worker!Following, Worker!Complete, Worker!Leave
  <2>3. Exits'
    BY <1>7 DEF Worker!Turn, Worker!Begin, Worker!Request, Worker!Following, Worker!Complete, Worker!Leave
  <2> QED BY <2>1, <2>2, <2>3
<1>8. CASE Worker!MainLoop
  <2>1. WorkerTyped'
    <3>1. asking' \in BOOLEAN /\ exit_event' \in BOOLEAN
      BY <1>8, Zenon DEF Worker!MainLoop, Worker!Complete, Worker!Leave
    <3>2. /\ phase' \in {"running", "completed"} /\ wait' \in {0, wait} /\ deadline' \in {0, deadline}
          /\ poll' \in 0 .. 1 /\ age' \in {0, age} /\ exit_age' = exit_age
      BY <1>8 DEF Worker!MainLoop, Worker!Complete, Worker!Leave
    <3> QED BY <3>1, <3>2
  <2>2. GivesUp'
    BY <1>8 DEF Worker!MainLoop, Worker!Complete, Worker!Leave
  <2>3. Exits'
    BY <1>8 DEF Worker!MainLoop, Worker!Complete, Worker!Leave
  <2> QED BY <2>1, <2>2, <2>3
<1>9. CASE Worker!BlockDeleted
  <2>1. WorkerTyped'
    BY <1>9 DEF Worker!BlockDeleted
  <2>2. GivesUp'
    BY <1>9 DEF Worker!BlockDeleted
  <2>3. Exits'
    BY <1>9 DEF Worker!BlockDeleted
  <2> QED BY <2>1, <2>2, <2>3
<1>10. CASE Worker!Finish
  <2>1. WorkerTyped'
    BY <1>10 DEF Worker!Finish, Worker!Close, Worker!Leave
  <2>2. GivesUp'
    BY <1>10 DEF Worker!Finish, Worker!Close, Worker!Leave
  <2>3. Exits'
    BY <1>10 DEF Worker!Finish, Worker!Close, Worker!Leave
  <2> QED BY <2>1, <2>2, <2>3
<1>11. CASE Worker!Exit
  <2>1. WorkerTyped'
    BY <1>11 DEF Worker!Exit
  <2>2. GivesUp'
    BY <1>11 DEF Worker!Exit
  <2>3. Exits'
    BY <1>11 DEF Worker!Exit
  <2> QED BY <2>1, <2>2, <2>3
<1>12. CASE Worker!Terminate
  <2>1. WorkerTyped'
    BY <1>12 DEF Worker!Terminate
  <2>2. GivesUp'
    BY <1>12 DEF Worker!Terminate
  <2>3. Exits'
    BY <1>12 DEF Worker!Terminate
  <2> QED BY <2>1, <2>2, <2>3
<1>13. CASE Worker!Kill
  <2>1. WorkerTyped'
    <3>1. asking' \in BOOLEAN /\ exit_event' \in BOOLEAN
      BY <1>13, Zenon DEF Worker!Kill
    <3>2. /\ phase' = "absent" /\ wait' = 0 /\ deadline' = 0 /\ poll' = 0
          /\ age' = 0 /\ exit_age' = exit_age
      BY <1>13 DEF Worker!Kill
    <3> QED BY <3>1, <3>2
  <2>2. GivesUp'
    BY <1>13 DEF Worker!Kill
  <2>3. Exits'
    BY <1>13 DEF Worker!Kill
  <2> QED BY <2>1, <2>2, <2>3
<1>14. CASE Worker!Tick
  <2>1. WorkerTyped'
    BY <1>14 DEF Worker!Tick, Worker!Prompt
  <2>2. GivesUp'
    BY <1>14 DEF Worker!Tick, Worker!Prompt
  <2>3. Exits'
    BY <1>14 DEF Worker!Tick, Worker!Prompt
  <2> QED BY <2>1, <2>2, <2>3
<1>15. CASE Worker!ReportArchival
  <2>1. UNCHANGED <<phase, asking, wait, deadline, poll, exit_event, age, exit_age>>
    BY <1>15, Zenon DEF Worker!ReportArchival
  <2> QED BY <2>1
<1>16. CASE UNCHANGED workerVars
  <2>1. WorkerTyped'
    BY <1>16 DEF workerVars
  <2>2. GivesUp'
    BY <1>16 DEF workerVars
  <2>3. Exits'
    BY <1>16 DEF workerVars
  <2> QED BY <2>1, <2>2, <2>3
<1> QED
  BY <1>1, <1>2, <1>3, <1>4, <1>5, <1>6, <1>7, <1>8, <1>9, <1>10, <1>11, <1>12, <1>13, <1>14, <1>15,
     <1>16
  DEF Worker!Next

LEMMA SeenNext == Seen /\ [Worker!Next]_workerVars => Seen'
<1> SUFFICES ASSUME Seen, [Worker!Next]_workerVars PROVE Seen'
  OBVIOUS
<1> USE DEF Seen, Worker!Synchronising, Worker!Ending, Worker!Complete, Worker!Close, Worker!Leave,
            Worker!RemoveKeystore
<1>0. Worker!Swallowed => (keystore' = "bad" => keystore = "bad")
  BY DEF Worker!Swallowed
<1>1. CASE Worker!Start
  BY <1>1, Zenon DEF Worker!Start, Worker!Begin
<1>2. CASE Worker!Synchronised
  BY <1>2, Zenon DEF Worker!Synchronised
<1>3. CASE Worker!Report
  BY <1>3, Zenon DEF Worker!Report
<1>4. CASE Worker!Retries
  BY <1>0, <1>4, Zenon DEF Worker!Retries
<1>5. CASE Worker!InitFails
  BY <1>0, <1>5, Zenon DEF Worker!InitFails
<1>6. CASE Worker!TaskFails
  BY <1>0, <1>6, Zenon DEF Worker!TaskFails
<1>7. CASE Worker!Turn
  BY <1>7, Zenon DEF Worker!Turn
<1>8. CASE Worker!MainLoop
  BY <1>8, Zenon DEF Worker!MainLoop
<1>9. CASE Worker!BlockDeleted
  BY <1>9, Zenon DEF Worker!BlockDeleted
<1>10. CASE Worker!Finish
  BY <1>10, Zenon DEF Worker!Finish, Worker!Removes
<1>11. CASE Worker!Exit
  BY <1>11, Zenon DEF Worker!Exit
<1>12. CASE Worker!Terminate
  BY <1>12, Zenon DEF Worker!Terminate
<1>13. CASE Worker!Kill
  BY <1>13, Zenon DEF Worker!Kill
<1>14. CASE Worker!Tick
  BY <1>14, Zenon DEF Worker!Tick
<1>15. CASE Worker!ReportArchival
  BY <1>0, <1>15, Zenon DEF Worker!ReportArchival
<1>16. CASE UNCHANGED workerVars
  BY <1>16, Zenon DEF workerVars
<1> QED
  BY <1>1, <1>2, <1>3, <1>4, <1>5, <1>6, <1>7, <1>8, <1>9, <1>10, <1>11, <1>12, <1>13, <1>14, <1>15,
     <1>16
  DEF Worker!Next

LEMMA WorkerSteps == [ServicesNext]_allVars => [Worker!Next]_workerVars
BY DEF ServicesNext, allVars, WorkerStep, workerVars

\* A worker's process whose liteserver no longer answers gives up in time, and one that
\* is told to exit is gone in time, for any timeouts.
THEOREM WorkerStopsInTime == ServicesSpec => []StopsInTime
<1>1. ServicesInit => WorkerInv
  BY WorkerInit DEF ServicesInit
<1>2. WorkerInv /\ [ServicesNext]_allVars => WorkerInv'
  BY WorkerSteps, WorkerNext
<1>3. WorkerInv => StopsInTime
  BY TimeoutsAssumption
  DEF WorkerInv, WorkerTyped, GivesUp, Exits, StopsInTime, Worker!StopsInTime, Worker!Synchronising,
      Worker!Timeout, Worker!CutOff, Worker!Retry
<1> QED BY <1>1, <1>2, <1>3, PTL DEF ServicesSpec

\* Whichever task ends the process first, a keystore on which process_task met BlockDeleted
\* is not left to the next process where it is to be removed, but for a kill or a failure
\* after run() has looked.
THEOREM BadKeystoreNotKept == ServicesSpec => []BadKeystoreRemoved
<1>1. ServicesInit => Seen
  BY WorkerInit DEF ServicesInit
<1>2. Seen /\ [ServicesNext]_allVars => Seen'
  BY WorkerSteps, SeenNext
<1>3. Seen => BadKeystoreRemoved
  BY Zenon DEF Seen, BadKeystoreRemoved, Worker!BadKeystoreRemoved
<1> QED BY <1>1, <1>2, <1>3, PTL DEF ServicesSpec

-----------------------------------------------------------------------------
(* UserQueue: how much of a queue a bulk takes.                            *)

LEMMA LeastNatural ==
    ASSUME NEW T \in SUBSET Nat, T # {}
    PROVE  \E m \in T : \A k \in T : m <= k
<1>1. \E m \in T : \A k \in T : ~ (<<k, m>> \in OpToRel(<, Nat))
  BY NatLessThanWellFounded, WFMin
<1>2. ASSUME NEW m \in T, NEW k \in T, ~ (<<k, m>> \in OpToRel(<, Nat)) PROVE m <= k
  <2>1. OpToRel(<, Nat) = {ss \in Nat \X Nat : ss[1] < ss[2]}
    BY DEF OpToRel
  <2>2. k \in Nat /\ m \in Nat /\ ~ (k < m)
    BY <1>2, <2>1
  <2> QED BY <2>2
<1> QED BY <1>1, <1>2

LEMMA FrontFinite ==
    ASSUME NEW S, NEW q \in Seq(S), NEW m \in 0 .. Len(q)
    PROVE  /\ IsFiniteSet(Users!Front(q, m)) /\ Cardinality(Users!Front(q, m)) \in Nat
           /\ Users!Front(q, m) \subseteq S
           /\ Users!Front(q, m) = {q[k] : k \in 1 .. m}
<1> DEFINE f == [k \in 1 .. m |-> q[k]]
<1>1. Users!Front(q, m) = {q[k] : k \in 1 .. m}
  BY DEF Users!Front
<1>2. f \in Surjection(1 .. m, Users!Front(q, m))
  BY <1>1 DEF Surjection
<1>3. IsFiniteSet(1 .. m)
  BY FS_Interval
<1>4. IsFiniteSet(Users!Front(q, m))
  BY <1>2, <1>3, FS_Surjection
<1>5. \A k \in 1 .. m : q[k] \in S
  OBVIOUS
<1> QED BY <1>1, <1>4, <1>5, FS_CardinalityType

LEMMA SameCardinality == \A S : Users!Cardinality(S) = Cardinality(S)
BY DEF Users!Cardinality, Cardinality

LEMMA TakesChosen ==
    ASSUME NEW q,
           \E m \in 0 .. Len(q) :
                /\ m = Len(q) \/ Cardinality(Users!Front(q, m)) = BulkSize
                /\ \A k \in 0 .. (m - 1) : Cardinality(Users!Front(q, k)) < BulkSize
    PROVE  Users!Takes(q) \in 0 .. Len(q)
<1>1. Users!Takes(q) = CHOOSE m \in 0 .. Len(q) :
        /\ m = Len(q) \/ Users!Cardinality(Users!Front(q, m)) = BulkSize
        /\ \A k \in 0 .. (m - 1) : Users!Cardinality(Users!Front(q, k)) < BulkSize
  BY Zenon DEF Users!Takes
<1>2. \E m \in 0 .. Len(q) :
        /\ m = Len(q) \/ Users!Cardinality(Users!Front(q, m)) = BulkSize
        /\ \A k \in 0 .. (m - 1) : Users!Cardinality(Users!Front(q, k)) < BulkSize
  BY SameCardinality
<1> QED BY <1>1, <1>2, Zenon

\* A bulk is full, or the queue is empty, after some number of entries.
LEMMA TakesExists ==
    ASSUME NEW S, NEW q \in Seq(S)
    PROVE  Users!Takes(q) \in 0 .. Len(q)
<1> DEFINE Full == {m \in 0 .. Len(q) : m = Len(q) \/ Cardinality(Users!Front(q, m)) >= BulkSize}
<1>1. Len(q) \in Nat /\ BulkSize \in Nat /\ BulkSize > 0
  BY BulkAssumption
<1>2. \A m \in 0 .. Len(q) : Cardinality(Users!Front(q, m)) \in Nat
  BY FrontFinite
<1>3. PICK m \in Full : \A k \in Full : m <= k
  <2>1. Full \in SUBSET Nat /\ Len(q) \in Full
    BY <1>1
  <2> QED BY <2>1, LeastNatural
<1>4. m \in 0 .. Len(q) /\ (m = Len(q) \/ Cardinality(Users!Front(q, m)) >= BulkSize)
  OBVIOUS
<1>5. ASSUME NEW k \in 0 .. (m - 1) PROVE Cardinality(Users!Front(q, k)) < BulkSize
  BY <1>1, <1>2, <1>3, <1>4
<1>6. m = Len(q) \/ Cardinality(Users!Front(q, m)) = BulkSize
  <2>1. CASE m = 0
    <3>1. Users!Front(q, 0) = {}
      BY DEF Users!Front
    <3>2. Cardinality(Users!Front(q, m)) = 0
      BY <2>1, <3>1, FS_EmptySet
    <3> QED BY ONLY <1>1, <1>4, <3>2
  <2>2. CASE m # 0
    <3>1. m - 1 \in 0 .. Len(q) /\ m - 1 \in 0 .. (m - 1) /\ m \in 1 .. m
      BY <1>1, <1>4, <2>2
    <3>2. Users!Front(q, m) = Users!Front(q, m - 1) \cup {q[m]}
      BY <3>1 DEF Users!Front
    <3>3. IsFiniteSet(Users!Front(q, m - 1)) /\ Cardinality(Users!Front(q, m - 1)) \in Nat
      BY <3>1, FrontFinite
    <3>4. Cardinality(Users!Front(q, m)) <= Cardinality(Users!Front(q, m - 1)) + 1
      <4>1. Cardinality(Users!Front(q, m - 1) \cup {q[m]})
                \in {Cardinality(Users!Front(q, m - 1)), Cardinality(Users!Front(q, m - 1)) + 1}
        BY ONLY <3>3, FS_AddElement
      <4> QED BY <3>2, <3>3, <4>1
    <3>5. Cardinality(Users!Front(q, m - 1)) < BulkSize
      BY <1>5, <3>1
    <3> QED BY <1>1, <1>2, <1>4, <3>3, <3>4, <3>5
  <2> QED BY <2>1, <2>2
<1>7. \E k \in 0 .. Len(q) :
        /\ k = Len(q) \/ Cardinality(Users!Front(q, k)) = BulkSize
        /\ \A j \in 0 .. (k - 1) : Cardinality(Users!Front(q, j)) < BulkSize
  BY <1>4, <1>5, <1>6
<1> QED BY <1>7, TakesChosen

\* The entries that are taken and those that stay are all.
LEMMA TakesSplits ==
    ASSUME NEW S, NEW q \in Seq(S), NEW m \in 0 .. Len(q)
    PROVE  /\ Users!Remaining(q, m) \in Seq(S)
           /\ Users!Front(q, Len(q)) =
                Users!Front(q, m) \cup Users!Front(Users!Remaining(q, m), Len(Users!Remaining(q, m)))
<1> DEFINE rest == Users!Remaining(q, m)
<1>1. /\ rest \in Seq(S) /\ Len(rest) = Len(q) - m
      /\ \A k \in 1 .. Len(q) - m : rest[k] = q[m + k]
  BY DEF Users!Remaining
<1> HIDE DEF rest
<1>2. ASSUME NEW k \in 1 .. Len(q), k > m PROVE k - m \in 1 .. Len(rest) /\ rest[k - m] = q[k]
  BY <1>1, <1>2
<1>3. ASSUME NEW k \in 1 .. Len(rest) PROVE m + k \in 1 .. Len(q) /\ rest[k] = q[m + k]
  BY <1>1
<1>4. Users!Front(q, Len(q)) = Users!Front(q, m) \cup Users!Front(rest, Len(rest))
  <2>1. ASSUME NEW k \in 1 .. Len(q) PROVE q[k] \in Users!Front(q, m) \cup Users!Front(rest, Len(rest))
    <3>1. CASE k <= m
      BY <3>1 DEF Users!Front
    <3>2. CASE k > m
      BY <1>2, <3>2 DEF Users!Front
    <3> QED BY <3>1, <3>2
  <2>2. ASSUME NEW k \in 1 .. m PROVE q[k] \in Users!Front(q, Len(q))
    BY DEF Users!Front
  <2>3. ASSUME NEW k \in 1 .. Len(rest) PROVE rest[k] \in Users!Front(q, Len(q))
    BY <1>3 DEF Users!Front
  <2> QED BY <2>1, <2>2, <2>3 DEF Users!Front
<1> QED BY <1>1, <1>4 DEF rest

LEMMA AppendFront ==
    ASSUME NEW S, NEW q \in Seq(S), NEW x \in S
    PROVE  Users!Front(Append(q, x), Len(Append(q, x))) = Users!Front(q, Len(q)) \cup {x}
<1>1. /\ Len(q) \in Nat /\ Len(Append(q, x)) = Len(q) + 1
      /\ \A k \in 1 .. Len(q) : Append(q, x)[k] = q[k]
      /\ Append(q, x)[Len(q) + 1] = x
  OBVIOUS
<1> QED BY <1>1 DEF Users!Front

-----------------------------------------------------------------------------
(* UserQueue: nobody is lost but in the named ways, and where second rows  *)
(* come from.                                                              *)

Waiting(i) == Users!Front(queue[i], Len(queue[i]))

UsersTyped ==
    /\ queue \in [Instance -> Seq(TgUser)]
    /\ unfinished \in [Instance -> Nat]
    /\ loop \in [Instance -> Users!Loops]
    /\ bulk \in [Instance -> SUBSET TgUser]
    /\ taken \in [Instance -> SUBSET TgUser]
    /\ adding \in [Instance -> SUBSET TgUser]
    /\ users \subseteq TgUser
    /\ stage \in [Instance -> Users!Stages]

\* A bulk is there while it is stored only, and the count of unfinished tasks tells
\* that there is one, or a user on the queue.
BulkInv ==
    \A i \in Instance :
        /\ loop[i] # "storing" => taken[i] = {} /\ adding[i] = {}
        /\ unfinished[i] = 0 => queue[i] = <<>> /\ taken[i] = {} /\ adding[i] = {}
        /\ bulk[i] \subseteq taken[i]

Stored(rows_, u) == \E r \in rows_ : r.owner = u.owner

\* A user of the bulk that was looked up has a row, if the transaction commits; an
\* accepted user is on its way, stored or lost.
KeptInv ==
    \A i \in Instance, u \in TgUser :
        /\ u \in taken[i] \ bulk[i] => Stored(users \cup adding[i], u)
        /\ <<i, u>> \in registered =>
            u \in Waiting(i) \/ u \in taken[i] \/ Stored(users, u) \/ <<i, u>> \in lost_users

UsersInv == UsersTyped /\ BulkInv /\ KeptInv

\* A shutdown that is past the queue has left nobody there.
JoinedInv == \A i \in Instance : stage[i] \in {"indexers", "tasks"} => unfinished[i] = 0

LEMMA UsersInit == Users!Init => UsersInv /\ JoinedInv
<1> SUFFICES ASSUME Users!Init PROVE UsersInv /\ JoinedInv
  OBVIOUS
<1>1. UsersTyped
  BY DEF Users!Init, UsersTyped, Users!Loops, Users!Stages
<1>2. BulkInv
  BY DEF Users!Init, BulkInv
<1>3. KeptInv
  BY DEF Users!Init, KeptInv
<1>4. JoinedInv
  BY DEF Users!Init, JoinedInv
<1> QED BY <1>1, <1>2, <1>3, <1>4 DEF UsersInv

\* What a step at the instance i may do to keep the invariant: the others stay as they are.
LEMMA StepAtInstance ==
    ASSUME UsersInv, UsersTyped', NEW i \in Instance,
           \A j \in Instance \ {i} :
                /\ queue'[j] = queue[j] /\ unfinished'[j] = unfinished[j] /\ loop'[j] = loop[j]
                /\ bulk'[j] = bulk[j] /\ taken'[j] = taken[j] /\ adding'[j] = adding[j],
           users \subseteq users', lost_users \subseteq lost_users',
           \A j \in Instance \ {i}, u \in TgUser : <<j, u>> \in registered' => <<j, u>> \in registered,
           loop'[i] # "storing" => taken'[i] = {} /\ adding'[i] = {},
           unfinished'[i] = 0 => queue'[i] = <<>> /\ taken'[i] = {} /\ adding'[i] = {},
           bulk'[i] \subseteq taken'[i],
           \A u \in TgUser :
                /\ u \in taken'[i] \ bulk'[i] => Stored(users' \cup adding'[i], u)
                /\ <<i, u>> \in registered' =>
                    u \in Waiting(i)' \/ u \in taken'[i] \/ Stored(users', u) \/ <<i, u>> \in lost_users'
    PROVE  UsersInv'
<1>1. BulkInv'
  <2> SUFFICES ASSUME NEW j \in Instance
               PROVE  /\ loop'[j] # "storing" => taken'[j] = {} /\ adding'[j] = {}
                      /\ unfinished'[j] = 0 => queue'[j] = <<>> /\ taken'[j] = {} /\ adding'[j] = {}
                      /\ bulk'[j] \subseteq taken'[j]
    BY DEF BulkInv
  <2>1. CASE j = i
    BY <2>1
  <2>2. CASE j # i
    BY <2>2 DEF UsersInv, BulkInv
  <2> QED BY <2>1, <2>2
<1>2. KeptInv'
  <2> SUFFICES ASSUME NEW j \in Instance, NEW u \in TgUser
               PROVE  /\ u \in taken'[j] \ bulk'[j] => Stored(users' \cup adding'[j], u)
                      /\ <<j, u>> \in registered' =>
                            u \in Waiting(j)' \/ u \in taken'[j] \/ Stored(users', u)
                                \/ <<j, u>> \in lost_users'
    BY DEF KeptInv
  <2>1. CASE j = i
    BY <2>1
  <2>2. CASE j # i
    <3>1. Waiting(j)' = Waiting(j)
      BY <2>2 DEF Waiting, Users!Front
    <3>2. Stored(users, u) => Stored(users', u)
      BY DEF Stored
    <3>3. Stored(users \cup adding[j], u) => Stored(users' \cup adding[j], u)
      BY DEF Stored
    <3>4. /\ u \in taken[j] \ bulk[j] => Stored(users \cup adding[j], u)
          /\ <<j, u>> \in registered =>
                u \in Waiting(j) \/ u \in taken[j] \/ Stored(users, u) \/ <<j, u>> \in lost_users
      BY DEF UsersInv, KeptInv
    <3> QED BY <2>2, <3>1, <3>2, <3>3, <3>4
  <2> QED BY <2>1, <2>2
<1> QED BY <1>1, <1>2 DEF UsersInv

\* A registration: the queue's user and its count.
LEMMA UsersRegister ==
    ASSUME UsersInv, NEW i \in Instance, NEW u \in TgUser, Users!RegisterTgUser(i, u)
    PROVE  UsersInv'
<1>1. /\ queue' = [queue EXCEPT ![i] = Append(queue[i], u)]
      /\ unfinished' = [unfinished EXCEPT ![i] = unfinished[i] + 1]
      /\ registered' = registered \cup {<<i, u>>}
      /\ UNCHANGED <<loop, bulk, taken, adding, users, stage, lost_users>>
  BY Zenon DEF Users!RegisterTgUser
<1>2. UsersTyped'
  BY <1>1 DEF UsersInv, UsersTyped
<1>3. queue[i] \in Seq(TgUser) /\ queue'[i] = Append(queue[i], u) /\ unfinished'[i] # 0
  BY <1>1 DEF UsersInv, UsersTyped
<1>4. Waiting(i)' = Waiting(i) \cup {u}
  <2>1. Waiting(i)' = Users!Front(queue'[i], Len(queue'[i]))
    BY DEF Waiting, Users!Front
  <2> QED BY <1>3, <2>1, AppendFront DEF Waiting
<1>5. ASSUME NEW v \in TgUser
      PROVE  /\ v \in taken'[i] \ bulk'[i] => Stored(users' \cup adding'[i], v)
             /\ <<i, v>> \in registered' =>
                    v \in Waiting(i)' \/ v \in taken'[i] \/ Stored(users', v)
                        \/ <<i, v>> \in lost_users'
  <2>1. /\ v \in taken[i] \ bulk[i] => Stored(users \cup adding[i], v)
        /\ <<i, v>> \in registered =>
                v \in Waiting(i) \/ v \in taken[i] \/ Stored(users, v) \/ <<i, v>> \in lost_users
    BY DEF UsersInv, KeptInv
  <2>2. <<i, v>> \in registered' => <<i, v>> \in registered \/ v = u
    BY <1>1
  <2> QED BY <1>1, <1>4, <2>1, <2>2
<1>6. /\ loop'[i] # "storing" => taken'[i] = {} /\ adding'[i] = {}
      /\ bulk'[i] \subseteq taken'[i]
  BY <1>1 DEF UsersInv, BulkInv
<1>7. \A j \in Instance \ {i} :
        /\ queue'[j] = queue[j] /\ unfinished'[j] = unfinished[j] /\ loop'[j] = loop[j]
        /\ bulk'[j] = bulk[j] /\ taken'[j] = taken[j] /\ adding'[j] = adding[j]
  BY <1>1 DEF UsersInv, UsersTyped
<1>8. \A j \in Instance \ {i}, v \in TgUser : <<j, v>> \in registered' => <<j, v>> \in registered
  BY <1>1
<1> QED BY <1>1, <1>2, <1>3, <1>5, <1>6, <1>7, <1>8, StepAtInstance

\* A bulk is taken: its users and those that stay on the queue are all.
LEMMA UsersTakeBulk ==
    ASSUME UsersInv, NEW i \in Instance, Users!TakeBulk(i)
    PROVE  UsersInv'
<1> DEFINE q == queue[i]
           m == Users!Takes(queue[i])
           rest == Users!Remaining(queue[i], m)
<1>1. /\ loop[i] = "sleeping" /\ q # <<>>
      /\ queue' = [queue EXCEPT ![i] = rest]
      /\ taken' = [taken EXCEPT ![i] = Users!Front(q, m)]
      /\ bulk' = [bulk EXCEPT ![i] = Users!Front(q, m)]
      /\ loop' = [loop EXCEPT ![i] = "storing"]
      /\ UNCHANGED <<unfinished, adding, users, stage, registered, lost_users>>
  BY DEF Users!TakeBulk
<1>2. q \in Seq(TgUser)
  BY DEF UsersInv, UsersTyped
<1>3. m \in 0 .. Len(q)
  BY <1>2, TakesExists
<1>4. /\ rest \in Seq(TgUser)
      /\ Users!Front(q, Len(q)) = Users!Front(q, m) \cup Users!Front(rest, Len(rest))
      /\ Users!Front(q, m) \subseteq TgUser
  BY <1>2, <1>3, TakesSplits, FrontFinite
<1> HIDE DEF q, m, rest
<1>5. UsersTyped'
  BY <1>1, <1>4 DEF UsersInv, UsersTyped, Users!Loops
<1>6. /\ queue'[i] = rest /\ taken'[i] = Users!Front(q, m) /\ bulk'[i] = Users!Front(q, m)
      /\ loop'[i] = "storing"
  BY <1>1 DEF UsersInv, UsersTyped
<1>7. Waiting(i) \subseteq Waiting(i)' \cup taken'[i]
  <2>1. Waiting(i)' = Users!Front(rest, Len(rest))
    BY <1>6 DEF Waiting, Users!Front
  <2> QED BY <1>4, <1>6, <2>1 DEF Waiting, q
<1>8. unfinished[i] # 0 /\ taken[i] = {}
  BY <1>1 DEF UsersInv, BulkInv, q
<1>9. ASSUME NEW v \in TgUser
      PROVE  /\ v \in taken'[i] \ bulk'[i] => Stored(users' \cup adding'[i], v)
             /\ <<i, v>> \in registered' =>
                    v \in Waiting(i)' \/ v \in taken'[i] \/ Stored(users', v)
                        \/ <<i, v>> \in lost_users'
  <2>1. <<i, v>> \in registered =>
            v \in Waiting(i) \/ v \in taken[i] \/ Stored(users, v) \/ <<i, v>> \in lost_users
    BY DEF UsersInv, KeptInv
  <2> QED BY <1>1, <1>6, <1>7, <1>8, <2>1
<1>10. \A j \in Instance \ {i} :
        /\ queue'[j] = queue[j] /\ unfinished'[j] = unfinished[j] /\ loop'[j] = loop[j]
        /\ bulk'[j] = bulk[j] /\ taken'[j] = taken[j] /\ adding'[j] = adding[j]
  BY <1>1 DEF UsersInv, UsersTyped
<1> QED BY <1>1, <1>5, <1>6, <1>8, <1>9, <1>10, StepAtInstance

\* A look-up: a user without a row of the owner is added, one with a row has it.
LEMMA UsersLookUp ==
    ASSUME UsersInv, NEW i \in Instance, NEW u \in TgUser, Users!LookUp(i, u)
    PROVE  UsersInv'
<1>1. /\ loop[i] = "storing" /\ u \in bulk[i]
      /\ bulk' = [bulk EXCEPT ![i] = bulk[i] \ {u}]
      /\ UNCHANGED <<queue, unfinished, loop, taken, users, stage, registered, lost_users>>
  BY DEF Users!LookUp
<1>2. adding' = [adding EXCEPT ![i] = IF Users!Found(i, u) = {} THEN adding[i] \cup {u} ELSE adding[i]]
  BY DEF Users!LookUp
<1>3. UsersTyped'
  BY <1>1, <1>2 DEF UsersInv, UsersTyped
<1>4. /\ bulk'[i] = bulk[i] \ {u}
      /\ adding'[i] = adding[i] \/ adding'[i] = adding[i] \cup {u}
      /\ Users!Found(i, u) = {} => u \in adding'[i]
  BY <1>1, <1>2 DEF UsersInv, UsersTyped
<1>5. Stored(users \cup adding'[i], u)
  <2>1. CASE Users!Found(i, u) = {}
    BY <1>4, <2>1 DEF Stored
  <2>2. CASE Users!Found(i, u) # {}
    BY <1>4, <2>2 DEF Stored, Users!Found, Users!Visible
  <2> QED BY <2>1, <2>2
<1>6. ASSUME NEW v \in TgUser
      PROVE  /\ v \in taken'[i] \ bulk'[i] => Stored(users' \cup adding'[i], v)
             /\ <<i, v>> \in registered' =>
                    v \in Waiting(i)' \/ v \in taken'[i] \/ Stored(users', v)
                        \/ <<i, v>> \in lost_users'
  <2>1. /\ v \in taken[i] \ bulk[i] => Stored(users \cup adding[i], v)
        /\ <<i, v>> \in registered =>
                v \in Waiting(i) \/ v \in taken[i] \/ Stored(users, v) \/ <<i, v>> \in lost_users
    BY DEF UsersInv, KeptInv
  <2>2. Waiting(i)' = Waiting(i)
    BY <1>1 DEF Waiting, Users!Front
  <2>3. Stored(users \cup adding[i], v) => Stored(users \cup adding'[i], v)
    BY <1>4 DEF Stored
  <2> QED BY <1>1, <1>4, <1>5, <2>1, <2>2, <2>3
<1>7. /\ unfinished[i] # 0
      /\ bulk'[i] \subseteq taken[i]
  BY <1>1, <1>4 DEF UsersInv, BulkInv
<1>8. \A j \in Instance \ {i} :
        /\ queue'[j] = queue[j] /\ unfinished'[j] = unfinished[j] /\ loop'[j] = loop[j]
        /\ bulk'[j] = bulk[j] /\ taken'[j] = taken[j] /\ adding'[j] = adding[j]
  BY <1>1, <1>2 DEF UsersInv, UsersTyped
<1> QED BY <1>1, <1>3, <1>6, <1>7, <1>8, StepAtInstance

\* The bulk is over: its rows are in the table, or its users lost.
LEMMA UsersEndBulk ==
    ASSUME UsersInv, NEW i \in Instance, Users!Commit(i) \/ Users!Fail(i)
    PROVE  UsersInv'
<1>1. /\ bulk' = [bulk EXCEPT ![i] = {}] /\ taken' = [taken EXCEPT ![i] = {}]
      /\ adding' = [adding EXCEPT ![i] = {}] /\ loop' = [loop EXCEPT ![i] = "sleeping"]
      /\ UNCHANGED <<queue, unfinished, stage, registered>>
  BY DEF Users!Commit, Users!Fail, Users!EndBulk
<1>2. \/ bulk[i] = {} /\ users' = users \cup adding[i] /\ lost_users' = lost_users
      \/ users' = users /\ lost_users' = lost_users \cup {<<i, v>> : v \in taken[i]}
  BY DEF Users!Commit, Users!Fail
<1>3. UsersTyped'
  BY <1>1, <1>2 DEF UsersInv, UsersTyped, Users!Loops
<1>4. taken'[i] = {} /\ bulk'[i] = {} /\ adding'[i] = {} /\ loop'[i] = "sleeping"
  BY <1>1 DEF UsersInv, UsersTyped
<1>5. ASSUME NEW v \in TgUser, <<i, v>> \in registered
      PROVE  v \in Waiting(i)' \/ Stored(users', v) \/ <<i, v>> \in lost_users'
  <2>1. /\ v \in taken[i] \ bulk[i] => Stored(users \cup adding[i], v)
        /\ v \in Waiting(i) \/ v \in taken[i] \/ Stored(users, v) \/ <<i, v>> \in lost_users
    BY <1>5 DEF UsersInv, KeptInv
  <2>2. Waiting(i)' = Waiting(i)
    BY <1>1 DEF Waiting, Users!Front
  <2>3. Stored(users, v) => Stored(users', v)
    BY <1>2 DEF Stored
  <2>4. v \in taken[i] => Stored(users', v) \/ <<i, v>> \in lost_users'
    BY <1>2, <2>1
  <2> QED BY <1>2, <2>1, <2>2, <2>3, <2>4
<1>6. unfinished'[i] = 0 => queue'[i] = <<>>
  BY <1>1 DEF UsersInv, BulkInv
<1>7. \A j \in Instance \ {i} :
        /\ queue'[j] = queue[j] /\ unfinished'[j] = unfinished[j] /\ loop'[j] = loop[j]
        /\ bulk'[j] = bulk[j] /\ taken'[j] = taken[j] /\ adding'[j] = adding[j]
  BY <1>1 DEF UsersInv, UsersTyped
<1>8. users \subseteq users' /\ lost_users \subseteq lost_users'
  BY <1>2
<1> QED BY <1>1, <1>3, <1>4, <1>5, <1>6, <1>7, <1>8, StepAtInstance

\* A death: everybody who was with the instance is lost.
LEMMA UsersKill ==
    ASSUME UsersInv, NEW i \in Instance, Users!Kill(i)
    PROVE  UsersInv'
<1>1. /\ queue' = [queue EXCEPT ![i] = <<>>]
      /\ bulk' = [bulk EXCEPT ![i] = {}] /\ taken' = [taken EXCEPT ![i] = {}]
      /\ adding' = [adding EXCEPT ![i] = {}] /\ loop' = [loop EXCEPT ![i] = "ended"]
      /\ stage' = [stage EXCEPT ![i] = "killed"]
      /\ lost_users' = lost_users \cup {<<i, v>> : v \in taken[i] \cup Waiting(i)}
      /\ UNCHANGED <<unfinished, users, registered>>
  BY DEF Users!Kill, Waiting
<1>2. UsersTyped'
  BY <1>1 DEF UsersInv, UsersTyped, Users!Loops, Users!Stages
<1>3. /\ queue'[i] = <<>> /\ taken'[i] = {} /\ bulk'[i] = {} /\ adding'[i] = {}
      /\ loop'[i] = "ended"
  BY <1>1 DEF UsersInv, UsersTyped
<1>4. ASSUME NEW v \in TgUser, <<i, v>> \in registered
      PROVE  Stored(users', v) \/ <<i, v>> \in lost_users'
  BY <1>1, <1>4 DEF UsersInv, KeptInv
<1>5. \A j \in Instance \ {i} :
        /\ queue'[j] = queue[j] /\ unfinished'[j] = unfinished[j] /\ loop'[j] = loop[j]
        /\ bulk'[j] = bulk[j] /\ taken'[j] = taken[j] /\ adding'[j] = adding[j]
  BY <1>1 DEF UsersInv, UsersTyped
<1> QED BY <1>1, <1>2, <1>3, <1>4, <1>5, StepAtInstance

\* The loop and the shutdown touch neither the queue nor a bulk; a join that returns
\* finds none.
LEMMA UsersStages ==
    ASSUME UsersInv, JoinedInv, NEW i \in Instance,
           Users!InitializeDb(i) \/ Users!Shutdown(i) \/ Users!StopIndexers(i)
              \/ Users!StopTasks(i) \/ Users!StopManagers(i)
    PROVE  UsersInv'
<1>1. /\ UNCHANGED <<queue, unfinished, bulk, taken, adding, users, registered, lost_users>>
      /\ \/ loop' = loop
         \/ loop[i] = "starting" /\ loop' = [loop EXCEPT ![i] = "sleeping"]
         \/ unfinished[i] = 0 /\ loop' = [loop EXCEPT ![i] = "ended"]
      /\ \/ stage' = stage
         \/ \E to \in {"joining", "indexers", "tasks", "closed"} : stage' = [stage EXCEPT ![i] = to]
  BY DEF JoinedInv, Users!InitializeDb, Users!Shutdown, Users!StopIndexers, Users!StopTasks,
     Users!StopManagers, Users!Joined
<1>2. UsersTyped'
  BY <1>1 DEF UsersInv, UsersTyped, Users!Loops, Users!Stages
<1>3. loop'[i] # "storing" => taken[i] = {} /\ adding[i] = {}
  BY <1>1 DEF UsersInv, UsersTyped, BulkInv
<1>4. /\ unfinished[i] = 0 => queue[i] = <<>> /\ taken[i] = {} /\ adding[i] = {}
      /\ bulk[i] \subseteq taken[i]
  BY DEF UsersInv, BulkInv
<1>5. Waiting(i)' = Waiting(i)
  BY <1>1 DEF Waiting, Users!Front
<1>6. \A v \in TgUser :
        /\ v \in taken[i] \ bulk[i] => Stored(users \cup adding[i], v)
        /\ <<i, v>> \in registered =>
                v \in Waiting(i) \/ v \in taken[i] \/ Stored(users, v) \/ <<i, v>> \in lost_users
  BY DEF UsersInv, KeptInv
<1>7. \A j \in Instance \ {i} :
        /\ queue'[j] = queue[j] /\ unfinished'[j] = unfinished[j] /\ loop'[j] = loop[j]
        /\ bulk'[j] = bulk[j] /\ taken'[j] = taken[j] /\ adding'[j] = adding[j]
  BY <1>1 DEF UsersInv, UsersTyped
<1> QED BY <1>1, <1>2, <1>3, <1>4, <1>5, <1>6, <1>7, StepAtInstance

\* A user is accepted only while the server is up.
LEMMA JoinedNext == UsersTyped /\ JoinedInv /\ [Users!Next]_usersVars => JoinedInv'
<1> SUFFICES ASSUME UsersTyped, JoinedInv, [Users!Next]_usersVars PROVE JoinedInv'
  OBVIOUS
<1>1. CASE UNCHANGED <<stage, unfinished>>
  BY <1>1 DEF JoinedInv
<1>2. ASSUME NEW i \in Instance,
             \/ /\ stage[i] = "up"
                /\ stage' = stage
                /\ unfinished' = [unfinished EXCEPT ![i] = unfinished[i] + 1]
             \/ /\ \E to \in Users!Stages : stage' = [stage EXCEPT ![i] = to]
                /\ unfinished' = unfinished
                /\ stage'[i] \in {"indexers", "tasks"} => unfinished[i] = 0
      PROVE  JoinedInv'
  BY <1>2 DEF JoinedInv, UsersTyped, Users!Stages
<1>3. CASE Users!Next
  <2>1. PICK i \in Instance :
            \/ \E u \in TgUser : Users!RegisterTgUser(i, u) \/ Users!LookUp(i, u)
            \/ Users!InitializeDb(i) \/ Users!TakeBulk(i) \/ Users!Commit(i) \/ Users!Fail(i)
            \/ Users!Shutdown(i) \/ Users!StopIndexers(i) \/ Users!StopTasks(i)
            \/ Users!StopManagers(i) \/ Users!Kill(i)
    BY <1>3, Zenon DEF Users!Next
  <2>2. ASSUME NEW u \in TgUser, Users!RegisterTgUser(i, u) PROVE JoinedInv'
    <3>1. /\ stage[i] = "up" /\ stage' = stage
          /\ unfinished' = [unfinished EXCEPT ![i] = unfinished[i] + 1]
      BY <2>2, Zenon DEF Users!RegisterTgUser
    <3> QED BY <1>2, <3>1
  <2>3. ASSUME NEW u \in TgUser, Users!LookUp(i, u) PROVE JoinedInv'
    <3>1. UNCHANGED <<stage, unfinished>>
      BY <2>3, Zenon DEF Users!LookUp
    <3> QED BY <1>1, <3>1
  <2>4. CASE Users!InitializeDb(i) \/ Users!TakeBulk(i) \/ Users!Commit(i) \/ Users!Fail(i)
    <3>1. UNCHANGED <<stage, unfinished>>
      BY <2>4, Zenon DEF Users!InitializeDb, Users!TakeBulk, Users!Commit, Users!Fail
    <3> QED BY <1>1, <3>1
  <2>5. CASE Users!Shutdown(i) \/ Users!StopIndexers(i) \/ Users!StopTasks(i)
                \/ Users!StopManagers(i) \/ Users!Kill(i)
    <3>1. /\ \E to \in Users!Stages : stage' = [stage EXCEPT ![i] = to]
          /\ unfinished' = unfinished
          /\ stage'[i] \in {"indexers", "tasks"} => unfinished[i] = 0
      BY <2>5
      DEF JoinedInv, UsersTyped, Users!Stages, Users!Joined, Users!Shutdown, Users!StopIndexers,
          Users!StopTasks, Users!StopManagers, Users!Kill
    <3> QED BY <1>2, <3>1
  <2> QED BY <2>1, <2>2, <2>3, <2>4, <2>5
<1> QED BY <1>1, <1>3 DEF usersVars

LEMMA UsersNext == UsersInv /\ JoinedInv /\ [Users!Next]_usersVars => UsersInv'
<1> SUFFICES ASSUME UsersInv, JoinedInv, [Users!Next]_usersVars PROVE UsersInv'
  OBVIOUS
<1>1. CASE UNCHANGED usersVars
  <2>1. UNCHANGED <<queue, unfinished, loop, bulk, taken, adding, users, stage, registered, lost_users>>
    BY <1>1 DEF usersVars
  <2>2. UsersTyped' /\ BulkInv'
    BY <2>1 DEF UsersInv, UsersTyped, BulkInv
  <2>3. \A i \in Instance : Waiting(i)' = Waiting(i)
    BY <2>1 DEF Waiting, Users!Front
  <2>4. KeptInv'
    BY <2>1, <2>3, Zenon DEF UsersInv, KeptInv, Stored
  <2> QED BY <2>2, <2>4 DEF UsersInv
<1>2. CASE Users!Next
  <2>1. PICK i \in Instance :
            \/ \E u \in TgUser : Users!RegisterTgUser(i, u) \/ Users!LookUp(i, u)
            \/ Users!InitializeDb(i) \/ Users!TakeBulk(i) \/ Users!Commit(i) \/ Users!Fail(i)
            \/ Users!Shutdown(i) \/ Users!StopIndexers(i) \/ Users!StopTasks(i)
            \/ Users!StopManagers(i) \/ Users!Kill(i)
    BY <1>2, Zenon DEF Users!Next
  <2>2. ASSUME NEW u \in TgUser, Users!RegisterTgUser(i, u) PROVE UsersInv'
    BY <2>2, UsersRegister
  <2>3. ASSUME NEW u \in TgUser, Users!LookUp(i, u) PROVE UsersInv'
    BY <2>3, UsersLookUp
  <2>4. CASE Users!TakeBulk(i)
    BY <2>4, UsersTakeBulk
  <2>5. CASE Users!Commit(i) \/ Users!Fail(i)
    BY <2>5, UsersEndBulk
  <2>6. CASE Users!Kill(i)
    BY <2>6, UsersKill
  <2>7. CASE Users!InitializeDb(i) \/ Users!Shutdown(i) \/ Users!StopIndexers(i) \/ Users!StopTasks(i)
                \/ Users!StopManagers(i)
    BY <2>7, UsersStages
  <2> QED BY <2>1, <2>2, <2>3, <2>4, <2>5, <2>6, <2>7
<1> QED BY <1>1, <1>2

LEMMA UsersSteps == [ServicesNext]_allVars => [Users!Next]_usersVars
BY DEF ServicesNext, allVars, UsersStep, usersVars

\* A user whom an instance has accepted waits, is being stored, has a row of the owner,
\* or went down with a bulk that failed or an instance that died: for any number of
\* instances, users and registrations, and any sizes of the queue and of a bulk.
THEOREM UsersNotLost == ServicesSpec => []UsersKept
<1>1. ServicesInit => UsersInv /\ JoinedInv
  BY UsersInit DEF ServicesInit
<1>2. UsersInv /\ JoinedInv /\ [ServicesNext]_allVars => (UsersInv /\ JoinedInv)'
  BY UsersSteps, UsersNext, JoinedNext DEF UsersInv
<1>3. UsersInv => UsersKept
  <2> SUFFICES ASSUME UsersInv, NEW i \in Instance, NEW u \in TgUser, <<i, u>> \in registered
               PROVE  \/ u \in Users!Front(queue[i], Len(queue[i])) \cup taken[i]
                      \/ \E r \in users : r.owner = u.owner
                      \/ <<i, u>> \in lost_users
    BY Zenon DEF UsersKept, Users!UsersKept
  <2> QED BY DEF UsersInv, KeptInv, Waiting, Stored
<1> QED BY <1>1, <1>2, <1>3, PTL DEF ServicesSpec

\* Two rows of an owner, in the table or on the way into it, are due to a race: in the
\* table, in a transaction and the table it sees, and in two transactions.
RowsInv ==
    /\ \A r, s \in users : r.owner = s.owner /\ r # s => r.owner \in raced
    /\ \A i \in Instance : \A r \in adding[i] : \A s \in users \cup adding[i] :
            r.owner = s.owner /\ r # s => r.owner \in raced
    /\ \A i, j \in Instance : \A r \in adding[i] : \A s \in adding[j] :
            i # j /\ r.owner = s.owner => r.owner \in raced

LEMMA RowsInit == Users!Init => RowsInv
BY DEF Users!Init, RowsInv

\* A transaction adds a row only where it sees none of the owner; the rows it does not
\* see are in other transactions.
LEMMA RowsLookUp ==
    ASSUME UsersTyped, RowsInv, NEW i \in Instance, NEW u \in TgUser, Users!LookUp(i, u)
    PROVE  RowsInv'
<1>1. /\ users' = users
      /\ adding' = [adding EXCEPT ![i] = IF Users!Found(i, u) = {} THEN adding[i] \cup {u}
                                                                   ELSE adding[i]]
      /\ raced' = IF \E j \in Instance \ {i} : \E r \in adding[j] : r.owner = u.owner
                  THEN raced \cup {u.owner}
                  ELSE raced
  BY DEF Users!LookUp
<1>2. raced \subseteq raced'
  BY <1>1
<1>3. ASSUME NEW j \in Instance \ {i}, NEW r \in adding[j], r.owner = u.owner
      PROVE  u.owner \in raced'
  BY <1>1, <1>3
<1>4. \A j \in Instance \ {i} : adding'[j] = adding[j]
  BY <1>1 DEF UsersTyped
<1>5. adding'[i] = adding[i] \/ (Users!Found(i, u) = {} /\ adding'[i] = adding[i] \cup {u})
  BY <1>1 DEF UsersTyped
<1>6. CASE adding'[i] = adding[i]
  <2>1. \A j \in Instance : adding'[j] = adding[j]
    BY <1>4, <1>6
  <2> QED BY <1>1, <1>2, <2>1 DEF RowsInv
<1>7. CASE Users!Found(i, u) = {} /\ adding'[i] = adding[i] \cup {u}
  <2>1. \A r \in users \cup adding[i] : r.owner # u.owner
    BY <1>7 DEF Users!Found, Users!Visible
  <2>2. ASSUME NEW r \in users', NEW s \in users', r.owner = s.owner, r # s
        PROVE  r.owner \in raced'
    BY <1>1, <1>2, <2>2 DEF RowsInv
  <2>3. ASSUME NEW j \in Instance, NEW r \in adding'[j], NEW s \in users' \cup adding'[j],
               r.owner = s.owner, r # s
        PROVE  r.owner \in raced'
    <3>1. CASE j = i
      <4>1. r = u \/ r \in adding[i]
        BY <1>7, <3>1
      <4>2. s = u \/ s \in users \cup adding[i]
        BY <1>1, <1>7, <3>1
      <4>3. r # u /\ s # u
        BY <2>1, <2>3, <4>1, <4>2
      <4> QED BY <1>2, <2>3, <4>1, <4>2, <4>3 DEF RowsInv
    <3>2. CASE j # i
      <4>1. r \in adding[j] /\ s \in users \cup adding[j]
        BY <1>1, <1>4, <3>2
      <4> QED BY <1>2, <2>3, <4>1 DEF RowsInv
    <3> QED BY <3>1, <3>2
  <2>4. ASSUME NEW j \in Instance, NEW k \in Instance, NEW r \in adding'[j], NEW s \in adding'[k],
               j # k, r.owner = s.owner
        PROVE  r.owner \in raced'
    <3>1. CASE r \in adding[j] /\ s \in adding[k]
      BY <1>2, <2>4, <3>1 DEF RowsInv
    <3>2. CASE r \notin adding[j]
      <4>1. j = i /\ r = u /\ k \in Instance \ {i}
        BY <1>4, <1>7, <2>4, <3>2
      <4>2. s \in adding[k]
        BY <1>4, <4>1
      <4> QED BY <1>3, <2>4, <4>1, <4>2
    <3>3. CASE s \notin adding[k]
      <4>1. k = i /\ s = u /\ j \in Instance \ {i}
        BY <1>4, <1>7, <2>4, <3>3
      <4>2. r \in adding[j]
        BY <1>4, <4>1
      <4> QED BY <1>3, <2>4, <4>1, <4>2
    <3> QED BY <3>1, <3>2, <3>3
  <2> QED BY <2>2, <2>3, <2>4 DEF RowsInv
<1> QED BY <1>5, <1>6, <1>7

LEMMA RowsCommit ==
    ASSUME UsersTyped, RowsInv, NEW i \in Instance, Users!Commit(i)
    PROVE  RowsInv'
<1>1. users' = users \cup adding[i] /\ adding' = [adding EXCEPT ![i] = {}] /\ raced' = raced
  BY DEF Users!Commit, Users!EndBulk
<1>2. adding'[i] = {} /\ \A j \in Instance \ {i} : adding'[j] = adding[j]
  BY <1>1 DEF UsersTyped
<1>3. ASSUME NEW r \in users', NEW s \in users', r.owner = s.owner, r # s
      PROVE  r.owner \in raced'
  <2>1. (r \in users \/ r \in adding[i]) /\ (s \in users \/ s \in adding[i])
    BY <1>1
  <2> QED BY <1>1, <1>3, <2>1 DEF RowsInv
<1>4. ASSUME NEW j \in Instance, NEW r \in adding'[j], NEW s \in users' \cup adding'[j],
             r.owner = s.owner, r # s
      PROVE  r.owner \in raced'
  <2>1. j # i /\ r \in adding[j] /\ (s \in users \/ s \in adding[j] \/ s \in adding[i])
    BY <1>1, <1>2
  <2> QED BY <1>1, <1>4, <2>1 DEF RowsInv
<1>5. ASSUME NEW j \in Instance, NEW k \in Instance, NEW r \in adding'[j], NEW s \in adding'[k],
             j # k, r.owner = s.owner
      PROVE  r.owner \in raced'
  <2>1. r \in adding[j] /\ s \in adding[k]
    BY <1>2
  <2> QED BY <1>1, <1>5, <2>1 DEF RowsInv
<1> QED BY <1>3, <1>4, <1>5 DEF RowsInv

\* Any other step takes rows away from the transactions, at most.
LEMMA RowsFewer ==
    ASSUME RowsInv, users' = users, raced \subseteq raced',
           \A i \in Instance : adding'[i] \subseteq adding[i]
    PROVE  RowsInv'
<1>1. ASSUME NEW r \in users', NEW s \in users', r.owner = s.owner, r # s
      PROVE  r.owner \in raced'
  BY <1>1 DEF RowsInv
<1>2. ASSUME NEW j \in Instance, NEW r \in adding'[j], NEW s \in users' \cup adding'[j],
             r.owner = s.owner, r # s
      PROVE  r.owner \in raced'
  <2>1. r \in adding[j] /\ s \in users \cup adding[j]
    OBVIOUS
  <2> QED BY <1>2, <2>1 DEF RowsInv
<1>3. ASSUME NEW j \in Instance, NEW k \in Instance, NEW r \in adding'[j], NEW s \in adding'[k],
             j # k, r.owner = s.owner
      PROVE  r.owner \in raced'
  <2>1. r \in adding[j] /\ s \in adding[k]
    OBVIOUS
  <2> QED BY <1>3, <2>1 DEF RowsInv
<1> QED BY <1>1, <1>2, <1>3 DEF RowsInv

LEMMA RowsNext == UsersTyped /\ RowsInv /\ [Users!Next]_usersVars => RowsInv'
<1> SUFFICES ASSUME UsersTyped, RowsInv, [Users!Next]_usersVars PROVE RowsInv'
  OBVIOUS
<1>1. CASE UNCHANGED usersVars
  BY <1>1, RowsFewer DEF usersVars
<1>2. CASE Users!Next
  <2>1. PICK i \in Instance :
            \/ \E u \in TgUser : Users!RegisterTgUser(i, u) \/ Users!LookUp(i, u)
            \/ Users!InitializeDb(i) \/ Users!TakeBulk(i) \/ Users!Commit(i) \/ Users!Fail(i)
            \/ Users!Shutdown(i) \/ Users!StopIndexers(i) \/ Users!StopTasks(i)
            \/ Users!StopManagers(i) \/ Users!Kill(i)
    BY <1>2, Zenon DEF Users!Next
  <2>2. ASSUME NEW u \in TgUser, Users!RegisterTgUser(i, u) PROVE RowsInv'
    <3>1. UNCHANGED <<users, raced, adding>>
      BY <2>2, Zenon DEF Users!RegisterTgUser
    <3> QED BY <3>1, RowsFewer
  <2>3. ASSUME NEW u \in TgUser, Users!LookUp(i, u) PROVE RowsInv'
    BY <2>3, RowsLookUp
  <2>4. CASE Users!Commit(i)
    BY <2>4, RowsCommit
  <2>5. CASE Users!Fail(i) \/ Users!Kill(i)
    <3>1. users' = users /\ raced' = raced /\ adding' = [adding EXCEPT ![i] = {}]
      BY <2>5 DEF Users!Fail, Users!EndBulk, Users!Kill
    <3>2. \A j \in Instance : adding'[j] \subseteq adding[j]
      BY <3>1 DEF UsersTyped
    <3> QED BY <3>1, <3>2, RowsFewer
  <2>6. CASE Users!InitializeDb(i) \/ Users!TakeBulk(i) \/ Users!Shutdown(i) \/ Users!StopIndexers(i)
                \/ Users!StopTasks(i) \/ Users!StopManagers(i)
    <3>1. UNCHANGED <<users, raced, adding>>
      BY <2>6 DEF Users!InitializeDb, Users!TakeBulk, Users!Shutdown, Users!StopIndexers,
                  Users!StopTasks, Users!StopManagers
    <3> QED BY <3>1, RowsFewer
  <2> QED BY <2>1, <2>2, <2>3, <2>4, <2>5, <2>6
<1> QED BY <1>1, <1>2

\* An owner has two rows only if two instances were storing users of that owner at the
\* same time: whatever the bulks, one transaction alone never writes a second row.
THEOREM SecondRowsAreRaces == ServicesSpec => []SecondRowOnlyByRace
<1>1. ServicesInit => UsersInv /\ JoinedInv /\ RowsInv
  BY UsersInit, RowsInit DEF ServicesInit
<1>2. UsersInv /\ JoinedInv /\ RowsInv /\ [ServicesNext]_allVars
        => (UsersInv /\ JoinedInv /\ RowsInv)'
  BY UsersSteps, UsersNext, JoinedNext, RowsNext DEF UsersInv
<1>3. RowsInv => SecondRowOnlyByRace
  BY DEF RowsInv, SecondRowOnlyByRace, Users!SecondRowOnlyByRace
<1> QED BY <1>1, <1>2, <1>3, PTL DEF ServicesSpec
=============================================================================
