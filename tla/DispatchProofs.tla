--------------------------- MODULE DispatchProofs ---------------------------
(***************************************************************************)
(* Proofs about Dispatch, for any workers, requests and numbers of deaths. *)
(*                                                                         *)
(* A worker's record has an entry exactly for the requests under way at it *)
(* (FuturesInv), which pending_tasks counts (CountInv).  A request whose   *)
(* queue was replaced has a future that is done (PlaceInv), and one whose  *)
(* future is not done has its task somewhere in the process (WaitInv):     *)
(* this is what makes the requests that a respawn does not cancel safe.    *)
(***************************************************************************)
EXTENDS Dispatch, FiniteSetTheorems, SequenceTheorems, TLAPS

\* The requests under way at a worker.
Here(w) == {r \in Request : Active(r) /\ at[r] = w}

FutureTable == [Worker -> [Task -> FutureState \cup {None}]]
Answers == Task \X Answer \cup Task \X {"failure"}

CallersTyped ==
    /\ pc \in [Request -> {"idle", "sending", "waiting", "public", "ended"}]
    /\ attempt \in [Request -> 1 .. 2]
    /\ at \in [Request -> Worker \cup {None}]
    /\ queue_open \in [Request -> BOOLEAN]
    /\ outcome \in [Request -> Outcome \cup {None}]
    /\ futures \in FutureTable
    /\ pending_tasks \in [Worker -> Nat]

ProcessesTyped ==
    /\ is_alive \in [Worker -> BOOLEAN]
    /\ process \in [Worker -> BOOLEAN]
    /\ inbox \in [Worker -> Seq(Task)]
    /\ running \in [Worker -> SUBSET Task]
    /\ outbox \in [Worker -> Seq(Answers)]
    /\ computed \subseteq Task
    /\ silent \subseteq Task
    /\ deaths \in 0 .. MaxDeaths

\* A request under way is at a worker; once its queue is replaced, its future is done.
PlaceInv ==
    \A r \in Request :
        /\ Active(r) => at[r] \in Worker
        /\ ~Active(r) => at[r] = None /\ ~queue_open[r]
        /\ Active(r) /\ ~queue_open[r] => Future(r) # "pending"
        /\ pc[r] = "ended" <=> outcome[r] # None

FuturesInv ==
    \A w \in Worker, r \in Request, i \in 1 .. 2 :
        futures[w][<<r, i>>] # None <=> r \in Here(w) /\ attempt[r] = i

CountInv == \A w \in Worker : pending_tasks[w] = Cardinality(Here(w))

\* A process has only tasks of requests that were made.
KnownInv ==
    /\ \A w \in Worker, t \in Task : OnItsWay(t, w) => pc[t[1]] # "idle"
    /\ \A t \in computed : pc[t[1]] # "idle"

\* What an answer says is so.
AnswersInv ==
    /\ \A w \in Worker : \A i \in DOMAIN outbox[w] :
        /\ outbox[w][i][2] = "nothing" => outbox[w][i][1] \in silent
        /\ outbox[w][i][2] = "result" => outbox[w][i][1] \in computed
    /\ \A w \in Worker, t \in Task : futures[w][t] = "result" => t \in computed

IInv ==
    /\ CallersTyped /\ ProcessesTyped
    /\ PlaceInv /\ FuturesInv /\ CountInv
    /\ KnownInv /\ AnswersInv /\ NoOrphanedWait

-----------------------------------------------------------------------------
(* The queues of a process. *)

LEMMA AppendElements ==
    ASSUME NEW S, NEW s \in Seq(S), NEW x \in S
    PROVE  /\ Append(s, x) \in Seq(S)
           /\ \A i \in DOMAIN Append(s, x) :
                (i \in DOMAIN s /\ Append(s, x)[i] = s[i]) \/ Append(s, x)[i] = x
           /\ \A i \in DOMAIN s : i \in DOMAIN Append(s, x) /\ Append(s, x)[i] = s[i]
           /\ \E i \in DOMAIN Append(s, x) : Append(s, x)[i] = x
<1>1. /\ Append(s, x) \in Seq(S) /\ Len(s) \in Nat /\ Len(Append(s, x)) = Len(s) + 1
      /\ DOMAIN s = 1 .. Len(s) /\ DOMAIN Append(s, x) = 1 .. Len(s) + 1
      /\ \A i \in 1 .. Len(s) : Append(s, x)[i] = s[i]
      /\ Append(s, x)[Len(s) + 1] = x
  OBVIOUS
<1> QED BY <1>1

LEMMA TailElements ==
    ASSUME NEW S, NEW s \in Seq(S), s # <<>>
    PROVE  /\ Tail(s) \in Seq(S) /\ Head(s) \in S
           /\ \A i \in DOMAIN Tail(s) : \E j \in DOMAIN s : Tail(s)[i] = s[j]
           /\ \A i \in DOMAIN s : s[i] = Head(s) \/ \E j \in DOMAIN Tail(s) : Tail(s)[j] = s[i]
           /\ \E i \in DOMAIN s : s[i] = Head(s)
<1>1. /\ Tail(s) \in Seq(S) /\ Head(s) = s[1] /\ Len(s) \in Nat \ {0}
      /\ DOMAIN s = 1 .. Len(s) /\ DOMAIN Tail(s) = 1 .. Len(s) - 1
      /\ \A i \in 1 .. Len(s) - 1 : Tail(s)[i] = s[i + 1]
  OBVIOUS
<1>2. ASSUME NEW i \in DOMAIN s, i # 1
      PROVE  i - 1 \in DOMAIN Tail(s) /\ Tail(s)[i - 1] = s[i]
  BY <1>1, <1>2
<1>3. 1 \in DOMAIN s /\ s[1] \in S
  BY <1>1
<1>4. \A i \in DOMAIN Tail(s) : i + 1 \in DOMAIN s /\ Tail(s)[i] = s[i + 1]
  BY <1>1
<1> QED BY <1>1, <1>2, <1>3, <1>4

-----------------------------------------------------------------------------
(* The requests and the workers' records of them. *)

LEMMA TypesTogether == TypeOK <=> CallersTyped /\ ProcessesTyped
BY DEF TypeOK, CallersTyped, ProcessesTyped, FutureTable, Answers

CallersInv == CallersTyped /\ PlaceInv /\ FuturesInv /\ CountInv

\* f and n are the records without the request r.
Dropped(f, n, r) ==
    /\ f \in FutureTable
    /\ n \in [Worker -> Nat]
    /\ \A w \in Worker, q \in Request \ {r}, i \in 1 .. 2 : f[w][<<q, i>>] = futures[w][<<q, i>>]
    /\ \A w \in Worker, i \in 1 .. 2 : f[w][<<r, i>>] = None
    /\ \A w \in Worker : n[w] = Cardinality(Here(w) \ {r})

LEMMA HereFinite == \A w \in Worker : IsFiniteSet(Here(w))
BY BoundAssumption, FS_Subset DEF Here

LEMMA NotUnderWayIsDropped ==
    ASSUME CallersInv, NEW r \in Request, ~Active(r)
    PROVE  Dropped(futures, pending_tasks, r)
<1>1. \A w \in Worker : r \notin Here(w) /\ Here(w) \ {r} = Here(w)
  BY DEF Here
<1>2. \A w \in Worker, i \in 1 .. 2 : futures[w][<<r, i>>] = None
  BY <1>1 DEF CallersInv, FuturesInv
<1> QED BY <1>1, <1>2 DEF Dropped, CallersInv, CallersTyped, CountInv

LEMMA LeavingDrops ==
    ASSUME CallersInv, NEW r \in Request, Active(r)
    PROVE  Dropped(Popped(r), Uncounted(r), r)
<1> DEFINE v == at[r]
<1>1. v \in Worker /\ r \in Here(v) /\ attempt[r] \in 1 .. 2 /\ TaskOf(r) \in Task
  BY DEF CallersInv, PlaceInv, CallersTyped, Here, TaskOf, Task
<1>2. /\ Popped(r) \in FutureTable
      /\ \A w \in Worker, t \in Task :
            Popped(r)[w][t] = IF w = v /\ t = TaskOf(r) THEN None ELSE futures[w][t]
  BY <1>1 DEF Popped, CallersInv, CallersTyped, FutureTable
<1>3. ASSUME NEW w \in Worker, NEW q \in Request, NEW i \in 1 .. 2
      PROVE  /\ q # r => Popped(r)[w][<<q, i>>] = futures[w][<<q, i>>]
             /\ q = r => Popped(r)[w][<<q, i>>] = None
  <2>1. <<q, i>> \in Task
    BY DEF Task
  <2>2. CASE q # r
    BY <1>2, <2>1, <2>2 DEF TaskOf
  <2>3. CASE q = r /\ w = v /\ i = attempt[r]
    BY <1>2, <2>1, <2>3 DEF TaskOf
  <2>4. CASE q = r /\ ~(w = v /\ i = attempt[r])
    <3>1. ~(q \in Here(w) /\ attempt[q] = i)
      BY <2>4 DEF Here
    <3>2. futures[w][<<q, i>>] = None
      BY <3>1 DEF CallersInv, FuturesInv
    <3> QED BY <1>2, <2>1, <2>4, <3>2 DEF TaskOf
  <2> QED BY <2>2, <2>3, <2>4
<1>4. Cardinality(Here(v)) \in Nat /\ Cardinality(Here(v)) # 0
  BY <1>1, HereFinite, FS_CardinalityType, FS_EmptySet
<1>5. Uncounted(r) \in [Worker -> Nat]
  BY <1>1, <1>4 DEF Uncounted, CallersInv, CallersTyped, CountInv
<1>6. ASSUME NEW w \in Worker PROVE Uncounted(r)[w] = Cardinality(Here(w) \ {r})
  <2>1. CASE w = v
    BY <1>1, <2>1, HereFinite, FS_RemoveElement DEF Uncounted, CallersInv, CallersTyped, CountInv
  <2>2. CASE w # v
    <3>1. Here(w) \ {r} = Here(w)
      BY <2>2 DEF Here
    <3> QED BY <1>1, <2>2, <3>1 DEF Uncounted, CallersInv, CallersTyped, CountInv
  <2> QED BY <2>1, <2>2
<1> QED BY <1>2, <1>3, <1>5, <1>6 DEF Dropped

\* The request r is at no worker, or under way anew; the others stay as they are.
Moved(r) ==
    /\ CallersInv'
    /\ pc'[r] \in {"sending", "ended"}
    /\ \A q \in Request \ {r} : pc'[q] = pc[q] /\ at'[q] = at[q] /\ attempt'[q] = attempt[q]
    /\ \A w \in Worker, q \in Request \ {r}, i \in 1 .. 2 :
        futures'[w][<<q, i>>] = futures[w][<<q, i>>]
    /\ \A w \in Worker, i \in 1 .. 2 : futures'[w][<<r, i>>] \in {None, "pending"}

LEMMA RegisterMoves ==
    ASSUME CallersInv, NEW r \in Request, NEW k \in 1 .. 2, NEW v \in Worker, NEW f, NEW n,
           Dropped(f, n, r), Register(r, k, v, f, n), pc[r] # "ended"
    PROVE  Moved(r)
<1>1. /\ pc' \in [Request -> {"idle", "sending", "waiting", "public", "ended"}]
      /\ attempt' \in [Request -> 1 .. 2]
      /\ at' \in [Request -> Worker \cup {None}]
      /\ queue_open' \in [Request -> BOOLEAN]
      /\ outcome' = outcome
      /\ pending_tasks' \in [Worker -> Nat]
      /\ \A w \in Worker : pending_tasks'[w] = IF w = v THEN n[w] + 1 ELSE n[w]
  BY DEF Register, CallersInv, CallersTyped, Dropped
<1>2. /\ futures' \in FutureTable
      /\ \A w \in Worker, q \in Request, i \in 1 .. 2 :
            futures'[w][<<q, i>>] = IF w = v /\ q = r /\ i = k THEN "pending" ELSE f[w][<<q, i>>]
  <2>1. <<r, k>> \in Task /\ "pending" \in FutureState /\ f \in FutureTable
    BY DEF Task, FutureState, Dropped
  <2>2. \A q \in Request, i \in 1 .. 2 : <<q, i>> \in Task
    BY DEF Task
  <2>3. /\ futures' \in FutureTable
        /\ \A w \in Worker, t \in Task :
              futures'[w][t] = IF w = v /\ t = <<r, k>> THEN "pending" ELSE f[w][t]
    BY <2>1 DEF Register, FutureTable
  <2> QED BY <2>2, <2>3
<1>3. pc'[r] = "sending" /\ attempt'[r] = k /\ at'[r] = v /\ queue_open'[r]
  BY DEF Register, CallersInv, CallersTyped
<1>4. \A q \in Request \ {r} :
        /\ pc'[q] = pc[q] /\ at'[q] = at[q] /\ attempt'[q] = attempt[q]
        /\ queue_open'[q] = queue_open[q]
  BY DEF Register, CallersInv, CallersTyped
<1>5. \A w \in Worker : Here(w)' = IF w = v THEN (Here(w) \ {r}) \cup {r} ELSE Here(w) \ {r}
  BY <1>3, <1>4 DEF Here, Active
<1>6. /\ \A w \in Worker, q \in Request \ {r}, i \in 1 .. 2 :
            futures'[w][<<q, i>>] = futures[w][<<q, i>>]
      /\ \A w \in Worker, i \in 1 .. 2 :
            futures'[w][<<r, i>>] = IF w = v /\ i = k THEN "pending" ELSE None
  BY <1>2 DEF Dropped
<1>7. PlaceInv'
  <2>1. ASSUME NEW q \in Request \ {r}
        PROVE  /\ Active(q)' = Active(q) /\ (at[q] \in Worker => Future(q)' = Future(q))
    <3>1. attempt[q] \in 1 .. 2
      BY DEF CallersInv, CallersTyped
    <3>2. ASSUME at[q] \in Worker
          PROVE  futures'[at[q]][<<q, attempt[q]>>] = futures[at[q]][<<q, attempt[q]>>]
      BY <1>6, <3>1, <3>2
    <3> QED BY <1>4, <3>2 DEF Active, Future, TaskOf
  <2>2. ASSUME NEW q \in Request \ {r}
        PROVE  /\ Active(q)' => at'[q] \in Worker
               /\ ~Active(q)' => at'[q] = None /\ ~queue_open'[q]
               /\ Active(q)' /\ ~queue_open'[q] => Future(q)' # "pending"
               /\ pc'[q] = "ended" <=> outcome'[q] # None
    BY <1>1, <1>4, <2>1 DEF CallersInv, PlaceInv
  <2>3. /\ Active(r)' /\ at'[r] \in Worker /\ queue_open'[r]
        /\ pc'[r] # "ended" /\ outcome'[r] = None
    BY <1>1, <1>3 DEF Active, CallersInv, PlaceInv
  <2> QED BY <2>2, <2>3 DEF PlaceInv
<1>8. FuturesInv'
  <2> SUFFICES ASSUME NEW w \in Worker, NEW q \in Request, NEW i \in 1 .. 2
               PROVE  futures'[w][<<q, i>>] # None <=> q \in Here(w)' /\ attempt'[q] = i
    BY DEF FuturesInv
  <2>1. CASE q # r
    <3>1. FuturesInv
      BY DEF CallersInv
    <3>2. q \in Here(w)' <=> q \in Here(w)
      BY <1>5, <2>1
    <3>3. futures'[w][<<q, i>>] = futures[w][<<q, i>>] /\ attempt'[q] = attempt[q]
      BY <1>4, <1>6, <2>1
    <3>4. futures[w][<<q, i>>] # None <=> q \in Here(w) /\ attempt[q] = i
      BY ONLY FuturesInv, w \in Worker, q \in Request, i \in 1 .. 2 DEF FuturesInv
    <3> QED BY <3>2, <3>3, <3>4
  <2>2. CASE q = r
    BY <1>3, <1>5, <1>6, <2>2, NoneAssumption DEF FutureState
  <2> QED BY <2>1, <2>2
<1>9. CountInv'
  <2> SUFFICES ASSUME NEW w \in Worker PROVE pending_tasks'[w] = Cardinality(Here(w)')
    BY DEF CountInv
  <2>1. IsFiniteSet(Here(w) \ {r})
    BY HereFinite, FS_Subset
  <2>2. CASE w = v
    <3>1. Cardinality((Here(w) \ {r}) \cup {r}) = Cardinality(Here(w) \ {r}) + 1
      BY <2>1, FS_AddElement
    <3> QED BY <1>1, <1>5, <2>2, <3>1 DEF Dropped
  <2>3. CASE w # v
    BY <1>1, <1>5, <2>3 DEF Dropped
  <2> QED BY <2>2, <2>3
<1>10. CallersTyped'
  BY <1>1, <1>2 DEF CallersTyped, CallersInv
<1>11. \A w \in Worker, i \in 1 .. 2 : futures'[w][<<r, i>>] \in {None, "pending"}
  BY <1>6
<1> QED BY <1>3, <1>4, <1>6, <1>7, <1>8, <1>9, <1>10, <1>11 DEF Moved, CallersInv

LEMMA EndMoves ==
    ASSUME CallersInv, NEW r \in Request, NEW o \in Outcome,
           EndWith(r, o), Dropped(futures', pending_tasks', r)
    PROVE  Moved(r)
<1>1. /\ pc' \in [Request -> {"idle", "sending", "waiting", "public", "ended"}]
      /\ attempt' = attempt
      /\ at' \in [Request -> Worker \cup {None}]
      /\ queue_open' \in [Request -> BOOLEAN]
      /\ outcome' \in [Request -> Outcome \cup {None}]
  BY DEF EndWith, CallersInv, CallersTyped
<1>2. pc'[r] = "ended" /\ at'[r] = None /\ ~queue_open'[r] /\ outcome'[r] = o
  BY DEF EndWith, CallersInv, CallersTyped
<1>3. \A q \in Request \ {r} :
        /\ pc'[q] = pc[q] /\ at'[q] = at[q]
        /\ queue_open'[q] = queue_open[q] /\ outcome'[q] = outcome[q]
  BY DEF EndWith, CallersInv, CallersTyped
<1>4. \A w \in Worker : Here(w)' = Here(w) \ {r}
  BY <1>2, <1>3 DEF Here, Active
<1>5. /\ \A w \in Worker, q \in Request \ {r}, i \in 1 .. 2 :
            futures'[w][<<q, i>>] = futures[w][<<q, i>>]
      /\ \A w \in Worker, i \in 1 .. 2 : futures'[w][<<r, i>>] = None
  BY DEF Dropped
<1>6. PlaceInv'
  <2>1. ASSUME NEW q \in Request \ {r}
        PROVE  /\ Active(q)' = Active(q) /\ (at[q] \in Worker => Future(q)' = Future(q))
    <3>1. attempt[q] \in 1 .. 2
      BY DEF CallersInv, CallersTyped
    <3>2. ASSUME at[q] \in Worker
          PROVE  futures'[at[q]][<<q, attempt[q]>>] = futures[at[q]][<<q, attempt[q]>>]
      BY <1>5, <3>1, <3>2
    <3> QED BY <1>1, <1>3, <3>2 DEF Active, Future, TaskOf
  <2>2. ASSUME NEW q \in Request \ {r}
        PROVE  /\ Active(q)' => at'[q] \in Worker
               /\ ~Active(q)' => at'[q] = None /\ ~queue_open'[q]
               /\ Active(q)' /\ ~queue_open'[q] => Future(q)' # "pending"
               /\ pc'[q] = "ended" <=> outcome'[q] # None
    BY <1>3, <2>1 DEF CallersInv, PlaceInv
  <2>3. ~Active(r)' /\ o # None
    BY <1>2, NoneAssumption DEF Active
  <2> QED BY <1>2, <2>2, <2>3 DEF PlaceInv
<1>7. FuturesInv'
  <2> SUFFICES ASSUME NEW w \in Worker, NEW q \in Request, NEW i \in 1 .. 2
               PROVE  futures'[w][<<q, i>>] # None <=> q \in Here(w)' /\ attempt'[q] = i
    BY DEF FuturesInv
  <2>1. CASE q # r
    <3>1. futures[w][<<q, i>>] # None <=> q \in Here(w) /\ attempt[q] = i
      BY DEF CallersInv, FuturesInv
    <3> QED BY <1>1, <1>4, <1>5, <2>1, <3>1
  <2>2. CASE q = r
    BY <1>4, <1>5, <2>2
  <2> QED BY <2>1, <2>2
<1>8. CountInv'
  BY <1>4 DEF CountInv, Dropped
<1>9. CallersTyped'
  BY <1>1 DEF CallersTyped, CallersInv, Dropped
<1> QED BY <1>1, <1>2, <1>3, <1>5, <1>6, <1>7, <1>8, <1>9 DEF Moved, CallersInv

LEMMA LeaveMoves ==
    ASSUME CallersInv, NEW r \in Request, Active(r), NEW o \in Outcome, Leave(r, o)
    PROVE  Moved(r)
<1>1. Dropped(Popped(r), Uncounted(r), r) /\ pc[r] # "ended"
  BY LeavingDrops DEF Active
<1>2. ASSUME NEW w \in Worker, Register(r, 2, w, Popped(r), Uncounted(r))
      PROVE  Moved(r)
  BY ONLY <1>1, <1>2, RegisterMoves, CallersInv
<1>3. ASSUME NEW u \in Outcome,
             EndWith(r, u) /\ futures' = Popped(r) /\ pending_tasks' = Uncounted(r)
      PROVE  Moved(r)
  BY <1>1, <1>3, EndMoves
<1>4. "noworker" \in Outcome
  BY DEF Outcome
<1> QED BY <1>2, <1>3, <1>4 DEF Leave

\* A coroutine goes on without a change of the records.
LEMMA GoingOnKeepsCallers ==
    ASSUME CallersInv, NEW r \in Request, NEW x \in {"waiting", "public"},
           (pc[r] = "sending" /\ x = "waiting") \/ (pc[r] = "idle" /\ x = "public"),
           pc' = [pc EXCEPT ![r] = x],
           UNCHANGED <<attempt, at, queue_open, outcome, futures, pending_tasks>>
    PROVE  CallersInv'
<1>1. pc' \in [Request -> {"idle", "sending", "waiting", "public", "ended"}]
  BY DEF CallersInv, CallersTyped
<1>2. \A q \in Request : Active(q)' = Active(q) /\ (pc'[q] = "ended" <=> pc[q] = "ended")
  BY DEF CallersInv, CallersTyped, Active
<1>3. \A w \in Worker : Here(w)' = Here(w)
  BY <1>2 DEF Here
<1>4. CallersTyped'
  BY <1>1 DEF CallersInv, CallersTyped
<1>5. PlaceInv'
  BY <1>2 DEF CallersInv, PlaceInv, Future, TaskOf
<1>6. FuturesInv' /\ CountInv'
  BY <1>3 DEF CallersInv, FuturesInv, CountInv
<1> QED BY <1>4, <1>5, <1>6 DEF CallersInv

\* Futures are completed, and queues are closed whose futures are done.
LEMMA CompletionKeepsCallers ==
    ASSUME CallersInv, futures' \in FutureTable, queue_open' \in [Request -> BOOLEAN],
           UNCHANGED <<pc, attempt, at, outcome, pending_tasks>>,
           \A w \in Worker, t \in Task :
                /\ futures'[w][t] = None <=> futures[w][t] = None
                /\ futures'[w][t] = "pending" => futures[w][t] = "pending",
           \A r \in Request : queue_open'[r] => queue_open[r],
           \A r \in Request :
                Active(r) /\ queue_open[r] /\ ~queue_open'[r] => Future(r)' # "pending"
    PROVE  CallersInv'
<1>1. \A r \in Request : Active(r)' = Active(r) /\ TaskOf(r)' = TaskOf(r) /\ TaskOf(r) \in Task
  BY DEF Active, TaskOf, Task, CallersInv, CallersTyped
<1>2. \A w \in Worker : Here(w)' = Here(w)
  BY <1>1 DEF Here
<1>3. CallersTyped'
  BY DEF CallersInv, CallersTyped
<1>4. PlaceInv'
  <2> SUFFICES ASSUME NEW r \in Request
               PROVE  /\ Active(r)' => at'[r] \in Worker
                      /\ ~Active(r)' => at'[r] = None /\ ~queue_open'[r]
                      /\ Active(r)' /\ ~queue_open'[r] => Future(r)' # "pending"
                      /\ pc'[r] = "ended" <=> outcome'[r] # None
    BY DEF PlaceInv
  <2>1. /\ Active(r) => at[r] \in Worker
        /\ ~Active(r) => at[r] = None /\ ~queue_open[r]
        /\ Active(r) /\ ~queue_open[r] => Future(r) # "pending"
        /\ pc[r] = "ended" <=> outcome[r] # None
    BY DEF CallersInv, PlaceInv
  <2>2. ASSUME Active(r), Future(r)' = "pending" PROVE Future(r) = "pending"
    BY <1>1, <2>1, <2>2 DEF Future
  <2> QED BY <1>1, <2>1, <2>2
<1>5. FuturesInv'
  <2> SUFFICES ASSUME NEW w \in Worker, NEW r \in Request, NEW i \in 1 .. 2
               PROVE  futures'[w][<<r, i>>] # None <=> r \in Here(w)' /\ attempt'[r] = i
    BY DEF FuturesInv
  <2>1. futures[w][<<r, i>>] # None <=> r \in Here(w) /\ attempt[r] = i
    BY DEF CallersInv, FuturesInv
  <2>2. <<r, i>> \in Task
    BY DEF Task
  <2> QED BY <1>2, <2>1, <2>2
<1>6. CountInv'
  BY <1>2 DEF CallersInv, CountInv
<1> QED BY <1>3, <1>4, <1>5, <1>6 DEF CallersInv

-----------------------------------------------------------------------------
(* The steps of the coroutines. *)

\* A coroutine's step leaves the processes alone, but for a task it may put.
Put(r) ==
    \/ inbox' = inbox
    \/ Active(r) /\ inbox' = [inbox EXCEPT ![at[r]] = Append(@, TaskOf(r))]

LEMMA PutAdds ==
    ASSUME IInv, NEW r \in Request, Put(r), UNCHANGED <<running, outbox>>
    PROVE  /\ inbox' \in [Worker -> Seq(Task)]
           /\ \A w \in Worker, t \in Task :
                /\ OnItsWay(t, w) => OnItsWay(t, w)'
                /\ OnItsWay(t, w)' => OnItsWay(t, w) \/ (Active(r) /\ t[1] = r)
                /\ inbox' # inbox /\ t = TaskOf(r) /\ w = at[r] => OnItsWay(t, w)'
<1>1. CASE inbox' = inbox
  <2>1. ASSUME NEW w \in Worker, NEW t \in Task PROVE OnItsWay(t, w)' <=> OnItsWay(t, w)
    <3>1. inbox'[w] = inbox[w] /\ running'[w] = running[w] /\ outbox'[w] = outbox[w]
      BY <1>1
    <3> QED BY <3>1, Zenon DEF OnItsWay
  <2> QED BY <1>1, <2>1 DEF IInv, ProcessesTyped
<1>2. CASE Active(r) /\ inbox' = [inbox EXCEPT ![at[r]] = Append(@, TaskOf(r))]
  <2>1. at[r] \in Worker /\ TaskOf(r) \in Task /\ TaskOf(r)[1] = r
    BY <1>2 DEF IInv, PlaceInv, CallersTyped, TaskOf, Task
  <2>2. PICK v \in Worker, u \in Task : v = at[r] /\ u = TaskOf(r) /\ u[1] = r
    BY <2>1
  <2>3. /\ inbox' = [inbox EXCEPT ![v] = Append(@, u)]
        /\ inbox \in [Worker -> Seq(Task)] /\ inbox[v] \in Seq(Task)
    BY <1>2, <2>2 DEF IInv, ProcessesTyped
  <2>4. /\ Append(inbox[v], u) \in Seq(Task)
        /\ \A i \in DOMAIN Append(inbox[v], u) :
              \/ i \in DOMAIN inbox[v] /\ Append(inbox[v], u)[i] = inbox[v][i]
              \/ Append(inbox[v], u)[i] = u
        /\ \A i \in DOMAIN inbox[v] :
              i \in DOMAIN Append(inbox[v], u) /\ Append(inbox[v], u)[i] = inbox[v][i]
        /\ \E i \in DOMAIN Append(inbox[v], u) : Append(inbox[v], u)[i] = u
    BY ONLY <2>3, u \in Task, AppendElements
  <2>5. /\ inbox' \in [Worker -> Seq(Task)]
        /\ inbox'[v] = Append(inbox[v], u)
        /\ \A w \in Worker \ {v} : inbox'[w] = inbox[w]
    BY <2>3, <2>4
  <2>6. ASSUME NEW w \in Worker, NEW t \in Task
        PROVE  /\ OnItsWay(t, w) => OnItsWay(t, w)'
               /\ OnItsWay(t, w)' => OnItsWay(t, w) \/ (Active(r) /\ t[1] = r)
               /\ t = TaskOf(r) /\ w = at[r] => OnItsWay(t, w)'
    <3>1. CASE w = v
      <4>1. OnItsWay(t, v)' <=> OnItsWay(t, v) \/ t = u
        <5>1. (\E i \in DOMAIN inbox'[v] : inbox'[v][i] = t)
                 <=> (\E i \in DOMAIN inbox[v] : inbox[v][i] = t) \/ t = u
          BY <2>4, <2>5
        <5>2. running'[v] = running[v] /\ outbox'[v] = outbox[v]
          OBVIOUS
        <5> QED BY <5>1, <5>2, Zenon DEF OnItsWay
      <4> QED BY <1>2, <2>2, <3>1, <4>1
    <3>2. CASE w # v
      <4>1. OnItsWay(t, w)' <=> OnItsWay(t, w)
        <5>1. inbox'[w] = inbox[w] /\ running'[w] = running[w] /\ outbox'[w] = outbox[w]
          BY <2>5, <3>2
        <5> QED BY <5>1, Zenon DEF OnItsWay
      <4> QED BY <2>2, <3>2, <4>1
    <3> QED BY <3>1, <3>2
  <2> QED BY <2>5, <2>6
<1> QED BY <1>1, <1>2 DEF Put

LEMMA CoroutineKeeps ==
    ASSUME IInv, NEW r \in Request, Put(r), CallersInv',
           UNCHANGED <<poolVars, running, outbox, computed, silent>>,
           \A q \in Request : pc'[q] = "idle" => pc[q] = "idle" /\ q # r,
           \A w \in Worker, t \in Task : futures'[w][t] = "result" => futures[w][t] = "result",
           \A q \in Request : pc'[q] = "waiting" /\ Future(q)' = "pending" =>
                \/ /\ pc[q] = "waiting" /\ Future(q) = "pending"
                   /\ at'[q] = at[q] /\ attempt'[q] = attempt[q]
                \/ q = r /\ inbox' # inbox /\ at'[r] = at[r] /\ attempt'[r] = attempt[r]
    PROVE  IInv'
<1>1. /\ inbox' \in [Worker -> Seq(Task)]
      /\ \A w \in Worker, t \in Task :
            /\ OnItsWay(t, w) => OnItsWay(t, w)'
            /\ OnItsWay(t, w)' => OnItsWay(t, w) \/ (Active(r) /\ t[1] = r)
            /\ inbox' # inbox /\ t = TaskOf(r) /\ w = at[r] => OnItsWay(t, w)'
  BY ONLY IInv, r \in Request, Put(r), UNCHANGED <<running, outbox>>, PutAdds
<1>2. ProcessesTyped'
  BY <1>1 DEF IInv, ProcessesTyped, poolVars
<1>3. KnownInv'
  <2>1. \A t \in Task : t[1] \in Request
    BY DEF Task
  <2>2. \A t \in computed' : pc'[t[1]] # "idle"
    BY <2>1 DEF IInv, KnownInv, ProcessesTyped
  <2>3. ASSUME NEW w \in Worker, NEW t \in Task, OnItsWay(t, w)'
        PROVE  pc'[t[1]] # "idle"
    BY <1>1, <2>1, <2>3 DEF IInv, KnownInv
  <2> QED BY <2>2, <2>3 DEF KnownInv
<1>4. AnswersInv'
  BY DEF IInv, AnswersInv
<1>5. NoOrphanedWait'
  <2> SUFFICES ASSUME NEW q \in Request, pc'[q] = "waiting", process'[at'[q]],
                      Future(q)' = "pending"
               PROVE  OnItsWay(TaskOf(q), at[q])' \/ TaskOf(q)' \in silent'
    BY DEF NoOrphanedWait
  <2>1. /\ at'[q] \in Worker /\ <<q, attempt'[q]>> \in Task
    BY DEF Task, CallersInv, CallersTyped, PlaceInv, Active
  <2>2. PICK v \in Worker, u \in Task : v = at'[q] /\ u = <<q, attempt'[q]>>
    BY <2>1
  <2>3. OnItsWay(u, v)' \/ u \in silent
    <3>1. CASE /\ pc[q] = "waiting" /\ Future(q) = "pending"
               /\ at'[q] = at[q] /\ attempt'[q] = attempt[q]
      BY <1>1, <2>2, <3>1 DEF IInv, NoOrphanedWait, poolVars, TaskOf
    <3>2. CASE q = r /\ inbox' # inbox /\ at'[r] = at[r] /\ attempt'[r] = attempt[r]
      BY <1>1, <2>2, <3>2 DEF TaskOf
    <3> QED BY <3>1, <3>2
  <2> QED BY <2>2, <2>3 DEF OnItsWay, TaskOf
<1> QED BY <1>2, <1>3, <1>4, <1>5 DEF IInv, CallersInv

LEMMA MovedKeeps ==
    ASSUME IInv, NEW r \in Request, Moved(r), Put(r),
           UNCHANGED <<poolVars, running, outbox, computed, silent>>
    PROVE  IInv'
<1>1. \A q \in Request : pc'[q] = "idle" => pc[q] = "idle" /\ q # r
  BY DEF Moved
<1>2. \A w \in Worker, t \in Task : futures'[w][t] = "result" => futures[w][t] = "result"
  <2> SUFFICES ASSUME NEW w \in Worker, NEW t \in Task, futures'[w][t] = "result"
               PROVE  futures[w][t] = "result"
    OBVIOUS
  <2>1. PICK q \in Request, i \in 1 .. 2 : t = <<q, i>>
    BY DEF Task
  <2>2. CASE q = r
    <3>1. futures'[w][<<q, i>>] \in {None, "pending"}
      BY <2>2 DEF Moved
    <3> QED BY <2>1, <3>1, NoneAssumption DEF Outcome
  <2>3. CASE q # r
    BY <2>1, <2>3 DEF Moved
  <2> QED BY <2>2, <2>3
<1>3. ASSUME NEW q \in Request, pc'[q] = "waiting", Future(q)' = "pending"
      PROVE  /\ pc[q] = "waiting" /\ Future(q) = "pending"
             /\ at'[q] = at[q] /\ attempt'[q] = attempt[q]
  <2>1. q # r /\ pc[q] = "waiting" /\ at'[q] = at[q] /\ attempt'[q] = attempt[q]
    BY <1>3 DEF Moved
  <2>2. at[q] \in Worker /\ attempt[q] \in 1 .. 2
    BY <2>1 DEF IInv, PlaceInv, CallersTyped, Active
  <2>3. futures'[at[q]][<<q, attempt[q]>>] = futures[at[q]][<<q, attempt[q]>>]
    BY <2>1, <2>2 DEF Moved
  <2> QED BY <1>3, <2>1, <2>3 DEF Future, TaskOf
<1>4. CallersInv'
  BY DEF Moved
<1> QED BY <1>1, <1>2, <1>3, <1>4, CoroutineKeeps

LEMMA WhoMoves ==
    ASSUME IInv, NEW r \in Request
    PROVE  /\ \A w \in Worker : Begin(r, w) => Moved(r)
           /\ PublicEnds(r) => Moved(r)
           /\ Resolve(r) => Moved(r)
           /\ TimeOut(r) => Moved(r)
           /\ Cancel(r) => Moved(r)
<1>0. CallersInv
  BY DEF IInv, CallersInv
<1>1. ASSUME NEW w \in Worker, Begin(r, w) PROVE Moved(r)
  <2>1. ~Active(r) /\ pc[r] # "ended" /\ Register(r, 1, w, futures, pending_tasks)
    BY <1>1 DEF Begin, Active
  <2>2. Dropped(futures, pending_tasks, r)
    BY <1>0, <2>1, NotUnderWayIsDropped
  <2> QED BY <1>0, <2>1, <2>2, RegisterMoves
<1>2. ASSUME PublicEnds(r) PROVE Moved(r)
  <2>1. ~Active(r) /\ futures' = futures /\ pending_tasks' = pending_tasks
    BY <1>2 DEF PublicEnds, Active
  <2>2. Dropped(futures, pending_tasks, r)
    BY <1>0, <2>1, NotUnderWayIsDropped
  <2>3. Dropped(futures', pending_tasks', r)
    BY <2>1, <2>2
  <2>4. PICK o \in Outcome : EndWith(r, o)
    BY <1>2 DEF PublicEnds, Outcome
  <2> QED BY <1>0, <2>3, <2>4, EndMoves
<1>3. ASSUME Resolve(r) PROVE Moved(r)
  <2>1. Active(r) /\ Future(r) # "pending" /\ Leave(r, Kind(Future(r)))
    BY <1>3 DEF Resolve, Active
  <2>2. Future(r) \in FutureState
    <3>1. at[r] \in Worker /\ attempt[r] \in 1 .. 2 /\ TaskOf(r) \in Task /\ r \in Here(at[r])
      BY <1>0, <2>1 DEF CallersInv, CallersTyped, PlaceInv, TaskOf, Task, Here
    <3>2. futures[at[r]][<<r, attempt[r]>>] # None
      BY <1>0, <3>1 DEF CallersInv, FuturesInv
    <3>3. futures[at[r]][TaskOf(r)] \in FutureState \cup {None}
      BY <1>0, <3>1 DEF CallersInv, CallersTyped, FutureTable
    <3> QED BY <3>2, <3>3 DEF Future, TaskOf
  <2>3. Kind(Future(r)) \in Outcome
    BY <2>1, <2>2 DEF Kind, FutureState, Outcome
  <2> QED BY <1>0, <2>1, <2>3, LeaveMoves
<1>4. ASSUME TimeOut(r) \/ Cancel(r) PROVE Moved(r)
  <2>1. Active(r) /\ (Leave(r, "timeout") \/ Leave(r, "noresponse"))
    BY <1>4 DEF TimeOut, Cancel, Active
  <2>2. "timeout" \in Outcome /\ "noresponse" \in Outcome
    BY DEF Outcome
  <2> QED BY <1>0, <2>1, <2>2, LeaveMoves
<1> QED BY <1>1, <1>2, <1>3, <1>4

LEMMA CallerKeeps ==
    ASSUME IInv, NEW r \in Request, Caller(r)
    PROVE  IInv'
<1>0. CallersInv
  BY DEF IInv, CallersInv
<1>1. ASSUME \/ \E w \in Worker : Begin(r, w)
             \/ PublicEnds(r) \/ Resolve(r) \/ TimeOut(r) \/ Cancel(r)
      PROVE  IInv'
  <2>1. Moved(r)
    BY <1>1, WhoMoves
  <2>2. Put(r) /\ UNCHANGED <<poolVars, running, outbox, computed, silent>>
    BY <1>1 DEF Begin, PublicEnds, Resolve, TimeOut, Cancel, Put, procVars, Active
  <2> QED BY <2>1, <2>2, MovedKeeps
<1>2. ASSUME NoWorker(r) PROVE IInv'
  <2>1. Put(r) /\ UNCHANGED <<poolVars, running, outbox, computed, silent, inbox>>
    BY <1>2 DEF NoWorker, Put, procVars
  <2>2. CASE EndWith(r, "noworker")
    <3>1. ~Active(r) /\ futures' = futures /\ pending_tasks' = pending_tasks
      BY <1>2 DEF NoWorker, Active
    <3>2. Dropped(futures, pending_tasks, r)
      BY <1>0, <3>1, NotUnderWayIsDropped
    <3>3. Dropped(futures', pending_tasks', r) /\ "noworker" \in Outcome
      BY <3>1, <3>2 DEF Outcome
    <3> QED BY <1>0, <2>1, <2>2, <3>3, EndMoves, MovedKeeps
  <2>3. CASE pc' = [pc EXCEPT ![r] = "public"] /\ UNCHANGED <<attempt, at, queue_open, outcome>>
    <3>1. CallersInv'
      BY <1>0, <1>2, <2>3, GoingOnKeepsCallers DEF NoWorker
    <3>2. futures' = futures /\ at' = at /\ attempt' = attempt /\ pc[r] = "idle"
      BY <1>2, <2>3 DEF NoWorker
    <3>3. \A q \in Request : IF q = r THEN pc'[q] = "public" ELSE pc'[q] = pc[q]
      BY <2>3 DEF IInv, CallersTyped
    <3>4. \A q \in Request : Future(q)' = Future(q)
      BY <3>2 DEF Future, TaskOf
    <3> QED BY <2>1, <3>1, <3>2, <3>3, <3>4, CoroutineKeeps
  <2> QED BY <1>2, <2>2, <2>3 DEF NoWorker
<1>3. ASSUME Sent(r) \/ (SentNowhere(r) /\ ~Leave(r, "failure")) PROVE IInv'
  <2>1. /\ pc[r] = "sending" /\ pc' = [pc EXCEPT ![r] = "waiting"] /\ Active(r)
        /\ UNCHANGED <<attempt, at, queue_open, outcome, futures, pending_tasks>>
        /\ UNCHANGED <<poolVars, running, outbox, computed, silent>>
        /\ Put(r)
    BY <1>3 DEF Sent, SentNowhere, Put, Active, procVars
  <2>2. CallersInv'
    BY <1>0, <2>1, GoingOnKeepsCallers
  <2>3. \A q \in Request : IF q = r THEN pc'[q] = "waiting" ELSE pc'[q] = pc[q]
    BY <2>1 DEF IInv, CallersTyped
  <2>4. \A q \in Request : Future(q)' = Future(q)
    BY <2>1 DEF Future, TaskOf
  <2>5. Future(r) = "pending" => inbox' # inbox
    <3>1. CASE ~queue_open[r]
      BY <1>0, <2>1, <3>1 DEF CallersInv, PlaceInv
    <3>2. CASE queue_open[r]
      <4>0. at[r] \in Worker /\ TaskOf(r) \in Task
        BY <1>0, <2>1 DEF CallersInv, PlaceInv, CallersTyped, TaskOf, Task
      <4>1. PICK v \in Worker, u \in Task : v = at[r] /\ u = TaskOf(r)
        BY <4>0
      <4>2. inbox[v] \in Seq(Task) /\ inbox'[v] = Append(inbox[v], u)
        BY <1>3, <3>2, <4>1 DEF Sent, SentNowhere, IInv, ProcessesTyped
      <4>3. Len(inbox'[v]) = Len(inbox[v]) + 1 /\ Len(inbox[v]) \in Nat
        BY <4>2
      <4> QED BY <4>3
    <3> QED BY <3>1, <3>2
  <2> QED BY <2>1, <2>2, <2>3, <2>4, <2>5, CoroutineKeeps
<1>4. ASSUME SentNowhere(r), Leave(r, "failure") PROVE IInv'
  <2>1. Active(r) /\ "failure" \in Outcome
    BY <1>4 DEF SentNowhere, Active, Outcome
  <2>2. Put(r) /\ UNCHANGED <<poolVars, running, outbox, computed, silent>>
    BY <1>4 DEF SentNowhere, Put, procVars
  <2> QED BY <1>0, <1>4, <2>1, <2>2, LeaveMoves, MovedKeeps
<1> QED BY <1>1, <1>2, <1>3, <1>4 DEF Caller

-----------------------------------------------------------------------------
(* The steps of the processes. *)

LEMMA CallersUntouched ==
    ASSUME CallersInv, UNCHANGED <<reqVars, futures, pending_tasks>>
    PROVE  CallersInv'
<1>1. \A r \in Request : Active(r)' = Active(r) /\ Future(r)' = Future(r)
  BY DEF reqVars, Active, Future, TaskOf
<1>2. \A w \in Worker : Here(w)' = Here(w)
  BY <1>1 DEF Here, reqVars
<1>3. CallersTyped' /\ PlaceInv'
  BY <1>1 DEF CallersInv, CallersTyped, PlaceInv, reqVars
<1>4. FuturesInv' /\ CountInv'
  BY <1>2 DEF CallersInv, FuturesInv, CountInv, reqVars
<1> QED BY <1>3, <1>4 DEF CallersInv

\* What a step of a process, of the reader or of the supervision may do.
LEMMA ProcessStepKeeps ==
    ASSUME IInv, CallersInv', ProcessesTyped', AnswersInv',
           UNCHANGED <<pc, attempt, at>>, silent \subseteq silent',
           \A w \in Worker, t \in Task : OnItsWay(t, w)' => OnItsWay(t, w),
           \A t \in computed' : t \in computed \/ \E w \in Worker : OnItsWay(t, w),
           \A w \in Worker, t \in Task :
                futures'[w][t] = "pending" /\ process'[w] =>
                    /\ futures[w][t] = "pending" /\ process[w]
                    /\ OnItsWay(t, w) => OnItsWay(t, w)' \/ t \in silent'
    PROVE  IInv'
<1>1. KnownInv'
  BY DEF IInv, KnownInv, ProcessesTyped
<1>2. NoOrphanedWait'
  <2> SUFFICES ASSUME NEW r \in Request, pc'[r] = "waiting", process'[at'[r]],
                      Future(r)' = "pending"
               PROVE  OnItsWay(TaskOf(r), at[r])' \/ TaskOf(r)' \in silent'
    BY DEF NoOrphanedWait
  <2>1. at[r] \in Worker /\ TaskOf(r) \in Task
    BY DEF IInv, CallersTyped, PlaceInv, Active, TaskOf, Task
  <2>2. PICK w \in Worker, t \in Task : w = at[r] /\ t = TaskOf(r)
    BY <2>1
  <2>3. futures'[w][t] = "pending" /\ process'[w]
    BY <2>2 DEF Future, TaskOf
  <2>4. futures[w][t] = "pending" /\ process[w]
    BY <2>3
  <2>5. OnItsWay(t, w) \/ t \in silent
    BY <2>2, <2>4 DEF IInv, NoOrphanedWait, Future
  <2>6. OnItsWay(t, w)' \/ t \in silent'
    BY <2>3, <2>5
  <2> QED BY <2>2, <2>6 DEF OnItsWay, TaskOf
<1> QED BY <1>1, <1>2 DEF IInv, CallersInv

\* A step at the worker v leaves the tasks of the others where they are.
LEMMA ElsewhereOnItsWay ==
    ASSUME NEW w \in Worker, NEW t,
           inbox'[w] = inbox[w], running'[w] = running[w], outbox'[w] = outbox[w]
    PROVE  OnItsWay(t, w)' <=> OnItsWay(t, w)
BY Zenon DEF OnItsWay

\* The three places a task can be in, apart.
Queued(s, t) == \E i \in DOMAIN s : s[i] = t
Answered(s, t) == \E i \in DOMAIN s : s[i][1] = t

LEMMA OnItsWayPlaces ==
    \A t, w : OnItsWay(t, w) <=> Queued(inbox[w], t) \/ t \in running[w] \/ Answered(outbox[w], t)
BY Zenon DEF OnItsWay, Queued, Answered

LEMMA TailQueue ==
    ASSUME NEW S, NEW s \in Seq(S), s # <<>>
    PROVE  /\ \A t : Queued(s, t) <=> t = Head(s) \/ Queued(Tail(s), t)
           /\ \A t : Answered(s, t) <=> t = Head(s)[1] \/ Answered(Tail(s), t)
<1>1. /\ \A i \in DOMAIN Tail(s) : \E j \in DOMAIN s : Tail(s)[i] = s[j]
      /\ \A i \in DOMAIN s : s[i] = Head(s) \/ \E j \in DOMAIN Tail(s) : Tail(s)[j] = s[i]
      /\ \E i \in DOMAIN s : s[i] = Head(s)
  BY TailElements
<1>2. \A t : Queued(s, t) <=> t = Head(s) \/ Queued(Tail(s), t)
  BY <1>1 DEF Queued
<1>3. \A t : Answered(s, t) <=> t = Head(s)[1] \/ Answered(Tail(s), t)
  BY <1>1 DEF Answered
<1> QED BY <1>2, <1>3

LEMMA AppendQueue ==
    ASSUME NEW S, NEW s \in Seq(S), NEW x \in S
    PROVE  \A t : Answered(Append(s, x), t) <=> t = x[1] \/ Answered(s, t)
BY AppendElements DEF Answered

LEMMA TakeKeeps ==
    ASSUME IInv, NEW v \in Worker, Take(v)
    PROVE  IInv'
<1> DEFINE t0 == Head(inbox[v])
<1>1. /\ inbox[v] \in Seq(Task) /\ inbox[v] # <<>> /\ outbox[v] \in Seq(Answers)
      /\ inbox' = [inbox EXCEPT ![v] = Tail(@)]
      /\ UNCHANGED <<reqVars, futures, pending_tasks, poolVars, computed, silent>>
  BY DEF Take, IInv, ProcessesTyped
<1>2. Tail(inbox[v]) \in Seq(Task) /\ t0 \in Task
  BY ONLY <1>1, TailElements
<1>3. /\ inbox' \in [Worker -> Seq(Task)] /\ inbox'[v] = Tail(inbox[v])
      /\ \A w \in Worker \ {v} : inbox'[w] = inbox[w]
  BY <1>1, <1>2 DEF IInv, ProcessesTyped
<1>4. \A t : Queued(inbox[v], t) <=> t = t0 \/ Queued(Tail(inbox[v]), t)
  BY ONLY <1>1, TailQueue
<1>5. CallersInv'
  BY <1>1, CallersUntouched DEF IInv, CallersInv
<1> HIDE DEF t0
<1>6. CASE running' = [running EXCEPT ![v] = @ \cup {t0}] /\ UNCHANGED outbox
  <2>1. /\ running' \in [Worker -> SUBSET Task] /\ running'[v] = running[v] \cup {t0}
        /\ \A w \in Worker \ {v} : running'[w] = running[w]
    BY <1>2, <1>6 DEF IInv, ProcessesTyped
  <2>2. ProcessesTyped'
    BY <1>1, <1>3, <1>6, <2>1 DEF IInv, ProcessesTyped, poolVars
  <2>3. ASSUME NEW w \in Worker, NEW t \in Task PROVE OnItsWay(t, w)' <=> OnItsWay(t, w)
    <3>1. CASE w # v
      BY <1>3, <1>6, <2>1, <3>1, ElsewhereOnItsWay
    <3>2. CASE w = v
      <4>1. OnItsWay(t, v)' <=> Queued(inbox'[v], t) \/ t \in running'[v] \/ Answered(outbox'[v], t)
        BY DEF OnItsWay, Queued, Answered
      <4> QED BY <1>3, <1>4, <1>6, <2>1, <3>2, <4>1, OnItsWayPlaces
    <3> QED BY <3>1, <3>2
  <2>4. AnswersInv'
    BY <1>1, <1>6 DEF IInv, AnswersInv
  <2> QED BY <1>1, <1>5, <2>2, <2>3, <2>4, ProcessStepKeeps DEF reqVars, poolVars
<1>7. CASE outbox' = [outbox EXCEPT ![v] = Append(@, <<t0, "failure">>)] /\ UNCHANGED running
  <2>1. <<t0, "failure">> \in Answers
    BY <1>2 DEF Answers
  <2>2. /\ Append(outbox[v], <<t0, "failure">>) \in Seq(Answers)
        /\ \A i \in DOMAIN Append(outbox[v], <<t0, "failure">>) :
              \/ /\ i \in DOMAIN outbox[v]
                 /\ Append(outbox[v], <<t0, "failure">>)[i] = outbox[v][i]
              \/ Append(outbox[v], <<t0, "failure">>)[i] = <<t0, "failure">>
    BY ONLY <1>1, <2>1, AppendElements
  <2>3. \A t : Answered(Append(outbox[v], <<t0, "failure">>), t) <=> t = t0 \/ Answered(outbox[v], t)
    BY ONLY <1>1, <2>1, AppendQueue
  <2>4. /\ outbox' \in [Worker -> Seq(Answers)]
        /\ outbox'[v] = Append(outbox[v], <<t0, "failure">>)
        /\ \A w \in Worker \ {v} : outbox'[w] = outbox[w]
    BY <1>7, <2>2 DEF IInv, ProcessesTyped
  <2>5. ProcessesTyped'
    BY <1>1, <1>3, <1>7, <2>4 DEF IInv, ProcessesTyped, poolVars
  <2>6. ASSUME NEW w \in Worker, NEW t \in Task PROVE OnItsWay(t, w)' <=> OnItsWay(t, w)
    <3>1. CASE w # v
      BY <1>3, <1>7, <2>4, <3>1, ElsewhereOnItsWay
    <3>2. CASE w = v
      <4>1. OnItsWay(t, v)' <=> Queued(inbox'[v], t) \/ t \in running'[v] \/ Answered(outbox'[v], t)
        BY DEF OnItsWay, Queued, Answered
      <4> QED BY <1>3, <1>4, <1>7, <2>3, <2>4, <3>2, <4>1, OnItsWayPlaces
    <3> QED BY <3>1, <3>2
  <2>7. AnswersInv'
    <3>1. ASSUME NEW w \in Worker, NEW i \in DOMAIN outbox'[w]
          PROVE  /\ outbox'[w][i][2] = "nothing" => outbox'[w][i][1] \in silent'
                 /\ outbox'[w][i][2] = "result" => outbox'[w][i][1] \in computed'
      <4>1. CASE i \in DOMAIN outbox[w] /\ outbox'[w][i] = outbox[w][i]
        BY <1>1, <4>1 DEF IInv, AnswersInv
      <4>2. CASE outbox'[w][i] = <<t0, "failure">>
        BY <4>2
      <4> QED BY <2>2, <2>4, <4>1, <4>2
    <3>2. \A w \in Worker, t \in Task : futures'[w][t] = "result" => t \in computed'
      BY <1>1 DEF IInv, AnswersInv
    <3> QED BY <3>1, <3>2 DEF AnswersInv
  <2> QED BY <1>1, <1>5, <2>5, <2>6, <2>7, ProcessStepKeeps DEF reqVars, poolVars
<1> QED BY <1>6, <1>7 DEF Take, t0

LEMMA WorkKeeps ==
    ASSUME IInv, NEW v \in Worker, NEW u \in Task, NEW a \in Answer, Work(v, u, a)
    PROVE  IInv'
<1>1. /\ outbox[v] \in Seq(Answers) /\ u \in running[v] /\ <<u, a>> \in Answers
      /\ running' = [running EXCEPT ![v] = @ \ {u}]
      /\ outbox' = [outbox EXCEPT ![v] = Append(@, <<u, a>>)]
      /\ UNCHANGED <<reqVars, futures, pending_tasks, poolVars, inbox>>
  BY DEF Work, IInv, ProcessesTyped, Answers
<1>2. /\ computed' \subseteq computed \cup {u} /\ computed \subseteq computed'
      /\ silent' \subseteq silent \cup {u} /\ silent \subseteq silent'
      /\ a = "result" => u \in computed'
      /\ a = "nothing" => u \in silent'
  BY DEF Work
<1>3. /\ Append(outbox[v], <<u, a>>) \in Seq(Answers)
      /\ \A i \in DOMAIN Append(outbox[v], <<u, a>>) :
            \/ i \in DOMAIN outbox[v] /\ Append(outbox[v], <<u, a>>)[i] = outbox[v][i]
            \/ Append(outbox[v], <<u, a>>)[i] = <<u, a>>
  BY ONLY <1>1, AppendElements
<1>4. \A t : Answered(Append(outbox[v], <<u, a>>), t) <=> t = u \/ Answered(outbox[v], t)
  BY ONLY <1>1, AppendQueue
<1>5. /\ outbox' \in [Worker -> Seq(Answers)] /\ outbox'[v] = Append(outbox[v], <<u, a>>)
      /\ \A w \in Worker \ {v} : outbox'[w] = outbox[w]
  BY <1>1, <1>3 DEF IInv, ProcessesTyped
<1>6. /\ running' \in [Worker -> SUBSET Task] /\ running'[v] = running[v] \ {u}
      /\ \A w \in Worker \ {v} : running'[w] = running[w]
  BY <1>1 DEF IInv, ProcessesTyped
<1>7. CallersInv' /\ ProcessesTyped'
  BY <1>1, <1>2, <1>5, <1>6, CallersUntouched DEF IInv, CallersInv, ProcessesTyped, poolVars
<1>8. ASSUME NEW w \in Worker, NEW t \in Task PROVE OnItsWay(t, w)' <=> OnItsWay(t, w)
  <2>1. CASE w # v
    BY <1>1, <1>5, <1>6, <2>1, ElsewhereOnItsWay
  <2>2. CASE w = v
    <3>1. OnItsWay(t, v)' <=> Queued(inbox'[v], t) \/ t \in running'[v] \/ Answered(outbox'[v], t)
      BY DEF OnItsWay, Queued, Answered
    <3> QED BY <1>1, <1>4, <1>5, <1>6, <2>2, <3>1, OnItsWayPlaces
  <2> QED BY <2>1, <2>2
<1>9. AnswersInv'
  <2>1. ASSUME NEW w \in Worker, NEW i \in DOMAIN outbox'[w]
        PROVE  /\ outbox'[w][i][2] = "nothing" => outbox'[w][i][1] \in silent'
               /\ outbox'[w][i][2] = "result" => outbox'[w][i][1] \in computed'
    <3>1. CASE i \in DOMAIN outbox[w] /\ outbox'[w][i] = outbox[w][i]
      BY <1>2, <3>1 DEF IInv, AnswersInv
    <3>2. CASE outbox'[w][i] = <<u, a>>
      BY <1>2, <3>2
    <3> QED BY <1>3, <1>5, <3>1, <3>2
  <2>2. \A w \in Worker, t \in Task : futures'[w][t] = "result" => t \in computed'
    BY <1>1, <1>2 DEF IInv, AnswersInv
  <2> QED BY <2>1, <2>2 DEF AnswersInv
<1>10. OnItsWay(u, v)
  BY <1>1, OnItsWayPlaces
<1>11. \A t \in computed' : t \in computed \/ \E w \in Worker : OnItsWay(t, w)
  BY <1>2, <1>10
<1> QED BY <1>1, <1>2, <1>7, <1>8, <1>9, <1>11, ProcessStepKeeps DEF reqVars, poolVars

LEMMA DeliverKeeps ==
    ASSUME IInv, NEW v \in Worker, Deliver(v)
    PROVE  IInv'
<1>1. /\ outbox[v] \in Seq(Answers) /\ outbox[v] # <<>>
      /\ outbox' = [outbox EXCEPT ![v] = Tail(@)]
      /\ UNCHANGED <<reqVars, pending_tasks, poolVars, inbox, running, computed, silent>>
  BY DEF Deliver, IInv, ProcessesTyped
<1>2. /\ Tail(outbox[v]) \in Seq(Answers) /\ Head(outbox[v]) \in Answers
      /\ \A i \in DOMAIN Tail(outbox[v]) : \E j \in DOMAIN outbox[v] : Tail(outbox[v])[i] = outbox[v][j]
      /\ \E i \in DOMAIN outbox[v] : outbox[v][i] = Head(outbox[v])
  BY ONLY <1>1, TailElements
<1>3. \A t : Answered(outbox[v], t) <=> t = Head(outbox[v])[1] \/ Answered(Tail(outbox[v]), t)
  BY ONLY <1>1, TailQueue
<1>4. PICK u \in Task, a \in Answer \cup {"failure"} : Head(outbox[v]) = <<u, a>>
  BY <1>2 DEF Answers
<1>5. (a = "nothing" => u \in silent) /\ (a = "result" => u \in computed)
  BY <1>2, <1>4 DEF IInv, AnswersInv
<1>6. /\ outbox' \in [Worker -> Seq(Answers)] /\ outbox'[v] = Tail(outbox[v])
      /\ \A w \in Worker \ {v} : outbox'[w] = outbox[w]
  BY <1>1, <1>2 DEF IInv, ProcessesTyped
<1>7. /\ futures' \in FutureTable
      /\ \A w \in Worker, t \in Task :
            \/ futures'[w][t] = futures[w][t]
            \/ /\ w = v /\ t = u /\ a # "nothing" /\ futures[w][t] = "pending"
               /\ futures'[w][t] = a
      /\ a # "nothing" => futures'[v][u] # "pending"
  <2>1. futures' = Completed(v, u, a)
    BY <1>4 DEF Deliver
  <2>2. a # "nothing" => a \in FutureState /\ a # "pending"
    BY AnswerAssumption DEF FutureState
  <2>3. CASE a # "nothing" /\ futures[v][u] = "pending"
    <3>1. futures' = [futures EXCEPT ![v][u] = a]
      BY <2>1, <2>3 DEF Completed
    <3> QED BY <2>2, <2>3, <3>1 DEF IInv, CallersTyped, FutureTable
  <2>4. CASE ~(a # "nothing" /\ futures[v][u] = "pending")
    BY <2>1, <2>4 DEF Completed, IInv, CallersTyped
  <2> QED BY <2>3, <2>4
<1>8. CallersInv'
  <2>1. \A w \in Worker, t \in Task :
            /\ futures'[w][t] = None <=> futures[w][t] = None
            /\ futures'[w][t] = "pending" => futures[w][t] = "pending"
    BY <1>7, AnswerAssumption, NoneAssumption DEF FutureState
  <2>2. queue_open' = queue_open /\ queue_open \in [Request -> BOOLEAN]
    BY <1>1 DEF reqVars, IInv, CallersTyped
  <2> QED BY <1>1, <1>7, <2>1, <2>2, CompletionKeepsCallers DEF IInv, CallersInv, reqVars
<1>9. ProcessesTyped'
  BY <1>1, <1>6 DEF IInv, ProcessesTyped, poolVars
<1>10. ASSUME NEW w \in Worker, NEW t \in Task
       PROVE  /\ OnItsWay(t, w)' => OnItsWay(t, w)
              /\ OnItsWay(t, w) => OnItsWay(t, w)' \/ (w = v /\ t = u)
  <2>1. CASE w # v
    BY <1>1, <1>6, <2>1, ElsewhereOnItsWay
  <2>2. CASE w = v
    <3>1. OnItsWay(t, v)' <=> Queued(inbox'[v], t) \/ t \in running'[v] \/ Answered(outbox'[v], t)
      BY DEF OnItsWay, Queued, Answered
    <3>2. OnItsWay(t, v) <=> Queued(inbox[v], t) \/ t \in running[v] \/ Answered(outbox[v], t)
      BY OnItsWayPlaces
    <3>3. Answered(outbox[v], t) <=> t = u \/ Answered(outbox'[v], t)
      BY <1>3, <1>4, <1>6
    <3> QED BY <1>1, <2>2, <3>1, <3>2, <3>3
  <2> QED BY <2>1, <2>2
<1>11. AnswersInv'
  <2>1. ASSUME NEW w \in Worker, NEW i \in DOMAIN outbox'[w]
        PROVE  /\ outbox'[w][i][2] = "nothing" => outbox'[w][i][1] \in silent'
               /\ outbox'[w][i][2] = "result" => outbox'[w][i][1] \in computed'
    <3>1. \E j \in DOMAIN outbox[w] : outbox'[w][i] = outbox[w][j]
      <4>1. CASE w = v
        BY <1>2, <1>6, <4>1
      <4>2. CASE w # v
        BY <1>6, <4>2
      <4> QED BY <4>1, <4>2
    <3>2. PICK j \in DOMAIN outbox[w] : outbox'[w][i] = outbox[w][j]
      BY <3>1
    <3> QED BY <1>1, <3>2 DEF IInv, AnswersInv
  <2>2. \A w \in Worker, t \in Task : futures'[w][t] = "result" => t \in computed'
    BY <1>1, <1>5, <1>7 DEF IInv, AnswersInv
  <2> QED BY <2>1, <2>2 DEF AnswersInv
<1>12. ASSUME NEW w \in Worker, NEW t \in Task, futures'[w][t] = "pending", process'[w]
       PROVE  /\ futures[w][t] = "pending" /\ process[w]
              /\ OnItsWay(t, w) => OnItsWay(t, w)' \/ t \in silent'
  <2>1. futures[w][t] = "pending"
    BY <1>7, <1>12
  <2>2. (w = v /\ t = u) => t \in silent'
    BY <1>1, <1>5, <1>7, <1>12
  <2> QED BY <1>1, <1>10, <1>12, <2>1, <2>2 DEF poolVars
<1> QED BY <1>1, <1>8, <1>9, <1>10, <1>11, <1>12, ProcessStepKeeps DEF reqVars

LEMMA DieKeeps ==
    ASSUME IInv, NEW v \in Worker, Die(v)
    PROVE  IInv'
<1>1. /\ process' = [process EXCEPT ![v] = FALSE]
      /\ running' = [running EXCEPT ![v] = {}]
      /\ deaths' \in 0 .. MaxDeaths
      /\ UNCHANGED <<reqVars, futures, pending_tasks, is_alive, inbox, computed, silent>>
  BY BoundAssumption DEF Die, IInv, ProcessesTyped
<1>2. PICK n \in 0 .. Len(outbox[v]) : outbox' = [outbox EXCEPT ![v] = SubSeq(@, 1, n)]
  BY DEF Die
<1>3. /\ SubSeq(outbox[v], 1, n) \in Seq(Answers)
      /\ \A i \in DOMAIN SubSeq(outbox[v], 1, n) :
            i \in DOMAIN outbox[v] /\ SubSeq(outbox[v], 1, n)[i] = outbox[v][i]
  <2>1. outbox[v] \in Seq(Answers) /\ Len(outbox[v]) \in Nat
    BY DEF IInv, ProcessesTyped
  <2> QED BY <2>1
<1>4. /\ outbox' \in [Worker -> Seq(Answers)] /\ outbox'[v] = SubSeq(outbox[v], 1, n)
      /\ \A w \in Worker \ {v} : outbox'[w] = outbox[w]
  BY <1>2, <1>3 DEF IInv, ProcessesTyped
<1>5. /\ running' \in [Worker -> SUBSET Task] /\ running'[v] = {}
      /\ process' \in [Worker -> BOOLEAN] /\ ~process'[v]
      /\ \A w \in Worker \ {v} : running'[w] = running[w] /\ process'[w] = process[w]
  BY <1>1 DEF IInv, ProcessesTyped
<1>6. CallersInv' /\ ProcessesTyped'
  BY <1>1, <1>4, <1>5, CallersUntouched DEF IInv, CallersInv, ProcessesTyped
<1>7. ASSUME NEW w \in Worker, NEW i \in DOMAIN outbox'[w]
      PROVE  i \in DOMAIN outbox[w] /\ outbox'[w][i] = outbox[w][i]
  BY <1>3, <1>4
<1>8. ASSUME NEW w \in Worker, NEW t \in Task
      PROVE  /\ OnItsWay(t, w)' => OnItsWay(t, w)
             /\ w # v => (OnItsWay(t, w) => OnItsWay(t, w)')
  <2>1. CASE w # v
    BY <1>1, <1>4, <1>5, <2>1, ElsewhereOnItsWay
  <2>2. CASE w = v
    <3>1. OnItsWay(t, v)' <=> Queued(inbox'[v], t) \/ t \in running'[v] \/ Answered(outbox'[v], t)
      BY DEF OnItsWay, Queued, Answered
    <3>2. OnItsWay(t, v) <=> Queued(inbox[v], t) \/ t \in running[v] \/ Answered(outbox[v], t)
      BY OnItsWayPlaces
    <3>3. Answered(outbox'[v], t) => Answered(outbox[v], t)
      BY <1>7 DEF Answered
    <3> QED BY <1>1, <1>5, <2>2, <3>1, <3>2, <3>3
  <2> QED BY <2>1, <2>2
<1>9. AnswersInv'
  <2>1. \A w \in Worker : \A i \in DOMAIN outbox'[w] :
            /\ outbox'[w][i][2] = "nothing" => outbox'[w][i][1] \in silent'
            /\ outbox'[w][i][2] = "result" => outbox'[w][i][1] \in computed'
    BY <1>1, <1>7 DEF IInv, AnswersInv
  <2>2. \A w \in Worker, t \in Task : futures'[w][t] = "result" => t \in computed'
    BY <1>1 DEF IInv, AnswersInv
  <2> QED BY <2>1, <2>2 DEF AnswersInv
<1>10. \A w \in Worker, t \in Task : futures'[w][t] = "pending" /\ process'[w] =>
            /\ futures[w][t] = "pending" /\ process[w]
            /\ OnItsWay(t, w) => OnItsWay(t, w)' \/ t \in silent'
  BY <1>1, <1>5, <1>8
<1> QED BY <1>1, <1>6, <1>8, <1>9, <1>10, ProcessStepKeeps DEF reqVars

LEMMA NoticeKeeps ==
    ASSUME IInv, NEW v \in Worker, Notice(v)
    PROVE  IInv'
<1>1. /\ is_alive' \in [Worker -> BOOLEAN]
      /\ UNCHANGED <<reqVars, futures, pending_tasks, process, deaths, procVars>>
  BY DEF Notice, IInv, ProcessesTyped
<1>2. CallersInv' /\ ProcessesTyped'
  BY <1>1, CallersUntouched DEF IInv, CallersInv, ProcessesTyped, procVars
<1>3. \A w \in Worker, t \in Task : OnItsWay(t, w)' <=> OnItsWay(t, w)
  BY <1>1, ElsewhereOnItsWay DEF procVars
<1>4. AnswersInv'
  BY <1>1 DEF IInv, AnswersInv, procVars
<1> QED BY <1>1, <1>2, <1>3, <1>4, ProcessStepKeeps DEF reqVars, procVars

LEMMA RespawnKeeps ==
    ASSUME IInv, NEW v \in Worker, NEW up \in BOOLEAN, Respawn(v, up)
    PROVE  IInv'
<1>1. /\ ~process[v]
      /\ inbox' = [inbox EXCEPT ![v] = <<>>] /\ outbox' = [outbox EXCEPT ![v] = <<>>]
      /\ process' = [process EXCEPT ![v] = up] /\ is_alive' = [is_alive EXCEPT ![v] = up]
      /\ UNCHANGED <<pc, attempt, at, outcome, pending_tasks, deaths, running, computed, silent>>
  BY DEF Respawn
<1>2. /\ inbox' \in [Worker -> Seq(Task)] /\ inbox'[v] = <<>>
      /\ outbox' \in [Worker -> Seq(Answers)] /\ outbox'[v] = <<>>
      /\ process' \in [Worker -> BOOLEAN] /\ is_alive' \in [Worker -> BOOLEAN]
      /\ \A w \in Worker \ {v} :
            inbox'[w] = inbox[w] /\ outbox'[w] = outbox[w] /\ process'[w] = process[w]
  BY <1>1 DEF IInv, ProcessesTyped
<1>3. /\ futures' \in FutureTable
      /\ \A t \in Task : futures'[v][t] = IF futures[v][t] = "pending" THEN "cancelled" ELSE futures[v][t]
      /\ \A w \in Worker \ {v} : futures'[w] = futures[w]
  <2>1. futures' = [futures EXCEPT ![v] =
                        [t \in Task |-> IF @[t] = "pending" THEN "cancelled" ELSE @[t]]]
    BY DEF Respawn, CancelFutures
  <2>2. [t \in Task |-> IF futures[v][t] = "pending" THEN "cancelled" ELSE futures[v][t]]
            \in [Task -> FutureState \cup {None}]
    BY DEF IInv, CallersTyped, FutureTable, FutureState
  <2> QED BY <2>1, <2>2 DEF IInv, CallersTyped, FutureTable
<1>4. ASSUME NEW w \in Worker, NEW t \in Task
      PROVE  /\ futures'[w][t] = None <=> futures[w][t] = None
             /\ futures'[w][t] = "pending" => w # v /\ futures[w][t] = "pending"
             /\ futures'[w][t] = "result" => futures[w][t] = "result"
  <2>1. CASE w = v
    BY <1>3, <2>1, NoneAssumption DEF FutureState
  <2>2. CASE w # v
    BY <1>3, <2>2
  <2> QED BY <2>1, <2>2
<1>5. CallersInv'
  <2>1. queue_open' = [r \in Request |-> queue_open[r] /\ at[r] # v]
    BY DEF Respawn
  <2>2. \A r \in Request : queue_open'[r] <=> queue_open[r] /\ at[r] # v
    BY <2>1
  <2>3. queue_open' \in [Request -> BOOLEAN]
    BY <2>1
  <2>4. ASSUME NEW r \in Request, Active(r), queue_open[r], ~queue_open'[r]
        PROVE  Future(r)' # "pending"
    <3>1. at'[r] = v /\ <<r, attempt'[r]>> \in Task
      BY <1>1, <2>2, <2>4 DEF Task, IInv, CallersTyped
    <3> QED BY <1>4, <3>1 DEF Future, TaskOf
  <2> QED BY <1>1, <1>3, <1>4, <2>2, <2>3, <2>4, CompletionKeepsCallers DEF IInv, CallersInv
<1>6. ProcessesTyped'
  BY <1>1, <1>2 DEF IInv, ProcessesTyped
<1>7. ASSUME NEW w \in Worker, NEW t \in Task
      PROVE  /\ OnItsWay(t, w)' => OnItsWay(t, w)
             /\ w # v => (OnItsWay(t, w) => OnItsWay(t, w)')
  <2>1. CASE w # v
    BY <1>1, <1>2, <2>1, ElsewhereOnItsWay
  <2>2. CASE w = v
    <3>1. OnItsWay(t, v)' <=> Queued(inbox'[v], t) \/ t \in running'[v] \/ Answered(outbox'[v], t)
      BY DEF OnItsWay, Queued, Answered
    <3>2. ~Queued(inbox'[v], t) /\ ~Answered(outbox'[v], t)
      BY <1>2 DEF Queued, Answered
    <3> QED BY <1>1, <2>2, <3>1, <3>2, OnItsWayPlaces
  <2> QED BY <2>1, <2>2
<1>8. AnswersInv'
  <2>1. ASSUME NEW w \in Worker, NEW i \in DOMAIN outbox'[w]
        PROVE  /\ outbox'[w][i][2] = "nothing" => outbox'[w][i][1] \in silent'
               /\ outbox'[w][i][2] = "result" => outbox'[w][i][1] \in computed'
    <3>1. w # v
      BY <1>2
    <3> QED BY <1>1, <1>2, <3>1 DEF IInv, AnswersInv
  <2>2. \A w \in Worker, t \in Task : futures'[w][t] = "result" => t \in computed'
    BY <1>1, <1>4 DEF IInv, AnswersInv
  <2> QED BY <2>1, <2>2 DEF AnswersInv
<1>9. ASSUME NEW w \in Worker, NEW t \in Task, futures'[w][t] = "pending", process'[w]
      PROVE  /\ futures[w][t] = "pending" /\ process[w]
             /\ OnItsWay(t, w) => OnItsWay(t, w)' \/ t \in silent'
  BY <1>2, <1>4, <1>7, <1>9
<1> QED BY <1>1, <1>5, <1>6, <1>7, <1>8, <1>9, ProcessStepKeeps

-----------------------------------------------------------------------------
(* The theorems. *)

LEMMA InitIInv == ASSUME Init PROVE IInv
<1>1. CallersTyped
  BY DEF Init, CallersTyped, FutureTable
<1>2. ProcessesTyped
  BY BoundAssumption DEF Init, ProcessesTyped
<1>3. \A r \in Request : ~Active(r) /\ at[r] = None /\ ~queue_open[r] /\ outcome[r] = None /\ pc[r] = "idle"
  BY DEF Init, Active
<1>4. \A w \in Worker : Here(w) = {}
  BY <1>3 DEF Here
<1>5. PlaceInv
  BY <1>3 DEF PlaceInv
<1>6. FuturesInv
  BY <1>4 DEF Init, FuturesInv, Task
<1>7. CountInv
  BY <1>4, FS_EmptySet DEF Init, CountInv
<1>8. \A w \in Worker, t \in Task : ~OnItsWay(t, w)
  BY DEF Init, OnItsWay
<1>9. KnownInv /\ NoOrphanedWait
  BY <1>3, <1>8 DEF Init, KnownInv, NoOrphanedWait, Active
<1>10. AnswersInv
  BY NoneAssumption DEF Init, AnswersInv, FutureState
<1> QED BY <1>1, <1>2, <1>5, <1>6, <1>7, <1>9, <1>10 DEF IInv

LEMMA ProcessKeeps ==
    ASSUME IInv, NEW w \in Worker, Process(w)
    PROVE  IInv'
BY TakeKeeps, WorkKeeps, DeliverKeeps, DieKeeps, NoticeKeeps, RespawnKeeps DEF Process

LEMMA StutterKeeps == ASSUME IInv, UNCHANGED vars PROVE IInv'
<1>1. UNCHANGED <<reqVars, futures, pending_tasks, poolVars, procVars>>
  BY DEF vars
<1>2. CallersInv' /\ ProcessesTyped'
  BY <1>1, CallersUntouched DEF IInv, CallersInv, ProcessesTyped, procVars, poolVars
<1>3. \A w \in Worker, t \in Task : OnItsWay(t, w)' <=> OnItsWay(t, w)
  BY <1>1, ElsewhereOnItsWay DEF procVars
<1>4. AnswersInv'
  BY <1>1 DEF IInv, AnswersInv, procVars
<1> QED BY <1>1, <1>2, <1>3, <1>4, ProcessStepKeeps DEF reqVars, procVars, poolVars

LEMMA Invariance == Spec => []IInv
<1>1. IInv /\ [Next]_vars => IInv'
  BY CallerKeeps, ProcessKeeps, StutterKeeps DEF Next
<1> QED BY <1>1, InitIInv, PTL DEF Spec

\* The variables keep to their types: a count of pending tasks never goes below zero.
THEOREM Typing == Spec => []TypeOK
<1>1. IInv => TypeOK
  BY TypesTogether DEF IInv
<1> QED BY <1>1, Invariance, PTL

\* Under any timeouts, cancellations, retries, deaths and respawns, the futures a
\* worker's record keeps are those of the requests under way at the worker, and
\* pending_tasks is their number.
THEOREM FuturesNotLeaked == Spec => []NoFutureLeaks
<1>1. IInv => NoFutureLeaks
  <2> SUFFICES ASSUME IInv, NEW w \in Worker
               PROVE  /\ {t \in Task : futures[w][t] # None} = {TaskOf(r) : r \in Here(w)}
                      /\ pending_tasks[w] = Cardinality(Here(w))
    BY DEF NoFutureLeaks, Here
  <2>1. ASSUME NEW t \in Task, futures[w][t] # None PROVE \E r \in Here(w) : t = TaskOf(r)
    <3>1. PICK r \in Request, i \in 1 .. 2 : t = <<r, i>>
      BY DEF Task
    <3>2. r \in Here(w) /\ attempt[r] = i
      BY <2>1, <3>1 DEF IInv, FuturesInv
    <3> QED BY <3>1, <3>2 DEF TaskOf
  <2>2. ASSUME NEW r \in Here(w) PROVE TaskOf(r) \in Task /\ futures[w][TaskOf(r)] # None
    <3>1. r \in Request /\ attempt[r] \in 1 .. 2
      BY DEF Here, IInv, CallersTyped
    <3>2. futures[w][<<r, attempt[r]>>] # None
      BY <3>1 DEF IInv, FuturesInv
    <3> QED BY <3>1, <3>2 DEF TaskOf, Task
  <2> QED BY <2>1, <2>2 DEF IInv, CountInv
<1> QED BY <1>1, Invariance, PTL

\* No request waits for a worker that runs but has neither its task nor an answer:
\* a respawn leaves nobody behind.
THEOREM NobodyOrphaned == Spec => []NoOrphanedWait
<1>1. IInv => NoOrphanedWait
  BY DEF IInv
<1> QED BY <1>1, Invariance, PTL

-----------------------------------------------------------------------------
(* Dispatch implements RemoteCall. *)

\* What a step of the request r to the program counter p does to the abstract state.
LEMMA AbstractStep ==
    ASSUME IInv, NEW r \in Request, pc' \in [Request -> {"idle", "sending", "waiting", "public", "ended"}],
           \A q \in Request \ {r} : pc'[q] = pc[q] /\ outcome'[q] = outcome[q],
           pc[r] # "ended", computed' = computed
    PROVE  /\ ComputedRequests' = ComputedRequests
           /\ pc'[r] # "idle" => AskedRequests' = AskedRequests \cup {r}
           /\ pc'[r] # "ended" => EndedRequests' = EndedRequests
           /\ pc'[r] = "ended" => EndedRequests' = EndedRequests \cup {<<r, outcome'[r]>>}
           /\ ~Call!Ended(r)
<1>1. ComputedRequests' = ComputedRequests
  BY DEF ComputedRequests
<1>2. pc'[r] # "idle" => AskedRequests' = AskedRequests \cup {r}
  BY DEF AskedRequests
<1>3. pc'[r] # "ended" => EndedRequests' = EndedRequests
  BY DEF EndedRequests
<1>4. pc'[r] = "ended" => EndedRequests' = EndedRequests \cup {<<r, outcome'[r]>>}
  BY DEF EndedRequests
<1>5. ~Call!Ended(r)
  BY DEF Call!Ended, EndedRequests
<1> QED BY <1>1, <1>2, <1>3, <1>4, <1>5

LEMMA EndImplements ==
    ASSUME IInv, NEW r \in Request, NEW o \in Outcome, EndWith(r, o), pc[r] # "ended",
           computed' = computed,
           o = "result" => r \in ComputedRequests /\ pc[r] # "idle"
    PROVE  Call!Next
<1>1. /\ pc' \in [Request -> {"idle", "sending", "waiting", "public", "ended"}]
      /\ pc'[r] = "ended" /\ outcome'[r] = o
      /\ \A q \in Request \ {r} : pc'[q] = pc[q] /\ outcome'[q] = outcome[q]
  BY DEF EndWith, IInv, CallersTyped
<1>2. /\ ComputedRequests' = ComputedRequests
      /\ AskedRequests' = AskedRequests \cup {r}
      /\ EndedRequests' = EndedRequests \cup {<<r, o>>}
      /\ ~Call!Ended(r)
  BY <1>1, AbstractStep
<1>3. r \in AskedRequests <=> pc[r] # "idle"
  BY DEF AskedRequests
<1>4. CASE pc[r] = "idle"
  <2>1. Call!Reject(r, o)
    BY <1>2, <1>3, <1>4 DEF Call!Reject
  <2> QED BY <2>1 DEF Call!Next
<1>5. CASE pc[r] # "idle"
  <2>1. Call!End(r, o)
    BY <1>2, <1>3, <1>5 DEF Call!End
  <2> QED BY <2>1 DEF Call!Next
<1> QED BY <1>4, <1>5

\* A step of the coroutine that neither makes nor ends the request.
LEMMA GoingOnImplements ==
    ASSUME IInv, NEW r \in Request, NEW p \in {"sending", "waiting", "public"},
           pc' = [pc EXCEPT ![r] = p], pc[r] # "ended", UNCHANGED <<outcome, computed>>
    PROVE  Call!Next \/ UNCHANGED Call!vars
<1>1. /\ pc' \in [Request -> {"idle", "sending", "waiting", "public", "ended"}]
      /\ pc'[r] = p
      /\ \A q \in Request \ {r} : pc'[q] = pc[q] /\ outcome'[q] = outcome[q]
  BY DEF IInv, CallersTyped
<1>2. /\ ComputedRequests' = ComputedRequests
      /\ AskedRequests' = AskedRequests \cup {r}
      /\ EndedRequests' = EndedRequests
  BY <1>1, AbstractStep
<1>3. CASE r \in AskedRequests
  BY <1>2, <1>3 DEF Call!vars
<1>4. CASE r \notin AskedRequests
  <2>1. Call!Ask(r)
    BY <1>2, <1>4 DEF Call!Ask
  <2> QED BY <2>1 DEF Call!Next
<1> QED BY <1>3, <1>4

LEMMA LeaveImplements ==
    ASSUME IInv, NEW r \in Request, Active(r), NEW o \in Outcome, Leave(r, o),
           computed' = computed, o = "result" => r \in ComputedRequests
    PROVE  Call!Next \/ UNCHANGED Call!vars
<1>1. pc[r] # "ended" /\ pc[r] # "idle" /\ "noworker" \in Outcome
  BY DEF Active, Outcome
<1>2. ASSUME NEW w \in Worker, Register(r, 2, w, Popped(r), Uncounted(r))
      PROVE  Call!Next \/ UNCHANGED Call!vars
  BY <1>1, <1>2, GoingOnImplements DEF Register
<1>3. ASSUME EndWith(r, "noworker") PROVE Call!Next
  BY <1>1, <1>3, EndImplements
<1>4. ASSUME EndWith(r, o) PROVE Call!Next
  BY <1>1, <1>4, EndImplements
<1> QED BY <1>2, <1>3, <1>4 DEF Leave

LEMMA CallerImplements ==
    ASSUME IInv, NEW r \in Request, Caller(r)
    PROVE  Call!Next \/ UNCHANGED Call!vars
<1>1. CASE \E w \in Worker : Begin(r, w)
  BY <1>1, GoingOnImplements DEF Begin, Register, procVars
<1>2. CASE NoWorker(r)
  <2>1. CASE EndWith(r, "noworker")
    BY <1>2, <2>1, EndImplements DEF NoWorker, Outcome, procVars
  <2>2. CASE pc' = [pc EXCEPT ![r] = "public"] /\ UNCHANGED <<attempt, at, queue_open, outcome>>
    BY <1>2, <2>2, GoingOnImplements DEF NoWorker, procVars
  <2> QED BY <1>2, <2>1, <2>2 DEF NoWorker
<1>3. CASE PublicEnds(r)
  <2>1. PICK o \in Outcome : o # "result" /\ EndWith(r, o)
    BY <1>3 DEF PublicEnds, Outcome
  <2> QED BY <1>3, <2>1, EndImplements DEF PublicEnds, procVars
<1>4. CASE Sent(r)
  BY <1>4, GoingOnImplements DEF Sent
<1>5. CASE SentNowhere(r)
  <2>1. CASE Leave(r, "failure")
    BY <1>5, <2>1, LeaveImplements DEF SentNowhere, Active, Outcome, procVars
  <2>2. CASE pc' = [pc EXCEPT ![r] = "waiting"] /\ UNCHANGED outcome
    BY <1>5, <2>2, GoingOnImplements DEF SentNowhere, procVars
  <2> QED BY <1>5, <2>1, <2>2 DEF SentNowhere
<1>6. CASE Resolve(r)
  <2>1. at[r] \in Worker /\ attempt[r] \in 1 .. 2 /\ TaskOf(r) \in Task /\ r \in Here(at[r])
    BY <1>6 DEF Resolve, Active, IInv, CallersTyped, PlaceInv, TaskOf, Task, Here
  <2>2. futures[at[r]][<<r, attempt[r]>>] # None
    BY <2>1 DEF IInv, FuturesInv
  <2>3. futures[at[r]][TaskOf(r)] \in FutureState \cup {None}
    BY <2>1 DEF IInv, CallersTyped, FutureTable
  <2>4. Future(r) \in FutureState /\ Future(r) # "pending"
    BY <1>6, <2>2, <2>3 DEF Future, TaskOf, Resolve
  <2>5. Kind(Future(r)) \in Outcome /\ (Kind(Future(r)) = "result" => Future(r) = "result")
    BY <2>4 DEF Kind, FutureState, Outcome
  <2>6. Future(r) = "result" => r \in ComputedRequests
    <3>1. Future(r) = "result" => TaskOf(r) \in computed
      BY <2>1 DEF IInv, AnswersInv, Future
    <3> QED BY <2>1, <3>1 DEF ComputedRequests, TaskOf
  <2> QED BY <1>6, <2>5, <2>6, LeaveImplements DEF Resolve, Active, procVars
<1>7. CASE TimeOut(r) \/ Cancel(r)
  <2>1. PICK o \in {"timeout", "noresponse"} : Leave(r, o)
    BY <1>7 DEF TimeOut, Cancel
  <2> QED BY <1>7, <2>1, LeaveImplements DEF TimeOut, Cancel, Active, Outcome, procVars
<1> QED BY <1>1, <1>2, <1>3, <1>4, <1>5, <1>6, <1>7 DEF Caller

LEMMA ProcessImplements ==
    ASSUME IInv, NEW w \in Worker, Process(w)
    PROVE  Call!Next \/ UNCHANGED Call!vars
<1>1. pc' = pc /\ outcome' = outcome
  BY DEF Process, Take, Work, Deliver, Die, Notice, Respawn, reqVars
<1>2. AskedRequests' = AskedRequests /\ EndedRequests' = EndedRequests
  BY <1>1 DEF AskedRequests, EndedRequests
<1>3. CASE computed' = computed
  BY <1>2, <1>3 DEF Call!vars, ComputedRequests
<1>4. CASE computed' # computed
  <2>1. PICK u \in Task : u \in running[w] /\ computed' = computed \cup {u}
    BY <1>4 DEF Process, Take, Work, Deliver, Die, Notice, Respawn, procVars
  <2>2. PICK r \in Request, i \in {1, 2} : u = <<r, i>>
    BY DEF Task
  <2>3. OnItsWay(u, w)
    BY <2>1, OnItsWayPlaces
  <2>4. r \in AskedRequests
    BY <2>2, <2>3 DEF IInv, KnownInv, AskedRequests
  <2>5. ComputedRequests' = ComputedRequests \cup {r}
    BY <2>1, <2>2 DEF ComputedRequests
  <2>6. Call!Compute(r)
    BY <1>2, <2>4, <2>5 DEF Call!Compute
  <2> QED BY <2>6 DEF Call!Next
<1> QED BY <1>3, <1>4

\* A request ends once and its outcome stays, and it returns a result only if a
\* worker computed one for it: Dispatch implements RemoteCall.
THEOREM Refinement == Spec => Abstract
<1>1. Init => Call!Init
  BY DEF Init, Call!Init, AskedRequests, ComputedRequests, EndedRequests
<1>2. IInv /\ [Next]_vars => [Call!Next]_Call!vars
  <2>1. ASSUME IInv, UNCHANGED vars PROVE UNCHANGED Call!vars
    BY <2>1 DEF vars, reqVars, procVars, Call!vars, AskedRequests, ComputedRequests, EndedRequests
  <2> QED BY <2>1, CallerImplements, ProcessImplements DEF Next
<1> QED BY <1>1, <1>2, Invariance, PTL DEF Spec, Abstract, Call!Spec
=============================================================================
