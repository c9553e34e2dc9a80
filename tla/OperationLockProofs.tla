------------------------ MODULE OperationLockProofs ------------------------
(***************************************************************************)
(* Proofs about OperationLock for every finite set of tasks, every set of  *)
(* keys and any number of cancelled acquisitions.                          *)
(***************************************************************************)
EXTENDS OperationLock, SequenceTheorems, FiniteSetTheorems, TLAPS

-----------------------------------------------------------------------------
(* A task leaves a queue.                                                  *)

NoDuplicates(s) == \A i, j \in 1..Len(s) : s[i] = s[j] => i = j

\* What removing a member leaves: the others, in their order; the head is
\* the old head unless that is the one removed.
LEMMA WithoutProperties ==
    ASSUME NEW S, NEW s \in Seq(S), NEW t, Contains(s, t), NoDuplicates(s)
    PROVE  /\ Without(s, t) \in Seq(S)
           /\ NoDuplicates(Without(s, t))
           /\ \A u : Contains(Without(s, t), u) <=> Contains(s, u) /\ u # t
           /\ Head(s) # t => Without(s, t) # <<>> /\ Head(Without(s, t)) = Head(s)
<1> DEFINE p == Position(t, s)
           w == Without(s, t)
<1>1. p \in 1..Len(s) /\ s[p] = t
  BY LenProperties DEF Position, Contains
<1>2. Len(s) \in Nat
  BY LenProperties
<1>3. /\ SubSeq(s, 1, p-1) \in Seq(S)
      /\ Len(SubSeq(s, 1, p-1)) = p - 1
      /\ \A i \in 1..p-1 : SubSeq(s, 1, p-1)[i] = s[i]
  <2>1. \A i \in 1..p-1 : s[i] \in S
    BY <1>1, <1>2, ElementOfSeq
  <2>2. 1 \in Int /\ p - 1 \in Int
    BY <1>1, <1>2
  <2> HIDE DEF p
  <2> QED BY <1>1, <1>2, <2>1, <2>2, SubSeqProperties
<1>4. /\ SubSeq(s, p+1, Len(s)) \in Seq(S)
      /\ Len(SubSeq(s, p+1, Len(s))) = Len(s) - p
      /\ \A i \in 1..Len(s)-p : SubSeq(s, p+1, Len(s))[i] = s[p+i]
  <2>1. \A i \in p+1..Len(s) : s[i] \in S
    BY <1>1, <1>2, ElementOfSeq
  <2>2. p+1 \in Int /\ Len(s) \in Int
    BY <1>1, <1>2
  <2> HIDE DEF p
  <2> QED BY <1>1, <1>2, <2>1, <2>2, SubSeqProperties
<1>5. w = SubSeq(s, 1, p-1) \o SubSeq(s, p+1, Len(s))
  BY DEF Without, RemoveAt
<1> HIDE DEF p, w
<1>6. /\ w \in Seq(S)
      /\ Len(w) = Len(s) - 1
      /\ \A i \in 1..Len(w) : w[i] = IF i < p THEN s[i] ELSE s[i+1]
  <2> DEFINE a == SubSeq(s, 1, p-1)
             b == SubSeq(s, p+1, Len(s))
  <2>1. a \in Seq(S) /\ b \in Seq(S)
    BY <1>3, <1>4
  <2>2. Len(a) = p-1 /\ Len(b) = Len(s)-p
    BY <1>3, <1>4
  <2>3. /\ \A i \in 1..p-1 : a[i] = s[i]
        /\ \A i \in 1..Len(s)-p : b[i] = s[p+i]
    BY <1>3, <1>4
  <2>4. w = a \o b
    BY <1>5
  <2> HIDE DEF a, b
  <2>5. /\ w \in Seq(S)
        /\ Len(w) = Len(a) + Len(b)
        /\ \A i \in 1..Len(a) + Len(b) :
              w[i] = IF i <= Len(a) THEN a[i] ELSE b[i - Len(a)]
    BY <2>1, <2>4, ConcatProperties
  <2>6. ASSUME NEW i \in 1..Len(w) PROVE w[i] = IF i < p THEN s[i] ELSE s[i+1]
    <3>1. CASE i < p
      BY <1>1, <1>2, <2>2, <2>3, <2>5, <3>1
    <3>2. CASE ~(i < p)
      <4>1. i - Len(a) \in 1..Len(s)-p /\ p + (i - Len(a)) = i+1
        BY <1>1, <1>2, <2>2, <2>5, <3>2
      <4> QED BY <1>1, <1>2, <2>2, <2>3, <2>5, <3>2, <4>1
    <3> QED BY <3>1, <3>2
  <2> QED BY <1>1, <1>2, <2>2, <2>5, <2>6
<1>7. NoDuplicates(w)
  <2>1. ASSUME NEW i \in 1..Len(w), NEW j \in 1..Len(w), w[i] = w[j]
        PROVE  i = j
    <3> DEFINE from(n) == IF n < p THEN n ELSE n+1
    <3>1. from(i) \in 1..Len(s) /\ from(j) \in 1..Len(s)
      BY <1>1, <1>2, <1>6
    <3>2. w[i] = s[from(i)] /\ w[j] = s[from(j)]
      BY <1>6
    <3>3. from(i) = from(j)
      <4> HIDE DEF from
      <4> QED BY <2>1, <3>1, <3>2 DEF NoDuplicates
    <3> QED BY <1>1, <1>2, <1>6, <3>3
  <2> QED BY <2>1 DEF NoDuplicates
<1>8. ASSUME NEW u PROVE Contains(w, u) <=> Contains(s, u) /\ u # t
  <2>1. ASSUME Contains(w, u) PROVE Contains(s, u) /\ u # t
    <3>1. PICK i \in 1..Len(w) : w[i] = u
      BY <2>1 DEF Contains
    <3>2. CASE i < p
      BY <1>1, <1>2, <1>6, <3>1, <3>2 DEF Contains, NoDuplicates
    <3>3. CASE ~(i < p)
      BY <1>1, <1>2, <1>6, <3>1, <3>3 DEF Contains, NoDuplicates
    <3> QED BY <3>2, <3>3
  <2>2. ASSUME Contains(s, u), u # t PROVE Contains(w, u)
    <3>1. PICK i \in 1..Len(s) : s[i] = u
      BY <2>2 DEF Contains
    <3>2. CASE i < p
      <4>1. i \in 1..Len(w) /\ w[i] = u
        BY <1>1, <1>2, <1>6, <3>1, <3>2
      <4> QED BY <4>1 DEF Contains
    <3>3. CASE p < i
      <4>1. i-1 \in 1..Len(w) /\ w[i-1] = u
        BY <1>1, <1>2, <1>6, <3>1, <3>3
      <4> QED BY <4>1 DEF Contains
    <3> QED BY <1>1, <2>2, <3>1, <3>2, <3>3
  <2> QED BY <2>1, <2>2
<1>9. ASSUME Head(s) # t PROVE w # <<>> /\ Head(w) = Head(s)
  <2>1. Head(s) = s[1] /\ p # 1
    BY <1>1, <1>2, <1>9
  <2>2. 1 \in 1..Len(w) /\ w[1] = s[1]
    BY <1>1, <1>2, <1>6, <2>1
  <2> QED BY <1>6, <2>1, <2>2
<1> QED BY <1>6, <1>7, <1>8, <1>9 DEF w

\* What queueing a new member does.
LEMMA AppendMember ==
    ASSUME NEW S, NEW s \in Seq(S), NEW t \in S, ~Contains(s, t), NoDuplicates(s)
    PROVE  /\ Append(s, t) \in Seq(S)
           /\ NoDuplicates(Append(s, t))
           /\ \A u : Contains(Append(s, t), u) <=> Contains(s, u) \/ u = t
           /\ s # <<>> => Head(Append(s, t)) = Head(s)
<1> DEFINE w == Append(s, t)
<1>1. /\ w \in Seq(S)
      /\ Len(w) = Len(s) + 1
      /\ \A i \in 1..Len(s) : w[i] = s[i]
      /\ w[Len(s)+1] = t
  BY AppendProperties
<1>2. Len(s) \in Nat
  BY LenProperties
<1>3. s # <<>> => Head(w) = Head(s)
  BY HeadTailAppend
<1> HIDE DEF w
<1>4. NoDuplicates(w)
  <2>1. \A i \in 1..Len(s) : s[i] # t
    BY DEF Contains
  <2> SUFFICES ASSUME NEW i \in 1..Len(w), NEW j \in 1..Len(w), w[i] = w[j]
               PROVE  i = j
    BY DEF NoDuplicates
  <2>2. CASE i \in 1..Len(s) /\ j \in 1..Len(s)
    BY <1>1, <2>2 DEF NoDuplicates
  <2>3. CASE i = Len(s)+1 \/ j = Len(s)+1
    BY <1>1, <1>2, <2>1, <2>3
  <2> QED BY <1>1, <1>2, <2>2, <2>3
<1>5. ASSUME NEW u PROVE Contains(w, u) <=> Contains(s, u) \/ u = t
  <2>1. Contains(w, u) => Contains(s, u) \/ u = t
    BY <1>1, <1>2 DEF Contains
  <2>2. Contains(s, u) => Contains(w, u)
    BY <1>1, <1>2 DEF Contains
  <2>3. Contains(w, t)
    <3>1. Len(s)+1 \in 1..Len(w)
      BY <1>1, <1>2
    <3> QED BY <1>1, <3>1 DEF Contains
  <2> QED BY <2>1, <2>2, <2>3
<1> QED BY <1>1, <1>3, <1>4, <1>5 DEF w

-----------------------------------------------------------------------------
(* The inductive invariant.                                                *)

\* A task that uses a lock uses the one the dictionary has for its key.
UseInv ==
    \A t \in Task :
        IF pc[t] \in {"idle", "refused"}
        THEN lock[t] = NoLock
        ELSE /\ key[t] \in Key /\ lock[t] \in Lock
             /\ lock_index[key[t]] = lock[t]

\* A lock object serves one key.
OneKeyInv ==
    \A k, m \in Key :
        lock_index[k] = lock_index[m] /\ lock_index[k] # NoLock => k = m

\* A queue holds exactly the tasks that are suspended on its lock.
QueueInv ==
    \A l \in Lock :
        /\ NoDuplicates(waiters[l])
        /\ \A t \in Task : Contains(waiters[l], t) <=> pc[t] \in Queued /\ lock[t] = l

\* Only the head of a queue is ever woken, and the lock stays free for it.
HeadInv ==
    \A t \in Task : pc[t] \in {"woken", "doomed"} =>
        ~locked[lock[t]] /\ Head(waiters[lock[t]]) = t

\* The flag is set while exactly one task is inside.
HolderInv ==
    /\ \A t \in Task : pc[t] = "holding" => locked[lock[t]]
    /\ \A t, u \in Task :
          pc[t] = "holding" /\ pc[u] = "holding" /\ lock[t] = lock[u] => t = u
    /\ \A l \in Lock : locked[l] => \E t \in Task : pc[t] = "holding" /\ lock[t] = l

\* A task being cancelled is among the abandoned acquisitions.
CancelInv ==
    \A t \in Task : pc[t] \in {"cancelled", "doomed"} => abandoned[lock[t]] > 0

IInv ==
    /\ TypeOK /\ UseInv /\ OneKeyInv /\ QueueInv /\ HeadInv /\ HolderInv
    /\ CancelInv /\ RefCountExact

\* At the start nobody uses a lock.
LEMMA InitIInv == Init => IInv
<1> SUFFICES ASSUME Init PROVE IInv
  OBVIOUS
<1>1. TypeOK
  BY EmptySeq DEF Init, TypeOK, PC
<1>2. UseInv /\ OneKeyInv /\ HeadInv /\ HolderInv /\ CancelInv
  BY DEF Init, UseInv, OneKeyInv, HeadInv, HolderInv, CancelInv
<1>3. QueueInv
  BY EmptySeq DEF Init, QueueInv, NoDuplicates, Contains, Queued
<1>4. RefCountExact
  BY NoneAssumption DEF Init, RefCountExact
<1> QED BY <1>1, <1>2, <1>3, <1>4 DEF IInv

-----------------------------------------------------------------------------
(* Counting the users of a lock.                                           *)

\* The users of a lock are finitely many.
LEMMA UsersFinite ==
    ASSUME NEW l PROVE IsFiniteSet(Users(l)) /\ Cardinality(Users(l)) \in Nat
<1>1. Users(l) \in SUBSET Task
  BY DEF Users
<1> QED BY <1>1, TaskAssumption, FS_Subset, FS_CardinalityType

\* The last user of a lock nobody has abandoned is alone with it.
LEMMA LastUser ==
    ASSUME IInv, NEW t \in Task, pc[t] = "holding", ref_count[lock[t]] - 1 = 0
    PROVE  \A u \in Task : lock[u] = lock[t] => u = t
<1> DEFINE l == lock[t]
<1>1. l \in Lock /\ (\E k \in Key : lock_index[k] = l)
  BY DEF IInv, UseInv
<1>2. ref_count[l] = abandoned[l] + Cardinality(Users(l))
  BY <1>1 DEF IInv, RefCountExact
<1>3. t \in Users(l)
  BY DEF Users
<1>4. Cardinality(Users(l)) # 0
  BY <1>3, UsersFinite, FS_EmptySet
<1>5. abandoned[l] \in Nat /\ ref_count[l] \in Nat
  BY <1>1 DEF IInv, TypeOK
<1>6. abandoned[l] = 0 /\ Cardinality(Users(l)) = 1
  BY <1>2, <1>4, <1>5, UsersFinite
<1>7. Users(l) = {t}
  BY <1>3, <1>6, UsersFinite, FS_Singleton
<1>8. ASSUME NEW u \in Task, lock[u] = l PROVE u = t
  <2>1. pc[u] \notin {"idle", "refused"}
    BY <1>1, <1>8, NoneAssumption DEF IInv, UseInv
  <2>2. pc[u] \notin {"cancelled", "doomed"}
    BY <1>6, <1>8 DEF IInv, CancelInv
  <2>3. u \in Users(l)
    BY <1>8, <2>1, <2>2 DEF Users, IInv, TypeOK, PC, Queued
  <2> QED BY <1>7, <2>3
<1> QED BY <1>8

-----------------------------------------------------------------------------
(* Each action preserves the invariant.                                    *)

\* A lock somebody queues for has a head of its queue, a task that queues too.
LEMMA HeadIsQueued ==
    ASSUME IInv, NEW t \in Task, pc[t] \in Queued
    PROVE  LET h == Head(waiters[lock[t]])
           IN  /\ waiters[lock[t]] # <<>> /\ h \in Task
               /\ pc[h] \in Queued /\ lock[h] = lock[t]
<1> DEFINE ws == waiters[lock[t]]
<1>1. lock[t] \in Lock
  BY DEF IInv, UseInv, Queued
<1>2. ws \in Seq(Task) /\ Contains(ws, t)
  BY <1>1 DEF IInv, TypeOK, QueueInv
<1>3. Len(ws) \in Nat /\ Len(ws) # 0
  BY <1>2, LenProperties DEF Contains
<1>4. ws # <<>>
  BY <1>3, EmptySeq
<1>5. Head(ws) \in Task /\ Head(ws) = ws[1]
  BY <1>2, <1>4, HeadTailProperties
<1>6. Contains(ws, Head(ws))
  BY <1>3, <1>5 DEF Contains
<1> QED BY <1>1, <1>4, <1>5, <1>6 DEF IInv, QueueInv

\* Waking the head of a queue changes at most the head, from waiting to woken.
LEMMA WakeProperties ==
    ASSUME NEW ws, NEW pcs \in [Task -> PC]
    PROVE  /\ WakeUpFirst(ws, pcs) \in [Task -> PC]
           /\ \A u \in Task : WakeUpFirst(ws, pcs)[u] # pcs[u] =>
                 /\ pcs[u] = "waiting" /\ WakeUpFirst(ws, pcs)[u] = "woken"
                 /\ ws # <<>> /\ Head(ws) = u
           /\ \A u \in Task : ws # <<>> /\ Head(ws) = u =>
                 WakeUpFirst(ws, pcs)[u] # "waiting"
  BY DEF WakeUpFirst, PC, Queued

\* A new lock object has its maker as the only user.
LEMMA EnterNewStep ==
    ASSUME IInv, NEW t \in Task, NEW k \in Key, EnterNew(t, k)
    PROVE  IInv'
<1> USE DEF IInv
<1>1. PICK l \in Lock :
        /\ Unused(l)
        /\ lock_index' = [lock_index EXCEPT ![k] = l]
        /\ ref_count' = [ref_count EXCEPT ![l] = 1]
        /\ locked' = [locked EXCEPT ![l] = TRUE]
        /\ waiters' = [waiters EXCEPT ![l] = <<>>]
        /\ abandoned' = [abandoned EXCEPT ![l] = 0]
        /\ lock' = [lock EXCEPT ![t] = l]
  BY DEF EnterNew
<1>2. /\ pc[t] = "idle" /\ lock_index[k] = NoLock
      /\ key' = [key EXCEPT ![t] = k]
      /\ pc' = [pc EXCEPT ![t] = "holding"]
  BY DEF EnterNew
<1>3. \A u \in Task : lock[u] # l
  BY <1>1 DEF Unused
<1>4. TypeOK'
  BY <1>1, <1>2, EmptySeq DEF TypeOK, PC
<1>5. UseInv'
  BY <1>1, <1>2, NoneAssumption DEF UseInv, TypeOK
<1>6. OneKeyInv'
  BY <1>1, <1>2 DEF OneKeyInv, TypeOK, Unused
<1>7. QueueInv'
  <2>1. NoDuplicates(<<>>) /\ \A u : ~Contains(<<>>, u)
    BY EmptySeq DEF NoDuplicates, Contains
  <2>2. \A u \in Task : ~(pc'[u] \in Queued /\ lock'[u] = l)
    BY <1>1, <1>2, <1>3 DEF TypeOK, Queued
  <2>3. \A m \in Lock \ {l}, u \in Task :
          pc'[u] \in Queued /\ lock'[u] = m <=> pc[u] \in Queued /\ lock[u] = m
    BY <1>1, <1>2, NoneAssumption DEF TypeOK, Queued, UseInv
  <2>4. waiters'[l] = <<>> /\ \A m \in Lock \ {l} : waiters'[m] = waiters[m]
    BY <1>1 DEF TypeOK
  <2> QED BY <2>1, <2>2, <2>3, <2>4 DEF QueueInv
<1>8. HeadInv'
  BY <1>1, <1>2, <1>3 DEF HeadInv, TypeOK
<1>9. HolderInv'
  BY <1>1, <1>2, <1>3 DEF HolderInv, TypeOK
<1>10. CancelInv'
  BY <1>1, <1>2, <1>3 DEF CancelInv, TypeOK, UseInv
<1>11. RefCountExact'
  <2>1. Users(l)' = {t}
    BY <1>1, <1>2, <1>3 DEF Users, TypeOK
  <2>2. \A m \in Lock \ {l} : Users(m)' = Users(m)
    BY <1>1, <1>2, <1>3, NoneAssumption DEF Users, TypeOK, UseInv
  <2>3. Cardinality({t}) = 1
    BY FS_Singleton
  <2>4. ref_count'[l] = abandoned'[l] + Cardinality(Users(l)')
    BY <1>1, <2>1, <2>3 DEF TypeOK
  <2>5. ASSUME NEW m \in Lock \ {l}, \E j \in Key : lock_index'[j] = m
        PROVE  ref_count'[m] = abandoned'[m] + Cardinality(Users(m)')
    <3>1. \E j \in Key : lock_index[j] = m
      BY <1>1, <2>5 DEF TypeOK
    <3>2. ref_count'[m] = ref_count[m] /\ abandoned'[m] = abandoned[m]
      BY <1>1 DEF TypeOK
    <3> QED BY <2>2, <3>1, <3>2 DEF RefCountExact
  <2> QED BY <2>4, <2>5 DEF RefCountExact
<1> QED BY <1>4, <1>5, <1>6, <1>7, <1>8, <1>9, <1>10, <1>11

\* A refused task touches no lock.
LEMMA RefusalStep ==
    ASSUME IInv, NEW t \in Task,
           Handled(t) \/ \E k \in Key : EnterRefused(t, k)
    PROVE  IInv'
<1> USE DEF IInv
<1>1. /\ pc[t] \in {"idle", "refused"}
      /\ pc' = [pc EXCEPT ![t] = "refused"] \/ pc' = [pc EXCEPT ![t] = "idle"]
      /\ \E k \in Key \cup {NoKey} : key' = [key EXCEPT ![t] = k]
      /\ UNCHANGED <<lock_index, ref_count, locked, waiters, lock, abandoned>>
  BY DEF Handled, EnterRefused
<1>2. TypeOK'
  BY <1>1 DEF TypeOK, PC
<1>3. UseInv' /\ OneKeyInv' /\ CancelInv'
  BY <1>1 DEF UseInv, OneKeyInv, CancelInv, TypeOK
<1>4. QueueInv'
  BY <1>1 DEF QueueInv, TypeOK, Queued
<1>5. HeadInv'
  BY <1>1 DEF HeadInv, TypeOK
<1>6. HolderInv'
  <2>1. \A u \in Task : pc'[u] = "holding" <=> pc[u] = "holding"
    BY <1>1 DEF TypeOK
  <2> QED BY <1>1, <2>1 DEF HolderInv
<1>7. RefCountExact'
  <2>1. \A m \in Lock : Users(m)' = Users(m)
    BY <1>1 DEF Users, TypeOK
  <2> QED BY <1>1, <2>1 DEF RefCountExact
<1> QED BY <1>2, <1>3, <1>4, <1>5, <1>6, <1>7

\* The woken head of a queue takes the lock.
LEMMA ResumeStep ==
    ASSUME IInv, NEW t \in Task, Resume(t)
    PROVE  IInv'
<1> USE DEF IInv
<1> DEFINE l == lock[t]
           ws == Without(waiters[l], t)
<1>1. /\ pc[t] = "woken"
      /\ waiters' = [waiters EXCEPT ![l] = ws]
      /\ locked' = [locked EXCEPT ![l] = TRUE]
      /\ pc' = [pc EXCEPT ![t] = "holding"]
      /\ UNCHANGED <<lock_index, ref_count, key, lock, abandoned>>
  BY DEF Resume
<1>2. l \in Lock /\ ~locked[l] /\ Head(waiters[l]) = t
  BY <1>1 DEF UseInv, HeadInv
<1>3. /\ ws \in Seq(Task) /\ NoDuplicates(ws)
      /\ \A u \in Task : Contains(ws, u) <=> pc[u] \in Queued /\ lock[u] = l /\ u # t
  <2>1. waiters[l] \in Seq(Task) /\ NoDuplicates(waiters[l]) /\ Contains(waiters[l], t)
    BY <1>1, <1>2 DEF TypeOK, QueueInv, Queued
  <2> QED BY <1>2, <2>1, WithoutProperties DEF QueueInv
<1> HIDE DEF ws
<1>4. TypeOK'
  BY <1>1, <1>2, <1>3 DEF TypeOK, PC
<1>5. UseInv' /\ OneKeyInv' /\ CancelInv'
  BY <1>1 DEF UseInv, OneKeyInv, CancelInv, TypeOK
<1>6. QueueInv'
  <2>1. waiters'[l] = ws /\ \A m \in Lock \ {l} : waiters'[m] = waiters[m]
    BY <1>1, <1>2 DEF TypeOK
  <2>2. \A u \in Task, m \in Lock :
          pc'[u] \in Queued /\ lock'[u] = m <=> pc[u] \in Queued /\ lock[u] = m /\ u # t
    BY <1>1 DEF TypeOK, Queued
  <2> QED BY <1>1, <1>3, <2>1, <2>2 DEF QueueInv
<1>7. HeadInv'
  BY <1>1, <1>2 DEF HeadInv, TypeOK, UseInv
<1>8. HolderInv'
  BY <1>1, <1>2 DEF HolderInv, TypeOK
<1>9. RefCountExact'
  <2>1. \A m \in Lock : Users(m)' = Users(m)
    BY <1>1 DEF Users, TypeOK
  <2> QED BY <1>1, <2>1 DEF RefCountExact
<1> QED BY <1>4, <1>5, <1>6, <1>7, <1>8, <1>9

\* A cancelled task stays in its queue until it runs.
LEMMA CancelStep ==
    ASSUME IInv, NEW t \in Task, Cancel(t)
    PROVE  IInv'
<1> USE DEF IInv
<1> DEFINE l == lock[t]
<1>1. /\ pc[t] \in {"waiting", "woken"}
      /\ abandoned' = [abandoned EXCEPT ![l] = @ + 1]
      /\ pc' = [pc EXCEPT ![t] = IF @ = "waiting" THEN "cancelled" ELSE "doomed"]
      /\ UNCHANGED <<lock_index, ref_count, locked, waiters, key, lock>>
  BY DEF Cancel
<1>2. l \in Lock
  BY <1>1 DEF UseInv
<1>3. TypeOK'
  BY <1>1, <1>2 DEF TypeOK, PC, Queued
<1>4. UseInv' /\ OneKeyInv'
  BY <1>1 DEF UseInv, OneKeyInv, TypeOK
<1>5. QueueInv'
  <2>1. \A u \in Task : pc'[u] \in Queued <=> pc[u] \in Queued
    BY <1>1 DEF TypeOK, Queued
  <2> QED BY <1>1, <2>1 DEF QueueInv
<1>6. HeadInv'
  BY <1>1 DEF HeadInv, TypeOK
<1>7. HolderInv'
  BY <1>1 DEF HolderInv, TypeOK
<1>8. CancelInv'
  BY <1>1, <1>2 DEF CancelInv, TypeOK, UseInv
<1>9. RefCountExact'
  <2>1. Users(l)' = Users(l) \ {t} /\ t \in Users(l)
    BY <1>1 DEF Users, TypeOK
  <2>2. \A m \in Lock \ {l} : Users(m)' = Users(m)
    BY <1>1 DEF Users, TypeOK
  <2>3. Cardinality(Users(l)') = Cardinality(Users(l)) - 1
    BY <2>1, UsersFinite, FS_RemoveElement
  <2>4. \A m \in Lock : abandoned'[m] = IF m = l THEN abandoned[m] + 1 ELSE abandoned[m]
    BY <1>1 DEF TypeOK
  <2>5. \A m \in Lock : abandoned[m] \in Nat /\ Cardinality(Users(m)) \in Nat
    BY UsersFinite DEF TypeOK
  <2> QED BY <1>1, <2>2, <2>3, <2>4, <2>5 DEF RefCountExact
<1> QED BY <1>3, <1>4, <1>5, <1>6, <1>7, <1>8, <1>9

\* A further user joins a lock: at once, or at the end of its queue.
LEMMA EnterExistingStep ==
    ASSUME IInv, NEW t \in Task, NEW k \in Key, NEW wait \in BOOLEAN,
           EnterExisting(t, k, wait)
    PROVE  IInv'
<1> USE DEF IInv
<1> DEFINE l == lock_index[k]
<1>1. /\ pc[t] = "idle" /\ l # NoLock
      /\ ref_count' = [ref_count EXCEPT ![l] = @ + 1]
      /\ key' = [key EXCEPT ![t] = k]
      /\ lock' = [lock EXCEPT ![t] = l]
      /\ UNCHANGED <<lock_index, abandoned>>
  BY DEF EnterExisting, CountIn
<1>2. l \in Lock
  BY <1>1 DEF TypeOK
<1>3. lock[t] = NoLock /\ lock[t] # l
  BY <1>1 DEF UseInv
\* The newcomer is counted, whether it gets the lock or queues.
<1>4. ASSUME \E p \in {"holding", "waiting"} : pc' = [pc EXCEPT ![t] = p]
      PROVE  RefCountExact' /\ UseInv' /\ OneKeyInv' /\ CancelInv'
  <2>1. Users(l)' = Users(l) \cup {t} /\ t \notin Users(l)
    BY <1>1, <1>2, <1>3, <1>4 DEF Users, TypeOK
  <2>2. \A m \in Lock \ {l} : Users(m)' = Users(m)
    BY <1>1, <1>2, <1>3, <1>4, NoneAssumption DEF Users, TypeOK
  <2>3. Cardinality(Users(l)') = Cardinality(Users(l)) + 1
    BY <2>1, UsersFinite, FS_AddElement
  <2>4. \A m \in Lock : ref_count'[m] = IF m = l THEN ref_count[m] + 1 ELSE ref_count[m]
    BY <1>1 DEF TypeOK
  <2>5. \A m \in Lock : /\ abandoned[m] \in Nat /\ ref_count[m] \in Nat
                        /\ Cardinality(Users(m)) \in Nat
    BY UsersFinite DEF TypeOK
  <2>6. RefCountExact'
    BY <1>1, <2>2, <2>3, <2>4, <2>5 DEF RefCountExact
  <2>7. UseInv' /\ OneKeyInv' /\ CancelInv'
    BY <1>1, <1>2, <1>4 DEF UseInv, OneKeyInv, CancelInv, TypeOK
  <2> QED BY <2>6, <2>7
<1>5. CASE /\ AcquiresAtOnce(l)
           /\ locked' = [locked EXCEPT ![l] = TRUE]
           /\ pc' = [pc EXCEPT ![t] = "holding"]
           /\ UNCHANGED waiters
  <2>1. ~locked[l] /\ \A u \in Task : pc[u] \in Queued /\ lock[u] = l => pc[u] = "cancelled"
    <3> SUFFICES ASSUME NEW u \in Task, pc[u] \in Queued, lock[u] = l
                 PROVE  pc[u] = "cancelled"
      BY <1>5 DEF AcquiresAtOnce
    <3>1. waiters[l] \in Seq(Task) /\ Contains(waiters[l], u)
      BY <1>2 DEF TypeOK, QueueInv
    <3>2. PICK i \in 1..Len(waiters[l]) : waiters[l][i] = u
      BY <3>1 DEF Contains
    <3>3. i \in DOMAIN waiters[l]
      BY <3>1, <3>2, LenProperties
    <3> QED BY <1>5, <3>2, <3>3 DEF AcquiresAtOnce
  <2>2. RefCountExact' /\ UseInv' /\ OneKeyInv' /\ CancelInv'
    BY <1>4, <1>5
  <2>3. TypeOK'
    BY <1>1, <1>2, <1>5 DEF TypeOK, PC
  <2>4. QueueInv'
    <3>1. \A u \in Task, m \in Lock :
            pc'[u] \in Queued /\ lock'[u] = m <=> pc[u] \in Queued /\ lock[u] = m
      BY <1>1, <1>5 DEF TypeOK, Queued
    <3> QED BY <1>5, <3>1 DEF QueueInv
  <2>5. HeadInv'
    <3>1. \A u \in Task : pc'[u] \in {"woken", "doomed"} =>
            pc[u] \in {"woken", "doomed"} /\ lock[u] # l /\ lock'[u] = lock[u]
      BY <1>1, <1>5, <2>1 DEF TypeOK, Queued
    <3>2. \A m \in Lock \ {l} : locked'[m] = locked[m]
      BY <1>5 DEF TypeOK
    <3>3. \A u \in Task : pc[u] \in {"woken", "doomed"} => lock[u] \in Lock
      BY DEF UseInv
    <3> QED BY <1>5, <3>1, <3>2, <3>3 DEF HeadInv
  <2>6. HolderInv'
    BY <1>1, <1>2, <1>5, <2>1 DEF HolderInv, TypeOK, UseInv
  <2> QED BY <2>2, <2>3, <2>4, <2>5, <2>6
<1>6. CASE /\ ~AcquiresAtOnce(l)
           /\ waiters' = [waiters EXCEPT ![l] = Append(@, t)]
           /\ pc' = [pc EXCEPT ![t] = "waiting"]
           /\ UNCHANGED locked
  <2> DEFINE ws == Append(waiters[l], t)
  <2>1. /\ ws \in Seq(Task) /\ NoDuplicates(ws)
        /\ \A u : Contains(ws, u) <=> Contains(waiters[l], u) \/ u = t
        /\ waiters[l] # <<>> => Head(ws) = Head(waiters[l])
    <3>1. /\ waiters[l] \in Seq(Task) /\ NoDuplicates(waiters[l])
          /\ ~Contains(waiters[l], t)
      BY <1>1, <1>2 DEF TypeOK, QueueInv, Queued
    <3> QED BY <3>1, AppendMember
  <2>2. waiters' = [waiters EXCEPT ![l] = ws]
    BY <1>6
  <2> HIDE DEF ws
  <2>3. RefCountExact' /\ UseInv' /\ OneKeyInv' /\ CancelInv'
    BY <1>4, <1>6
  <2>4. TypeOK'
    BY <1>1, <1>2, <1>6, <2>1, <2>2 DEF TypeOK, PC, Queued
  <2>5. waiters'[l] = ws /\ \A m \in Lock \ {l} : waiters'[m] = waiters[m]
    BY <1>2, <2>2 DEF TypeOK
  <2>6. QueueInv'
    <3>1. \A u \in Task, m \in Lock :
            pc'[u] \in Queued /\ lock'[u] = m <=>
                (pc[u] \in Queued /\ lock[u] = m) \/ (u = t /\ m = l)
      BY <1>1, <1>6 DEF TypeOK, Queued
    <3> QED BY <1>1, <2>1, <2>5, <3>1 DEF QueueInv, Queued
  \* Whoever queued already keeps the head of the queue where it was.
  <2>7. \A u \in Task : pc[u] \in Queued =>
          Head(waiters'[lock[u]]) = Head(waiters[lock[u]])
    BY <1>2, <2>1, <2>5, HeadIsQueued DEF UseInv, Queued
  <2>8. HeadInv'
    BY <1>1, <1>6, <2>7 DEF HeadInv, TypeOK, Queued
  <2>9. HolderInv'
    BY <1>1, <1>6 DEF HolderInv, TypeOK
  <2> QED BY <2>3, <2>4, <2>6, <2>8, <2>9
<1> QED BY <1>5, <1>6 DEF EnterExisting

\* The cancelled task leaves the queue, and the next one is woken if nobody
\* holds the lock.
LEMMA AbortStep ==
    ASSUME IInv, NEW t \in Task, Abort(t)
    PROVE  IInv'
<1> USE DEF IInv
<1> DEFINE l == lock[t]
           rest == Without(waiters[l], t)
           pcs == [pc EXCEPT ![t] = "idle"]
<1>1. /\ pc[t] \in {"cancelled", "doomed"}
      /\ waiters' = [waiters EXCEPT ![l] = rest]
      /\ pc' = IF locked[l] THEN pcs ELSE WakeUpFirst(rest, pcs)
      /\ key' = [key EXCEPT ![t] = NoKey]
      /\ lock' = [lock EXCEPT ![t] = NoLock]
      /\ UNCHANGED <<lock_index, ref_count, locked, abandoned>>
  BY DEF Abort, PassOn
<1>2. l \in Lock
  BY <1>1 DEF UseInv
<1>3. /\ rest \in Seq(Task) /\ NoDuplicates(rest)
      /\ \A u \in Task : Contains(rest, u) <=> pc[u] \in Queued /\ lock[u] = l /\ u # t
      /\ Head(waiters[l]) # t => rest # <<>> /\ Head(rest) = Head(waiters[l])
  <2>1. waiters[l] \in Seq(Task) /\ NoDuplicates(waiters[l]) /\ Contains(waiters[l], t)
    BY <1>1, <1>2 DEF TypeOK, QueueInv, Queued
  <2> QED BY <1>2, <2>1, WithoutProperties DEF QueueInv
<1> HIDE DEF rest
<1>4. rest # <<>> => /\ Head(rest) \in Task /\ Head(rest) # t
                     /\ pc[Head(rest)] \in Queued /\ lock[Head(rest)] = l
  <2> SUFFICES ASSUME rest # <<>>
               PROVE  Head(rest) \in Task /\ Contains(rest, Head(rest))
    BY <1>3
  <2>1. Len(rest) \in Nat \ {0} /\ Head(rest) \in Task /\ Head(rest) = rest[1]
    BY <1>3, EmptySeq, HeadTailProperties
  <2> QED BY <2>1 DEF Contains
<1>5. pcs \in [Task -> PC] /\ pcs[t] = "idle" /\ \A u \in Task \ {t} : pcs[u] = pc[u]
  BY DEF TypeOK, PC
<1> HIDE DEF pcs
\* The next task of the queue is woken if the lock is free; nobody else's
\* place changes.
<1>6. /\ pc' \in [Task -> PC] /\ pc'[t] = "idle"
      /\ \A u \in Task \ {t} : pc'[u] # pc[u] =>
            /\ pc[u] = "waiting" /\ pc'[u] = "woken"
            /\ ~locked[l] /\ rest # <<>> /\ Head(rest) = u /\ lock[u] = l
      /\ ~locked[l] /\ rest # <<>> => pc'[Head(rest)] # "waiting"
  BY <1>1, <1>4, <1>5, WakeProperties
<1>7. /\ waiters'[l] = rest /\ \A m \in Lock \ {l} : waiters'[m] = waiters[m]
      /\ lock'[t] = NoLock /\ \A u \in Task \ {t} : lock'[u] = lock[u] /\ key'[u] = key[u]
  BY <1>1, <1>2 DEF TypeOK
<1>8. TypeOK'
  BY <1>1, <1>2, <1>3, <1>6 DEF TypeOK
<1>9. UseInv' /\ OneKeyInv' /\ CancelInv'
  BY <1>1, <1>6, <1>7 DEF UseInv, OneKeyInv, CancelInv
<1>10. QueueInv'
  <2>1. \A u \in Task, m \in Lock :
          pc'[u] \in Queued /\ lock'[u] = m <=> pc[u] \in Queued /\ lock[u] = m /\ u # t
    BY <1>6, <1>7, NoneAssumption DEF Queued
  <2> QED BY <1>3, <1>7, <2>1 DEF QueueInv
<1>11. HeadInv'
  <2> SUFFICES ASSUME NEW u \in Task, pc'[u] \in {"woken", "doomed"}
               PROVE  ~locked[lock'[u]] /\ Head(waiters'[lock'[u]]) = u
    BY <1>1 DEF HeadInv
  <2>1. u # t /\ lock'[u] = lock[u]
    BY <1>6, <1>7
  <2>2. CASE pc'[u] # pc[u]
    BY <1>6, <1>7, <2>1, <2>2
  <2>3. CASE pc'[u] = pc[u]
    BY <1>3, <1>7, <2>1, <2>3 DEF HeadInv, UseInv
  <2> QED BY <2>2, <2>3
<1>12. HolderInv'
  <2>1. \A u \in Task : pc'[u] = "holding" <=> pc[u] = "holding"
    BY <1>1, <1>6
  <2>2. \A u \in Task : pc[u] = "holding" => lock'[u] = lock[u]
    BY <1>1, <1>7
  <2> QED BY <1>1, <2>1, <2>2 DEF HolderInv
<1>13. RefCountExact'
  <2>1. \A m \in Lock : Users(m)' = Users(m)
    BY <1>1, <1>6, <1>7, NoneAssumption DEF Users
  <2> QED BY <1>1, <2>1 DEF RefCountExact
<1> QED BY <1>8, <1>9, <1>10, <1>11, <1>12, <1>13

\* The holder leaves: the entry goes with the last user, the head is woken.
LEMMA ExitStep ==
    ASSUME IInv, NEW t \in Task, Exit(t)
    PROVE  IInv'
<1> USE DEF IInv
<1>0. PICK l \in Lock : l = lock[t]
  BY DEF Exit, UseInv
<1> DEFINE ws == waiters[l]
           pcs == [pc EXCEPT ![t] = "idle"]
<1>1. /\ pc[t] = "holding"
      /\ locked' = [locked EXCEPT ![l] = FALSE]
      /\ pc' = WakeUpFirst(ws, pcs)
      /\ ref_count' = [ref_count EXCEPT ![l] = @ - 1]
      /\ lock_index' = IF ref_count[l] - 1 = 0
                       THEN [lock_index EXCEPT ![key[t]] = NoLock]
                       ELSE lock_index
      /\ key' = [key EXCEPT ![t] = NoKey]
      /\ lock' = [lock EXCEPT ![t] = NoLock]
      /\ UNCHANGED <<waiters, abandoned>>
  BY <1>0 DEF Exit, Release, EntryAfterExit
<1>2. l \in Lock /\ key[t] \in Key /\ lock_index[key[t]] = l /\ locked[l]
  BY <1>0, <1>1 DEF UseInv, HolderInv
<1>3. pcs \in [Task -> PC] /\ pcs[t] = "idle" /\ \A u \in Task \ {t} : pcs[u] = pc[u]
  BY DEF TypeOK, PC
<1>4. ASSUME NEW u \in Task, pc[u] \in Queued, lock[u] = l
      PROVE  /\ ws # <<>> /\ Head(ws) \in Task /\ Head(ws) # t
             /\ pc[Head(ws)] \in Queued /\ lock[Head(ws)] = l
  BY <1>0, <1>1, <1>4, HeadIsQueued DEF Queued
<1> HIDE DEF pcs
\* The head of the queue is woken; nobody else's place changes.
<1>5. /\ pc' \in [Task -> PC] /\ pc'[t] = "idle"
      /\ \A u \in Task \ {t} : pc'[u] # pc[u] =>
            pc[u] = "waiting" /\ pc'[u] = "woken" /\ ws # <<>> /\ Head(ws) = u
      /\ \A u \in Task : ws # <<>> /\ Head(ws) = u => pc'[u] # "waiting"
  BY <1>1, <1>3, WakeProperties
<1>6. \A u \in Task \ {t} : lock'[u] = lock[u] /\ key'[u] = key[u]
  BY <1>1 DEF TypeOK
<1>7. lock'[t] = NoLock /\ \A m \in Lock : locked'[m] = (m # l /\ locked[m])
  BY <1>1 DEF TypeOK
\* A woken task queues for the lock that is released.
<1>8. ASSUME NEW u \in Task \ {t}, pc'[u] # pc[u] PROVE lock[u] = l
  <2>1. Len(ws) \in Nat \ {0} /\ Head(ws) = ws[1]
    BY <1>2, <1>5, <1>8, EmptySeq, HeadTailProperties DEF TypeOK
  <2>2. Contains(ws, u)
    BY <1>5, <1>8, <2>1 DEF Contains
  <2> QED BY <1>2, <2>2 DEF QueueInv
<1>9. /\ ref_count[l] = abandoned[l] + Cardinality(Users(l))
      /\ t \in Users(l) /\ Cardinality(Users(l)) \in Nat \ {0}
  <2>1. t \in Users(l)
    BY <1>0, <1>1 DEF Users
  <2>2. Users(l) # {}
    BY <2>1
  <2>3. Cardinality(Users(l)) \in Nat \ {0}
    BY <2>2, UsersFinite, FS_EmptySet
  <2> QED BY <1>2, <2>1, <2>3 DEF RefCountExact
<1>10. TypeOK'
  <2>1. ref_count[l] - 1 \in Nat
    BY <1>2, <1>9 DEF TypeOK
  <2> QED BY <1>1, <1>2, <1>5, <2>1 DEF TypeOK
<1>11. UseInv'
  <2>1. pc'[t] = "idle" /\ lock'[t] = NoLock
    BY <1>5, <1>7
  <2>2. ASSUME NEW u \in Task \ {t}, pc'[u] \in {"idle", "refused"}
        PROVE  lock'[u] = NoLock
    BY <1>5, <1>6, <2>2 DEF UseInv
  <2>3. ASSUME NEW u \in Task \ {t}, pc'[u] \notin {"idle", "refused"}
        PROVE  key'[u] \in Key /\ lock'[u] \in Lock /\ lock_index'[key'[u]] = lock'[u]
    <3>1. pc[u] \notin {"idle", "refused"}
      BY <1>5, <2>3
    <3>2. key[u] \in Key /\ lock[u] \in Lock /\ lock_index[key[u]] = lock[u]
      BY <3>1 DEF UseInv
    <3>3. CASE ref_count[l] - 1 = 0
      <4>1. lock[u] # l
        BY <1>0, <1>1, <3>3, LastUser
      <4> QED BY <1>1, <1>2, <1>6, <3>2, <3>3, <4>1 DEF TypeOK
    <3>4. CASE ref_count[l] - 1 # 0
      BY <1>1, <1>6, <3>2, <3>4
    <3> QED BY <3>3, <3>4
  <2> QED BY <2>1, <2>2, <2>3 DEF UseInv
<1>12. OneKeyInv'
  BY <1>1, <1>2 DEF OneKeyInv, TypeOK
<1>13. CancelInv'
  BY <1>1, <1>5, <1>6 DEF CancelInv
<1>14. QueueInv'
  <2>1. \A u \in Task, m \in Lock :
          pc'[u] \in Queued /\ lock'[u] = m <=> pc[u] \in Queued /\ lock[u] = m
    BY <1>1, <1>5, <1>6, <1>7, NoneAssumption DEF Queued
  <2> QED BY <1>1, <2>1 DEF QueueInv
<1>15. HeadInv'
  <2> SUFFICES ASSUME NEW u \in Task, pc'[u] \in {"woken", "doomed"}
               PROVE  ~locked'[lock'[u]] /\ Head(waiters'[lock'[u]]) = u
    BY DEF HeadInv
  <2>1. u # t /\ lock'[u] = lock[u] /\ waiters' = waiters
    BY <1>1, <1>5, <1>6
  <2>2. CASE pc'[u] # pc[u]
    BY <1>2, <1>5, <1>7, <1>8, <2>1, <2>2
  <2>3. CASE pc'[u] = pc[u]
    BY <1>2, <1>7, <2>1, <2>3 DEF HeadInv, UseInv
  <2> QED BY <2>2, <2>3
<1>16. HolderInv'
  <2>1. \A u \in Task : pc'[u] = "holding" <=> pc[u] = "holding" /\ u # t
    BY <1>1, <1>5
  <2>2. \A u \in Task : pc[u] = "holding" /\ u # t => lock'[u] = lock[u] /\ lock[u] # l
    BY <1>0, <1>1, <1>6 DEF HolderInv
  <2>3. \A u \in Task : pc[u] = "holding" => lock[u] \in Lock
    BY DEF UseInv
  <2>4. \A u \in Task : pc'[u] = "holding" => locked'[lock'[u]]
    BY <1>7, <2>1, <2>2, <2>3 DEF HolderInv
  <2>5. \A u, v \in Task :
          pc'[u] = "holding" /\ pc'[v] = "holding" /\ lock'[u] = lock'[v] => u = v
    BY <2>1, <2>2 DEF HolderInv
  <2>6. ASSUME NEW m \in Lock, locked'[m]
        PROVE  \E u \in Task : pc'[u] = "holding" /\ lock'[u] = m
    <3>1. m # l /\ locked[m]
      BY <1>7, <2>6
    <3>2. PICK u \in Task : pc[u] = "holding" /\ lock[u] = m
      BY <3>1 DEF HolderInv
    <3> QED BY <1>0, <2>1, <2>2, <3>1, <3>2
  <2> QED BY <2>4, <2>5, <2>6 DEF HolderInv
<1>17. RefCountExact'
  <2>1. Users(l)' = Users(l) \ {t}
    <3>1. Users(l)' = {u \in Task : lock'[u] = l /\ pc'[u] \in {"waiting", "woken", "holding"}}
      BY DEF Users
    <3>2. lock'[t] # l
      BY <1>2, <1>7, NoneAssumption
    <3>3. \A u \in Task \ {t} :
            /\ lock'[u] = l <=> lock[u] = l
            /\ pc'[u] \in {"waiting", "woken", "holding"}
                 <=> pc[u] \in {"waiting", "woken", "holding"}
      BY <1>5, <1>6
    <3> QED BY <3>1, <3>2, <3>3 DEF Users
  <2>2. \A m \in Lock \ {l} : Users(m)' = Users(m)
    BY <1>0, <1>1, <1>5, <1>6, <1>7, NoneAssumption DEF Users
  <2>3. Cardinality(Users(l)') = Cardinality(Users(l)) - 1
    BY <1>9, <2>1, UsersFinite, FS_RemoveElement
  <2>4. ASSUME NEW m \in Lock, \E k \in Key : lock_index'[k] = m
        PROVE  \E k \in Key : lock_index[k] = m
    BY <1>1, <1>2, <2>4, NoneAssumption DEF TypeOK
  <2>5. \A m \in Lock : ref_count'[m] = IF m = l THEN ref_count[m] - 1 ELSE ref_count[m]
    BY <1>1 DEF TypeOK
  <2>6. abandoned[l] \in Nat /\ Cardinality(Users(l)) \in Nat
    BY <1>2, <1>9 DEF TypeOK
  <2> SUFFICES ASSUME NEW m \in Lock, \E k \in Key : lock_index'[k] = m
               PROVE  ref_count'[m] = abandoned'[m] + Cardinality(Users(m)')
    BY DEF RefCountExact
  <2>7. ref_count[m] = abandoned[m] + Cardinality(Users(m))
    BY <2>4 DEF RefCountExact
  <2>8. CASE m = l
    BY <1>1, <1>9, <2>3, <2>5, <2>6, <2>7, <2>8
  <2>9. CASE m # l
    BY <1>1, <2>2, <2>5, <2>7, <2>9
  <2> QED BY <2>8, <2>9
<1> QED BY <1>10, <1>11, <1>12, <1>13, <1>14, <1>15, <1>16, <1>17

-----------------------------------------------------------------------------
(* The theorems.                                                           *)

\* IInv holds in every reachable state.
LEMMA Invariance == Spec => []IInv
<1>1. IInv /\ [Next]_vars => IInv'
  <2> SUFFICES ASSUME IInv, [Next]_vars PROVE IInv'
    OBVIOUS
  <2>1. CASE Next
    <3>1. PICK t \in Task :
            Enter(t) \/ Handled(t) \/ Resume(t) \/ Cancel(t) \/ Abort(t) \/ Exit(t)
      BY <2>1 DEF Next
    <3>2. CASE Enter(t)
      BY <3>2, EnterNewStep, RefusalStep, EnterExistingStep DEF Enter
    <3>3. CASE Handled(t)
      BY <3>3, RefusalStep
    <3>4. CASE Resume(t)
      BY <3>4, ResumeStep
    <3>5. CASE Cancel(t)
      BY <3>5, CancelStep
    <3>6. CASE Abort(t)
      BY <3>6, AbortStep
    <3>7. CASE Exit(t)
      BY <3>7, ExitStep
    <3> QED BY <3>1, <3>2, <3>3, <3>4, <3>5, <3>6, <3>7
  <2>2. CASE UNCHANGED vars
    <3>1. \A l : Users(l)' = Users(l)
      BY <2>2 DEF vars, Users
    <3> QED BY <2>2, <3>1 DEF vars, IInv, TypeOK, UseInv, OneKeyInv, QueueInv,
              HeadInv, HolderInv, CancelInv, RefCountExact
  <2> QED BY <2>1, <2>2
<1> QED BY InitIInv, <1>1, PTL DEF Spec

\* Every reachable state of locks.py's state has the types of TypeOK; the
\* counters never become negative.
THEOREM Typing == Spec => []TypeOK
<1>1. IInv => TypeOK
  BY DEF IInv
<1> QED BY <1>1, Invariance, PTL

\* The dictionary keeps the lock object of every task that is inside or
\* queues (locks.py: the entry is deleted by the last user only).
THEOREM EntryKeptWhileInUse == Spec => []EntryWhileInUse
<1>1. IInv => EntryWhileInUse
  BY DEF IInv, UseInv, EntryWhileInUse
<1> QED BY <1>1, Invariance, PTL

\* Two tasks are never inside `async with OperationLock(k, ...)` for one k,
\* whatever is cancelled in between.
THEOREM Exclusion == Spec => []MutualExclusion
<1>1. IInv => MutualExclusion
  BY DEF IInv, UseInv, HolderInv, MutualExclusion
<1> QED BY <1>1, Invariance, PTL

\* The counter is exact, so it reaches 0 with the last user and not before.
THEOREM CounterExact == Spec => []RefCountExact
<1>1. IInv => RefCountExact
  BY DEF IInv
<1> QED BY <1>1, Invariance, PTL

\* LockShouldWaitError means that another task is inside the block.
THEOREM RefusalJustified == Spec => RefusedOnlyWhenHeld
<1> DEFINE A == \A t \in Task : pc[t] = "idle" /\ pc'[t] = "refused" =>
                  \E u \in Task \ {t} : pc[u] = "holding" /\ key[u] = key'[t]
<1>1. IInv /\ [Next]_vars => [A]_vars
  <2> SUFFICES ASSUME IInv, Next, NEW t \in Task, pc[t] = "idle", pc'[t] = "refused"
               PROVE  \E u \in Task \ {t} : pc[u] = "holding" /\ key[u] = key'[t]
    OBVIOUS
  <2>1. PICK k \in Key : EnterRefused(t, k)
    <3> USE DEF IInv, TypeOK
    <3>1. PICK u \in Task :
            Enter(u) \/ Handled(u) \/ Resume(u) \/ Cancel(u) \/ Abort(u) \/ Exit(u)
      BY DEF Next
    <3>2. CASE Enter(u)
      BY <3>2 DEF Enter, EnterNew, EnterRefused, EnterExisting
    <3>3. CASE Handled(u) \/ Resume(u) \/ Cancel(u)
      BY <3>3 DEF Handled, Resume, Cancel
    <3>4. CASE Abort(u)
      BY <3>4 DEF Abort, PassOn, WakeUpFirst
    <3>5. CASE Exit(u)
      BY <3>5 DEF Exit, Release, WakeUpFirst
    <3> QED BY <3>1, <3>2, <3>3, <3>4, <3>5
  <2>2. /\ lock_index[k] \in Lock /\ locked[lock_index[k]] /\ key'[t] = k
    BY <2>1 DEF EnterRefused, Refuses, IInv, TypeOK
  <2>3. PICK u \in Task : pc[u] = "holding" /\ lock[u] = lock_index[k]
    BY <2>2 DEF IInv, HolderInv
  <2>4. key[u] = k
    BY <2>2, <2>3, NoneAssumption DEF IInv, UseInv, OneKeyInv
  <2> QED BY <2>2, <2>3, <2>4
<1>2. []IInv /\ [][Next]_vars => [][A]_vars
  BY <1>1, PTL
<1> QED BY <1>2, Invariance, PTL DEF Spec, RefusedOnlyWhenHeld

-----------------------------------------------------------------------------
(* OperationLock implements KeyMutex.                                      *)

\* The abstract variables are sets of pairs.
LEMMA PairsType ==
    Wants \in SUBSET (Task \X Key) /\ Wants' \in SUBSET (Task \X Key)
        /\ Holds \in SUBSET (Task \X Key) /\ Holds' \in SUBSET (Task \X Key)
  BY DEF Wants, Holds

\* Sets of pairs that have the same pairs are equal.
LEMMA SamePairs ==
    ASSUME NEW S, NEW T, NEW A \in SUBSET (S \X T), NEW B \in SUBSET (S \X T),
           \A u \in S, j \in T : <<u, j>> \in B <=> <<u, j>> \in A
    PROVE  B = A
  OBVIOUS

\* The same but for the pair <<a, b>>.
LEMMA OnePairLess ==
    ASSUME NEW S, NEW T, NEW A \in SUBSET (S \X T), NEW B \in SUBSET (S \X T),
           NEW a \in S, NEW b \in T,
           \A u \in S, j \in T : <<u, j>> \in B <=> <<u, j>> \in A /\ ~(u = a /\ j = b)
    PROVE  B = A \ {<<a, b>>}
  <1>1. ASSUME NEW x \in S \X T PROVE x \in B <=> x \in A \ {<<a, b>>}
    <2>1. PICK u \in S, j \in T : x = <<u, j>>
      OBVIOUS
    <2>2. x = <<a, b>> <=> u = a /\ j = b
      BY <2>1
    <2> QED BY <2>1, <2>2
  <1> QED BY <1>1

\* Every step is a step of KeyMutex or leaves its variables alone.
LEMMA StepRefinement ==
    ASSUME IInv, [Next]_vars
    PROVE  [Mutex!Next]_(Mutex!vars)
<1> USE DEF IInv
<1>1. ASSUME Wants' = Wants, Holds' = Holds PROVE [Mutex!Next]_(Mutex!vars)
  BY <1>1 DEF Mutex!vars
<1>2. ASSUME NEW t \in Task, NEW k \in Key, pc[t] \in {"idle", "refused"}
      PROVE  ~Mutex!Busy(t)
  BY <1>2 DEF Mutex!Busy, Wants, Holds, Queued
\* An action of KeyMutex is a step of it.
<1>3. ASSUME NEW t \in Task, NEW k \in Key, Mutex!Take(t, k) \/ Mutex!Queue(t, k)
                \/ Mutex!Grant(t, k) \/ Mutex!Withdraw(t, k) \/ Mutex!Release(t, k)
      PROVE  [Mutex!Next]_(Mutex!vars)
  BY <1>3 DEF Mutex!Next
<1>4. ASSUME NEW t \in Task, NEW k \in Key, EnterNew(t, k)
      PROVE  [Mutex!Next]_(Mutex!vars)
  <2>1. /\ pc[t] = "idle" /\ lock_index[k] = NoLock
        /\ pc' = [pc EXCEPT ![t] = "holding"] /\ key' = [key EXCEPT ![t] = k]
    BY <1>4 DEF EnterNew
  <2>2. Wants' = Wants /\ Holds' = Holds \cup {<<t, k>>}
    BY <2>1 DEF Wants, Holds, Queued, TypeOK
  <2>3. Mutex!Free(k)
    BY <2>1, NoneAssumption DEF Mutex!Free, Holds, UseInv
  <2> QED BY <1>2, <1>3, <2>1, <2>2, <2>3 DEF Mutex!Take
<1>5. ASSUME NEW t \in Task, Handled(t) \/ \E k \in Key : EnterRefused(t, k)
      PROVE  [Mutex!Next]_(Mutex!vars)
  <2>1. /\ pc[t] \in {"idle", "refused"} /\ pc'[t] \in {"idle", "refused"}
        /\ \A u \in Task \ {t} : pc'[u] = pc[u] /\ key'[u] = key[u]
    BY <1>5 DEF Handled, EnterRefused, TypeOK
  <2>2. Wants' = Wants /\ Holds' = Holds
    BY <2>1 DEF Wants, Holds, Queued
  <2> QED BY <1>1, <2>2
<1>6. ASSUME NEW t \in Task, NEW k \in Key, NEW wait \in BOOLEAN,
             EnterExisting(t, k, wait)
      PROVE  [Mutex!Next]_(Mutex!vars)
  <2>1. /\ pc[t] = "idle" /\ lock_index[k] # NoLock /\ key' = [key EXCEPT ![t] = k]
    BY <1>6 DEF EnterExisting
  <2>2. CASE AcquiresAtOnce(lock_index[k]) /\ pc' = [pc EXCEPT ![t] = "holding"]
    <3>1. Wants' = Wants /\ Holds' = Holds \cup {<<t, k>>}
      BY <2>1, <2>2 DEF Wants, Holds, Queued, TypeOK
    <3>2. Mutex!Free(k)
      BY <2>2 DEF AcquiresAtOnce, Mutex!Free, Holds, UseInv, HolderInv
    <3> QED BY <1>2, <1>3, <2>1, <3>1, <3>2 DEF Mutex!Take
  <2>3. CASE pc' = [pc EXCEPT ![t] = "waiting"]
    <3>1. Wants' = Wants \cup {<<t, k>>} /\ Holds' = Holds
      BY <2>1, <2>3 DEF Wants, Holds, Queued, TypeOK
    <3> QED BY <1>2, <1>3, <2>1, <3>1 DEF Mutex!Queue
  <2> QED BY <1>6, <2>2, <2>3 DEF EnterExisting
<1>7. ASSUME NEW t \in Task, Resume(t)
      PROVE  [Mutex!Next]_(Mutex!vars)
  <2>1. /\ pc[t] = "woken" /\ pc' = [pc EXCEPT ![t] = "holding"] /\ key' = key
    BY <1>7 DEF Resume
  <2>2. PICK k \in Key : k = key[t] /\ lock_index[k] = lock[t]
    BY <2>1 DEF UseInv
  <2>3. /\ Wants' = Wants \ {<<t, k>>} /\ Holds' = Holds \cup {<<t, k>>}
        /\ <<t, k>> \in Wants
    BY <2>1, <2>2 DEF Wants, Holds, Queued, TypeOK
  <2>4. Mutex!Free(k)
    BY <2>1, <2>2 DEF Mutex!Free, Holds, UseInv, HolderInv, HeadInv
  <2> QED BY <1>3, <2>3, <2>4 DEF Mutex!Grant
<1>8. ASSUME NEW t \in Task, Cancel(t)
      PROVE  [Mutex!Next]_(Mutex!vars)
  <2>1. Wants' = Wants /\ Holds' = Holds
    BY <1>8 DEF Cancel, Wants, Holds, Queued, TypeOK
  <2> QED BY <1>1, <2>1
<1>9. ASSUME NEW t \in Task, Abort(t)
      PROVE  [Mutex!Next]_(Mutex!vars)
  <2>1. /\ pc[t] \in {"cancelled", "doomed"} /\ pc'[t] = "idle"
        /\ \A u \in Task \ {t} : /\ key'[u] = key[u]
                                 /\ pc'[u] # pc[u] => pc[u] = "waiting" /\ pc'[u] = "woken"
    BY <1>9 DEF Abort, PassOn, WakeUpFirst, TypeOK
  <2>2. PICK k \in Key : k = key[t]
    BY <2>1 DEF UseInv
  <2>3. /\ Wants' = Wants \ {<<t, k>>} /\ Holds' = Holds
        /\ <<t, k>> \in Wants
    <3> HIDE DEF IInv
    <3>1. /\ pc'[t] \notin Queued /\ pc'[t] # "holding"
          /\ \A u \in Task \ {t} : /\ pc'[u] \in Queued <=> pc[u] \in Queued
                                   /\ pc'[u] = "holding" <=> pc[u] = "holding"
                                   /\ key'[u] = key[u]
      BY <2>1 DEF Queued
    <3>2. \A u \in Task, j \in Key :
            /\ <<u, j>> \in Wants <=> pc[u] \in Queued /\ key[u] = j
            /\ <<u, j>> \in Wants' <=> pc'[u] \in Queued /\ key'[u] = j
            /\ <<u, j>> \in Holds <=> pc[u] = "holding" /\ key[u] = j
            /\ <<u, j>> \in Holds' <=> pc'[u] = "holding" /\ key'[u] = j
      BY DEF Wants, Holds
    <3>3. ASSUME NEW u \in Task, NEW j \in Key
          PROVE  /\ <<u, j>> \in Wants' <=> <<u, j>> \in Wants /\ ~(u = t /\ j = k)
                 /\ <<u, j>> \in Holds' <=> <<u, j>> \in Holds
      <4>1. CASE u = t
        BY <2>1, <2>2, <3>1, <3>2, <4>1 DEF Queued
      <4>2. CASE u # t
        BY <3>1, <3>2, <4>2
      <4> QED BY <4>1, <4>2
    <3>4. <<t, k>> \in Wants
      BY <2>1, <2>2, <3>2 DEF Queued
    <3>5. Wants' = Wants \ {<<t, k>>}
      <4>1. \A u \in Task, j \in Key :
              <<u, j>> \in Wants' <=> <<u, j>> \in Wants /\ ~(u = t /\ j = k)
        BY <3>3
      <4> QED BY <4>1, PairsType, OnePairLess
    <3>6. Holds' = Holds
      <4>1. \A u \in Task, j \in Key : <<u, j>> \in Holds' <=> <<u, j>> \in Holds
        BY <3>3
      <4> QED BY <4>1, PairsType, SamePairs
    <3> QED BY <3>4, <3>5, <3>6
  <2> QED BY <1>3, <2>3 DEF Mutex!Withdraw
<1>10. ASSUME NEW t \in Task, Exit(t)
       PROVE  [Mutex!Next]_(Mutex!vars)
  <2>1. /\ pc[t] = "holding" /\ pc'[t] = "idle"
        /\ \A u \in Task \ {t} : /\ key'[u] = key[u]
                                 /\ pc'[u] # pc[u] => pc[u] = "waiting" /\ pc'[u] = "woken"
    BY <1>10 DEF Exit, Release, WakeUpFirst, TypeOK
  <2>2. PICK k \in Key : k = key[t]
    BY <2>1 DEF UseInv
  <2>3. /\ Wants' = Wants /\ Holds' = Holds \ {<<t, k>>}
        /\ <<t, k>> \in Holds
    <3> HIDE DEF IInv
    <3>1. /\ pc'[t] \notin Queued /\ pc'[t] # "holding"
          /\ \A u \in Task \ {t} : /\ pc'[u] \in Queued <=> pc[u] \in Queued
                                   /\ pc'[u] = "holding" <=> pc[u] = "holding"
                                   /\ key'[u] = key[u]
      BY <2>1 DEF Queued
    <3>2. \A u \in Task, j \in Key :
            /\ <<u, j>> \in Wants <=> pc[u] \in Queued /\ key[u] = j
            /\ <<u, j>> \in Wants' <=> pc'[u] \in Queued /\ key'[u] = j
            /\ <<u, j>> \in Holds <=> pc[u] = "holding" /\ key[u] = j
            /\ <<u, j>> \in Holds' <=> pc'[u] = "holding" /\ key'[u] = j
      BY DEF Wants, Holds
    <3>3. ASSUME NEW u \in Task, NEW j \in Key
          PROVE  /\ <<u, j>> \in Holds' <=> <<u, j>> \in Holds /\ ~(u = t /\ j = k)
                 /\ <<u, j>> \in Wants' <=> <<u, j>> \in Wants
      <4>1. CASE u = t
        BY <2>1, <2>2, <3>1, <3>2, <4>1 DEF Queued
      <4>2. CASE u # t
        BY <3>1, <3>2, <4>2
      <4> QED BY <4>1, <4>2
    <3>4. <<t, k>> \in Holds
      BY <2>1, <2>2, <3>2
    <3>5. Wants' = Wants
      <4>1. \A u \in Task, j \in Key : <<u, j>> \in Wants' <=> <<u, j>> \in Wants
        BY <3>3
      <4> QED BY <4>1, PairsType, SamePairs
    <3>6. Holds' = Holds \ {<<t, k>>}
      <4>1. \A u \in Task, j \in Key :
              <<u, j>> \in Holds' <=> <<u, j>> \in Holds /\ ~(u = t /\ j = k)
        BY <3>3
      <4> QED BY <4>1, PairsType, OnePairLess
    <3> QED BY <3>4, <3>5, <3>6
  <2> QED BY <1>3, <2>3 DEF Mutex!Release
<1>11. CASE Next
  BY <1>4, <1>5, <1>6, <1>7, <1>8, <1>9, <1>10, <1>11 DEF Next, Enter
<1>12. CASE UNCHANGED vars
  BY <1>1, <1>12 DEF vars, Wants, Holds
<1> QED BY <1>11, <1>12

\* The lock objects, reference counts and queues of locks.py implement one
\* mutex per key.
THEOREM Refinement == Spec => Abstract
<1>1. Init => Mutex!Init
  BY DEF Init, Mutex!Init, Wants, Holds, Queued
<1>2. []IInv /\ [][Next]_vars => [][Mutex!Next]_(Mutex!vars)
  BY StepRefinement, PTL
<1> QED BY <1>1, <1>2, Invariance, PTL DEF Spec, Abstract, Mutex!Spec
=============================================================================
