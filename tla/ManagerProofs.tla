---------------------------- MODULE ManagerProofs ----------------------------
(***************************************************************************)
(* Proofs about the manager of the liteserver processes: Supervisor, for   *)
(* every number of workers, every set of fragile ones and all timeouts and *)
(* retry counts, and Consensus (Blocks), for every finite set of workers   *)
(* and any number of blocks told apart.                                    *)
(*                                                                         *)
(* Supervisor.  WedgedOnlyIfFragile is not inductive: it must also be      *)
(* known that a worker whose death has not been noticed yet will have a    *)
(* window opened for it, and that a window is only closed in the turn that *)
(* respawns its worker.  KnownDead says the first for every sturdy worker, *)
(* dead or not: whoever is down in the manager's eyes has a retry window.  *)
(* For RestartBudget the respawns of the last RetryTimeout are divided     *)
(* into those from before the open window, at most RetryCount + 1, and     *)
(* those the window has paid for (Within).                                 *)
(*                                                                         *)
(* Consensus.  The invariant that carries SelectableIsCurrent says where a *)
(* block in last_block comes from: as long as the process or the manager's *)
(* flag is up it was reported by the present process.  A block left by a   *)
(* predecessor, after a respawn that failed halfway, belongs to a worker   *)
(* with neither, and the flag is never down while the process is up.       *)
(***************************************************************************)
EXTENDS MCManager, FiniteSetTheorems, WellFoundedInduction, TLAPS

\* A sturdy worker the manager believes dead has a retry window.
KnownDead == \A w \in Worker \ Fragile :
                wctl[w].is_alive \/ wctl[w].retry_left # None

\* A window's end and its retry count are set, and unset, together.
Paired == \A w \in Worker : wctl[w].retry_left = None <=> wctl[w].retry_count = None

\* The inductive invariant.
IInv == TypeOK /\ Paired /\ KnownDead

-----------------------------------------------------------------------------
\* The deaths the pass notices leave a well-typed record, whose window is
\* complete, that keeps the cooldown and the permission of the argument.
LEMMA NoticeProperties ==
    ASSUME NEW c \in Control, NEW up \in BOOLEAN,
           c.retry_left = None <=> c.retry_count = None
    PROVE  LET n == Notice(c, up)
           IN  /\ n \in Control
               /\ n.is_alive = up
               /\ n.is_enabled = c.is_enabled
               /\ n.cooldown = c.cooldown
               /\ n.retry_left = None <=> n.retry_count = None
               /\ c.retry_left # None =>
                    n.retry_left = c.retry_left /\ n.retry_count = c.retry_count
               /\ (c.is_alive /\ ~up) => n.retry_left # None
  <1>1. CASE c.is_alive /\ ~up /\ c.retry_left = None
    <2>1. /\ RetryTimeout + 1 \in 0 .. RetryTimeout + 1
          /\ RetryCount \in 0 .. RetryCount
      BY CountAssumption, TimeAssumption
    <2>2. RetryTimeout + 1 # None /\ RetryCount # None
      BY CountAssumption, TimeAssumption, NoneAssumption
    <2> QED BY <1>1, <2>1, <2>2 DEF Notice, Control
  <1>2. CASE ~(c.is_alive /\ ~up /\ c.retry_left = None)
    BY <1>2 DEF Notice, Control
  <1> QED BY <1>1, <1>2

\* What a turn knows when it decides about the respawn: the record is typed,
\* agrees with the process, and pays for the respawn if one is due; a sturdy
\* dead worker has a window.
LEMMA LookedProperties ==
    ASSUME IInv, NEW w \in Worker
    PROVE  LET c == Looked(w)
           IN  /\ c \in Control
               /\ c.retry_left = None <=> c.retry_count = None
               /\ Restarts(c) => c.retry_left = 0 \/ c.retry_count > 0
               /\ w \notin Fragile => c.is_alive \/ c.retry_left # None
  <1> DEFINE old == [wctl[w] EXCEPT !.is_enabled = Allowed(wctl[w])]
             c == Looked(w)
  <1>1. /\ wctl[w] \in Control
        /\ process[w] \in BOOLEAN
        /\ wctl[w].retry_left = None <=> wctl[w].retry_count = None
    BY DEF IInv, TypeOK, Paired
  <1>2. Allowed(wctl[w]) \in BOOLEAN
    BY DEF Allowed
  <1>3. /\ old \in Control
        /\ old.is_enabled = Allowed(wctl[w])
        /\ old.is_alive = wctl[w].is_alive
        /\ old.retry_left = wctl[w].retry_left
        /\ old.retry_count = wctl[w].retry_count
    BY <1>1, <1>2 DEF Control
  <1> HIDE DEF old
  <1>4. c = Notice(old, process[w])
    BY DEF Looked, old
  <1>5. /\ c \in Control
        /\ c.retry_left = None <=> c.retry_count = None
        /\ c.is_alive = process[w]
        /\ c.is_enabled = old.is_enabled
        /\ old.retry_left # None =>
              c.retry_left = old.retry_left /\ c.retry_count = old.retry_count
        /\ (old.is_alive /\ ~process[w]) => c.retry_left # None
    BY <1>1, <1>3, <1>4, NoticeProperties
  <1>6. Restarts(c) => c.retry_left = 0 \/ c.retry_count > 0
    <2> SUFFICES ASSUME Restarts(c) PROVE c.retry_left = 0 \/ c.retry_count > 0
      OBVIOUS
    <2>1. Allowed(wctl[w]) /\ c.retry_count # None
      BY <1>3, <1>5 DEF Restarts, Due
    <2>2. CASE wctl[w].retry_left # None
      BY <1>3, <1>5, <2>1, <2>2 DEF Allowed
    <2>3. CASE wctl[w].retry_left = None
      <3>1. old.retry_count = None /\ c.retry_count # old.retry_count
        BY <1>1, <1>3, <2>1, <2>3
      <3>2. c.retry_count = RetryCount
        BY <1>3, <1>4, <3>1 DEF Notice, Control
      <3> QED BY <3>2, CountAssumption
    <2> QED BY <2>2, <2>3
  <1>7. w \notin Fragile => c.is_alive \/ c.retry_left # None
    <2> SUFFICES ASSUME w \notin Fragile PROVE c.is_alive \/ c.retry_left # None
      OBVIOUS
    <2>1. wctl[w].is_alive \/ wctl[w].retry_left # None
      BY DEF IInv, KnownDead
    <2> QED BY <1>3, <1>5, <2>1
  <1> QED BY <1>5, <1>6, <1>7

\* A respawn pays with one retry or closes the window, and leaves the record
\* typed and paired.
LEMMA RespawnProperties ==
    ASSUME NEW c \in Control, NEW o \in Spawned,
           c.retry_left = None <=> c.retry_count = None,
           c.retry_count # None,
           c.retry_left = 0 \/ c.retry_count > 0
    PROVE  LET r == Respawn(Charge(c), o)
           IN  /\ r \in Control
               /\ r.is_alive = (o = "up")
               /\ r.retry_left = None <=> r.retry_count = None
  <1> DEFINE d == Charge(c)
  <1>1. /\ d \in Control
        /\ d.retry_left = None <=> d.retry_count = None
    <2>1. CASE c.retry_left = 0
      BY <2>1 DEF Charge, Control
    <2>2. CASE c.retry_left # 0
      <3>1. c.retry_count \in 0 .. RetryCount /\ c.retry_count > 0
        BY <2>2 DEF Control
      <3>2. c.retry_count - 1 \in 0 .. RetryCount
        BY <3>1, CountAssumption
      <3>3. c.retry_count - 1 # None
        BY <3>2, NoneAssumption
      <3> QED BY <2>2, <3>2, <3>3 DEF Charge, Control
    <2> QED BY <2>1, <2>2
  <1> HIDE DEF d
  <1>2. RestartTimeout \in 0 .. RestartTimeout
    BY TimeAssumption
  <1> QED BY <1>1, <1>2 DEF Respawn, Control, d

\* Every outcome of the spawns is one of the three, and "up" for the sturdy.
LEMMA OutcomeProperties ==
    ASSUME NEW outcome \in Outcomes, NEW w \in Worker
    PROVE  outcome[w] \in Spawned /\ (w \notin Fragile => outcome[w] = "up")
  BY DEF Outcomes, Spawned

\* A unit of time less, or nothing to count.
LEMMA ElapseProperties ==
    ASSUME NEW m \in Nat, NEW n \in 0 .. m \cup {None}
    PROVE  /\ Elapse(n) \in 0 .. m \cup {None}
           /\ Elapse(n) = None <=> n = None
           /\ n # None => Elapse(n) \in 0 .. m
  <1>1. CASE n \in Nat \ {0}
    <2>1. n - 1 \in 0 .. m /\ n \in Int /\ n - 1 \in Int
      BY <1>1, NoneAssumption
    <2> QED BY <1>1, <2>1, NoneAssumption DEF Elapse
  <1>2. CASE n \notin Nat \ {0}
    BY <1>2 DEF Elapse
  <1> QED BY <1>1, <1>2

-----------------------------------------------------------------------------
\* The manager starts with every sturdy worker running and no window open.
LEMMA InitIInv == Init => IInv
  <1> SUFFICES ASSUME Init PROVE IInv
    OBVIOUS
  <1> DEFINE c(w) == [is_alive    |-> process[w],
                      is_enabled  |-> TRUE,
                      cooldown    |-> RestartTimeout,
                      retry_left  |-> None,
                      retry_count |-> None]
  <1>1. process \in [Worker -> BOOLEAN] /\ \A w \in Worker \ Fragile : process[w]
    BY DEF Init
  <1>2. \A w \in Worker : c(w) \in Control
    BY <1>1, TimeAssumption DEF Control
  <1>3. wctl = [w \in Worker |-> c(w)]
    BY DEF Init
  <1> HIDE DEF c
  <1>4. wctl \in [Worker -> Control] /\ \A w \in Worker : wctl[w] = c(w)
    BY <1>2, <1>3
  <1>5. TypeOK
    BY <1>1, <1>4 DEF Init, TypeOK
  <1>6. Paired /\ KnownDead
    BY <1>1, <1>4 DEF Paired, KnownDead, c
  <1> QED BY <1>5, <1>6 DEF IInv

\* A pass keeps the invariant: for each worker the pass either does not reach
\* it, or looks, or looks and respawns.
LEMMA PassStep == IInv /\ CheckChildrenAlive => IInv'
  <1> SUFFICES ASSUME IInv, CheckChildrenAlive PROVE IInv'
    OBVIOUS
  <1> DEFINE looked == [w \in Worker |-> Looked(w)]
  <1>1. PICK outcome \in Outcomes :
          LET reached == Reached(Raising(looked, outcome))
              restarted == {w \in reached : Restarts(looked[w])}
          IN  /\ wctl' = [w \in Worker |->
                            IF w \in restarted
                            THEN Respawn(Charge(looked[w]), outcome[w])
                            ELSE IF w \in reached THEN looked[w] ELSE wctl[w]]
              /\ process' = [w \in Worker |->
                               IF w \in restarted THEN outcome[w] = "up" ELSE process[w]]
              /\ recent' = [w \in Worker |->
                              IF w \in restarted
                              THEN recent[w] \cup ({0} \cap 0 .. RetryTimeout - 1)
                              ELSE recent[w]]
    BY DEF CheckChildrenAlive
  <1> DEFINE reached == Reached(Raising(looked, outcome))
             restarted == {w \in reached : Restarts(looked[w])}
  <1>2. \A w \in Worker :
          /\ wctl'[w] \in Control
          /\ wctl'[w].retry_left = None <=> wctl'[w].retry_count = None
          /\ w \notin Fragile => wctl'[w].is_alive \/ wctl'[w].retry_left # None
    <2> TAKE w \in Worker
    <2> DEFINE c == Looked(w)
    <2>1. /\ c \in Control
          /\ c.retry_left = None <=> c.retry_count = None
          /\ Restarts(c) => c.retry_left = 0 \/ c.retry_count > 0
          /\ w \notin Fragile => c.is_alive \/ c.retry_left # None
      BY LookedProperties
    <2>2. looked[w] = c
      OBVIOUS
    <2>3. wctl'[w] = IF w \in restarted
                     THEN Respawn(Charge(looked[w]), outcome[w])
                     ELSE IF w \in reached THEN looked[w] ELSE wctl[w]
      BY <1>1
    <2>4. outcome[w] \in Spawned /\ (w \notin Fragile => outcome[w] = "up")
      BY OutcomeProperties
    <2>5. w \in restarted => Restarts(c)
      BY <2>2
    <2> HIDE DEF c, looked, reached, restarted
    <2>6. CASE w \in restarted
      <3>1. c.retry_count # None
        BY <2>5, <2>6 DEF Restarts
      <3>2. c.retry_left = 0 \/ c.retry_count > 0
        BY <2>1, <2>5, <2>6
      <3>3. wctl'[w] = Respawn(Charge(c), outcome[w])
        BY <2>2, <2>3, <2>6
      <3>4. /\ Respawn(Charge(c), outcome[w]) \in Control
            /\ Respawn(Charge(c), outcome[w]).is_alive = (outcome[w] = "up")
            /\ Respawn(Charge(c), outcome[w]).retry_left = None
                 <=> Respawn(Charge(c), outcome[w]).retry_count = None
        BY <2>1, <2>4, <3>1, <3>2, RespawnProperties
      <3> QED BY <2>4, <3>3, <3>4
    <2>7. CASE w \notin restarted /\ w \in reached
      BY <2>1, <2>2, <2>3, <2>7
    <2>8. CASE w \notin restarted /\ w \notin reached
      BY <2>3, <2>8 DEF IInv, TypeOK, Paired, KnownDead
    <2> QED BY <2>6, <2>7, <2>8
  <1>3. wctl' \in [Worker -> Control]
    BY <1>1, <1>2
  <1>4. process' \in [Worker -> BOOLEAN]
    BY <1>1 DEF IInv, TypeOK
  <1>5. recent' \in [Worker -> SUBSET (0 .. RetryTimeout - 1)]
    BY <1>1 DEF IInv, TypeOK
  <1> QED BY <1>2, <1>3, <1>4, <1>5 DEF IInv, TypeOK, Paired, KnownDead

\* A process that exits is not known to be dead yet.
LEMMA DieStep == ASSUME NEW w \in Worker PROVE IInv /\ Die(w) => IInv'
  BY DEF IInv, Die, TypeOK, Paired, KnownDead

\* Time opens and closes no window.
LEMMA TickStep == IInv /\ Tick => IInv'
  <1> SUFFICES ASSUME IInv, Tick PROVE IInv'
    OBVIOUS
  <1>1. \A w \in Worker :
          /\ wctl'[w] \in Control
          /\ wctl'[w].is_alive = wctl[w].is_alive
          /\ wctl'[w].retry_count = wctl[w].retry_count
          /\ wctl'[w].retry_left = None <=> wctl[w].retry_left = None
    <2> TAKE w \in Worker
    <2> DEFINE c == wctl[w]
    <2>1. c \in Control
      BY DEF IInv, TypeOK
    <2>2. wctl'[w] = [c EXCEPT !.cooldown = Elapse(c.cooldown),
                               !.retry_left = Elapse(c.retry_left)]
      BY <2>1 DEF Tick, Control
    <2> HIDE DEF c
    <2>3. Elapse(c.cooldown) \in 0 .. RestartTimeout
      <3>1. c.cooldown \in 0 .. RestartTimeout
        BY <2>1 DEF Control
      <3>2. c.cooldown # None
        BY <3>1, NoneAssumption
      <3> QED BY <3>1, <3>2, ElapseProperties, TimeAssumption
    <2>4. /\ Elapse(c.retry_left) \in 0 .. RetryTimeout + 1 \cup {None}
          /\ Elapse(c.retry_left) = None <=> c.retry_left = None
      <3>1. c.retry_left \in 0 .. RetryTimeout + 1 \cup {None}
        BY <2>1 DEF Control
      <3>2. RetryTimeout + 1 \in Nat
        BY TimeAssumption
      <3> QED BY <3>1, <3>2, ElapseProperties
    <2> QED BY <2>1, <2>2, <2>3, <2>4 DEF Control, c
  <1>2. wctl' \in [Worker -> Control]
    BY <1>1 DEF Tick
  <1>3. recent' \in [Worker -> SUBSET (0 .. RetryTimeout - 1)]
    BY DEF Tick
  <1>4. process' = process
    BY DEF Tick
  <1> QED BY <1>1, <1>2, <1>3, <1>4 DEF IInv, TypeOK, Paired, KnownDead

\* IInv holds in every reachable state.
LEMMA Invariance == Spec => []IInv
  <1>1. IInv /\ [Next]_vars => IInv'
    <2> SUFFICES ASSUME IInv, [Next]_vars PROVE IInv'
      OBVIOUS
    <2>1. CASE CheckChildrenAlive
      BY <2>1, PassStep
    <2>2. CASE Tick
      BY <2>2, TickStep
    <2>3. CASE \E w \in Worker : Die(w)
      BY <2>3, DieStep
    <2>4. CASE UNCHANGED vars
      BY <2>4 DEF IInv, vars, TypeOK, Paired, KnownDead
    <2> QED BY <2>1, <2>2, <2>3, <2>4 DEF Next
  <1> QED BY InitIInv, <1>1, PTL DEF Spec

\* The retry counter never goes below zero and every field keeps its range.
THEOREM Typing == Spec => []TypeOK
  <1>1. IInv => TypeOK
    BY DEF IInv
  <1> QED BY Invariance, <1>1, PTL

\* The supervision can only get stuck on a worker whose process failed to
\* start: no schedule of crashes, passes and timeouts leaves a sturdy worker
\* dead without a retry window.
THEOREM SturdyNeverWedged == Spec => []WedgedOnlyIfFragile
  <1>1. IInv => WedgedOnlyIfFragile
    BY DEF IInv, KnownDead, WedgedOnlyIfFragile, Wedged
  <1> QED BY Invariance, <1>1, PTL

-----------------------------------------------------------------------------
(* The restart budget.  The respawns of the last RetryTimeout are those    *)
(* the open window has paid for, and those from before it opened, which    *)
(* were at most RetryCount of the window before, and the one that closed   *)
(* it.  Once the window has expired, none from before it opened is recent. *)

\* The recent respawns of a worker, at ages S, and its record c.
Within(S, c) ==
    /\ c.retry_left = None => Cardinality(S) <= RetryCount + 1
    /\ c.retry_left # None =>
         \E before, paid \in SUBSET S :
            /\ S = before \cup paid
            /\ Cardinality(before) <= RetryCount + 1
            /\ Cardinality(paid) <= RetryCount - c.retry_count
            /\ \A a \in before : a + c.retry_left >= RetryTimeout + 1

BudgetInv == \A w \in Worker : Within(recent[w], wctl[w])

Ages == 0 .. RetryTimeout - 1

LEMMA AgesFinite ==
    ASSUME NEW S \in SUBSET Ages
    PROVE  IsFiniteSet(S) /\ Cardinality(S) \in Nat
  <1>1. IsFiniteSet(Ages)
    BY TimeAssumption, FS_Interval DEF Ages
  <1>2. IsFiniteSet(S)
    BY <1>1, FS_Subset
  <1> QED BY <1>2, FS_CardinalityType

\* One more respawn is at most one more age.
LEMMA OneMoreAge ==
    ASSUME NEW S \in SUBSET Ages
    PROVE  Cardinality(S \cup ({0} \cap Ages)) <= Cardinality(S) + 1
  <1>1. IsFiniteSet(S) /\ Cardinality(S) \in Nat
    BY AgesFinite
  <1>2. Cardinality(S \cup {0}) \in {Cardinality(S), Cardinality(S) + 1}
    BY <1>1, FS_AddElement
  <1> DEFINE T == S \cup ({0} \cap Ages)
             U == S \cup {0}
  <1>3. T = S \/ T = U
    OBVIOUS
  <1>4. Cardinality(U) \in {Cardinality(S), Cardinality(S) + 1}
    BY <1>2
  <1> HIDE DEF T, U
  <1>5. Cardinality(T) <= Cardinality(S) + 1
    BY <1>1, <1>3, <1>4
  <1> QED BY <1>5 DEF T

\* Time makes no ages.
LEMMA OlderAges ==
    ASSUME NEW S \in SUBSET Ages
    PROVE  Cardinality({a + 1 : a \in S} \cap Ages) <= Cardinality(S)
  <1> DEFINE older == {a + 1 : a \in S}
  <1>1. IsFiniteSet(S) /\ Cardinality(S) \in Nat
    BY AgesFinite
  <1>2. IsFiniteSet(older) /\ Cardinality(older) <= Cardinality(S)
    <2>1. [a \in S |-> a + 1] \in Surjection(S, older)
      BY DEF Surjection
    <2> QED BY <1>1, <2>1, FS_Surjection
  <1>3. older \cap Ages \subseteq older
    OBVIOUS
  <1>4. IsFiniteSet(older \cap Ages) /\ Cardinality(older \cap Ages) <= Cardinality(older)
    BY <1>2, <1>3, FS_Subset
  <1>5. Cardinality(older) \in Nat /\ Cardinality(older \cap Ages) \in Nat
    BY <1>2, <1>4, FS_CardinalityType
  <1> QED BY <1>1, <1>2, <1>4, <1>5

\* A window that opens finds only respawns from before.
LEMMA WithinNoticed ==
    ASSUME NEW S \in SUBSET Ages, NEW c \in Control, NEW up \in BOOLEAN, Within(S, c)
    PROVE  Within(S, Notice(c, up))
  <1> DEFINE n == Notice(c, up)
  <1>1. CASE c.is_alive /\ ~up /\ c.retry_left = None
    <2>1. n.retry_left = RetryTimeout + 1 /\ n.retry_count = RetryCount
      BY <1>1 DEF Notice, Control
    <2>2. n.retry_left # None
      BY <2>1, TimeAssumption, NoneAssumption
    <2>3. Cardinality({}) = 0 /\ {} \in SUBSET S /\ S \in SUBSET S /\ S = S \cup {}
      BY FS_EmptySet
    <2>4. Cardinality(S) <= RetryCount + 1
      BY <1>1 DEF Within
    <2>5. \A a \in S : a + (RetryTimeout + 1) >= RetryTimeout + 1
      BY TimeAssumption DEF Ages
    <2>6. Cardinality({}) <= RetryCount - RetryCount
      BY <2>3, CountAssumption
    <2> HIDE DEF n
    <2>7. Within(S, n)
      BY <2>1, <2>2, <2>3, <2>4, <2>5, <2>6 DEF Within
    <2> QED BY <2>7 DEF n
  <1>2. CASE ~(c.is_alive /\ ~up /\ c.retry_left = None)
    <2>1. n.retry_left = c.retry_left /\ n.retry_count = c.retry_count
      BY <1>2 DEF Notice, Control
    <2> HIDE DEF n
    <2>2. Within(S, n)
      BY <2>1 DEF Within
    <2> QED BY <2>2 DEF n
  <1> QED BY <1>1, <1>2

\* A respawn is paid for by the window, or closes it.
LEMMA WithinRespawned ==
    ASSUME NEW S \in SUBSET Ages, NEW c \in Control, NEW o \in Spawned, Within(S, c),
           c.retry_left # None, c.retry_count # None
    PROVE  Within(S \cup ({0} \cap Ages), Respawn(Charge(c), o))
  <1> DEFINE r == Respawn(Charge(c), o)
             T == S \cup ({0} \cap Ages)
  <1>1. /\ c.retry_left \in 0 .. RetryTimeout + 1 /\ c.retry_count \in 0 .. RetryCount
        /\ RetryTimeout \in Nat /\ RetryCount \in Nat
    BY CountAssumption, TimeAssumption DEF Control
  <1>2. PICK before \in SUBSET S, paid \in SUBSET S :
            /\ S = before \cup paid
            /\ Cardinality(before) <= RetryCount + 1
            /\ Cardinality(paid) <= RetryCount - c.retry_count
            /\ \A a \in before : a + c.retry_left >= RetryTimeout + 1
    BY DEF Within
  <1>3. /\ Cardinality(before) \in Nat /\ Cardinality(paid) \in Nat
        /\ Cardinality(paid \cup ({0} \cap Ages)) <= Cardinality(paid) + 1
        /\ Cardinality(paid \cup ({0} \cap Ages)) \in Nat
    BY AgesFinite, OneMoreAge
  <1>4. CASE c.retry_left = 0
    <2>1. before = {}
      BY <1>1, <1>2, <1>4 DEF Ages
    <2>2. T = paid \cup ({0} \cap Ages)
      BY <1>2, <2>1
    <2>3. Cardinality(T) <= RetryCount + 1
      BY <1>1, <1>2, <1>3, <2>2
    <2>4. r.retry_left = None
      BY <1>4 DEF Respawn, Charge, Control
    <2> HIDE DEF r, T
    <2>5. Within(T, r)
      BY <2>3, <2>4 DEF Within
    <2> QED BY <2>5 DEF r, T
  <1>5. CASE c.retry_left # 0
    <2>1. r.retry_left = c.retry_left /\ r.retry_count = c.retry_count - 1
      BY <1>5 DEF Respawn, Charge, Control
    <2> DEFINE now_paid == paid \cup ({0} \cap Ages)
    <2>2. T = before \cup now_paid /\ before \in SUBSET T /\ now_paid \in SUBSET T
      BY <1>2
    <2>3. Cardinality(now_paid) <= RetryCount - r.retry_count
      BY <1>1, <1>2, <1>3, <2>1
    <2>4. r.retry_left # None
      BY <2>1
    <2> HIDE DEF r, T, now_paid
    <2>5. Within(T, r)
      BY <1>2, <2>1, <2>2, <2>3, <2>4 DEF Within
    <2> QED BY <2>5 DEF r, T
  <1> QED BY <1>4, <1>5

\* A tick takes as much from the window as it adds to an age; in a window that has
\* expired there is no respawn from before.
LEMMA WithinOlder ==
    ASSUME NEW S \in SUBSET Ages, NEW c \in Control, NEW d \in Control, Within(S, c),
           c.retry_left = None <=> c.retry_count = None,
           d.retry_left = Elapse(c.retry_left), d.retry_count = c.retry_count
    PROVE  Within({a + 1 : a \in S} \cap Ages, d)
  <1> DEFINE older(X) == {a + 1 : a \in X} \cap Ages
  <1>0. RetryTimeout \in Nat /\ RetryCount \in Nat
    BY CountAssumption, TimeAssumption
  <1>1. CASE c.retry_left = None
    <2>1. d.retry_left = None
      BY <1>1, NoneAssumption DEF Elapse
    <2>2. Cardinality(S) <= RetryCount + 1
      BY <1>1 DEF Within
    <2>3. /\ Cardinality(older(S)) <= Cardinality(S)
          /\ Cardinality(older(S)) \in Nat /\ Cardinality(S) \in Nat
      BY OlderAges, AgesFinite
    <2>4. Cardinality(older(S)) <= RetryCount + 1
      BY <1>0, <2>2, <2>3
    <2> QED BY <2>1, <2>4 DEF Within
  <1>2. CASE c.retry_left # None
    <2>1. c.retry_left \in 0 .. RetryTimeout + 1 /\ c.retry_count \in 0 .. RetryCount
      BY <1>2 DEF Control
    <2>2. /\ d.retry_left = IF c.retry_left = 0 THEN 0 ELSE c.retry_left - 1
          /\ d.retry_left # None
      BY <1>0, <2>1, NoneAssumption DEF Elapse
    <2>3. PICK before \in SUBSET S, paid \in SUBSET S :
            /\ S = before \cup paid
            /\ Cardinality(before) <= RetryCount + 1
            /\ Cardinality(paid) <= RetryCount - c.retry_count
            /\ \A a \in before : a + c.retry_left >= RetryTimeout + 1
      BY <1>2 DEF Within
    <2>4. /\ Cardinality(older(before)) <= Cardinality(before)
          /\ Cardinality(older(paid)) <= Cardinality(paid)
          /\ Cardinality(before) \in Nat /\ Cardinality(paid) \in Nat
          /\ Cardinality(older(before)) \in Nat /\ Cardinality(older(paid)) \in Nat
      BY OlderAges, AgesFinite
    <2>5. /\ Cardinality(older(before)) <= RetryCount + 1
          /\ Cardinality(older(paid)) <= RetryCount - d.retry_count
      BY <1>0, <2>1, <2>3, <2>4
    <2>6. /\ older(S) = older(before) \cup older(paid)
          /\ older(before) \in SUBSET older(S) /\ older(paid) \in SUBSET older(S)
      BY <2>3
    <2>7. \A b \in older(before) : b + d.retry_left >= RetryTimeout + 1
      <3> SUFFICES ASSUME NEW a \in before, a + 1 \in Ages
                   PROVE  a + 1 + d.retry_left >= RetryTimeout + 1
        OBVIOUS
      <3>1. a \in Ages /\ a + c.retry_left >= RetryTimeout + 1
        BY <2>3
      <3> QED BY <1>0, <2>1, <2>2, <3>1 DEF Ages
    <2> HIDE DEF older
    <2>8. Within(older(S), d)
      BY <2>2, <2>5, <2>6, <2>7 DEF Within
    <2> QED BY <2>8 DEF older
  <1> QED BY <1>1, <1>2

LEMMA BudgetInit == Init => BudgetInv
  <1> SUFFICES ASSUME Init, NEW w \in Worker PROVE Within(recent[w], wctl[w])
    BY DEF BudgetInv
  <1>1. recent[w] = {} /\ wctl[w].retry_left = None
    BY DEF Init
  <1>2. Cardinality({}) <= RetryCount + 1
    BY FS_EmptySet, CountAssumption
  <1> QED BY <1>1, <1>2 DEF Within

LEMMA BudgetPass == IInv /\ BudgetInv /\ CheckChildrenAlive => BudgetInv'
  <1> SUFFICES ASSUME IInv, BudgetInv, CheckChildrenAlive, NEW w \in Worker
               PROVE  Within(recent'[w], wctl'[w])
    BY DEF BudgetInv, Within
  <1> DEFINE looked == [v \in Worker |-> Looked(v)]
             c == Looked(w)
             old == [wctl[w] EXCEPT !.is_enabled = Allowed(wctl[w])]
  <1>1. PICK outcome \in Outcomes :
          LET reached == Reached(Raising(looked, outcome))
              restarted == {v \in reached : Restarts(looked[v])}
          IN  /\ wctl' = [v \in Worker |->
                            IF v \in restarted
                            THEN Respawn(Charge(looked[v]), outcome[v])
                            ELSE IF v \in reached THEN looked[v] ELSE wctl[v]]
              /\ recent' = [v \in Worker |->
                              IF v \in restarted
                              THEN recent[v] \cup ({0} \cap 0 .. RetryTimeout - 1)
                              ELSE recent[v]]
    BY DEF CheckChildrenAlive
  <1> DEFINE reached == Reached(Raising(looked, outcome))
             restarted == {v \in reached : Restarts(looked[v])}
  <1>2. /\ looked[w] = c
        /\ wctl'[w] = IF w \in restarted
                      THEN Respawn(Charge(looked[w]), outcome[w])
                      ELSE IF w \in reached THEN looked[w] ELSE wctl[w]
        /\ recent'[w] = IF w \in restarted THEN recent[w] \cup ({0} \cap Ages) ELSE recent[w]
        /\ w \in restarted => Restarts(looked[w])
    BY <1>1 DEF Ages
  <1>3. /\ wctl[w] \in Control /\ process[w] \in BOOLEAN /\ recent[w] \in SUBSET Ages
        /\ Within(recent[w], wctl[w])
    BY DEF IInv, TypeOK, BudgetInv, Ages
  <1>4. old \in Control /\ Within(recent[w], old)
    <2>1. Allowed(wctl[w]) \in BOOLEAN
      BY DEF Allowed
    <2>2. /\ old \in Control /\ old.retry_left = wctl[w].retry_left
          /\ old.retry_count = wctl[w].retry_count
      BY <1>3, <2>1 DEF Control
    <2> HIDE DEF old
    <2> QED BY <1>3, <2>2 DEF Within
  <1>5. c = Notice(old, process[w])
    BY DEF Looked
  <1> HIDE DEF looked, c, old, reached, restarted
  <1>6. Within(recent[w], c)
    BY <1>3, <1>4, <1>5, WithinNoticed
  <1>7. /\ c \in Control
        /\ c.retry_left = None <=> c.retry_count = None
    BY LookedProperties DEF c
  <1>8. CASE w \in restarted
    <2>1. c.retry_count # None /\ c.retry_left # None
      BY <1>2, <1>7, <1>8 DEF Restarts
    <2>2. outcome[w] \in Spawned
      BY OutcomeProperties
    <2>3. Within(recent[w] \cup ({0} \cap Ages), Respawn(Charge(c), outcome[w]))
      BY <1>3, <1>6, <1>7, <2>1, <2>2, WithinRespawned
    <2> QED BY <1>2, <1>8, <2>3
  <1>9. CASE w \notin restarted
    BY <1>2, <1>3, <1>6, <1>9
  <1> QED BY <1>8, <1>9

LEMMA BudgetTick == IInv /\ BudgetInv /\ Tick => BudgetInv'
  <1> SUFFICES ASSUME IInv, BudgetInv, Tick, NEW w \in Worker
               PROVE  Within(recent'[w], wctl'[w])
    BY DEF BudgetInv, Within
  <1>1. /\ wctl[w] \in Control /\ recent[w] \in SUBSET Ages
        /\ Within(recent[w], wctl[w])
        /\ wctl[w].retry_left = None <=> wctl[w].retry_count = None
    BY DEF IInv, TypeOK, Paired, BudgetInv, Ages
  <1>2. wctl'[w] \in Control
    BY TickStep DEF IInv, TypeOK
  <1>3. /\ wctl'[w].retry_left = Elapse(wctl[w].retry_left)
        /\ wctl'[w].retry_count = wctl[w].retry_count
    BY <1>1 DEF Tick, Control
  <1>4. recent'[w] = {a + 1 : a \in recent[w]} \cap Ages
    BY DEF Tick, Ages
  <1>5. Within({a + 1 : a \in recent[w]} \cap Ages, wctl'[w])
    BY <1>1, <1>2, <1>3, WithinOlder
  <1> QED BY <1>4, <1>5

\* A worker that crashes on and on is respawned at most 2 * RetryCount + 1 times in
\* any period of RetryTimeout, for all workers, counts and timeouts.
THEOREM RestartsLimited == Spec => []RestartBudget
  <1>1. IInv /\ BudgetInv /\ [Next]_vars => BudgetInv'
    <2> SUFFICES ASSUME IInv, BudgetInv, [Next]_vars PROVE BudgetInv'
      OBVIOUS
    <2>1. CASE CheckChildrenAlive
      BY <2>1, BudgetPass
    <2>2. CASE Tick
      BY <2>2, BudgetTick
    <2>3. CASE (\E w \in Worker : Die(w)) \/ UNCHANGED vars
      BY <2>3 DEF Die, vars, BudgetInv, Within
    <2> QED BY <2>1, <2>2, <2>3 DEF Next
  <1>2. IInv /\ BudgetInv => RestartBudget
    <2> SUFFICES ASSUME IInv, BudgetInv, NEW w \in Worker
                 PROVE  Cardinality(recent[w]) <= 2 * RetryCount + 1
      BY DEF RestartBudget
    <2>1. /\ wctl[w] \in Control /\ recent[w] \in SUBSET Ages
          /\ Within(recent[w], wctl[w])
          /\ wctl[w].retry_left = None <=> wctl[w].retry_count = None
      BY DEF IInv, TypeOK, Paired, BudgetInv, Ages
    <2>2. RetryCount \in Nat /\ RetryCount > 0 /\ Cardinality(recent[w]) \in Nat
      BY <2>1, AgesFinite, CountAssumption
    <2>3. CASE wctl[w].retry_left = None
      BY <2>1, <2>2, <2>3 DEF Within
    <2>4. CASE wctl[w].retry_left # None
      <3>1. wctl[w].retry_count \in 0 .. RetryCount
        BY <2>1, <2>4 DEF Control
      <3>2. PICK before \in SUBSET recent[w], paid \in SUBSET recent[w] :
                /\ recent[w] = before \cup paid
                /\ Cardinality(before) <= RetryCount + 1
                /\ Cardinality(paid) <= RetryCount - wctl[w].retry_count
        BY <2>1, <2>4 DEF Within
      <3>3. /\ IsFiniteSet(before) /\ Cardinality(before) \in Nat
            /\ IsFiniteSet(paid) /\ Cardinality(paid) \in Nat
            /\ IsFiniteSet(before \cap paid) /\ Cardinality(before \cap paid) \in Nat
        <4>1. before \in SUBSET Ages /\ paid \in SUBSET Ages /\ before \cap paid \in SUBSET Ages
          BY <2>1
        <4> QED BY <4>1, AgesFinite
      <3>4. Cardinality(recent[w]) <= Cardinality(before) + Cardinality(paid)
        <4>1. Cardinality(before \cup paid)
                = Cardinality(before) + Cardinality(paid) - Cardinality(before \cap paid)
          BY <3>3, FS_Union
        <4> DEFINE all == before \cup paid
        <4>2. recent[w] = all
          BY <3>2
        <4>3. Cardinality(all) <= Cardinality(before) + Cardinality(paid)
          BY <3>3, <4>1
        <4> HIDE DEF all
        <4> QED BY <4>2, <4>3
      <3> QED BY <2>2, <3>1, <3>2, <3>3, <3>4
    <2> QED BY <2>3, <2>4
  <1> QED BY <1>1, <1>2, BudgetInit, Invariance, PTL DEF Spec

-----------------------------------------------------------------------------
(* Consensus.                                                              *)

\* Consensus counts as the library does.
LEMMA SameCount == \A S : Blocks!Cardinality(S) = Cardinality(S)
  BY Zenon DEF Blocks!Cardinality, Cardinality

\* A live worker's block was reported by its present process.
OwnBlock == \A w \in Liteserver :
              (life[w] = "running" \/ is_alive[w]) /\ last_block[w] # -1 => reported[w]

\* The manager never takes a running process for dead.
AliveKnown == \A w \in Liteserver : life[w] = "running" => is_alive[w]

ServingInv == Blocks!TypeOK /\ OwnBlock /\ AliveKnown

-----------------------------------------------------------------------------
\* The order on the natural numbers as a relation.
LessThan == {p \in Nat \X Nat : p[1] < p[2]}

\* No infinite descent.
LEMMA LessThanWellFounded == IsWellFoundedOn(LessThan, Nat)
  <1>1. LessThan = OpToRel(<, Nat)
    BY Zenon DEF LessThan, OpToRel
  <1> QED BY Zenon, <1>1, NatLessThanWellFounded

\* A nonempty set of numbers up to a bound has a maximum.
LEMMA MaxExists ==
    ASSUME NEW m \in Nat, NEW S \in SUBSET (0 .. m), S # {}
    PROVE  Blocks!Max(S) \in S /\ \A s \in S : Blocks!Max(S) >= s
  <1> DEFINE T == {m - s : s \in S}
  <1>1. T \subseteq Nat
    OBVIOUS
  <1>2. T # {}
    OBVIOUS
  <1>3. PICK t \in T : \A u \in T : <<u, t>> \notin LessThan
    <2> HIDE DEF T
    <2> QED BY <1>1, <1>2, LessThanWellFounded, WFMin
  <1>4. \A u \in T : u >= t
    <2> TAKE u \in T
    <2>1. u \in Nat /\ t \in Nat /\ <<u, t>> \notin LessThan
      BY <1>1, <1>3
    <2> HIDE DEF T
    <2> QED BY <2>1 DEF LessThan
  <1>5. PICK s \in S : t = m - s
    OBVIOUS
  <1>6. \A x \in S : s >= x
    BY <1>4, <1>5
  <1> QED BY <1>6 DEF Blocks!Max

-----------------------------------------------------------------------------
\* The best block is a reported one.
LEMMA BestIsReported ==
    ASSUME Blocks!TypeOK, Blocks!LastBlocks # {}
    PROVE  /\ Blocks!BestBlock \in Blocks!LastBlocks
           /\ Blocks!BestBlock \in Blocks!Seqno
           /\ \A b \in Blocks!LastBlocks : b \in Blocks!Seqno /\ b <= Blocks!BestBlock
  <1>1. Blocks!LastBlocks \subseteq 0 .. MaxSeqno
    BY DEF Blocks!LastBlocks, Blocks!TypeOK, Blocks!Seqno
  <1>2. Blocks!BestBlock \in Blocks!LastBlocks /\ \A b \in Blocks!LastBlocks : Blocks!BestBlock >= b
    BY <1>1, MaxExists, SeqnoAssumption DEF Blocks!BestBlock
  <1> QED BY <1>1, <1>2, SeqnoAssumption DEF Blocks!Seqno

\* The loop over strats ends at one of the four newest blocks: all the
\* suitable workers are enough.
LEMMA ConsensusFound ==
    ASSUME Blocks!TypeOK
    PROVE  \E n \in 0 .. 3 : Blocks!Enough(n) /\ \A m \in 0 .. n - 1 : ~Blocks!Enough(m)
  <1>1. IsFiniteSet(Blocks!Suitable)
    BY FS_Subset, LiteserverAssumption DEF Blocks!Suitable, Blocks!Within
  <1>2. Cardinality(Blocks!Suitable) \in Nat
    BY <1>1, FS_CardinalityType
  <1>3. Blocks!Enough(3)
    BY <1>2, SameCount DEF Blocks!Enough, Blocks!Suitable
  <1> HIDE DEF Blocks!Enough
  <1>4. CASE Blocks!Enough(0)
    BY <1>4
  <1>5. CASE ~Blocks!Enough(0) /\ Blocks!Enough(1)
    <2>1. \A m \in 0 .. 1 - 1 : m = 0
      OBVIOUS
    <2> QED BY <1>5, <2>1
  <1>6. CASE ~Blocks!Enough(0) /\ ~Blocks!Enough(1) /\ Blocks!Enough(2)
    <2>1. \A m \in 0 .. 2 - 1 : m = 0 \/ m = 1
      OBVIOUS
    <2> QED BY <1>6, <2>1
  <1>7. CASE ~Blocks!Enough(0) /\ ~Blocks!Enough(1) /\ ~Blocks!Enough(2)
    <2>1. \A m \in 0 .. 3 - 1 : m = 0 \/ m = 1 \/ m = 2
      OBVIOUS
    <2> QED BY <1>3, <1>7, <2>1
  <1> QED BY <1>4, <1>5, <1>6, <1>7

\* The consensus block of a round is a block some worker has reported: the
\* sums grow only where a worker stands.
LEMMA ConsensusIsReported ==
    ASSUME Blocks!TypeOK, Blocks!LastBlocks # {}
    PROVE  Blocks!ConsensusSeqno \in Blocks!LastBlocks
  <1> DEFINE n == CHOOSE n \in 0 .. 3 : Blocks!Enough(n) /\ \A m \in 0 .. n - 1 : ~Blocks!Enough(m)
  <1>1. n \in 0 .. 3 /\ Blocks!Enough(n) /\ \A m \in 0 .. n - 1 : ~Blocks!Enough(m)
    BY ConsensusFound
  <1>2. Blocks!ConsensusSeqno = Blocks!BestBlock - n
    BY DEF Blocks!ConsensusSeqno
  <1> HIDE DEF n
  <1>3. CASE n = 0
    BY <1>2, <1>3, BestIsReported DEF Blocks!Seqno
  <1>4. CASE n # 0
    <2>1. n - 1 \in 0 .. n - 1
      BY <1>1, <1>4
    <2>2. ~Blocks!Enough(n - 1)
      BY <1>1, <2>1
    <2>3. Blocks!Within(n) # Blocks!Within(n - 1)
      BY <1>1, <2>2 DEF Blocks!Enough
    <2>4. \A w \in Liteserver : last_block[w] \in Blocks!LastBlocks => last_block[w] \in Int
      BY BestIsReported DEF Blocks!Seqno
    <2>5. Blocks!BestBlock \in Int /\ n \in Int
      BY <1>1, BestIsReported DEF Blocks!Seqno
    <2>6. Blocks!Within(n - 1) \subseteq Blocks!Within(n)
      BY <2>4, <2>5 DEF Blocks!Within
    <2>7. PICK w \in Blocks!Within(n) : w \notin Blocks!Within(n - 1)
      BY <2>3, <2>6
    <2>8. last_block[w] \in Blocks!LastBlocks /\ last_block[w] = Blocks!BestBlock - n
      BY <2>4, <2>5, <2>7 DEF Blocks!Within
    <2> QED BY <1>2, <2>8
  <1> QED BY <1>3, <1>4

-----------------------------------------------------------------------------
\* At the start nobody has reported and every process runs.
LEMMA ServingInit == Blocks!Init => ServingInv
  BY DEF Blocks!Init, ServingInv, Blocks!TypeOK, Blocks!State, OwnBlock, AliveKnown

\* A round moves the consensus block to a block of the chain, if at all.
LEMMA RoundStep == ServingInv /\ Blocks!CheckWorking => ServingInv'
  <1> SUFFICES ASSUME ServingInv, Blocks!CheckWorking PROVE ServingInv'
    OBVIOUS
  <1> USE DEF ServingInv
  <1>1. Blocks!ConsensusSeqno \in Blocks!Seqno
    BY ConsensusIsReported, BestIsReported DEF Blocks!CheckWorking
  <1>2. consensus_block' \in Blocks!Seqno \cup {-1}
    BY <1>1 DEF Blocks!CheckWorking, Blocks!NextConsensus, Blocks!TypeOK
  <1>3. Blocks!TypeOK'
    <2>1. \A w \in Liteserver : Blocks!InStep(last_block[w], consensus_block') \in BOOLEAN
      BY DEF Blocks!InStep
    <2>2. is_sync' \in [Liteserver -> BOOLEAN]
      BY <2>1 DEF Blocks!CheckWorking
    <2> QED BY <1>2, <2>2 DEF Blocks!CheckWorking, Blocks!TypeOK
  <1>4. OwnBlock' /\ AliveKnown'
    BY DEF Blocks!CheckWorking, OwnBlock, AliveKnown
  <1> QED BY <1>3, <1>4

\* A report comes from the process that has run last.
LEMMA ReportStep ==
    ASSUME NEW w \in Liteserver, NEW b \in Blocks!Seqno
    PROVE  ServingInv /\ Blocks!Report(w, b) => ServingInv'
  <1> SUFFICES ASSUME ServingInv, Blocks!Report(w, b) PROVE ServingInv'
    OBVIOUS
  <1> USE DEF ServingInv
  <1>1. Blocks!TypeOK'
    BY DEF Blocks!Report, Blocks!TypeOK
  <1>2. OwnBlock' /\ AliveKnown'
    BY DEF Blocks!Report, OwnBlock, AliveKnown, Blocks!TypeOK
  <1> QED BY <1>1, <1>2

\* The steps of the supervision and of the environment.
LEMMA WorkerStep ==
    ASSUME NEW w \in Liteserver,
           Blocks!LookAt(w) \/ Blocks!Respawn(w) \/ Blocks!RespawnFails(w) \/ Blocks!Die(w)
    PROVE  ServingInv => ServingInv'
  <1> SUFFICES ASSUME ServingInv PROVE ServingInv'
    OBVIOUS
  <1> USE DEF ServingInv, Blocks!TypeOK, Blocks!State, OwnBlock, AliveKnown
  <1>1. CASE Blocks!LookAt(w)
    BY <1>1 DEF Blocks!LookAt
  <1>2. CASE Blocks!Respawn(w)
    BY <1>2 DEF Blocks!Respawn, Blocks!ForgetBlock
  <1>3. CASE Blocks!RespawnFails(w)
    BY <1>3 DEF Blocks!RespawnFails
  <1>4. CASE Blocks!Die(w)
    BY <1>4 DEF Blocks!Die
  <1> QED BY <1>1, <1>2, <1>3, <1>4

\* The chain's growth moves the blocks, and makes no report.
LEMMA GrowStep == ServingInv /\ Blocks!Grow => ServingInv'
  <1> SUFFICES ASSUME ServingInv, Blocks!Grow PROVE ServingInv'
    OBVIOUS
  <1>1. \A b \in Blocks!Seqno \cup {-1} :
          /\ Blocks!Older(b) \in Blocks!Seqno \cup {-1}
          /\ Blocks!Older(b) = -1 <=> b = -1
    BY SeqnoAssumption DEF Blocks!Older, Blocks!Seqno
  <1>2. Blocks!TypeOK'
    BY <1>1 DEF Blocks!Grow, ServingInv, Blocks!TypeOK
  <1>3. OwnBlock' /\ AliveKnown'
    BY <1>1 DEF Blocks!Grow, ServingInv, Blocks!TypeOK, OwnBlock, AliveKnown
  <1> QED BY <1>2, <1>3 DEF ServingInv

\* ServingInv holds in every reachable state.
LEMMA ServingInvariance == Blocks!Spec => []ServingInv
  <1>1. ServingInv /\ [Blocks!Next]_(Blocks!vars) => ServingInv'
    <2> SUFFICES ASSUME ServingInv, [Blocks!Next]_(Blocks!vars) PROVE ServingInv'
      OBVIOUS
    <2>1. CASE Blocks!CheckWorking
      BY <2>1, RoundStep
    <2>2. CASE Blocks!Grow
      BY <2>2, GrowStep
    <2>3. CASE \E w \in Liteserver : \E b \in Blocks!Seqno : Blocks!Report(w, b)
      BY <2>3, ReportStep
    <2>4. CASE \E w \in Liteserver : Blocks!LookAt(w) \/ Blocks!Respawn(w) \/ Blocks!RespawnFails(w) \/ Blocks!Die(w)
      BY <2>4, WorkerStep
    <2>5. CASE UNCHANGED Blocks!vars
      BY <2>5 DEF ServingInv, Blocks!vars, Blocks!TypeOK, OwnBlock, AliveKnown
    <2> QED BY <2>1, <2>2, <2>3, <2>4, <2>5 DEF Blocks!Next
  <1> QED BY ServingInit, <1>1, PTL DEF Blocks!Spec

\* Every variable keeps its type; in particular the consensus block is always
\* the seqno of a block of the chain.
THEOREM ServingTyping == Blocks!Spec => []Blocks!TypeOK
  <1>1. ServingInv => Blocks!TypeOK
    BY DEF ServingInv
  <1> QED BY ServingInvariance, <1>1, PTL

\* A worker gets and stays in service only by a block of its present process
\* that is not behind the consensus block, in every interleaving of reports,
\* late ones included, rounds, deaths and respawns, completed or not.
THEOREM SelectionIsCurrent == Blocks!Spec => SelectableIsCurrent
  <1> DEFINE Current == \A w \in Liteserver :
               Blocks!Selectable(w)' /\ (~Blocks!Selectable(w) \/ consensus_block' > consensus_block)
                 => reported'[w] /\ last_block'[w] >= consensus_block'
  <1>1. ServingInv /\ Blocks!Next => Current
    <2> SUFFICES ASSUME ServingInv, Blocks!Next, NEW w \in Liteserver, Blocks!Selectable(w)',
                        ~Blocks!Selectable(w) \/ consensus_block' > consensus_block
                 PROVE  reported'[w] /\ last_block'[w] >= consensus_block'
      OBVIOUS
    <2> USE DEF ServingInv, Blocks!Selectable
    <2>1. consensus_block \in Int /\ ~(consensus_block > consensus_block)
      BY SeqnoAssumption DEF Blocks!TypeOK, Blocks!Seqno
    <2>2. CASE Blocks!CheckWorking
      <3>1. last_block[w] >= consensus_block' /\ is_alive[w]
            /\ last_block' = last_block /\ reported' = reported
        BY <2>2 DEF Blocks!CheckWorking, Blocks!InStep
      <3>2. Blocks!ConsensusSeqno \in Blocks!Seqno
        BY <2>2, ConsensusIsReported, BestIsReported DEF Blocks!CheckWorking
      <3>3. consensus_block' \in Int /\ consensus_block' >= 0
        BY <2>2, <3>2, SeqnoAssumption
           DEF Blocks!CheckWorking, Blocks!NextConsensus, Blocks!TypeOK, Blocks!Seqno
      <3>4. last_block[w] # -1
        BY <3>1, <3>3 DEF Blocks!TypeOK
      <3> QED BY <3>1, <3>4 DEF OwnBlock
    <2>3. CASE Blocks!Grow
      BY <2>1, <2>3 DEF Blocks!Grow, Blocks!Older
    <2>4. CASE \E v \in Liteserver : \E b \in Blocks!Seqno : Blocks!Report(v, b)
      BY <2>1, <2>4 DEF Blocks!Report
    <2>5. CASE \E v \in Liteserver : Blocks!LookAt(v)
      BY <2>1, <2>5 DEF Blocks!LookAt, Blocks!TypeOK, AliveKnown
    <2>6. CASE \E v \in Liteserver : Blocks!Respawn(v) \/ Blocks!RespawnFails(v)
      BY <2>1, <2>6 DEF Blocks!Respawn, Blocks!RespawnFails, Blocks!TypeOK
    <2>7. CASE \E v \in Liteserver : Blocks!Die(v)
      BY <2>1, <2>7 DEF Blocks!Die
    <2> QED BY <2>2, <2>3, <2>4, <2>5, <2>6, <2>7 DEF Blocks!Next
  <1>2. ServingInv /\ [Blocks!Next]_(Blocks!vars) => [Current]_(Blocks!vars)
    BY <1>1
  <1> QED BY ServingInvariance, <1>2, PTL
          DEF Blocks!Spec, SelectableIsCurrent, Blocks!SelectableIsCurrent

\* A round that moves the consensus block, while no worker has fallen behind
\* the newest four blocks, moves it to a block 60% of the reporters know: the
\* suitable workers then are all the reporters.
THEOREM RaisedByQuorum == Blocks!Spec => QuorumKnows
  <1> DEFINE Moved == consensus_block' > consensus_block
             Close == \A b \in Blocks!LastBlocks : b >= Blocks!BestBlock - 3
             Known == 10 * Blocks!Cardinality({w \in Liteserver : last_block[w] >= consensus_block'})
                        >= 6 * Blocks!Cardinality({w \in Liteserver : last_block[w] # -1})
  <1>1. ServingInv /\ Blocks!Next => (Moved /\ Close => Known)
    <2> SUFFICES ASSUME ServingInv, Blocks!Next, Moved, Close PROVE Known
      OBVIOUS
    <2>0. consensus_block \in Int /\ ~(consensus_block > consensus_block)
      BY SeqnoAssumption DEF ServingInv, Blocks!TypeOK, Blocks!Seqno
    <2>1. Blocks!CheckWorking
      BY <2>0 DEF Blocks!Next, Blocks!Grow, Blocks!Older, Blocks!Report, Blocks!LookAt,
                  Blocks!Respawn, Blocks!RespawnFails, Blocks!Die
    <2>2. Blocks!TypeOK /\ Blocks!LastBlocks # {}
      BY <2>1 DEF ServingInv, Blocks!CheckWorking
    <2> DEFINE n == CHOOSE n \in 0 .. 3 : Blocks!Enough(n) /\ \A m \in 0 .. n - 1 : ~Blocks!Enough(m)
    <2>3. n \in 0 .. 3 /\ Blocks!Enough(n)
      BY <2>2, ConsensusFound
    <2>4. consensus_block' = Blocks!ConsensusSeqno
      BY <2>0, <2>1 DEF Blocks!CheckWorking, Blocks!NextConsensus
    <2>5. consensus_block' = Blocks!BestBlock - n
      BY <2>4 DEF Blocks!ConsensusSeqno
    <2>6. consensus_block' \in Blocks!Seqno
      BY <2>2, <2>4, ConsensusIsReported, BestIsReported
    <2> HIDE DEF n
    <2>7. \A w \in Liteserver : last_block[w] \in Blocks!Seqno \cup {-1}
      BY <2>2 DEF Blocks!TypeOK
    <2>8. \A w \in Liteserver : last_block[w] \in Blocks!LastBlocks <=> last_block[w] # -1
      BY DEF Blocks!LastBlocks
    <2>9. Blocks!Suitable = {w \in Liteserver : last_block[w] # -1}
      BY <2>8 DEF Blocks!Suitable, Blocks!Within
    <2>10. Blocks!Within(n) = {w \in Liteserver : last_block[w] >= consensus_block'}
      BY <2>5, <2>6, <2>7, <2>8 DEF Blocks!Within, Blocks!Seqno
    <2> QED BY <2>3, <2>9, <2>10 DEF Blocks!Enough
  <1>2. ServingInv /\ [Blocks!Next]_(Blocks!vars) => [Moved /\ Close => Known]_(Blocks!vars)
    BY <1>1
  <1> QED BY ServingInvariance, <1>2, PTL DEF Blocks!Spec, QuorumKnows, Blocks!QuorumKnows
=============================================================================
