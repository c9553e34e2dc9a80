--------------------------- MODULE IpfsPinsProofs ---------------------------
(***************************************************************************)
(* Proofs about IpfsPins, for any instances, NFTs, contents and numbers of *)
(* tasks and changes.                                                      *)
(*                                                                         *)
(* Nothing is pinned but what a task has seen on the chain, and what a     *)
(* task has seen its NFT names or has named (JobInv).  What a task is      *)
(* about to unpin differs from the content it has seen last; if that read  *)
(* was not outdated, the NFT has left behind what is unpinned.             *)
(***************************************************************************)
EXTENDS IpfsPins, TLAPS

\* What the reads of NFT n return it names or has named.
NftInv(n) ==
    /\ cached[n] \subseteq Names(n)
    /\ stored[n] \subseteq Names(n)
    /\ n \in confirmed => chain[n] \in Cid

\* The task may unpin what it holds as the old content.
Left(x) ==
    x.old # None =>
        /\ x.old \in Names(x.nft)
        /\ x.nft \in outdated \/ x.old \in former[x.nft]

\* What task x knows of the chain at its place.
JobInv(x) ==
    /\ x.pc \in Uploading \cup Confirming \cup {"created", "checking"} => x.cid \in Cid
    /\ x.pc \in {"adding", "created", "polling"} => x.old \in Names(x.nft) \cup {None}
    /\ x.pc \in {"created", "polling"} => x.old # x.cid
    /\ x.pc \in {"repinning", "queued"} \cup (Syncing \ {"reading"}) => x.cid \in Names(x.nft)
    /\ x.pc \in {"checking", "loading"} => x.cid = chain[x.nft] \/ x.nft \in outdated
    /\ x.pc \in {"queued", "unpinning", "unlinking", "releasing"} => Left(x)

\* The inductive invariant.
IInv ==
    /\ TypeOK
    /\ \A n \in Nft : NftInv(n)
    /\ \A j \in Job : JobInv(job[j])
    /\ PinnedIsNamed
    /\ ConfirmedStaysPinned

-----------------------------------------------------------------------------
\* A task that is under way has its NFT and its contents.
LEMMA JobTyped ==
    ASSUME TypeOK, NEW j \in Job, job[j].pc # "idle"
    PROVE  /\ job[j].nft \in Nft /\ job[j].at \in Instance
           /\ job[j].old \in Content /\ job[j].cid \in Content \cup {Gone}
           /\ job[j] # NoJob
  BY DEF TypeOK, Jobs, NoJob

\* A task that moves on stays a task.
LEMMA GotoTyped ==
    ASSUME TypeOK, NEW j \in Job, job[j].pc # "idle",
           NEW p \in Uploading \cup Confirming \cup Syncing \cup {"created"}, Goto(j, p)
    PROVE  /\ job' \in [Job -> Jobs]
           /\ job'[j] = [job[j] EXCEPT !.pc = p]
           /\ \A k \in Job \ {j} : job'[k] = job[k]
  <1>1. job[j] \in Jobs \ {NoJob}
    BY JobTyped DEF TypeOK
  <1>2. [job[j] EXCEPT !.pc = p] \in Jobs
    BY <1>1 DEF Jobs, NoJob
  <1> QED
    BY <1>2 DEF Goto, TypeOK

\* A task that ends leaves its place empty.
LEMMA EndTyped ==
    ASSUME TypeOK, NEW j \in Job, End(j)
    PROVE  /\ job' \in [Job -> Jobs]
           /\ job'[j] = NoJob
           /\ \A k \in Job \ {j} : job'[k] = job[k]
  BY DEF End, TypeOK, Jobs

\* The types survive every step.
LEMMA TypeStep ==
    ASSUME TypeOK, [Next]_vars
    PROVE  TypeOK'
  <1> USE IpfsPinsAssumption DEF Uploading, Confirming, Syncing
  <1>1. ASSUME NEW j \in Job, NEW i \in Instance, NEW n \in Nft, NEW c \in Cid,
               CreateContent(j, i, n, c)
        PROVE  TypeOK'
    <2>1. PICK old \in cached[n] \ {Gone} :
              job' = [job EXCEPT ![j] = [pc |-> "adding", at |-> i, nft |-> n, old |-> old, cid |-> c]]
      BY <1>1 DEF CreateContent
    <2>2. [pc |-> "adding", at |-> i, nft |-> n, old |-> old, cid |-> c] \in Jobs
      BY DEF Jobs, TypeOK, Content
    <2> QED
      BY <1>1, <2>1, <2>2 DEF CreateContent, TypeOK, history
  <1>2. ASSUME NEW j \in Job, NEW i \in Instance, NEW n \in Nft, SyncNftData(j, i, n)
        PROVE  TypeOK'
    <2>1. [NoJob EXCEPT !.pc = "reading", !.at = i, !.nft = n] \in Jobs
      BY DEF Jobs, NoJob, Content
    <2> QED
      BY <1>2, <2>1 DEF SyncNftData, TypeOK, history
  <1>3. ASSUME NEW j \in Job, Added(j) PROVE TypeOK'
    BY <1>3, GotoTyped DEF Added, TypeOK, history
  <1>4. ASSUME NEW j \in Job, Repin(j) PROVE TypeOK'
    BY <1>4, EndTyped DEF Repin, TypeOK, history, Pin
  <1>5. ASSUME NEW j \in Job, Confirm(j) PROVE TypeOK'
    BY <1>5, EndTyped, GotoTyped DEF Confirm, TypeOK, history
  <1>6. ASSUME NEW j \in Job, Poll(j) PROVE TypeOK'
    <2>1. job' \in [Job -> Jobs]
      BY <1>6, GotoTyped DEF Poll
    <2>2. outdated' \subseteq Nft
      BY <1>6, JobTyped DEF Poll, TypeOK, Uses
    <2> QED
      BY <1>6, <2>1, <2>2 DEF Poll, TypeOK
  <1>7. ASSUME NEW j \in Job, PinConfirmed(j) PROVE TypeOK'
    <2>1. job' \in [Job -> Jobs]
      BY <1>7, GotoTyped, EndTyped DEF PinConfirmed
    <2>2. job[j].nft \in Nft
      BY <1>7, JobTyped DEF PinConfirmed
    <2>3. /\ pins' \in [Cid -> Nft \cup {None, Anonymous}]
          /\ owners' \in [Cid -> SUBSET Nft]
      BY <1>7, <2>2 DEF PinConfirmed, TypeOK, Pin
    <2>4. /\ confirmed' \subseteq Nft
          /\ UNCHANGED <<chain, cached, stored, former, outdated, changes>>
      BY <1>7, <2>2 DEF PinConfirmed, TypeOK
    <2> QED
      BY <2>1, <2>3, <2>4 DEF TypeOK
  <1>8. ASSUME NEW j \in Job, UnpinOld(j) PROVE TypeOK'
    BY <1>8, EndTyped DEF UnpinOld, TypeOK, history, Unpin
  <1>9. ASSUME NEW j \in Job, ReadChain(j) PROVE TypeOK'
    <2>1. PICK seen \in cached[job[j].nft] :
              /\ Uses(job[j].nft, seen)
              /\ job' = [job EXCEPT ![j].cid = seen,
                                    ![j].pc = IF seen \in Cid THEN "checking" ELSE "loading"]
      BY <1>9 DEF ReadChain
    <2>2. job[j] \in Jobs \ {NoJob} /\ job[j].nft \in Nft /\ seen \in Content \cup {Gone}
      BY <1>9, JobTyped DEF ReadChain, TypeOK
    <2>3. [job[j] EXCEPT !.cid = seen, !.pc = IF seen \in Cid THEN "checking" ELSE "loading"] \in Jobs
      BY <2>2 DEF Jobs, NoJob
    <2>4. job' \in [Job -> Jobs]
      BY <2>1, <2>3 DEF TypeOK
    <2>5. outdated' \subseteq Nft
      BY <2>1, <2>2 DEF TypeOK, Uses
    <2> QED
      BY <1>9, <2>4, <2>5 DEF ReadChain, TypeOK
  <1>10. ASSUME NEW j \in Job, CheckPin(j) PROVE TypeOK'
    <2>1. CASE Goto(j, "loading")
      BY <1>10, <2>1, GotoTyped DEF CheckPin, TypeOK, history
    <2>2. ASSUME NEW k \in Job, job[k] = NoJob,
                 job' = [job EXCEPT ![j].pc = "loading",
                                    ![k] = [job[j] EXCEPT !.pc = "created", !.old = None]]
          PROVE  TypeOK'
      <3>1. job[j] \in Jobs \ {NoJob}
        BY <1>10, JobTyped DEF CheckPin, TypeOK
      <3>2. /\ [job[j] EXCEPT !.pc = "loading"] \in Jobs
            /\ [job[j] EXCEPT !.pc = "created", !.old = None] \in Jobs
        BY <3>1 DEF Jobs, NoJob, Content
      <3> QED
        BY <1>10, <2>2, <3>2 DEF CheckPin, TypeOK, history
    <2> QED
      BY <1>10, <2>1, <2>2 DEF CheckPin
  <1>11. ASSUME NEW j \in Job, LoadDb(j) PROVE TypeOK'
    <2>1. PICK prev \in stored[job[j].nft] :
           \/ /\ prev \in Cid \ {job[j].cid} /\ job[j].cid # None
              /\ job' = [job EXCEPT ![j].old = prev, ![j].pc = "unlinking"]
           \/ /\ prev = None /\ job[j].cid # None
              /\ Goto(j, "storing")
           \/ /\ prev = job[j].cid \/ job[j].cid = None
              /\ End(j)
      BY <1>11 DEF LoadDb
    <2>2. CASE Goto(j, "storing") \/ End(j)
      BY <1>11, <2>2, GotoTyped, EndTyped DEF LoadDb, TypeOK, history
    <2>3. CASE prev \in Cid /\ job' = [job EXCEPT ![j].old = prev, ![j].pc = "unlinking"]
      <3>1. job[j] \in Jobs \ {NoJob}
        BY <1>11, JobTyped DEF LoadDb, TypeOK
      <3>2. [job[j] EXCEPT !.old = prev, !.pc = "unlinking"] \in Jobs
        BY <2>3, <3>1 DEF Jobs, NoJob, Content
      <3> QED
        BY <1>11, <2>3, <3>2 DEF LoadDb, TypeOK, history
    <2> QED
      BY <2>1, <2>2, <2>3
  <1>12. ASSUME NEW j \in Job, CheckOldPin(j) PROVE TypeOK'
    BY <1>12, GotoTyped DEF CheckOldPin, TypeOK, history
  <1>13. ASSUME NEW j \in Job, UnpinLinked(j) PROVE TypeOK'
    BY <1>13, GotoTyped DEF UnpinLinked, TypeOK, history, Unpin
  <1>14. ASSUME NEW j \in Job, StoreDb(j) PROVE TypeOK'
    BY <1>14, EndTyped, JobTyped DEF StoreDb, TypeOK, history, Stores
  <1>15. ASSUME NEW j \in Job, Abort(j) PROVE TypeOK'
    BY <1>15, EndTyped DEF Abort, TypeOK, history
  <1>16. ASSUME NEW n \in Nft, NEW c \in Content \cup {Gone}, Change(n, c) PROVE TypeOK'
    BY <1>16 DEF Change, TypeOK
  <1>17. ASSUME NEW n \in Nft, Expire(n) \/ NftUpdate(n) PROVE TypeOK'
    BY <1>17 DEF Expire, NftUpdate, TypeOK, history
  <1>18. CASE UNCHANGED vars
    BY <1>18 DEF vars, history, TypeOK
  <1> QED
    BY <1>1, <1>2, <1>3, <1>4, <1>5, <1>6, <1>7, <1>8, <1>9, <1>10, <1>11, <1>12, <1>13,
       <1>14, <1>15, <1>16, <1>17, <1>18 DEF Next, Request, JobStep, Surroundings

-----------------------------------------------------------------------------
\* What holds of a task and of an NFT keeps holding while the chain grows on.

Grows ==
    /\ \A n \in Nft : former[n] \subseteq former'[n] /\ Names(n) \subseteq Names(n)'
    /\ outdated \subseteq outdated'

LEMMA JobStays ==
    ASSUME TypeOK, Grows, NEW j \in Job, JobInv(job[j]), job'[j] = job[j],
           job[j].pc \in {"checking", "loading"} =>
               chain'[job[j].nft] = chain[job[j].nft] \/ job[j].nft \in outdated'
    PROVE  JobInv(job[j])'
  <1>1. CASE job[j].pc = "idle"
    BY <1>1 DEF JobInv, Uploading, Confirming, Syncing
  <1>2. CASE job[j].pc # "idle"
    <2>1. job[j].nft \in Nft
      BY <1>2, JobTyped
    <2>2. job[j].pc \in {"queued", "unpinning", "unlinking", "releasing"} => Left(job[j])'
      BY <2>1 DEF JobInv, Left, Grows
    <2> QED
      BY <2>1, <2>2 DEF JobInv, Grows
  <1> QED
    BY <1>1, <1>2

\* A step that leaves the chain and the tasks' knowledge alone.
LEMMA NothingGrows ==
    ASSUME UNCHANGED <<chain, former>>, outdated \subseteq outdated'
    PROVE  Grows
  BY DEF Grows, Names

\* A step that leaves chain and pins alone keeps what is said of pins.
LEMMA PinsStay ==
    ASSUME PinnedIsNamed, ConfirmedStaysPinned, UNCHANGED <<chain, former, pins, confirmed>>,
           outdated \subseteq outdated'
    PROVE  PinnedIsNamed' /\ ConfirmedStaysPinned'
  BY DEF PinnedIsNamed, ConfirmedStaysPinned, Names

\* Unpinning what its NFT has left behind harms nobody.
LEMMA UnpinStep ==
    ASSUME IInv, NEW j \in Job, job[j].pc \in {"unpinning", "releasing"}, Unpin(job[j].old),
           UNCHANGED <<chain, former, confirmed, outdated>>
    PROVE  PinnedIsNamed' /\ ConfirmedStaysPinned'
  <1>1. JobInv(job[j]) /\ TypeOK /\ job[j].nft \in Nft
    BY JobTyped DEF IInv
  <1>2. Left(job[j])
    BY <1>1 DEF JobInv
  <1>3. PinnedIsNamed'
    BY IpfsPinsAssumption, <1>1 DEF IInv, PinnedIsNamed, Unpin, Names, TypeOK
  <1>4. ConfirmedStaysPinned'
    <2> SUFFICES ASSUME NEW n \in confirmed \ outdated, chain[n] \notin former[n],
                        \A m \in Nft \ {n} : chain[n] \notin Names(m)
                 PROVE  pins'[chain[n]] # None
      BY DEF ConfirmedStaysPinned, Names
    <2>1. n \in Nft /\ chain[n] \in Cid /\ pins[chain[n]] # None
      BY <1>1 DEF IInv, NftInv, ConfirmedStaysPinned, TypeOK
    <2>2. chain[n] # job[j].old
      BY <1>1, <1>2, <2>1, IpfsPinsAssumption DEF Left
    <2> QED
      BY <1>1, <2>1, <2>2 DEF Unpin, TypeOK
  <1> QED
    BY <1>3, <1>4

\* A step of task j that leaves the chain alone: the others know what they knew.
LEMMA OthersStay ==
    ASSUME IInv, NEW j \in Job, UNCHANGED <<chain, former>>, outdated \subseteq outdated',
           \A k \in Job \ {j} : job'[k] = job[k],
           JobInv(job[j])'
    PROVE  \A k \in Job : JobInv(job[k])'
  <1>1. Grows
    BY NothingGrows
  <1>2. ASSUME NEW k \in Job \ {j} PROVE JobInv(job[k])'
    <2>1. TypeOK /\ JobInv(job[k]) /\ job'[k] = job[k]
      BY DEF IInv
    <2> QED
      BY <1>1, <2>1, JobStays
  <1> QED
    BY <1>2

\* An empty place knows nothing.
LEMMA IdleKnows ==
    ASSUME NEW j \in Job, job'[j] = NoJob
    PROVE  JobInv(job[j])'
  BY DEF JobInv, NoJob, Uploading, Confirming, Syncing

\* A task ends.
LEMMA EndStep ==
    ASSUME IInv, NEW j \in Job, End(j), UNCHANGED <<chain, former>>, outdated \subseteq outdated'
    PROVE  \A k \in Job : JobInv(job[k])'
  BY EndTyped, IdleKnows, OthersStay DEF IInv

\* The reads of the NFTs are not touched.
LEMMA NftsStay ==
    ASSUME IInv, UNCHANGED <<chain, cached, stored, former>>, confirmed' = confirmed
    PROVE  \A n \in Nft : NftInv(n)'
  BY DEF IInv, NftInv, Names

-----------------------------------------------------------------------------
\* What is known and what is pinned, action by action.

LEMMA CreateContentStep ==
    ASSUME IInv, NEW j \in Job, NEW i \in Instance, NEW n \in Nft, NEW c \in Cid,
           CreateContent(j, i, n, c)
    PROVE  \A k \in Job : JobInv(job[k])'
  <1>1. PICK old \in cached[n] :
            job' = [job EXCEPT ![j] = [pc |-> "adding", at |-> i, nft |-> n, old |-> old, cid |-> c]]
    BY DEF CreateContent
  <1>2. /\ job'[j] = [pc |-> "adding", at |-> i, nft |-> n, old |-> old, cid |-> c]
        /\ \A k \in Job \ {j} : job'[k] = job[k]
    BY <1>1 DEF IInv, TypeOK
  <1>3. old \in Names(n)' /\ UNCHANGED <<chain, former, outdated>>
    BY DEF IInv, NftInv, CreateContent, history, Names
  <1>4. JobInv(job[j])'
    BY <1>2, <1>3 DEF JobInv, Syncing
  <1> QED
    BY <1>2, <1>3, <1>4, OthersStay

LEMMA AddedStep ==
    ASSUME IInv, NEW j \in Job, Added(j)
    PROVE  \A k \in Job : JobInv(job[k])'
  <1> DEFINE p == IF job[j].old = job[j].cid THEN "repinning" ELSE "created"
  <1>1. job[j].pc = "adding" /\ Goto(j, p) /\ UNCHANGED <<chain, former, outdated>>
    BY DEF Added, history
  <1>2. job'[j] = [job[j] EXCEPT !.pc = p] /\ \A k \in Job \ {j} : job'[k] = job[k]
    BY <1>1, GotoTyped DEF IInv, Uploading
  <1>3. JobInv(job[j]) /\ TypeOK /\ job[j] \in Jobs
    BY DEF IInv, TypeOK
  <1>4. /\ job'[j].pc = p /\ job'[j].nft = job[j].nft
        /\ job'[j].old = job[j].old /\ job'[j].cid = job[j].cid
    BY <1>2, <1>3 DEF Jobs, NoJob
  <1>5. job[j].cid \in Cid /\ (job[j].old # None => job[j].old \in Names(job[j].nft))
    BY <1>1, <1>3 DEF JobInv, Uploading
  <1>6. JobInv(job[j])'
    BY <1>1, <1>4, <1>5, IpfsPinsAssumption DEF JobInv, Names, Syncing
  <1> QED
    BY <1>1, <1>2, <1>6, OthersStay

LEMMA ConfirmStep ==
    ASSUME IInv, NEW j \in Job, Confirm(j)
    PROVE  \A k \in Job : JobInv(job[k])'
  <1>1. job[j].pc = "created" /\ UNCHANGED <<chain, former, outdated>>
    BY DEF Confirm, history
  <1>2. CASE End(j)
    BY <1>1, <1>2, EndStep
  <1>3. CASE Goto(j, "polling")
    <2>1. job'[j] = [job[j] EXCEPT !.pc = "polling"] /\ \A k \in Job \ {j} : job'[k] = job[k]
      BY <1>1, <1>3, GotoTyped DEF IInv, Confirming
    <2>2. JobInv(job[j]) /\ job[j] \in Jobs
      BY DEF IInv, TypeOK
    <2>3. JobInv(job[j])'
      BY <1>1, <2>1, <2>2 DEF JobInv, Jobs, NoJob, Confirming, Names, Syncing
    <2> QED
      BY <1>1, <2>1, <2>3, OthersStay
  <1> QED
    BY <1>2, <1>3 DEF Confirm

LEMMA PollStep ==
    ASSUME IInv, NEW j \in Job, Poll(j)
    PROVE  (\A k \in Job : JobInv(job[k])') /\ outdated \subseteq outdated'
  <1>1. PICK seen \in cached[job[j].nft] : seen = job[j].cid /\ Uses(job[j].nft, seen)
    BY DEF Poll, Confirms
  <1>2. job[j].pc = "polling" /\ Goto(j, "queued") /\ UNCHANGED <<chain, former>>
    BY DEF Poll
  <1>3. JobInv(job[j]) /\ job[j] \in Jobs /\ TypeOK /\ job[j].nft \in Nft
    BY <1>2, JobTyped DEF IInv, TypeOK
  <1>4. job'[j] = [job[j] EXCEPT !.pc = "queued"] /\ \A k \in Job \ {j} : job'[k] = job[k]
    BY <1>2, <1>3, GotoTyped DEF Confirming
  <1>5. /\ job'[j].pc = "queued" /\ job'[j].nft = job[j].nft
        /\ job'[j].old = job[j].old /\ job'[j].cid = job[j].cid
    BY <1>3, <1>4 DEF Jobs, NoJob
  <1>6. job[j].cid \in Cid /\ job[j].cid \in Names(job[j].nft)
    BY <1>1, <1>2, <1>3 DEF JobInv, Confirming, IInv, NftInv
  <1>7. outdated \subseteq outdated' /\ (job[j].cid = chain[job[j].nft] \/ job[j].nft \in outdated')
    BY <1>1 DEF Uses
  <1>8. Left(job[j])'
    <2>1. job[j].old # job[j].cid /\ (job[j].old # None => job[j].old \in Names(job[j].nft))
      BY <1>2, <1>3 DEF JobInv
    <2> QED
      BY <1>2, <1>5, <1>7, <2>1 DEF Left, Names
  <1>9. JobInv(job[j])'
    BY <1>2, <1>5, <1>6, <1>8 DEF JobInv, Names
  <1> QED
    BY <1>2, <1>4, <1>7, <1>9, OthersStay

LEMMA PinConfirmedStep ==
    ASSUME IInv, NEW j \in Job, PinConfirmed(j)
    PROVE  /\ \A k \in Job : JobInv(job[k])'
           /\ \A n \in Nft : NftInv(n)'
           /\ PinnedIsNamed' /\ ConfirmedStaysPinned'
  <1>1. /\ job[j].pc = "queued" /\ Pin(job[j].cid, job[j].nft)
        /\ UNCHANGED <<chain, cached, stored, former, outdated>>
        /\ confirmed' = IF chain[job[j].nft] = job[j].cid
                        THEN confirmed \cup {job[j].nft} ELSE confirmed
    BY DEF PinConfirmed
  <1>2. JobInv(job[j]) /\ job[j] \in Jobs /\ TypeOK /\ job[j].nft \in Nft
    BY <1>1, JobTyped DEF IInv, TypeOK
  <1>3. job[j].cid \in Cid /\ job[j].cid \in Names(job[j].nft) /\ Left(job[j])
    BY <1>1, <1>2 DEF JobInv, Confirming
  <1>4. \A k \in Job : JobInv(job[k])'
    <2>1. CASE End(j)
      BY <1>1, <2>1, EndStep
    <2>2. CASE Goto(j, "unpinning")
      <3>1. /\ job'[j] = [job[j] EXCEPT !.pc = "unpinning"]
            /\ \A k \in Job \ {j} : job'[k] = job[k]
        BY <1>1, <1>2, <2>2, GotoTyped DEF Confirming
      <3>2. /\ job'[j].pc = "unpinning" /\ job'[j].nft = job[j].nft
            /\ job'[j].old = job[j].old /\ job'[j].cid = job[j].cid
        BY <1>2, <3>1 DEF Jobs, NoJob
      <3>3. JobInv(job[j])'
        BY <1>1, <1>3, <3>2 DEF JobInv, Left, Names
      <3> QED
        BY <1>1, <3>1, <3>3, OthersStay
    <2> QED
      BY <2>1, <2>2 DEF PinConfirmed
  <1>5. \A n \in Nft : NftInv(n)'
    <2>1. ASSUME NEW n \in Nft, n \in confirmed' PROVE chain'[n] \in Cid
      <3>1. n \in confirmed \/ (n = job[j].nft /\ chain[n] = job[j].cid)
        BY <1>1, <2>1
      <3> QED
        BY <1>1, <1>3, <3>1 DEF IInv, NftInv
    <2> QED
      BY <1>1, <2>1 DEF IInv, NftInv, Names
  <1>6. pins' = [pins EXCEPT ![job[j].cid] = job[j].nft] /\ job[j].nft \notin {None, Anonymous}
    BY <1>1, <1>2, IpfsPinsAssumption DEF Pin
  <1>7. PinnedIsNamed'
    BY <1>1, <1>2, <1>3, <1>6 DEF IInv, PinnedIsNamed, Names, TypeOK
  <1>8. ConfirmedStaysPinned'
    BY <1>1, <1>2, <1>3, <1>6 DEF IInv, ConfirmedStaysPinned, NftInv, Names, TypeOK
  <1> QED
    BY <1>4, <1>5, <1>7, <1>8

LEMMA RepinStep ==
    ASSUME IInv, NEW j \in Job, Repin(j)
    PROVE  /\ \A k \in Job : JobInv(job[k])'
           /\ PinnedIsNamed' /\ ConfirmedStaysPinned'
  <1>1. /\ job[j].pc = "repinning" /\ Pin(job[j].cid, Anonymous) /\ End(j)
        /\ UNCHANGED <<chain, former, confirmed, outdated>>
    BY DEF Repin, history
  <1>2. JobInv(job[j]) /\ TypeOK /\ job[j].nft \in Nft
    BY <1>1, JobTyped DEF IInv
  <1>3. job[j].cid \in Cid /\ job[j].cid \in Names(job[j].nft)
    BY <1>1, <1>2 DEF JobInv, Uploading
  <1>4. pins' = [pins EXCEPT ![job[j].cid] = Anonymous] /\ Anonymous \notin Nft \cup {None}
    BY <1>1, IpfsPinsAssumption DEF Pin
  <1>5. PinnedIsNamed'
    BY <1>1, <1>2, <1>3, <1>4 DEF IInv, PinnedIsNamed, Names, TypeOK
  <1>6. ConfirmedStaysPinned'
    BY <1>1, <1>2, <1>3, <1>4 DEF IInv, ConfirmedStaysPinned, NftInv, Names, TypeOK
  <1> QED
    BY <1>1, <1>5, <1>6, EndStep

LEMMA SyncNftDataStep ==
    ASSUME IInv, NEW j \in Job, NEW i \in Instance, NEW n \in Nft, SyncNftData(j, i, n)
    PROVE  \A k \in Job : JobInv(job[k])'
  <1>1. job' = [job EXCEPT ![j] = [NoJob EXCEPT !.pc = "reading", !.at = i, !.nft = n]]
    BY DEF SyncNftData
  <1>2. job'[j].pc = "reading" /\ \A k \in Job \ {j} : job'[k] = job[k]
    BY <1>1 DEF IInv, TypeOK, NoJob
  <1>3. JobInv(job[j])'
    BY <1>2 DEF JobInv, Uploading, Confirming, Syncing
  <1> QED
    BY <1>2, <1>3, OthersStay DEF SyncNftData, history

LEMMA ReadChainStep ==
    ASSUME IInv, NEW j \in Job, ReadChain(j)
    PROVE  (\A k \in Job : JobInv(job[k])') /\ outdated \subseteq outdated'
  <1>1. PICK seen \in cached[job[j].nft] :
            /\ Uses(job[j].nft, seen)
            /\ job' = [job EXCEPT ![j].cid = seen,
                                  ![j].pc = IF seen \in Cid THEN "checking" ELSE "loading"]
    BY DEF ReadChain
  <1>2. job[j].pc = "reading" /\ UNCHANGED <<chain, former>>
    BY DEF ReadChain
  <1>3. job[j] \in Jobs /\ seen \in Names(job[j].nft)
    BY <1>2, JobTyped DEF IInv, TypeOK, NftInv
  <1>4. /\ job'[j].pc = IF seen \in Cid THEN "checking" ELSE "loading"
        /\ job'[j].nft = job[j].nft /\ job'[j].cid = seen
        /\ \A k \in Job \ {j} : job'[k] = job[k]
    BY <1>1, <1>3 DEF IInv, TypeOK, Jobs, NoJob
  <1>5. outdated \subseteq outdated' /\ (seen = chain[job[j].nft] \/ job[j].nft \in outdated')
    BY <1>1 DEF Uses
  <1>6. JobInv(job[j])'
    BY <1>2, <1>3, <1>4, <1>5 DEF JobInv, Names, Uploading, Confirming, Syncing
  <1> QED
    BY <1>2, <1>4, <1>5, <1>6, OthersStay

LEMMA CheckPinStep ==
    ASSUME IInv, NEW j \in Job, CheckPin(j)
    PROVE  \A k \in Job : JobInv(job[k])'
  <1>1. job[j].pc = "checking" /\ UNCHANGED <<chain, former, outdated>>
    BY DEF CheckPin, history
  <1>2. JobInv(job[j]) /\ job[j] \in Jobs /\ TypeOK
    BY DEF IInv, TypeOK
  <1>3. CASE Goto(j, "loading")
    <2>1. job'[j] = [job[j] EXCEPT !.pc = "loading"] /\ \A k \in Job \ {j} : job'[k] = job[k]
      BY <1>1, <1>2, <1>3, GotoTyped DEF Syncing
    <2>2. JobInv(job[j])'
      BY <1>1, <1>2, <2>1 DEF JobInv, Names, Jobs, NoJob, Uploading, Confirming, Syncing
    <2> QED
      BY <1>1, <2>1, <2>2, OthersStay
  <1>4. ASSUME NEW k \in Job, job[k] = NoJob,
               job' = [job EXCEPT ![j].pc = "loading",
                                  ![k] = [job[j] EXCEPT !.pc = "created", !.old = None]]
        PROVE  \A m \in Job : JobInv(job[m])'
    <2>1. k # j
      BY <1>1, <1>4 DEF NoJob
    <2>2. /\ job'[j].pc = "loading" /\ job'[j].nft = job[j].nft /\ job'[j].cid = job[j].cid
          /\ job'[k].pc = "created" /\ job'[k].old = None /\ job'[k].cid = job[j].cid
          /\ \A m \in Job \ {j, k} : job'[m] = job[m]
      BY <1>2, <1>4, <2>1 DEF TypeOK, Jobs, NoJob
    <2>3. JobInv(job[j])'
      BY <1>1, <1>2, <2>2 DEF JobInv, Names, Uploading, Confirming, Syncing
    <2>4. JobInv(job[k])'
      BY <1>1, <1>2, <2>2, IpfsPinsAssumption DEF JobInv, Syncing
    <2>5. ASSUME NEW m \in Job \ {j, k} PROVE JobInv(job[m])'
      <3>1. Grows
        BY <1>1, NothingGrows
      <3>2. JobInv(job[m]) /\ job'[m] = job[m]
        BY <2>2 DEF IInv
      <3> QED
        BY <1>1, <1>2, <3>1, <3>2, JobStays
    <2> QED
      BY <2>3, <2>4, <2>5
  <1> QED
    BY <1>3, <1>4 DEF CheckPin

LEMMA LoadDbStep ==
    ASSUME IInv, NEW j \in Job, LoadDb(j)
    PROVE  \A k \in Job : JobInv(job[k])'
  <1>1. job[j].pc = "loading" /\ UNCHANGED <<chain, former, outdated>>
    BY DEF LoadDb, history
  <1>2. JobInv(job[j]) /\ job[j] \in Jobs /\ TypeOK /\ job[j].nft \in Nft
    BY <1>1, JobTyped DEF IInv, TypeOK
  <1>3. PICK prev \in stored[job[j].nft] :
           \/ /\ prev \in Cid \ {job[j].cid} /\ job[j].cid # None
              /\ job' = [job EXCEPT ![j].old = prev, ![j].pc = "unlinking"]
           \/ /\ prev = None /\ job[j].cid # None
              /\ Goto(j, "storing")
           \/ /\ prev = job[j].cid \/ job[j].cid = None
              /\ End(j)
    BY DEF LoadDb
  <1>4. CASE prev # job[j].cid /\ job' = [job EXCEPT ![j].old = prev, ![j].pc = "unlinking"]
    <2>1. /\ job'[j].pc = "unlinking" /\ job'[j].nft = job[j].nft
          /\ job'[j].old = prev /\ job'[j].cid = job[j].cid
          /\ \A k \in Job \ {j} : job'[k] = job[k]
      BY <1>2, <1>4 DEF TypeOK, Jobs, NoJob
    <2>2. prev \in Names(job[j].nft)
      BY <1>2 DEF IInv, NftInv
    <2>3. job[j].nft \in outdated \/ prev \in former[job[j].nft]
      BY <1>1, <1>2, <1>4, <2>2 DEF JobInv, Names
    <2>4. JobInv(job[j])'
      BY <1>1, <1>2, <2>1, <2>2, <2>3 DEF JobInv, Left, Names, Uploading, Confirming, Syncing
    <2> QED
      BY <1>1, <2>1, <2>4, OthersStay
  <1>5. CASE Goto(j, "storing")
    <2>1. job'[j] = [job[j] EXCEPT !.pc = "storing"] /\ \A k \in Job \ {j} : job'[k] = job[k]
      BY <1>1, <1>2, <1>5, GotoTyped DEF Syncing
    <2>2. JobInv(job[j])'
      BY <1>1, <1>2, <2>1 DEF JobInv, Names, Jobs, NoJob, Uploading, Confirming, Syncing
    <2> QED
      BY <1>1, <2>1, <2>2, OthersStay
  <1>6. CASE End(j)
    BY <1>1, <1>6, EndStep
  <1> QED
    BY <1>3, <1>4, <1>5, <1>6

\* CheckOldPin and UnpinLinked: the task knows what it knew.
LEMMA UnlinkStep ==
    ASSUME IInv, NEW j \in Job, CheckOldPin(j) \/ UnpinLinked(j)
    PROVE  \A k \in Job : JobInv(job[k])'
  <1>1. PICK p \in {"releasing", "storing"} :
            /\ Goto(j, p)
            /\ job[j].pc \in {"unlinking", "releasing"}
            /\ UNCHANGED <<chain, former, outdated>>
    BY DEF CheckOldPin, UnpinLinked, history
  <1>2. JobInv(job[j]) /\ job[j] \in Jobs /\ TypeOK
    BY DEF IInv, TypeOK
  <1>3. job'[j] = [job[j] EXCEPT !.pc = p] /\ \A k \in Job \ {j} : job'[k] = job[k]
    BY <1>1, <1>2, GotoTyped DEF Syncing
  <1>4. /\ job'[j].pc = p /\ job'[j].nft = job[j].nft
        /\ job'[j].old = job[j].old /\ job'[j].cid = job[j].cid
    BY <1>2, <1>3 DEF Jobs, NoJob
  <1>5. JobInv(job[j])'
    BY <1>1, <1>2, <1>4 DEF JobInv, Left, Names, Uploading, Confirming, Syncing
  <1> QED
    BY <1>1, <1>3, <1>5, OthersStay

LEMMA ChangeStep ==
    ASSUME IInv, NEW n \in Nft, NEW c \in Content \cup {Gone}, Change(n, c)
    PROVE  /\ \A k \in Job : JobInv(job[k])'
           /\ \A m \in Nft : NftInv(m)'
           /\ PinnedIsNamed' /\ ConfirmedStaysPinned'
  <1>1. TypeOK
    BY DEF IInv
  <1>2. /\ chain' = [chain EXCEPT ![n] = c] /\ cached' = [cached EXCEPT ![n] = @ \cup {c}]
        /\ former' = [former EXCEPT ![n] = @ \cup {chain[n]}]
        /\ confirmed' = confirmed \ {n} /\ UNCHANGED <<stored, pins, job>>
    BY DEF Change
  <1>3. /\ outdated \subseteq outdated'
        /\ \A j \in Job : job[j].nft = n /\ job[j].pc \in {"checking", "loading"} => n \in outdated'
    BY <1>1 DEF Change, Syncing
  <1>4. Grows
    BY <1>1, <1>2, <1>3 DEF Grows, Names, TypeOK
  <1>5. ASSUME NEW k \in Job PROVE JobInv(job[k])'
    <2>1. JobInv(job[k]) /\ job'[k] = job[k]
      BY <1>2 DEF IInv
    <2>2. job[k].pc \in {"checking", "loading"} =>
              chain'[job[k].nft] = chain[job[k].nft] \/ job[k].nft \in outdated'
      BY <1>1, <1>2, <1>3 DEF TypeOK
    <2> QED
      BY <1>1, <1>4, <2>1, <2>2, JobStays
  <1>6. \A m \in Nft : NftInv(m)'
    BY <1>1, <1>2 DEF IInv, NftInv, Names, TypeOK
  <1>7. PinnedIsNamed'
    BY <1>1, <1>2, <1>4 DEF IInv, PinnedIsNamed, Grows
  <1>8. ConfirmedStaysPinned'
    <2> SUFFICES ASSUME NEW m \in confirmed' \ outdated', chain'[m] \notin former'[m],
                        \A k \in Nft \ {m} : chain'[m] \notin Names(k)'
                 PROVE  pins'[chain'[m]] # None
      BY DEF ConfirmedStaysPinned
    <2>1. m \in confirmed \ outdated /\ m \in Nft /\ m # n
      BY <1>1, <1>2, <1>3 DEF TypeOK
    <2>2. chain'[m] = chain[m] /\ former'[m] = former[m]
      BY <1>1, <1>2, <2>1 DEF TypeOK
    <2>3. \A k \in Nft \ {m} : chain[m] \notin Names(k)
      BY <1>4, <2>2 DEF Grows
    <2> QED
      BY <1>2, <2>1, <2>2, <2>3 DEF IInv, ConfirmedStaysPinned
  <1> QED
    BY <1>5, <1>6, <1>7, <1>8

-----------------------------------------------------------------------------
LEMMA Initial ==
    ASSUME Init
    PROVE  IInv
  <1>1. TypeOK
    BY IpfsPinsAssumption DEF Init, TypeOK, Jobs
  <1>2. \A n \in Nft : NftInv(n)
    BY DEF Init, NftInv, Names
  <1>3. \A j \in Job : JobInv(job[j])
    BY DEF Init, JobInv, NoJob, Uploading, Confirming, Syncing
  <1>4. PinnedIsNamed /\ ConfirmedStaysPinned
    BY IpfsPinsAssumption DEF Init, PinnedIsNamed, ConfirmedStaysPinned
  <1> QED
    BY <1>1, <1>2, <1>3, <1>4 DEF IInv

\* Every step keeps the invariant.
LEMMA Inductive ==
    ASSUME IInv, [Next]_vars
    PROVE  IInv'
  <1>1. TypeOK /\ TypeOK' /\ PinnedIsNamed /\ ConfirmedStaysPinned
    BY TypeStep DEF IInv
  <1> DEFINE Rest == /\ \A k \in Job : JobInv(job[k])'
                     /\ \A n \in Nft : NftInv(n)'
                     /\ PinnedIsNamed' /\ ConfirmedStaysPinned'
  <1> HIDE DEF Rest
  <1>2. ASSUME NEW j \in Job, NEW i \in Instance, NEW n \in Nft, NEW c \in Cid,
               CreateContent(j, i, n, c)
        PROVE  Rest
    BY <1>1, <1>2, CreateContentStep, NftsStay, PinsStay DEF CreateContent, history, Rest
  <1>3. ASSUME NEW j \in Job, NEW i \in Instance, NEW n \in Nft, SyncNftData(j, i, n)
        PROVE  Rest
    BY <1>1, <1>3, SyncNftDataStep, NftsStay, PinsStay DEF SyncNftData, history, Rest
  <1>4. ASSUME NEW j \in Job, Added(j) PROVE Rest
    BY <1>1, <1>4, AddedStep, NftsStay, PinsStay DEF Added, history, Rest
  <1>5. ASSUME NEW j \in Job, Repin(j) PROVE Rest
    BY <1>5, RepinStep, NftsStay DEF Repin, history, Rest
  <1>6. ASSUME NEW j \in Job, Confirm(j) PROVE Rest
    BY <1>1, <1>6, ConfirmStep, NftsStay, PinsStay DEF Confirm, history, Rest
  <1>7. ASSUME NEW j \in Job, Poll(j) PROVE Rest
    BY <1>1, <1>7, PollStep, NftsStay, PinsStay DEF Poll, Rest
  <1>8. ASSUME NEW j \in Job, PinConfirmed(j) PROVE Rest
    BY <1>8, PinConfirmedStep DEF Rest
  <1>9. ASSUME NEW j \in Job, UnpinOld(j) PROVE Rest
    BY <1>9, UnpinStep, EndStep, NftsStay DEF UnpinOld, Old, history, Rest
  <1>10. ASSUME NEW j \in Job, ReadChain(j) PROVE Rest
    BY <1>1, <1>10, ReadChainStep, NftsStay, PinsStay DEF ReadChain, Rest
  <1>11. ASSUME NEW j \in Job, CheckPin(j) PROVE Rest
    BY <1>1, <1>11, CheckPinStep, NftsStay, PinsStay DEF CheckPin, history, Rest
  <1>12. ASSUME NEW j \in Job, LoadDb(j) PROVE Rest
    BY <1>1, <1>12, LoadDbStep, NftsStay, PinsStay DEF LoadDb, history, Rest
  <1>13. ASSUME NEW j \in Job, CheckOldPin(j) PROVE Rest
    BY <1>1, <1>13, UnlinkStep, NftsStay, PinsStay DEF CheckOldPin, history, Rest
  <1>14. ASSUME NEW j \in Job, UnpinLinked(j) PROVE Rest
    BY <1>14, UnpinStep, UnlinkStep, NftsStay DEF UnpinLinked, history, Rest
  <1>15. ASSUME NEW j \in Job, StoreDb(j) PROVE Rest
    <2>1. job[j].nft \in Nft /\ job[j].cid \in Names(job[j].nft)
      BY <1>1, <1>15, JobTyped DEF StoreDb, IInv, JobInv, Syncing
    <2>2. \A n \in Nft : NftInv(n)'
      BY <1>1, <1>15, <2>1 DEF StoreDb, history, IInv, NftInv, Names, TypeOK, Stores
    <2> QED
      BY <1>1, <1>15, <2>2, EndStep, PinsStay DEF StoreDb, history, Rest
  <1>16. ASSUME NEW j \in Job, Abort(j) PROVE Rest
    BY <1>1, <1>16, EndStep, NftsStay, PinsStay DEF Abort, history, Rest
  <1>17. ASSUME NEW n \in Nft, NEW c \in Content \cup {Gone}, Change(n, c) PROVE Rest
    BY <1>17, ChangeStep DEF Rest
  <1>18. ASSUME NEW n \in Nft, Expire(n) \/ NftUpdate(n) PROVE Rest
    <2>1. UNCHANGED <<chain, pins, job, former, confirmed, outdated>>
      BY <1>18 DEF Expire, NftUpdate, history
    <2>2. \A m \in Nft : NftInv(m)'
      BY <1>1, <1>18, <2>1 DEF Expire, NftUpdate, IInv, NftInv, Names, TypeOK
    <2>3. \A k \in Job : JobInv(job[k])'
      BY <2>1 DEF IInv, JobInv, Left, Names
    <2> QED
      BY <1>1, <2>1, <2>2, <2>3, PinsStay DEF Rest
  <1>19. ASSUME UNCHANGED vars PROVE Rest
    <2>1. UNCHANGED <<chain, cached, stored, pins, job, former, confirmed, outdated>>
      BY <1>19 DEF vars, history
    <2>2. \A k \in Job : JobInv(job[k])'
      BY <2>1 DEF IInv, JobInv, Left, Names
    <2> QED
      BY <1>1, <2>1, <2>2, NftsStay, PinsStay DEF Rest
  <1>20. Rest
    BY <1>2, <1>3, <1>4, <1>5, <1>6, <1>7, <1>8, <1>9, <1>10, <1>11, <1>12, <1>13, <1>14,
       <1>15, <1>16, <1>17, <1>18, <1>19 DEF Next, Request, JobStep, Surroundings
  <1> QED
    BY <1>1, <1>20 DEF IInv, Rest

\* The invariant of every behaviour.
THEOREM Invariance == Spec => []IInv
  BY Initial, Inductive, PTL DEF Spec

\* Every variable keeps its type: a task always has its NFT and contents, and
\* the cluster's metadata name NFTs only.
THEOREM Typing == Spec => []TypeOK
  BY Invariance, PTL DEF IInv

\* Only contents that the chain names or has named are pinned, whatever is
\* uploaded, aborted, read from a cache or interleaved.
THEOREM OnlyNamedIsPinned == Spec => []PinnedIsNamed
  BY Invariance, PTL DEF IInv

\* A confirmed content is not unpinned by any upload, confirmation or
\* synchronisation but for the three reasons ConfirmedStaysPinned names.
THEOREM ConfirmedIsKept == Spec => []ConfirmedStaysPinned
  BY Invariance, PTL DEF IInv
=============================================================================
