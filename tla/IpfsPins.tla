------------------------------ MODULE IpfsPins ------------------------------
(***************************************************************************)
(* Which contents the IPFS cluster keeps (src/NFTorrent/ipfs/manager.py:   *)
(* create_content, confirm_content, nft_unlink; webserver.py:              *)
(* sync_nft_data; indexer/indexdb.py: nft_update_nft_data).                *)
(*                                                                         *)
(* An NFT's contract names the CID of its content.  A new content is added *)
(* unpinned; a background task waits until the chain names it, pins it and *)
(* unpins the one before.  A synchronisation pins what the chain names and *)
(* unpins what the database named.  The chain is read through caches, and  *)
(* chain, database and cluster are read and written at different awaits.   *)
(* Locks of the process (OperationLock) exclude tasks of one instance.     *)
(***************************************************************************)
EXTENDS Naturals, FiniteSets

CONSTANTS
    Instance, Nft, Cid,
    Job,           \* bound: requests and background tasks at a time
    MaxChange,     \* bound: changes of contents on the chain
    None,          \* no content; no pin
    Gone,          \* the contract was destroyed
    Anonymous      \* a pin without the address of an NFT

\* A CID is no address, and neither is one of the marks.
ASSUME IpfsPinsAssumption ==
    /\ None # Gone /\ None # Anonymous /\ Gone # Anonymous
    /\ (Cid \cup Nft) \cap {None, Gone, Anonymous} = {}
    /\ MaxChange \in Nat

Content == Cid \cup {None}

VARIABLES
    chain,         \* chain[n]: the CID in n's contract
    cached,        \* cached[n]: what a read through the caches may return
    stored,        \* stored[n]: images the row of n has had, which nft_get may return
    pins,          \* the cluster: pins[c] is the pin's metadata "nft"
    owners,        \* owners[c]: NFTs c was pinned for, which a cached status may name
    job,           \* job[j]: a coroutine's place and local variables
    former,        \* history: former[n], contents n has had before
    confirmed,     \* history: NFTs whose present content was pinned for them
    outdated,      \* history: NFTs for which an outdated read was used
    changes        \* bound counter

history == <<former, confirmed, outdated>>
vars == <<chain, cached, stored, pins, owners, job, history, changes>>

Uploading == {"adding", "repinning"}
Confirming == {"polling", "queued", "unpinning"}
Syncing == {"reading", "checking", "loading", "unlinking", "releasing", "storing"}

NoJob == [pc |-> "idle", at |-> None, nft |-> None, old |-> None, cid |-> None]
Jobs == {NoJob} \cup
    [pc : Uploading \cup Confirming \cup Syncing \cup {"created"},
     at : Instance, nft : Nft, old : Content, cid : Content \cup {Gone}]

TypeOK ==
    /\ chain \in [Nft -> Content \cup {Gone}]
    /\ cached \in [Nft -> SUBSET (Content \cup {Gone})]
    /\ stored \in [Nft -> SUBSET Content]
    /\ pins \in [Cid -> Nft \cup {None, Anonymous}]
    /\ owners \in [Cid -> SUBSET Nft]
    /\ job \in [Job -> Jobs]
    /\ former \in [Nft -> SUBSET Content]
    /\ confirmed \subseteq Nft /\ outdated \subseteq Nft
    /\ changes \in 0 .. MaxChange

\* New NFTs: minted with a content or without, indexed, not yet synchronised.
Init ==
    /\ chain \in [Nft -> Content]
    /\ cached = [n \in Nft |-> {chain[n]}]
    /\ stored = cached
    /\ pins = [c \in Cid |-> None]
    /\ owners = [c \in Cid |-> {}]
    /\ job = [j \in Job |-> NoJob]
    /\ former = [n \in Nft |-> {}]
    /\ confirmed = {} /\ outdated = {}
    /\ changes = 0

-----------------------------------------------------------------------------
\* Helpers.

\* Another coroutine of the instance is inside a block with the lock.
Locked(i, n, places) ==
    \E j \in Job : job[j].at = i /\ job[j].nft = n /\ job[j].pc \in places
CidLocked(i, c) ==
    \E j \in Job : job[j].at = i /\ job[j].cid = c /\ job[j].pc = "unpinning"

Goto(j, pc) == job' = [job EXCEPT ![j].pc = pc]
End(j) == job' = [job EXCEPT ![j] = NoJob]

\* The coroutine uses what it has read of the chain.
Uses(n, content) == outdated' = IF content = chain[n] THEN outdated ELSE outdated \cup {n}

\* The cluster sets or removes a pin; pinning again replaces the metadata.
Pin(c, n) ==
    /\ pins' = [pins EXCEPT ![c] = n]
    /\ owners' = [owners EXCEPT ![c] = @ \cup ({n} \cap Nft)]
Unpin(c) ==
    /\ pins' = [pins EXCEPT ![c] = None]
    /\ UNCHANGED owners

-----------------------------------------------------------------------------
\* create_content

\* get_nft_cid returns, and the upload's lock is free.
CreateContent(j, i, n, c) ==
    /\ job[j] = NoJob
    /\ ~Locked(i, n, Uploading)
    /\ \E old \in cached[n] \ {Gone} :
           job' = [job EXCEPT ![j] = [pc |-> "adding", at |-> i, nft |-> n, old |-> old, cid |-> c]]
    /\ UNCHANGED <<chain, cached, stored, pins, owners, history, changes>>

\* cid_add_local returns: the content is on the chain already or is to be
\* confirmed by a task of its own.
Added(j) ==
    /\ job[j].pc = "adding"
    /\ Goto(j, IF job[j].old = job[j].cid THEN "repinning" ELSE "created")
    /\ UNCHANGED <<chain, cached, stored, pins, owners, history, changes>>

\* cid_pin without the NFT's address
Repin(j) ==
    /\ job[j].pc = "repinning"
    /\ Pin(job[j].cid, Anonymous)
    /\ End(j)
    /\ UNCHANGED <<chain, cached, stored, history, changes>>

-----------------------------------------------------------------------------
\* confirm_content

\* The task starts; LockShouldWaitError ends it.
Confirm(j) ==
    /\ job[j].pc = "created"
    /\ IF Locked(job[j].at, job[j].nft, Confirming) THEN End(j) ELSE Goto(j, "polling")
    /\ UNCHANGED <<chain, cached, stored, pins, owners, history, changes>>

\* Slip: the task does not wait for the chain.
ConfirmsAny(j, seen) == seen # Gone

Confirms(j, seen) == seen = job[j].cid

\* get_nft_cid returns the content that is to be confirmed.
Poll(j) ==
    /\ job[j].pc = "polling"
    /\ \E seen \in cached[job[j].nft] : Confirms(j, seen) /\ Uses(job[j].nft, seen)
    /\ Goto(j, "queued")
    /\ UNCHANGED <<chain, cached, stored, pins, owners, former, confirmed, changes>>

\* The CID's lock is acquired and cid_pin called; unpinning, the task holds it.
PinConfirmed(j) ==
    /\ job[j].pc = "queued"
    /\ ~CidLocked(job[j].at, job[j].cid)
    /\ Pin(job[j].cid, job[j].nft)
    /\ confirmed' = IF chain[job[j].nft] = job[j].cid
                    THEN confirmed \cup {job[j].nft} ELSE confirmed
    /\ IF job[j].old # None THEN Goto(j, "unpinning") ELSE End(j)
    /\ UNCHANGED <<chain, cached, stored, former, outdated, changes>>

\* Slip: the new content is unpinned.
New(j) == job[j].cid

Old(j) == job[j].old

UnpinOld(j) ==
    /\ job[j].pc = "unpinning"
    /\ Unpin(Old(j))
    /\ End(j)
    /\ UNCHANGED <<chain, cached, stored, history, changes>>

-----------------------------------------------------------------------------
\* sync_nft_data

SyncNftData(j, i, n) ==
    /\ job[j] = NoJob
    /\ ~Locked(i, n, Syncing)
    /\ job' = [job EXCEPT ![j] = [NoJob EXCEPT !.pc = "reading", !.at = i, !.nft = n]]
    /\ UNCHANGED <<chain, cached, stored, pins, owners, history, changes>>

\* tonlib.get_nft_data returns; only an IPFS image has a pin to look at.
ReadChain(j) ==
    /\ job[j].pc = "reading"
    /\ \E seen \in cached[job[j].nft] :
           /\ Uses(job[j].nft, seen)
           /\ job' = [job EXCEPT ![j].cid = seen,
                                 ![j].pc = IF seen \in Cid THEN "checking" ELSE "loading"]
    /\ UNCHANGED <<chain, cached, stored, pins, owners, former, confirmed, changes>>

\* cid_pin_status returns.  A confirmation is started if the pin, or the
\* present if there is none, is before the storage is due.
CheckPin(j) ==
    /\ job[j].pc = "checking"
    /\ \/ Goto(j, "loading")
       \/ \E k \in Job :
              /\ job[k] = NoJob
              /\ job' = [job EXCEPT ![j].pc = "loading",
                                    ![k] = [job[j] EXCEPT !.pc = "created", !.old = None]]
    /\ UNCHANGED <<chain, cached, stored, pins, owners, history, changes>>

\* nft_get returns, through its cache, in nft_update_nft_data.  An image that is
\* not in IPFS any more ends it with UnboundLocalError, an unchanged one stores
\* nothing that matters here.
LoadDb(j) ==
    /\ job[j].pc = "loading"
    /\ \E prev \in stored[job[j].nft] :
           \/ /\ prev \in Cid \ {job[j].cid} /\ job[j].cid # None
              /\ job' = [job EXCEPT ![j].old = prev, ![j].pc = "unlinking"]
           \/ /\ prev = None /\ job[j].cid # None
              /\ Goto(j, "storing")
           \/ /\ prev = job[j].cid \/ job[j].cid = None
              /\ End(j)
    /\ UNCHANGED <<chain, cached, stored, pins, owners, history, changes>>

\* nft_unlink unpins the NFT's own pins only, by a status that is cached.
Unlinks(j) == job[j].nft \in owners[job[j].old]

\* cid_pin_status returns in nft_unlink.
CheckOldPin(j) ==
    /\ job[j].pc = "unlinking"
    /\ Goto(j, "storing") \/ (Unlinks(j) /\ Goto(j, "releasing"))
    /\ UNCHANGED <<chain, cached, stored, pins, owners, history, changes>>

UnpinLinked(j) ==
    /\ job[j].pc = "releasing"
    /\ Unpin(job[j].old)
    /\ Goto(j, "storing")
    /\ UNCHANGED <<chain, cached, stored, history, changes>>

\* The row of an NFT that is gone gets a deletion time and keeps its image.
Stores(j) == {job[j].cid} \ {Gone}

\* sync_collection_nft_bulk_update
StoreDb(j) ==
    /\ job[j].pc = "storing"
    /\ stored' = [stored EXCEPT ![job[j].nft] = @ \cup Stores(j)]
    /\ End(j)
    /\ UNCHANGED <<chain, cached, pins, owners, history, changes>>

-----------------------------------------------------------------------------
\* Failures and the surroundings.

\* A call raises or is cancelled, or confirm_content has polled for its time.
Abort(j) ==
    /\ job[j] # NoJob
    /\ End(j)
    /\ UNCHANGED <<chain, cached, stored, pins, owners, history, changes>>

\* The owner changes the content or destroys the NFT.
Change(n, content) ==
    /\ chain[n] \notin {content, Gone}
    /\ changes < MaxChange
    /\ changes' = changes + 1
    /\ chain' = [chain EXCEPT ![n] = content]
    /\ cached' = [cached EXCEPT ![n] = @ \cup {content}]
    /\ former' = [former EXCEPT ![n] = @ \cup {chain[n]}]
    /\ confirmed' = confirmed \ {n}
    /\ outdated' = IF \E j \in Job : job[j].nft = n /\ job[j].pc \in Syncing \ {"reading"}
                   THEN outdated \cup {n} ELSE outdated
    /\ UNCHANGED <<stored, pins, owners, job>>

\* The caches' entries of get_nft_data and raw_run_method expire.
Expire(n) ==
    /\ cached[n] # {chain[n]}
    /\ cached' = [cached EXCEPT ![n] = {chain[n]}]
    /\ UNCHANGED <<chain, stored, pins, owners, job, history, changes>>

\* nft_task_processor stores the NFT.
NftUpdate(n) ==
    /\ \E seen \in cached[n] \ ({Gone} \cup stored[n]) :
           stored' = [stored EXCEPT ![n] = @ \cup {seen}]
    /\ UNCHANGED <<chain, cached, pins, owners, job, history, changes>>

Request ==
    \E j \in Job, i \in Instance, n \in Nft :
        SyncNftData(j, i, n) \/ \E c \in Cid : CreateContent(j, i, n, c)

JobStep(j) ==
    \/ Added(j) \/ Repin(j)
    \/ Confirm(j) \/ Poll(j) \/ PinConfirmed(j) \/ UnpinOld(j)
    \/ ReadChain(j) \/ CheckPin(j) \/ LoadDb(j)
    \/ CheckOldPin(j) \/ UnpinLinked(j) \/ StoreDb(j)
    \/ Abort(j)

Surroundings ==
    \E n \in Nft : Expire(n) \/ NftUpdate(n) \/ \E c \in Content \cup {Gone} : Change(n, c)

Next == Request \/ (\E j \in Job : JobStep(j)) \/ Surroundings

Spec == Init /\ [][Next]_vars

-----------------------------------------------------------------------------
\* The contents of the NFT, present and past.
Names(n) == former[n] \cup {chain[n]}

\* A content is pinned for an NFT only if that NFT names it or has named it,
\* and without an address only if some NFT has: an upload that nobody confirms
\* on the chain is never kept.
PinnedIsNamed ==
    \A c \in Cid :
        /\ pins[c] \in Nft => c \in Names(pins[c])
        /\ pins[c] = Anonymous => \E n \in Nft : c \in Names(n)

\* A content that was pinned when it was confirmed stays pinned while the chain
\* names it, through all uploads, synchronisations and confirmations, unless
\* another NFT names or has named it, its own NFT had it before and came back
\* to it, or a coroutine used an outdated read of this NFT.
ConfirmedStaysPinned ==
    \A n \in confirmed \ outdated :
        \/ pins[chain[n]] # None
        \/ chain[n] \in former[n]
        \/ \E m \in Nft \ {n} : chain[n] \in Names(m)
=============================================================================
