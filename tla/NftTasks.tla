------------------------------ MODULE NftTasks ------------------------------
(***************************************************************************)
(* The queue of scheduled NFT tasks (src/NFTorrent/indexer/indexdb.py:     *)
(* nft_task_processor, sync_nft_task_get, nft_update, _nft_update,         *)
(* sync_collection_nft_bulk_update, nft_update_nft_data,                   *)
(* sync_collection_nft_bulk_insert).                                       *)
(*                                                                         *)
(* Each instance of the server runs a processor.  It claims rows of the    *)
(* task table that are due (task_time becomes NULL), reads the NFTs of the *)
(* due-date tasks from the chain again, sends the notifications, and in    *)
(* one transaction deletes the claimed rows, stores the changed NFTs and   *)
(* inserts the tasks that follow.  The claim is a transaction of its own:  *)
(* what fails between the two leaves rows behind that nobody claims again. *)
(* Meanwhile the web server writes the same NFTs when a client asks it to  *)
(* synchronise one.                                                        *)
(*                                                                         *)
(* Of an NFT's mutable attributes only fee_due_time is kept, and its icons  *)
(* are left out except for a synchronisation that repeats them; the other  *)
(* task types (mint, update, transfer) are one type, "notice".  An NFT     *)
(* that is gone from the chain ends the batch with an exception and is one *)
(* of the causes of Fail.                                                  *)
(***************************************************************************)
EXTENDS Integers, Sequences, FiniteSets

CONSTANTS
    Nft,
    Users,        \* the NFTs whose owner is a registered Telegram user
    Processor,    \* the instances of the server
    Warn,         \* warn_offset
    Expired,      \* expired_offset
    BulkSize,     \* task_queue_bulk_size
    MaxTime,      \* bound: the last moment, and the last due time
    MaxTasks,     \* bound: rows of the task table
    MaxExtend,    \* bound: extensions of due times on the chain
    MaxSync,      \* bound: synchronisations of an NFT that store it
    MaxFail,      \* bound: failures
    None

ASSUME OffsetAssumption == Warn \in Nat /\ Expired \in 0 .. Warn
ASSUME UsersAssumption == Users \subseteq Nft
ASSUME BoundAssumption ==
    /\ MaxTime \in Nat /\ MaxTasks \in Nat /\ MaxExtend \in Nat /\ MaxFail \in Nat
    /\ MaxSync \in Nat
    /\ IsFiniteSet(Processor)

Time == 0 .. MaxTime
TaskId == 1 .. MaxTasks

\* A task may be due from before the start.
Row == [type : {"due", "notice"}, time : -Expired .. MaxTime \cup {None}, nft : Nft]

\* A time stamp read from the database has no time zone, one the program took
\* itself has: comparing the two raises TypeError.
Stamp == [time : Time, naive : BOOLEAN]

NftRow == [due : Time, last_notified : Stamp \cup {None}]

\* What nft_update_nft_data has in hand.
Sync == [row : NftRow, new : Seq(Row)]

ASSUME NoneAssumption == None \notin Int \cup Row \cup Stamp \cup NftRow \cup Sync

VARIABLES
    now,
    chain_due,    \* fee_due_time on the chain
    db,           \* the table pet_memory_nft
    queue,        \* the table nft_task_queue
    batch,        \* batch[p]: the local state of p's nft_task_processor
    syncing,      \* syncing[n]: a running nft_update_nft_data of n
    sent,         \* history: when n's last due-date notification was sent
    early,        \* history: NFTs notified twice within the interval below
    lost,         \* history: NFTs with a task that failed
    syncs,        \* history: synchronisations that stored n
    extended, failed    \* bound counters

vars == <<now, chain_due, db, queue, batch, syncing, sent, early, lost, syncs,
          extended, failed>>

Batch == [pc    : {"idle", "updating", "processing"},
          tasks : SUBSET TaskId,
          left  : SUBSET TaskId,
          nfts  : [Nft -> NftRow \cup {None}],
          error : SUBSET Nft,
          upd   : SUBSET Nft,
          new   : Seq(Row)]

Idle == [pc |-> "idle", tasks |-> {}, left |-> {}, nfts |-> [n \in Nft |-> None],
         error |-> {}, upd |-> {}, new |-> <<>>]

TypeOK ==
    /\ now \in Time
    /\ chain_due \in [Nft -> Time]
    /\ db \in [Nft -> NftRow \cup {None}]
    /\ queue \in [TaskId -> Row \cup {None}]
    /\ batch \in [Processor -> Batch]
    /\ syncing \in [Nft -> Sync \cup {None}]
    /\ sent \in [Nft -> Time \cup {None}]
    /\ early \subseteq Nft
    /\ lost \subseteq Nft
    /\ syncs \in [Nft -> 0 .. MaxSync]
    /\ extended \in 0 .. MaxExtend
    /\ failed \in 0 .. MaxFail

Init ==
    /\ now = 0
    /\ chain_due \in [Nft -> Time]
    /\ db = [n \in Nft |-> None]
    /\ queue = [i \in TaskId |-> None]
    /\ batch = [p \in Processor |-> Idle]
    /\ syncing = [n \in Nft |-> None]
    /\ sent = [n \in Nft |-> None]
    /\ early = {}
    /\ lost = {}
    /\ syncs = [n \in Nft |-> 0]
    /\ extended = 0
    /\ failed = 0

-----------------------------------------------------------------------------
\* The rows of the table.

Free(q) == {i \in TaskId : q[i] = None}

\* session.add_all: the rows get fresh ids.
Inserted(q, rows) ==
    LET rank(i) == Cardinality({j \in Free(q) : j <= i})
    IN  [i \in TaskId |-> IF i \in Free(q) /\ rank(i) <= Len(rows)
                          THEN rows[rank(i)] ELSE q[i]]

Fits(q, rows) == Len(rows) <= Cardinality(Free(q))

\* The task is for the warning or, once that time has passed, for expiry.
DueTime(due) == IF due - Warn > now THEN due - Warn ELSE due - Expired

DueRow(n, due) == [type |-> "due", time |-> DueTime(due), nft |-> n]
NoticeRow(n) == [type |-> "notice", time |-> now, nft |-> n]

\* Slip: a due-date task follows only when the NFT has changed.
FollowOnChange(n, old, due) ==
    IF due # old THEN <<NoticeRow(n), DueRow(n, due)>> ELSE <<>>

\* Slip: elif in the place of the second if.
FollowEither(n, old, due) ==
    IF due # old THEN <<NoticeRow(n)>> ELSE IF due > now THEN <<DueRow(n, due)>> ELSE <<>>

\* _nft_update: the tasks that follow when the chain says due and the row old.
Following(n, old, due) ==
    (IF due # old THEN <<NoticeRow(n)>> ELSE <<>>)
        \o (IF due > now THEN <<DueRow(n, due)>> ELSE <<>>)

\* sync_collection_nft_bulk_insert: the indexer stores a new NFT.
Index(n) ==
    /\ db[n] = None
    /\ db' = [db EXCEPT ![n] = [due |-> chain_due[n], last_notified |-> None]]
    /\ LET rows == IF chain_due[n] < now THEN <<>>
                   ELSE <<NoticeRow(n), DueRow(n, chain_due[n])>>
       IN  Fits(queue, rows) /\ queue' = Inserted(queue, rows)
    /\ UNCHANGED <<now, chain_due, batch, syncing, sent, early, lost, syncs, extended, failed>>

-----------------------------------------------------------------------------
\* The processor.

\* Slip: the rows stay as they are until the batch is done.
LeaveRows(ids) == queue

\* sync_nft_task_get: SET task_time = NULL.
ClaimRows(ids) == [i \in TaskId |-> IF i \in ids THEN [queue[i] EXCEPT !.time = None]
                                    ELSE queue[i]]

\* What a session reads.
Loaded(row) == IF row = None \/ row.last_notified = None THEN row
               ELSE [row EXCEPT !.last_notified.naive = TRUE]

IsDue(i) == queue[i] # None /\ queue[i].time # None /\ queue[i].time <= now

Smaller(a, b) == IF a < b THEN a ELSE b

\* sync_nft_task_get: claim what is due, no more than BulkSize rows in no
\* particular order, then read the NFTs.  SYNC tasks are never created, so the
\* NFTs to update are those of the due-date tasks.
Fetch(p) ==
    /\ batch[p].pc = "idle"
    /\ \E ids \in SUBSET {i \in TaskId : IsDue(i)} :
        /\ ids # {}
        /\ Cardinality(ids) = Smaller(BulkSize, Cardinality({i \in TaskId : IsDue(i)}))
        /\ queue' = ClaimRows(ids)
        /\ batch' = [batch EXCEPT ![p] =
                        [Idle EXCEPT
                           !.pc = "updating",
                           !.tasks = ids,
                           !.left = {i \in ids : queue[i].type = "due"},
                           !.nfts = [n \in Nft |-> IF \E i \in ids : queue[i].nft = n
                                                   THEN Loaded(db[n]) ELSE None]]]
    /\ UNCHANGED <<now, chain_due, db, syncing, sent, early, lost, syncs, extended, failed>>

\* A turn of nft_update's loop: read the NFT from the chain, update the local
\* object, note the tasks that follow.
UpdateNft(p, i) ==
    /\ batch[p].pc = "updating" /\ i \in batch[p].left
    /\ LET n == queue[i].nft
           old == batch[p].nfts[n].due
       IN  batch' = [batch EXCEPT ![p].left = @ \ {i},
                                  ![p].nfts[n].due = chain_due[n],
                                  ![p].error = @ \ {n},
                                  ![p].upd = IF chain_due[n] # old THEN @ \cup {n} ELSE @,
                                  ![p].new = @ \o Following(n, old, chain_due[n])]
    /\ UNCHANGED <<now, chain_due, db, queue, syncing, sent, early, lost, syncs, extended, failed>>

\* A TonlibRequestError: the NFT's tasks of this batch are skipped.
UpdateError(p, i) ==
    /\ batch[p].pc = "updating" /\ i \in batch[p].left
    /\ failed < MaxFail
    /\ failed' = failed + 1
    /\ batch' = [batch EXCEPT ![p].left = @ \ {i}, ![p].error = @ \cup {queue[i].nft}]
    /\ lost' = lost \cup {queue[i].nft}
    /\ UNCHANGED <<now, chain_due, db, queue, syncing, sent, early, syncs, extended>>

\* All NFTs are read: the processor turns to the tasks.
Updated(p) ==
    /\ batch[p].pc = "updating" /\ batch[p].left = {}
    /\ batch' = [batch EXCEPT ![p].pc = "processing", ![p].left = batch[p].tasks]
    /\ UNCHANGED <<now, chain_due, db, queue, syncing, sent, early, lost, syncs, extended, failed>>

\* Twice the time since t is less than warn_offset - expired_offset.
Frequent(t) == 2 * (now - t) < Warn - Expired

\* The NFTs with a task in p's hands.
InHands(p) == {queue[i].nft : i \in batch[p].tasks}

\* An exception ends the batch.
Abandon(p) ==
    /\ batch' = [batch EXCEPT ![p] = Idle]
    /\ lost' = lost \cup InHands(p)

\* A task of the batch: skipped without an NFT, after an error, without a
\* user, after a recent notification, or long before the due time; otherwise
\* the owner is notified.
ProcessTask(p, i) ==
    LET n == queue[i].nft
        copy == batch[p].nfts[n]
        skipped == n \in batch[p].error \/ n \notin Users
        stamped == copy.last_notified # None
    IN  /\ batch[p].pc = "processing" /\ i \in batch[p].left
        /\ IF ~skipped /\ queue[i].type = "due" /\ stamped /\ copy.last_notified.naive
           THEN Abandon(p) /\ UNCHANGED <<sent, early>>
           ELSE IF \/ skipped
                   \/ queue[i].type = "notice"
                   \/ stamped /\ Frequent(copy.last_notified.time)
                   \/ copy.due > now + Warn
                THEN /\ batch' = [batch EXCEPT ![p].left = @ \ {i}]
                     /\ UNCHANGED <<sent, early, lost>>
                ELSE /\ batch' = [batch EXCEPT
                                    ![p].left = @ \ {i},
                                    ![p].nfts[n].last_notified = [time |-> now, naive |-> FALSE]]
                     /\ sent' = [sent EXCEPT ![n] = now]
                     /\ early' = IF sent[n] # None /\ Frequent(sent[n])
                                 THEN early \cup {n} ELSE early
                     /\ UNCHANGED lost
        /\ UNCHANGED <<now, chain_due, db, queue, syncing, syncs, extended, failed>>

\* Slip: the claimed rows stay.
KeepRows(ids) == queue

\* DELETE of the claimed rows, which still must have no time.
DeleteRows(ids) == [i \in TaskId |-> IF i \in ids /\ queue[i] # None /\ queue[i].time = None
                                     THEN None ELSE queue[i]]

\* sync_collection_nft_bulk_update: delete the claimed rows, merge the changed
\* NFTs, insert the tasks that follow.
Write(p) ==
    /\ batch[p].pc = "processing" /\ batch[p].left = {}
    /\ LET rest == DeleteRows(batch[p].tasks)
       IN  /\ Fits(rest, batch[p].new)
           /\ queue' = Inserted(rest, batch[p].new)
    /\ db' = [n \in Nft |-> IF n \in batch[p].upd THEN batch[p].nfts[n] ELSE db[n]]
    /\ batch' = [batch EXCEPT ![p] = Idle]
    /\ UNCHANGED <<now, chain_due, syncing, sent, early, lost, syncs, extended, failed>>

\* Any other exception, or the end of the server, in the middle of a batch.
Fail(p) ==
    /\ batch[p].pc # "idle"
    /\ failed < MaxFail
    /\ failed' = failed + 1
    /\ Abandon(p)
    /\ UNCHANGED <<now, chain_due, db, queue, syncing, sent, early, syncs, extended>>

-----------------------------------------------------------------------------
\* The web server: nft_update_nft_data reads the row and compares.  It goes on
\* to store the row when the chain says otherwise or when the NFT has an
\* error_code, because its icons could not be made; that may be so at any
\* time, and the due-date task comes with the row in either case ...
SyncRead(n) ==
    /\ syncing[n] = None /\ db[n] # None
    /\ syncs[n] < MaxSync
    /\ syncing' = [syncing EXCEPT ![n] =
                     [row |-> [Loaded(db[n]) EXCEPT !.due = chain_due[n]],
                      new |-> Following(n, db[n].due, chain_due[n])]]
    /\ UNCHANGED <<now, chain_due, db, queue, batch, sent, early, lost, syncs, extended, failed>>

\* ... and, after some awaits, stores the row and its tasks.
SyncWrite(n) ==
    /\ syncing[n] # None
    /\ Fits(queue, syncing[n].new)
    /\ db' = [db EXCEPT ![n] = syncing[n].row]
    /\ queue' = Inserted(queue, syncing[n].new)
    /\ syncing' = [syncing EXCEPT ![n] = None]
    /\ syncs' = [syncs EXCEPT ![n] = @ + 1]
    /\ UNCHANGED <<now, chain_due, batch, sent, early, lost, extended, failed>>

\* The owner pays for more storage time.
Extend(n, due) ==
    /\ extended < MaxExtend
    /\ due > chain_due[n]
    /\ chain_due' = [chain_due EXCEPT ![n] = due]
    /\ extended' = extended + 1
    /\ UNCHANGED <<now, db, queue, batch, syncing, sent, early, lost, syncs, failed>>

Tick ==
    /\ now < MaxTime
    /\ now' = now + 1
    /\ UNCHANGED <<chain_due, db, queue, batch, syncing, sent, early, lost, syncs, extended, failed>>

ProcessorStep(p) ==
    \/ Fetch(p)
    \/ \E i \in TaskId : UpdateNft(p, i) \/ UpdateError(p, i) \/ ProcessTask(p, i)
    \/ Updated(p)
    \/ Write(p)
    \/ Fail(p)

NftStep(n) ==
    \/ Index(n)
    \/ SyncRead(n)
    \/ SyncWrite(n)
    \/ \E due \in Time : Extend(n, due)

Next == Tick \/ (\E p \in Processor : ProcessorStep(p)) \/ (\E n \in Nft : NftStep(n))

Spec == Init /\ [][Next]_vars

\* The event loop runs a processor whenever its await is over; the clock and a
\* started synchronisation go on.
Fairness ==
    /\ WF_vars(Tick)
    /\ \A p \in Processor : WF_vars(ProcessorStep(p))
    /\ \A n \in Nft : WF_vars(SyncWrite(n))

FairSpec == Spec /\ Fairness

-----------------------------------------------------------------------------
IsDueRow(row, n) == row.type = "due" /\ row.nft = n

\* The rows that still lead to a due-date check of n: unclaimed, claimed and
\* not looked at yet, or about to be inserted.
Waiting(n) == {i \in TaskId : queue[i] # None /\ queue[i].time # None /\ IsDueRow(queue[i], n)}
Claimed(n) == {i \in TaskId : /\ queue[i] # None /\ IsDueRow(queue[i], n)
                              /\ \E p \in Processor : batch[p].pc = "updating" /\ i \in batch[p].left}
Coming(n) == {c \in Processor \X (1 .. 2 * MaxTasks) :
                c[2] <= Len(batch[c[1]].new) /\ IsDueRow(batch[c[1]].new[c[2]], n)}

DueTasks(n) == Cardinality(Waiting(n)) + Cardinality(Claimed(n)) + Cardinality(Coming(n))

\* While an NFT's due time lies ahead there is a task that will look at it,
\* in the table or in a processor's hands, unless one of the NFT's tasks
\* failed: no interleaving of processors, synchronisations and the indexer
\* breaks the chain of due-date tasks.
DueTaskKept ==
    \A n \in Nft \ lost : db[n] # None /\ db[n].due > now => DueTasks(n) >= 1

\* Due-date tasks do not multiply by themselves: each synchronisation that
\* stored the NFT, for a change or only to make its icons once more, adds at
\* most one chain of them, and nothing else does.
DueTasksBounded == \A n \in Nft : DueTasks(n) <= 1 + syncs[n]

\* A row that was claimed is in the hands of a processor, or its batch
\* failed: a row nobody will ever process again is always the trace of an
\* error (the statistics count such rows as task_errors).
StuckOnlyAfterError ==
    \A i \in TaskId :
        queue[i] # None /\ queue[i].time = None /\ queue[i].nft \notin lost
            => \E p \in Processor : batch[p].pc # "idle" /\ i \in batch[p].tasks

\* The owner of an NFT whose due time lies ahead is notified, unless one of
\* the NFT's tasks fails.
OwnersWarned ==
    \A n \in Users : (db[n] # None /\ db[n].due > now) ~> (sent[n] # None \/ n \in lost)

\* "nft task skipped (frequent due date notification)": an owner is not
\* notified again within half the time between warning and expiry.
NoFrequentNotification == early = {}
=============================================================================
