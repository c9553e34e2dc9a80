------------------------------ MODULE UserQueue ------------------------------
(***************************************************************************)
(* The Telegram users of several instances (src/NFTorrent/indexer/         *)
(* indexdb.py: register_tg_user, event_processor, process_tg_queue,        *)
(* sync_tg_user_bulk_upsert; the table tg_user of dbmodels.py) and the     *)
(* shutdown of an instance, which waits for the queue, then for the        *)
(* indexers, then for the other tasks; each of these waits may be endless. *)
(*                                                                         *)
(* A bulk is taken from the queue by the event loop and stored by a thread *)
(* in one transaction (read committed), while other instances store        *)
(* theirs.  Nobody calls task_done() of the queue.                         *)
(***************************************************************************)
EXTENDS Naturals, Sequences, FiniteSets

LOCAL Sets == INSTANCE FiniteSetsExt

CONSTANTS
    Instance,
    TgUser,        \* bound: records of a wallet's owner and a Telegram user
    QueueSize,     \* maxsize of the queue
    BulkSize,      \* maxsize of a bulk
    MaxRegister    \* bound: registrations, of all instances together

VARIABLES
    queue,         \* queue[i]: tg_user_queue
    unfinished,    \* unfinished[i]: its count of unfinished tasks
    loop,          \* loop[i]: where the instance's initialize_db and event_processor are
    bulk,          \* bulk[i]: the users of the bulk the thread has still to look up
    taken,         \* taken[i]: the users of the bulk
    adding,        \* adding[i]: rows its transaction has added
    users,         \* tg_user
    stage,         \* stage[i]: where Server.shutdown is
    registered,    \* history: <<i, user>> that register_tg_user has accepted
    lost,          \* history: <<i, user>> that went down with a bulk or an instance
    raced          \* history: owners whom two instances were storing at once

userVars == <<queue, unfinished, loop, bulk, taken, adding, users, stage, registered, lost, raced>>

Owner == {u.owner : u \in TgUser}

Loops == {"starting", "sleeping", "storing", "ended"}
Stages == {"up", "joining", "indexers", "tasks", "closed", "killed"}

TypeOK ==
    /\ queue \in [Instance -> Seq(TgUser)]
    /\ unfinished \in [Instance -> 0..MaxRegister]
    /\ loop \in [Instance -> Loops]
    /\ bulk \in [Instance -> SUBSET TgUser]
    /\ taken \in [Instance -> SUBSET TgUser]
    /\ adding \in [Instance -> SUBSET TgUser]
    /\ users \subseteq TgUser
    /\ stage \in [Instance -> Stages]
    /\ registered \subseteq Instance \X TgUser
    /\ lost \subseteq Instance \X TgUser
    /\ raced \subseteq Owner

Init ==
    /\ queue = [i \in Instance |-> <<>>]
    /\ unfinished = [i \in Instance |-> 0]
    /\ loop = [i \in Instance |-> "starting"]
    /\ bulk = [i \in Instance |-> {}]
    /\ taken = [i \in Instance |-> {}]
    /\ adding = [i \in Instance |-> {}]
    /\ users = {}
    /\ stage = [i \in Instance |-> "up"]
    /\ registered = {}
    /\ lost = {}
    /\ raced = {}

-----------------------------------------------------------------------------
\* Helpers.

Alive(i) == stage[i] \notin {"closed", "killed"}

\* The entries up to the m-th.
Front(q, m) == {q[k] : k \in 1..m}

\* How many entries process_tg_queue takes: until the bulk is full or the queue empty.
Takes(q) ==
    CHOOSE m \in 0..Len(q) :
        /\ m = Len(q) \/ Cardinality(Front(q, m)) = BulkSize
        /\ \A k \in 0..(m - 1) : Cardinality(Front(q, k)) < BulkSize

\* Slip: the entry that no longer fits the bulk is taken all the same.
TakenOff(q, m) == SubSeq(q, m + 2, Len(q))

\* What stays in the queue.
Remaining(q, m) == SubSeq(q, m + 1, Len(q))

\* Slip: the transaction does not see its own additions (no autoflush).
Committed(i) == users

\* The rows a query of the thread's transaction returns.
Visible(i) == users \cup adding[i]

\* The query finds the rows of the user's owner: of its two conditions, joined by the
\* Python operator, the first one is left.
Found(i, u) == {r \in Visible(i) : r.owner = u.owner}

\* The transaction is over, and the processor sleeps.
EndBulk(i) ==
    /\ bulk' = [bulk EXCEPT ![i] = {}]
    /\ taken' = [taken EXCEPT ![i] = {}]
    /\ adding' = [adding EXCEPT ![i] = {}]
    /\ loop' = [loop EXCEPT ![i] = "sleeping"]

\* Slip: shutdown does not wait for the queue.
NotJoined(i) == TRUE

\* When tg_user_queue.join() returns.
Joined(i) == unfinished[i] = 0

-----------------------------------------------------------------------------
\* Actions.

\* A session is created, an NFT synchronised or a content uploaded: the user is put on the
\* queue, even before there is a database.  A full queue raises, and changes nothing.
RegisterTgUser(i, u) ==
    /\ stage[i] = "up"
    /\ Sets!MapThenSumSet(LAMBDA j : unfinished[j], Instance) < MaxRegister
    /\ Len(queue[i]) < QueueSize
    /\ queue' = [queue EXCEPT ![i] = Append(queue[i], u)]
    /\ unfinished' = [unfinished EXCEPT ![i] = unfinished[i] + 1]
    /\ registered' = registered \cup {<<i, u>>}
    /\ UNCHANGED <<loop, bulk, taken, adding, users, stage, lost, raced>>

\* initialize_db succeeds, after as many attempts as it takes, and starts event_processor;
\* as there are no indexers before, a shutdown that is past the queue has cancelled it.
InitializeDb(i) ==
    /\ stage[i] \in {"up", "joining"}
    /\ loop[i] = "starting"
    /\ loop' = [loop EXCEPT ![i] = "sleeping"]
    /\ UNCHANGED <<queue, unfinished, bulk, taken, adding, users, stage, registered, lost, raced>>

\* process_tg_queue
TakeBulk(i) ==
    /\ Alive(i)
    /\ loop[i] = "sleeping"
    /\ queue[i] # <<>>
    /\ LET m == Takes(queue[i]) IN
       /\ queue' = [queue EXCEPT ![i] = Remaining(queue[i], m)]
       /\ taken' = [taken EXCEPT ![i] = Front(queue[i], m)]
       /\ bulk' = [bulk EXCEPT ![i] = Front(queue[i], m)]
    /\ loop' = [loop EXCEPT ![i] = "storing"]
    /\ UNCHANGED <<unfinished, adding, users, stage, registered, lost, raced>>

\* sync_tg_user_bulk_upsert, one turn: several rows raise MultipleResultsFound (Fail), one
\* row is taken for the user, and without a row the user is added.
LookUp(i, u) ==
    /\ loop[i] = "storing"
    /\ u \in bulk[i]
    /\ Cardinality(Found(i, u)) <= 1
    /\ bulk' = [bulk EXCEPT ![i] = bulk[i] \ {u}]
    /\ adding' = [adding EXCEPT ![i] = IF Found(i, u) = {} THEN adding[i] \cup {u} ELSE adding[i]]
    /\ raced' = IF \E j \in Instance \ {i} : \E r \in adding[j] : r.owner = u.owner
                THEN raced \cup {u.owner}
                ELSE raced
    /\ UNCHANGED <<queue, unfinished, loop, taken, users, stage, registered, lost>>

\* The transaction commits, unless a row of it is there already (tg_user_index_uk).
Commit(i) ==
    /\ loop[i] = "storing"
    /\ bulk[i] = {}
    /\ adding[i] \cap users = {}
    /\ users' = users \cup adding[i]
    /\ EndBulk(i)
    /\ UNCHANGED <<queue, unfinished, stage, registered, lost, raced>>

\* Several rows of an owner, the unique constraint or the database end the transaction;
\* event_processor logs it and goes on without the bulk.
Fail(i) ==
    /\ loop[i] = "storing"
    /\ lost' = lost \cup {<<i, u>> : u \in taken[i]}
    /\ EndBulk(i)
    /\ UNCHANGED <<queue, unfinished, users, stage, registered, raced>>

\* Server.shutdown: requests are over by now.  The bot's polling is stopped, and
\* IndexDb.shutdown waits in join().
Shutdown(i) ==
    /\ stage[i] = "up"
    /\ stage' = [stage EXCEPT ![i] = "joining"]
    /\ UNCHANGED <<queue, unfinished, loop, bulk, taken, adding, users, registered, lost, raced>>

\* The indexers are cancelled, and waited for.
StopIndexers(i) ==
    /\ stage[i] = "joining"
    /\ Joined(i)
    /\ stage' = [stage EXCEPT ![i] = "indexers"]
    /\ UNCHANGED <<queue, unfinished, loop, bulk, taken, adding, users, registered, lost, raced>>

\* They have ended, and the other tasks are cancelled: initialize_db and event_processor
\* end, a processor of NFT tasks that is cancelled in a request to a worker goes on.
StopTasks(i) ==
    /\ stage[i] = "indexers"
    /\ stage' = [stage EXCEPT ![i] = "tasks"]
    /\ loop' = [loop EXCEPT ![i] = "ended"]
    /\ UNCHANGED <<queue, unfinished, bulk, taken, adding, users, registered, lost, raced>>

\* All tasks have ended after all, and the managers of tonlib and IPFS stop.
StopManagers(i) ==
    /\ stage[i] = "tasks"
    /\ stage' = [stage EXCEPT ![i] = "closed"]
    /\ UNCHANGED <<queue, unfinished, loop, bulk, taken, adding, users, registered, lost, raced>>

\* The process dies, by itself or because it does not stop.
Kill(i) ==
    /\ Alive(i)
    /\ stage' = [stage EXCEPT ![i] = "killed"]
    /\ lost' = lost \cup {<<i, u>> : u \in taken[i] \cup Front(queue[i], Len(queue[i]))}
    /\ queue' = [queue EXCEPT ![i] = <<>>]
    /\ bulk' = [bulk EXCEPT ![i] = {}]
    /\ taken' = [taken EXCEPT ![i] = {}]
    /\ adding' = [adding EXCEPT ![i] = {}]
    /\ loop' = [loop EXCEPT ![i] = "ended"]
    /\ UNCHANGED <<unfinished, users, registered, raced>>

Next ==
    \E i \in Instance :
        \/ \E u \in TgUser : RegisterTgUser(i, u) \/ LookUp(i, u)
        \/ InitializeDb(i) \/ TakeBulk(i) \/ Commit(i) \/ Fail(i)
        \/ Shutdown(i) \/ StopIndexers(i) \/ StopTasks(i) \/ StopManagers(i) \/ Kill(i)

\* event_processor's turn: it takes a bulk, or its thread goes on with one.
Turn(i) == TakeBulk(i) \/ Commit(i) \/ Fail(i) \/ \E u \in TgUser : LookUp(i, u)

\* The database is there in the end, and the event loop and the threads run; no step of a
\* shutdown need ever come.
Spec ==
    /\ Init /\ [][Next]_userVars
    /\ \A i \in Instance : WF_userVars(InitializeDb(i)) /\ WF_userVars(Turn(i))

-----------------------------------------------------------------------------
\* Properties.

\* A user whom an instance has accepted is on its way, is stored, went down with a bulk
\* or an instance, or is passed over because another user of the same owner is stored:
\* the lookup by the owner alone is the only other way to lose somebody.
UsersKept ==
    \A i \in Instance, u \in TgUser :
        <<i, u>> \in registered =>
            \/ u \in Front(queue[i], Len(queue[i])) \cup taken[i]
            \/ \E r \in users : r.owner = u.owner
            \/ <<i, u>> \in lost

\* An owner gets a second row, from which on every bulk with a user of that owner fails,
\* only if two instances were storing users of the owner at the same time.
SecondRowOnlyByRace ==
    \A r, s \in users : r.owner = s.owner /\ r # s => r.owner \in raced

\* An accepted user does not stay on its way for ever: however many came before it, and
\* whether the database was there or a shutdown began meanwhile, its owner gets a row, or
\* the user goes down with a bulk that fails or an instance that is killed.
UsersServed ==
    \A i \in Instance, u \in TgUser :
        <<i, u>> \in registered ~> (\E r \in users : r.owner = u.owner) \/ <<i, u>> \in lost
=============================================================================
