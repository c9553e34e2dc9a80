------------------------------ MODULE NftReads ------------------------------
(***************************************************************************)
(* How old an NFT's data may be when Server.sync_nft_data stores it        *)
(* (src/NFTorrent/webserver.py): get_nft_data is cached, and calls         *)
(* raw_run_method, which is cached too (src/NFTorrent/tonlib/manager.py,   *)
(* setup_cache).  Pages read the same NFT at the same time; two requests   *)
(* that both miss a cache both go to a worker, and the last one to come    *)
(* back is kept.                                                           *)
(*                                                                         *)
(* The cache library is external: a result is kept for the time given and  *)
(* then forgotten; an exception is not kept.                               *)
(***************************************************************************)
EXTENDS Naturals

CONSTANTS
    Reader,        \* tasks that read the NFT: pages, and at most one synchronisation
    Expire,        \* expire of both caches, in ticks
    Latency,       \* a worker answers within this time, or the request fails
    Wait           \* the sleep of sync_nft_data

VARIABLES
    place,         \* place[r]: where the task stands
    clock,         \* clock[r]: time left of its sleep or request
    age,           \* age[r]: time since the chain was read for the data in the task's hands
    syncs,         \* the tasks that are synchronisations
    run_cache,     \* the entry of raw_run_method: time left, and age of the data
    data_cache     \* the entry of get_nft_data

readVars == <<place, clock, age, syncs, run_cache, data_cache>>

\* How old the data may be: twice a request and the life of a cache's entry.
Bound == 2 * (Latency + Expire - 1)

Places == {"idle", "sleeping", "asking", "answering", "verifying", "read"}
Entry == [left : 0..Expire, age : 0..(Bound + 1)]

TypeOK ==
    /\ place \in [Reader -> Places]
    /\ clock \in [Reader -> 0..(Latency + Wait)]
    /\ age \in [Reader -> 0..(Bound + 1)]
    /\ syncs \subseteq Reader
    /\ run_cache \in Entry
    /\ data_cache \in Entry

Init ==
    /\ place = [r \in Reader |-> "idle"]
    /\ clock = [r \in Reader |-> 0]
    /\ age = [r \in Reader |-> 0]
    /\ syncs = {}
    /\ run_cache = [left |-> 0, age |-> 0]
    /\ data_cache = [left |-> 0, age |-> 0]

-----------------------------------------------------------------------------
\* Helpers.

Goes(r, p, time) ==
    /\ place' = [place EXCEPT ![r] = p]
    /\ clock' = [clock EXCEPT ![r] = time]

Holds(r, old) == age' = [age EXCEPT ![r] = old]

Hit(entry) == entry.left > 0

Kept(old) == [left |-> Expire, age |-> old]

\* Slip: a hit renews the entry.
Renewed(entry) == [entry EXCEPT !.left = Expire]

\* An entry after a hit.
Used(entry) == entry

Older(old) == IF old > Bound THEN old ELSE old + 1

Less(time) == IF time = 0 THEN 0 ELSE time - 1

Aged(entry) == [left |-> Less(entry.left), age |-> Older(entry.age)]

-----------------------------------------------------------------------------
\* Actions.

\* sync_nft_data, under its operation lock: a second one is refused.
Sync(r) ==
    /\ place[r] = "idle"
    /\ syncs = {}
    /\ syncs' = {r}
    /\ Goes(r, "sleeping", Wait)
    /\ UNCHANGED <<age, run_cache, data_cache>>

\* get_nft_data: from its cache, with a cached result of raw_run_method, or by a request.
GetNftData(r) ==
    /\ \/ place[r] = "idle"
       \/ place[r] = "sleeping" /\ clock[r] = 0
    /\ \/ /\ Hit(data_cache)
          /\ Goes(r, "read", 0)
          /\ Holds(r, data_cache.age)
          /\ data_cache' = Used(data_cache)
          /\ UNCHANGED run_cache
       \/ /\ ~ Hit(data_cache)
          /\ Hit(run_cache)
          /\ Goes(r, "verifying", Latency)
          /\ Holds(r, run_cache.age)
          /\ run_cache' = Used(run_cache)
          /\ UNCHANGED data_cache
       \/ /\ ~ Hit(data_cache)
          /\ ~ Hit(run_cache)
          /\ Goes(r, "asking", Latency)
          /\ UNCHANGED <<age, run_cache, data_cache>>
    /\ UNCHANGED syncs

\* A worker reads the chain.
ReadChain(r) ==
    /\ place[r] = "asking"
    /\ Goes(r, "answering", clock[r])
    /\ Holds(r, 0)
    /\ UNCHANGED <<syncs, run_cache, data_cache>>

\* raw_run_method asks once more, of an archival worker if there is one.
Retry(r) ==
    /\ place[r] \in {"asking", "answering"}
    /\ Goes(r, "asking", Latency)
    /\ UNCHANGED <<age, syncs, run_cache, data_cache>>

\* raw_run_method returns, and the address is verified with the collection.
Answer(r) ==
    /\ place[r] = "answering"
    /\ run_cache' = Kept(age[r])
    /\ Goes(r, "verifying", Latency)
    /\ UNCHANGED <<age, syncs, data_cache>>

Verified(r) ==
    /\ place[r] = "verifying"
    /\ data_cache' = Kept(age[r])
    /\ Goes(r, "read", 0)
    /\ UNCHANGED <<age, syncs, run_cache>>

\* The data are stored, or shown.
Leave(r) ==
    /\ Goes(r, "idle", 0)
    /\ Holds(r, 0)
    /\ syncs' = syncs \ {r}
    /\ UNCHANGED <<run_cache, data_cache>>

Store(r) == place[r] = "read" /\ Leave(r)

Fail(r) == place[r] \in {"asking", "answering", "verifying"} /\ Leave(r)

\* Time does not pass while a task is late.
Tick ==
    /\ \A r \in Reader : place[r] # "idle" => clock[r] > 0
    /\ clock' = [r \in Reader |-> Less(clock[r])]
    /\ age' = [r \in Reader |-> IF place[r] \in {"answering", "verifying"} THEN Older(age[r]) ELSE age[r]]
    /\ run_cache' = Aged(run_cache)
    /\ data_cache' = Aged(data_cache)
    /\ UNCHANGED <<place, syncs>>

Next ==
    \/ \E r \in Reader :
          \/ Sync(r) \/ GetNftData(r) \/ ReadChain(r) \/ Retry(r)
          \/ Answer(r) \/ Verified(r) \/ Store(r) \/ Fail(r)
    \/ Tick

Spec == Init /\ [][Next]_readVars

-----------------------------------------------------------------------------

(***************************************************************************)
(* What a synchronisation stores was on the chain no longer ago than the   *)
(* bound: a change is missed only if it came later than the bound, less    *)
(* the sleep, before the call, however the reads of others overtake.       *)
(***************************************************************************)
StoredIsRecent ==
    \A r \in syncs : place[r] = "read" => age[r] <= Bound

=============================================================================
