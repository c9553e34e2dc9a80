------------------------------ MODULE RandomFeed ------------------------------
(***************************************************************************)
(* The random feed of a collection (src/NFTorrent/indexer/indexdb.py,      *)
(* sync_collection_random_feed).  The table's ids are cut into segments;   *)
(* from a random one the query climbs to the parent segment until it has   *)
(* found enough rows or has covered the table.                             *)
(*                                                                         *)
(* The segment's number is halved by a true division: once odd, it is a    *)
(* fraction ever after, which is neither odd nor even.                     *)
(***************************************************************************)
EXTENDS Naturals, FiniteSets

CONSTANTS
    Limit,         \* rows asked for
    MaxId,         \* bound: ids of the table
    MaxRows,       \* bound: rows that match
    Fraction       \* any number that is not an integer

VARIABLES
    at,            \* "climbing" or "done"
    rows,          \* ids that match the feed's conditions
    last_id,       \* the table's last id, whether it matches or not
    start,         \* the random segment
    n,             \* the segment's number on the present level
    p0, p1,        \* the segment
    x0, x1,        \* the part of it that is queried next
    result,        \* rows found
    found          \* their number, len(result)

feedVars == <<at, rows, last_id, start, n, p0, p1, x0, x1, result, found>>

\* 1 << math.ceil(math.log2(limit)) + 1
SegmentSize == 2 * (CHOOSE s \in {2 ^ k : k \in 0..Limit} : s >= Limit /\ s < 2 * Limit)

SegmentCount == last_id \div SegmentSize

Init ==
    /\ at = "climbing"
    /\ last_id \in 0..MaxId
    /\ rows \in {s \in SUBSET (1..last_id) : Cardinality(s) <= MaxRows}
    /\ start \in 0..SegmentCount
    /\ n = start
    /\ p0 = SegmentSize * start
    /\ p1 = p0 + SegmentSize
    /\ x0 = p0
    /\ x1 = p1
    /\ result = {}
    /\ found = 0

-----------------------------------------------------------------------------
\* n % 2 == 1
Odd(m) == m # Fraction /\ m % 2 = 1

\* n / 2
Half(m) == IF m = Fraction \/ Odd(m) THEN Fraction ELSE m \div 2

\* The rows a query of the part may return: any, if there are more than wanted.
Answers ==
    LET matching == {r \in rows : x0 <= r /\ r < x1}
        wanted == SegmentSize - found
    IN IF Cardinality(matching) <= wanted
       THEN {matching}
       ELSE {s \in SUBSET matching : Cardinality(s) = wanted}

\* Slip: the segment's beginning is not looked at.
ReachesEnd == p1 >= last_id

\* The segment has grown over the table; a row with the id p1 is not in it.
CoversTable == p0 = 0 /\ p1 >= last_id

\* To the parent segment: its left half if the segment is a right one, else its right half.
Widen ==
    /\ IF Odd(n)
       THEN /\ x1' = p0
            /\ p0' = p0 - (p1 - p0)
            /\ x0' = p0'
            /\ UNCHANGED p1
       ELSE /\ x0' = p1
            /\ p1' = p1 + (p1 - p0)
            /\ x1' = p1'
            /\ UNCHANGED p0
    /\ n' = Half(n)

\* Bound: how far a climb that does not end is followed.
Reach == 4 * (MaxId + SegmentSize)

\* One turn of the loop.
Climb ==
    /\ at = "climbing"
    /\ p1 <= Reach
    /\ \E answer \in Answers :
        /\ result' = result \cup answer
        /\ found' = found + Cardinality(answer)
        /\ \/ /\ CoversTable
              /\ at' = "done"
              /\ UNCHANGED <<n, p0, p1, x0, x1>>
           \/ /\ ~ CoversTable
              /\ Widen
              /\ at' = IF found + Cardinality(answer) >= SegmentSize THEN "done" ELSE "climbing"
    /\ UNCHANGED <<rows, last_id, start>>

Next == Climb

Spec == Init /\ [][Next]_feedVars /\ WF_feedVars(Climb)

-----------------------------------------------------------------------------
\* Properties.

\* The lowest id a climb from the segment m ever queries: it goes to the left once, on the
\* level on which its number is odd.
LowEnd(m) ==
    IF m = 0 THEN 0
    ELSE LET level == CHOOSE s \in {2 ^ k : k \in 0..m} : m % s = 0 /\ (m \div s) % 2 = 1
         IN (m - level) * SegmentSize

\* The climb ends for certain from these segments only: numbers that are zero or a power
\* of two, and numbers above whose low end there are rows enough.
MustEnd ==
    \/ LowEnd(start) = 0
    \/ Cardinality({r \in rows : r >= LowEnd(start)}) >= SegmentSize

\* Every row once: as many as wanted, or all there are.  The table's last row is missing
\* if its id is where the segment ends.
Complete ==
    /\ found = Cardinality(result)
    /\ \/ found = SegmentSize
       \/ result = rows
       \/ p1 = last_id /\ result = rows \ {last_id}

\* The feed is answered completely, and at all, exactly from the segments MustEnd names;
\* from the others the climb's thread runs for ever, since the segment grows to the right
\* of its low end only.
FeedAnswered ==
    /\ [](at = "done" => MustEnd)
    /\ (at = "climbing" /\ MustEnd) ~> (at = "done" /\ Complete)
=============================================================================
