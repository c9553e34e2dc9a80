------------------------------ MODULE RateLimit ------------------------------
(***************************************************************************)
(* UniformRateLimit (src/NFTorrent/ratelimit.py) under the calls the       *)
(* tonlib manager makes to the public API: the fallbacks of requests, and  *)
(* update_init_block, which makes three calls one after the other.         *)
(*                                                                         *)
(* A call takes a permit of a semaphore, then a lock, under which it       *)
(* sleeps until _delay_until.  It may be cancelled anywhere; only a call   *)
(* that has got through __aenter__ gives its permit back.                  *)
(***************************************************************************)
EXTENDS Naturals, Sequences, FiniteSets, SequencesExt

CONSTANTS
    Caller,        \* tasks of the event loop
    Interval,      \* _interval, in ticks
    MaxPending     \* permits of the semaphore

ASSUME RateLimitAssumption ==
    /\ IsFiniteSet(Caller)
    /\ Interval \in Nat \ {0}
    /\ MaxPending \in Nat \ {0}

VARIABLES
    place,         \* place[c]: "idle", or where its call stands
    todo,          \* todo[c]: calls it still has to make, the present one included
    pending,       \* tasks in _pending.acquire(), in their order
    line,          \* tasks with a permit in _lock.acquire(), in their order
    permits,       \* value of the semaphore
    delay,         \* time left until _delay_until
    nap,           \* time left of the sleep under the lock
    lost,          \* history: permits that nobody will give back
    since_start,   \* history: time since the last call started, up to Interval
    since_end      \* history: time since the last call ended, up to Interval

vars == <<place, todo, pending, line, permits, delay, nap, lost, since_start, since_end>>

Places == {"idle", "pending", "queued", "asleep", "calling"}

TypeOK ==
    /\ place \in [Caller -> Places]
    /\ todo \in [Caller -> 0..3]
    /\ pending \in Seq(Caller)
    /\ line \in Seq(Caller)
    /\ permits \in 0..MaxPending
    /\ delay \in 0..Interval
    /\ nap \in 0..Interval
    /\ lost \in 0..MaxPending
    /\ since_start \in 0..Interval
    /\ since_end \in 0..Interval

Init ==
    /\ place = [c \in Caller |-> "idle"]
    /\ todo = [c \in Caller |-> 0]
    /\ pending = <<>>
    /\ line = <<>>
    /\ permits = MaxPending
    /\ delay = 0
    /\ nap = 0
    /\ lost = 0
    /\ since_start = Interval
    /\ since_end = Interval

-----------------------------------------------------------------------------
\* Helpers.

At(p) == {c \in Caller : place[c] = p}

Go(c, p) == place' = [place EXCEPT ![c] = p]

\* The queue without the task.
Left(queue, c) ==
    LET here == {i \in 1..Len(queue) : queue[i] = c}
    IN  IF here = {} THEN queue ELSE RemoveAt(queue, CHOOSE i \in here : TRUE)

\* Time left after a tick, and time passed after one.
Less(t) == IF t = 0 THEN 0 ELSE t - 1
More(t) == IF t = Interval THEN t ELSE t + 1

\* Slip: release() forgets the permit.
ReturnedNever == permits

\* The permits after a call has ended.
Returned == permits + 1

\* Slip: the next start is due one tick early.
NextStartEarly == Interval - 1

\* _delay_until after a call has started.
NextStart == Interval

\* Whether the task at the head has to sleep before it calls.
MustSleep == delay > 0

-----------------------------------------------------------------------------
\* Actions.

\* A fallback makes one call, update_init_block three.
Ask(c, n) ==
    /\ place[c] = "idle"
    /\ Go(c, "pending")
    /\ todo' = [todo EXCEPT ![c] = n]
    /\ pending' = Append(pending, c)
    /\ UNCHANGED <<line, permits, delay, nap, lost, since_start, since_end>>

\* acquire(), its first line: the semaphore serves its waiters in their order.
TakePermit ==
    /\ pending # <<>>
    /\ permits > 0
    /\ Go(Head(pending), "queued")
    /\ pending' = Tail(pending)
    /\ line' = Append(line, Head(pending))
    /\ permits' = permits - 1
    /\ UNCHANGED <<todo, delay, nap, lost, since_start, since_end>>

\* acquire() reaches its end: the call starts, and the lock is free again.
Start(c) ==
    /\ Go(c, "calling")
    /\ delay' = NextStart
    /\ since_start' = 0

\* The lock's next holder finds that it has to wait, or calls at once.
EnterLock ==
    /\ line # <<>>
    /\ At("asleep") = {}
    /\ line' = Tail(line)
    /\ \/ /\ MustSleep
          /\ Go(Head(line), "asleep")
          /\ nap' = delay
          /\ UNCHANGED <<delay, since_start>>
       \/ /\ ~ MustSleep
          /\ Start(Head(line))
          /\ UNCHANGED nap
    /\ UNCHANGED <<todo, pending, permits, lost, since_end>>

\* The sleep is over; it is not compared with _delay_until again.
WakeUp(c) ==
    /\ place[c] = "asleep"
    /\ nap = 0
    /\ Start(c)
    /\ UNCHANGED <<todo, pending, line, permits, nap, lost, since_end>>

\* The response or an exception ends the block: release(), and update_init_block's
\* next call if this one was answered.
EndCall(c, ok) ==
    /\ place[c] = "calling"
    /\ permits' = Returned
    /\ delay' = Interval
    /\ since_end' = 0
    /\ \/ /\ ok /\ todo[c] > 1
          /\ todo' = [todo EXCEPT ![c] = todo[c] - 1]
          /\ Go(c, "pending")
          /\ pending' = Append(pending, c)
       \/ /\ ~ (ok /\ todo[c] > 1)
          /\ todo' = [todo EXCEPT ![c] = 0]
          /\ Go(c, "idle")
          /\ UNCHANGED pending
    /\ UNCHANGED <<line, nap, lost, since_start>>

\* The task is cancelled before the block is entered: __aexit__ does not run.
CancelCall(c) ==
    /\ place[c] \in {"pending", "queued", "asleep"}
    /\ Go(c, "idle")
    /\ todo' = [todo EXCEPT ![c] = 0]
    /\ pending' = Left(pending, c)
    /\ line' = Left(line, c)
    /\ lost' = IF place[c] = "pending" THEN lost ELSE lost + 1
    /\ nap' = IF place[c] = "asleep" THEN 0 ELSE nap
    /\ UNCHANGED <<permits, delay, since_start, since_end>>

\* time.monotonic() goes on.
Tick ==
    /\ delay' = Less(delay)
    /\ nap' = Less(nap)
    /\ since_start' = More(since_start)
    /\ since_end' = More(since_end)
    /\ UNCHANGED <<place, todo, pending, line, permits, lost>>

Next ==
    \/ \E c \in Caller : \/ \E n \in {1, 3} : Ask(c, n)
                         \/ WakeUp(c)
                         \/ \E ok \in BOOLEAN : EndCall(c, ok)
                         \/ CancelCall(c)
    \/ TakePermit
    \/ EnterLock
    \/ Tick

Spec == Init /\ [][Next]_vars

-----------------------------------------------------------------------------
\* Properties.

Starts(c) == place[c] # "calling" /\ place'[c] = "calling"

\* Calls start at least an interval apart, whatever ends, sleeps or is cancelled in
\* between.  A call starts within an interval of another call's end only if it was
\* asleep already when that one ended: acquire() does not look at _delay_until again.
StartsSpaced ==
    [][\A c \in Caller :
        Starts(c) => /\ since_start = Interval
                     /\ since_end = Interval \/ place[c] = "asleep"]_vars

\* The tasks that have a permit.
Holders == At("queued") \cup At("asleep") \cup At("calling")

\* Every permit is free, with a call on its way, or lost by a cancellation between
\* _pending.acquire() and the end of __aenter__; nothing else loses or makes one.
PermitsAccounted ==
    permits + Cardinality(Holders) + lost = MaxPending
=============================================================================
