----------------------------- MODULE RemoteCall -----------------------------
(***************************************************************************)
(* What TonlibManager promises about a request: once asked it ends once,   *)
(* with a result only if some worker has computed one for this request.    *)
(* A worker may compute a result for a request that has ended already, and *)
(* a request that is asked again may be computed more than once.           *)
(***************************************************************************)
CONSTANTS
    Request,
    Outcome      \* how a request may end, among them "result"

VARIABLES
    asked,       \* the requests made so far
    computed,    \* the requests some worker has computed a result for
    ended        \* the outcomes of those that have ended: pairs <<r, o>>

vars == <<asked, computed, ended>>

Ended(r) == \E o \in Outcome : <<r, o>> \in ended

Init == asked = {} /\ computed = {} /\ ended = {}

Ask(r) ==
    /\ r \notin asked
    /\ asked' = asked \cup {r}
    /\ UNCHANGED <<computed, ended>>

Compute(r) ==
    /\ r \in asked
    /\ computed' = computed \cup {r}
    /\ UNCHANGED <<asked, ended>>

\* No worker is available: the request is asked and ends in one step.
Reject(r, o) ==
    /\ r \notin asked /\ o # "result"
    /\ asked' = asked \cup {r}
    /\ ended' = ended \cup {<<r, o>>}
    /\ UNCHANGED computed

End(r, o) ==
    /\ r \in asked /\ ~Ended(r)
    /\ o = "result" => r \in computed
    /\ ended' = ended \cup {<<r, o>>}
    /\ UNCHANGED <<asked, computed>>

Next ==
    \E r \in Request :
        \/ Ask(r)
        \/ Compute(r)
        \/ \E o \in Outcome : Reject(r, o) \/ End(r, o)

Spec == Init /\ [][Next]_vars
=============================================================================
