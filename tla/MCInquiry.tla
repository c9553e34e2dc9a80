------------------------------ MODULE MCInquiry ------------------------------
(***************************************************************************)
(* Inquiry with one user and one admin, until two inquiries are closed.    *)
(***************************************************************************)
EXTENDS Inquiry, TLC

\* Bound: the last inquiry stays open.
Bounded == \E x \in Id : rows[x].status # "closed"

\* Ids and handlers are interchangeable.
Symmetry == Permutations(Id) \cup Permutations(Handler)
=============================================================================
