----------------------------- MODULE MCDispatch -----------------------------
(***************************************************************************)
(* Dispatch with two workers and two requests.  A worker may answer with   *)
(* nothing; an answer that is a TonlibError is retried.                    *)
(***************************************************************************)
EXTENDS Dispatch

AnyAnswer == {"result", "error", "failure", "nothing"}
OnErrors == {"error"}
=============================================================================
