-------------------------- MODULE MCOperationLock --------------------------
(***************************************************************************)
(* OperationLock with three tasks on two keys.  Three lock objects are one *)
(* more than the keys' entries can refer to at a time, so that a new one   *)
(* can always be made while a cancelled task still refers to an old one.   *)
(***************************************************************************)
EXTENDS OperationLock
=============================================================================
