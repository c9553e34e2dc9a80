----------------------------- MODULE MCIndexer -----------------------------
(***************************************************************************)
(* Indexer with two instances and a collection of up to three NFTs, more   *)
(* than a bulk holds.                                                      *)
(***************************************************************************)
EXTENDS Indexer
=============================================================================
