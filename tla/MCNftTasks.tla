----------------------------- MODULE MCNftTasks -----------------------------
(***************************************************************************)
(* Instances of NftTasks: an NFT whose due time may be extended and two    *)
(* processors, for safety; one processor and more time, for liveness.      *)
(***************************************************************************)
EXTENDS NftTasks, TLC

Symmetry == Permutations(Processor)
=============================================================================
