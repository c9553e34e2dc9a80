----------------------------- MODULE MCIpfsPins -----------------------------
(***************************************************************************)
(* IpfsPins with two NFTs and two contents.                                *)
(***************************************************************************)
EXTENDS IpfsPins, TLC

\* Instances, NFTs, contents and jobs are interchangeable.
Symmetry ==
    Permutations(Instance) \cup Permutations(Nft) \cup Permutations(Cid) \cup Permutations(Job)
=============================================================================
