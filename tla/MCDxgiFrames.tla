----------------------------- MODULE MCDxgiFrames ----------------------------
(* DxgiFrames on two swap chains and two threads. *)
EXTENDS DxgiFrames, TLC

ThreadAndChainSymmetry == Permutations(Threads) \cup Permutations(Chains)
=============================================================================
