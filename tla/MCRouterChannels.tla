-------------------------- MODULE MCRouterChannels --------------------------
(***************************************************************************)
(* Small instances of RouterChannels for TLC.                              *)
(***************************************************************************)
EXTENDS RouterChannels, TLC

ConnSymmetry == Permutations(Conns)
=============================================================================
