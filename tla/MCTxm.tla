------------------------------- MODULE MCTxm -------------------------------
(***************************************************************************)
(* Instances of Txm for TLC.                                               *)
(***************************************************************************)
EXTENDS Txm, TLC

Symmetry == Permutations(Contracts) \cup Permutations(Senders) \cup Permutations(Callers)
=============================================================================
