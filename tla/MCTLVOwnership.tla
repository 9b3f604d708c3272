-------------------------- MODULE MCTLVOwnership ---------------------------
(***************************************************************************)
(* A small instance of TLVOwnership.                                       *)
(***************************************************************************)
EXTENDS TLVOwnership, TLC

\* Addresses and Buffer variables are interchangeable.
Symmetry == Permutations(Block) \cup Permutations(Vars)

=============================================================================
