---------------------------- MODULE MCThinOwner ----------------------------
(* Model-checking instances of ThinOwner.                                  *)
EXTENDS ThinOwner, TLC

NodeSymmetry == Permutations(Node)
=============================================================================
