---------------------------- MODULE MCThinGuard ----------------------------
(* Model-checking instances of ThinGuard.                                  *)
EXTENDS ThinGuard, TLC

PoolSymmetry == Permutations(Pool)
=============================================================================
