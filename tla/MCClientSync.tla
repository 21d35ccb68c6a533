---------------------------- MODULE MCClientSync ----------------------------
(* Small instances of ClientSync for TLC.                                  *)
EXTENDS ClientSync, TLC

CONSTANTS t1, t2, r1, r2, m1, m2, k1, k2

Symmetry == Permutations(Calls)
=============================================================================
