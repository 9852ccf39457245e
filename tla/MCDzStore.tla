----------------------------- MODULE MCDzStore -----------------------------
(* Small instances of DzStore for TLC.                                     *)
EXTENDS DzStore, TLC

CONSTANTS p1, p2, f1, f2, v1

MCSymmetry == Permutations(Procs)
=============================================================================
