------------------------------ MODULE MCWalker ------------------------------
(* Small instances of Walker for TLC.                                      *)
EXTENDS Walker

CONSTANTS f1, f2, w1, w2, zero, b1

MCOneBlock == {<<b1>>}
=============================================================================
