------------------------------ MODULE MCConvert ------------------------------
(* Small instances of Convert for TLC.                                     *)
EXTENDS Convert, TLC

CONSTANTS f1, f2, f3, w1, w2, zero, b1, b2

(* Two different blocks, so that a lost, repeated or misplaced block is    *)
(* told apart.                                                             *)
MCContents == {<<b1, b2>>}
MCOneBlock == {<<b1>>}
MCSymmetry == Permutations(Files) \cup Permutations(Workers)
MCWorkerSymmetry == Permutations(Workers)

MCAllFaults == Calls
MCMostFaults == Calls \ {"close", "exit", "truncate"}
=============================================================================
