----------------------------- MODULE MCH5Pread -----------------------------
(* Small instances of H5Pread for TLC.                                     *)
EXTENDS H5Pread

Upto(n) == [i \in 1 .. n |-> i]

(* Files of no byte to two full blocks of 4 bytes, with every byte         *)
(* different, and one whose second block does not compress.                *)
MCContents == {Upto(n) : n \in {0, 1, 3, 4, 5, 6, 8}} \cup {<<8, 7, 6, 5, 4, 3, 2, 1>>}
MCIncompressible == {<<4, 3, 2, 1>>}
MCIovs == {<<1>>, <<3>>, <<6>>, <<2, 3>>, <<4, 4>>, <<5, 1, 2>>,
           <<0>>, <<2, 0, 3>>, <<8>>, <<16>>}

(* Offsets in the file, at its end and behind it, and one where the number *)
(* of the block overflows.                                                 *)
MCOffsets == {0, 1, 3, 4, 5, 6, 8, 9, 64}

MCFull == {Upto(8)}
MCNone == {}
=============================================================================
