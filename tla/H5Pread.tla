------------------------------ MODULE H5Pread ------------------------------
(***************************************************************************)
(* The blocks of one file: how convert2h5 cuts it into datasets, and how   *)
(* h5fd_pread (dzfile-intern.cc) puts a byte range together again, called  *)
(* by dzfile_pread, dzfile_preadv and the copy loop of dzfile_get.         *)
(*                                                                         *)
(* The sizes are scaled down: H5_BUFSIZE is BufSize, BUFLEN of dzfile-get  *)
(* is BufLen and 2^31, where int overflows, is IntHalf.  A compressed      *)
(* block is the pair of its algorithm and of what went in; what counts of  *)
(* its bytes is only whether there are fewer of them than H5_BUFSIZE.      *)
(***************************************************************************)
EXTENDS Integers, Sequences, SequencesExt

CONSTANTS
    Byte,            \* what a byte may be
    Noise,           \* a byte read from outside of the decompressed block
    BufSize,         \* H5_BUFSIZE
    BufLen,          \* BUFLEN, the read size of dzfile_get
    IntHalf,         \* an int is in -IntHalf .. IntHalf - 1
    Contents,        \* what the user file may hold when it is converted
    Algorithms,      \* what the dataset "algorithm" may say: "isal" and
                     \* "other" are files of another build, "unreadable" is
                     \* one that cannot be read
    Incompressible,  \* blocks whose compressed form has H5_BUFSIZE or more
    Written,         \* the bytes other clients write to the file
    MaxWrites,       \* bound on how often they do
    Iovs,            \* the buffer lengths a client passes to preadv
    Offsets          \* the offsets it passes

ASSUME PreadAssumption ==
    /\ BufSize \in Nat \ {0, 1} /\ BufLen \in Nat \ {0} /\ IntHalf \in Nat \ {0}
    /\ BufSize % BufLen = 0 /\ IntHalf % BufSize = 0 /\ BufSize < IntHalf
    /\ Noise \notin Byte
    /\ Contents \subseteq Seq(Byte)
    /\ Algorithms \subseteq {"zlib", "zstd", "isal", "other", "unreadable"}
    /\ Incompressible \subseteq [1 .. BufSize -> Byte]
    /\ Written \subseteq Byte
    /\ MaxWrites \in Nat /\ Offsets \subseteq Nat
    /\ Iovs \subseteq Seq(Nat) \ {<<>>}

VARIABLES
    content,   \* what the clients wrote
    alg,       \* the dataset "algorithm"
    blocks,    \* the datasets block0, block1, ...
    cpc,       \* convert2h5: "convert", or "done" with reading
    cpos,      \* ... and its read position
    late,      \* ghost: the places written after convert2h5 had read them,
               \* or had found the end of the file
    writes,    \* how often clients wrote
    pc,        \* the reader: "idle", "loop", "returned" or "crashed"
    caller,    \* "preadv" or "get"
    iov,       \* preadv's buffers not yet read into
    start,     \* the offset of the whole call
    want,      \* ... and the bytes it asks for
    count, curoff, nbread,   \* h5fd_pread's variables
    buf,       \* ... and the bytes it stored
    out,       \* the bytes the caller has got from earlier preads
    ret,       \* what the caller's call returned
    turn,      \* ghost: changes with every turn that copies, even no byte
    dst,       \* get's open of the destination succeeded
    fault      \* ghost: a library call failed, or a pwrite of get fell short

file   == <<content, alg, blocks, cpc, cpos, late, writes>>
reader == <<pc, caller, iov, start, want, count, curoff, nbread, buf, out,
            ret, turn, dst, fault>>
vars   == <<file, reader>>

(* A compressed block.                                                     *)
Zipped == [method : Algorithms, data : Seq(Byte)]

(* Conversion to int.                                                      *)
ToInt(x) == ((x + IntHalf) % (2 * IntHalf)) - IntHalf

(* The variables are of their types; while h5fd_pread runs, nbread is the  *)
(* number of bytes stored, never more than asked for, and curoff is that   *)
(* far from where the call began.                                          *)
TypeOK ==
    /\ content \in Seq(Byte)
    /\ alg \in Algorithms
    /\ blocks \in Seq(Zipped)
    /\ cpc \in {"convert", "done"}
    /\ cpos \in 0 .. Len(content)
    /\ late \subseteq 1 .. Len(content)
    /\ writes \in 0 .. MaxWrites
    /\ turn \in {0, 1} /\ dst \in BOOLEAN /\ fault \in BOOLEAN
    /\ pc \in {"idle", "loop", "returned", "crashed"}
    /\ caller \in {"preadv", "get"}
    /\ ret \in {-1} \cup Nat
    /\ iov \in Seq(Nat)
    /\ start \in Nat /\ want \in Nat /\ count \in Nat
    /\ pc = "loop" =>
         /\ nbread = Len(buf) /\ nbread <= count
         /\ curoff = start + Len(out) + nbread

Init ==
    /\ content \in Contents
    /\ alg \in Algorithms
    /\ blocks = <<>>
    /\ cpc = "convert"
    /\ cpos = 0
    /\ late = {} /\ writes = 0
    /\ pc = "idle"
    /\ caller = "preadv"
    /\ iov = <<>>
    /\ start = 0 /\ want = 0 /\ count = 0 /\ curoff = 0 /\ nbread = 0
    /\ buf = <<>> /\ out = <<>>
    /\ ret = 0 /\ turn = 0 /\ dst = FALSE /\ fault = FALSE
-----------------------------------------------------------------------------
(* Both allocate the bound of the compressed size and compress into it;    *)
(* failing, they end convert2h5 before anything is published (Convert).    *)
compressdata_zlib(b) == [method |-> "zlib", data |-> b]
compressdata_zstd(b) == [method |-> "zstd", data |-> b]

(* The blocks of another build are as that one made them.                  *)
compress_data(b) ==
    CASE alg = "zlib" -> compressdata_zlib(b)
      [] alg = "zstd" -> compressdata_zstd(b)
      [] OTHER        -> [method |-> alg, data |-> b]

(* Mutant: block k is read at offset k * H5_BUFSIZE.                       *)
convert_read_skip ==
    LET at   == Len(blocks) * BufSize
        rest == Len(content) - at
        n    == IF rest < BufSize THEN rest ELSE BufSize IN
    /\ cpc = "convert"
    /\ \/ n <= 0 /\ cpc' = "done" /\ UNCHANGED <<blocks, cpos>>
       \/ /\ n > 0
          /\ blocks' = Append(blocks, compress_data(SubSeq(content, at + 1, at + n)))
          /\ cpos' = at + n
          /\ UNCHANGED cpc
    /\ UNCHANGED <<content, alg, late, writes, reader>>

(* One turn of convert2h5's loop: read at most H5_BUFSIZE bytes; whatever  *)
(* was read is the next block, and nothing read ends the loop.  Then the   *)
(* hidden file is published and the user file punched (Convert), whatever  *)
(* clients still write to it.                                              *)
convert_read ==
    LET rest == Len(content) - cpos
        n    == IF rest < BufSize THEN rest ELSE BufSize IN
    /\ cpc = "convert"
    /\ \/ n = 0 /\ cpc' = "done" /\ UNCHANGED <<blocks, cpos>>
       \/ /\ n > 0
          /\ blocks' = Append(blocks,
                        compress_data(SubSeq(content, cpos + 1, cpos + n)))
          /\ cpos' = cpos + n
          /\ UNCHANGED cpc
    /\ UNCHANGED <<content, alg, late, writes, reader>>

(* A client that has opened the file before writes a byte somewhere in it, *)
(* or behind it, at any time: nothing keeps it off.                        *)
dzfile_write ==
    /\ writes < MaxWrites
    /\ writes' = writes + 1
    /\ \E k \in 1 .. Len(content) + 1, b \in Written :
         /\ content' = IF k > Len(content) THEN Append(content, b)
                       ELSE [content EXCEPT ![k] = b]
         /\ late' = IF cpc = "done" \/ k <= cpos THEN late \cup {k} ELSE late
    /\ UNCHANGED <<alg, blocks, cpc, cpos, reader>>
-----------------------------------------------------------------------------
(* hdf5_readstr fails on a dataset it cannot read or that is too long.     *)
hdf5_readstr == IF alg = "unreadable" THEN {} ELSE {alg}

(* getAlgorithm: the first word of the dataset, if there is one.           *)
getAlgorithm ==
    IF hdf5_readstr \cap {"zlib", "zstd", "isal"} = {} THEN "unknown"
    ELSE CHOOSE word \in hdf5_readstr : TRUE

(* h5fd_pread(n, o) is entered.                                            *)
Enter(n, o) ==
    /\ count' = n
    /\ curoff' = o
    /\ nbread' = 0
    /\ buf' = <<>>
    /\ turn' = 0

(* The call as a whole returns r; dzfile_get returns 0, whatever went      *)
(* wrong.                                                                  *)
Finish(r) ==
    /\ pc' = "returned"
    /\ ret' = IF caller = "get" THEN 0 ELSE r
    /\ UNCHANGED <<caller, iov, start, want, count, curoff, nbread, buf, turn,
                   dst>>

(* dzfile_preadv(v, o); dzfile_pread is the case of a single buffer.       *)
dzfile_preadv(v, o) ==
    /\ cpc = "done" /\ pc \in {"idle", "returned", "crashed"}
    /\ pc' = "loop"
    /\ caller' = "preadv"
    /\ iov' = Tail(v)
    /\ start' = o
    /\ want' = FoldSeq(+, 0, v)
    /\ Enter(Head(v), o)
    /\ out' = <<>> /\ fault' = FALSE
    /\ UNCHANGED <<file, ret, dst>>

(* dzfile_get starts its copy loop; whether the destination could be       *)
(* opened is not looked at.                                                *)
dzfile_get ==
    /\ cpc = "done" /\ pc \in {"idle", "returned", "crashed"}
    /\ pc' = "loop"
    /\ caller' = "get"
    /\ iov' = <<>>
    /\ start' = 0
    /\ want' = 0
    /\ Enter(BufLen, 0)
    /\ out' = <<>> /\ fault' = FALSE
    /\ dst' \in BOOLEAN
    /\ UNCHANGED <<file, ret>>

(* h5fd_pread fails: preadv forgets what it had, get stops.                *)
pread_fail ==
    /\ Finish(-1)
    /\ UNCHANGED <<out, fault>>

(* It fails because a call of HDF5 or zstd, or an allocation, does: under  *)
(* getAlgorithm, or in a turn of the loop.                                 *)
library_fail ==
    /\ count = 0 \/ nbread < count
    /\ Finish(-1)
    /\ fault' = TRUE
    /\ UNCHANGED out

(* get's pwrite of the nbread bytes: all of them, fewer, which nobody      *)
(* looks at, or none, which ends the copy; as it always does when the      *)
(* destination is not open.                                                *)
pwrite ==
    \/ /\ dst /\ fault' \in {fault, TRUE}
       /\ Enter(BufLen, curoff)
       /\ UNCHANGED <<pc, caller, iov, start, want, ret, dst>>
    \/ fault' = TRUE /\ Finish(0)

(* Mutant: get takes a short count for the end and drops it.               *)
pread_return_short ==
    LET last == IF caller = "get" THEN nbread < BufLen
                ELSE nbread = 0 \/ iov = <<>> IN
    /\ out' = IF caller = "get" /\ last THEN out ELSE out \o buf
    /\ \/ last /\ Finish(Len(out')) /\ UNCHANGED fault
       \/ ~last /\ caller = "get" /\ pwrite
       \/ /\ ~last /\ caller = "preadv"
          /\ iov' = Tail(iov)
          /\ Enter(Head(iov), curoff)
          /\ UNCHANGED <<pc, caller, start, want, ret, dst, fault>>

(* Mutant: preadv goes on with the next buffer when pread returned 0.      *)
pread_return_onward ==
    /\ out' = out \o buf
    /\ \/ nbread = 0 /\ caller = "get" /\ Finish(Len(out)) /\ UNCHANGED fault
       \/ caller = "preadv" /\ iov = <<>> /\ Finish(Len(out')) /\ UNCHANGED fault
       \/ /\ caller = "preadv" /\ iov # <<>>
          /\ iov' = Tail(iov)
          /\ Enter(Head(iov), curoff)
          /\ UNCHANGED <<pc, caller, start, want, ret, dst, fault>>
       \/ nbread > 0 /\ caller = "get" /\ pwrite

(* h5fd_pread has returned nbread bytes: both callers stop at 0, preadv    *)
(* goes on with the next buffer, get with the next BUFLEN bytes.           *)
pread_return ==
    /\ out' = out \o buf
    /\ \/ nbread = 0 /\ Finish(Len(out)) /\ UNCHANGED fault
       \/ /\ nbread > 0 /\ caller = "preadv" /\ iov = <<>>
          /\ Finish(Len(out) + nbread)
          /\ UNCHANGED fault
       \/ /\ nbread > 0 /\ caller = "preadv" /\ iov # <<>>
          /\ iov' = Tail(iov)
          /\ Enter(Head(iov), curoff)
          /\ UNCHANGED <<pc, caller, start, want, ret, dst, fault>>
       \/ nbread > 0 /\ caller = "get" /\ pwrite

(* Byte i of the decompressed block, or of what lies around it.            *)
Fetch(block, i) == IF i \in 1 .. Len(block) THEN block[i] ELSE Noise

(* Mutant: validbytes is not limited to what is left of count.             *)
pread_copy_all(block, at, validbytes) ==
    /\ buf' = buf \o [i \in 1 .. validbytes |-> Fetch(block, at + i)]
    /\ nbread' = nbread + validbytes
    /\ curoff' = curoff + validbytes
    /\ turn' = 1 - turn
    /\ UNCHANGED <<pc, caller, iov, start, want, count, out, ret, dst, fault>>

(* memmove of n bytes at srcp, n being validbytes or what is left of       *)
(* count, converted to int.  The comparison is unsigned: a negative        *)
(* validbytes counts as large.  Reading outside of the block gives noise   *)
(* or ends the process, and a negative n ends it.                          *)
pread_copy(block, at, validbytes) ==
    LET left == count - nbread
        n    == IF validbytes < 0 \/ validbytes > left THEN ToInt(left)
                ELSE validbytes IN
    \/ /\ n >= 0
       /\ buf' = buf \o [i \in 1 .. n |-> Fetch(block, at + i)]
       /\ nbread' = nbread + n
       /\ curoff' = curoff + n
       /\ turn' = 1 - turn
       /\ UNCHANGED <<pc, caller, iov, start, want, count, out, ret, dst, fault>>
    \/ /\ n < 0 \/ (n > 0 /\ (at < 0 \/ at + n > Len(block)))
       /\ pc' = "crashed"
       /\ UNCHANGED <<caller, iov, start, want, count, curoff, nbread, buf, out,
                      ret, turn, dst, fault>>

(* Mutant: the offset within the block is forgotten.                       *)
pread_block_base(block, blocknum) == pread_copy(block, 0, Len(block))

(* Mutant: validbytes = 0 does not end the loop.                           *)
pread_block_nozero(block, blocknum) ==
    LET base == ToInt(blocknum * BufSize) IN
    pread_copy(block, curoff - base, ToInt(Len(block) - curoff + base))

(* Mutant: validbytes is the length of the block, wherever curoff is.      *)
pread_block_length(block, blocknum) ==
    LET base == ToInt(blocknum * BufSize) IN
    \/ curoff - base = Len(block) /\ pread_return
    \/ curoff - base # Len(block) /\ pread_copy(block, curoff - base, Len(block))

(* The part of one block the caller wants: blocknum * H5_BUFSIZE is an int *)
(* multiplication, and validbytes is an int again.                         *)
pread_block(block, blocknum) ==
    LET base       == ToInt(blocknum * BufSize)
        validbytes == ToInt(Len(block) - curoff + base) IN
    \/ validbytes = 0 /\ pread_return
    \/ validbytes # 0 /\ pread_copy(block, curoff - base, validbytes)

(* Mutant: the last dataset is not found.                                  *)
hdf5_readdata_last(blocknum) ==
    /\ blocknum + 1 \in 1 .. Len(blocks) - 1
    /\ blocks[blocknum + 1].data \notin Incompressible

(* hdf5_readdata finds the dataset and has room for it.                    *)
hdf5_readdata(blocknum) ==
    /\ blocknum + 1 \in 1 .. Len(blocks)
    /\ blocks[blocknum + 1].data \notin Incompressible

(* What went into a block that decompressdata_zstd itself made: the size   *)
(* of the buffer is in the block.                                          *)
decompressdata_zstd(zip) == zip.data

(* decompressdata_zlib is given an uninitialised length and no buffer: it  *)
(* fails, or writes through the null pointer.                              *)
decompressdata_zlib ==
    \/ pread_fail
    \/ /\ pc' = "crashed"
       /\ UNCHANGED <<caller, iov, start, want, count, curoff, nbread, buf, out,
                      ret, turn, dst, fault>>

(* decompress_data, and h5fd_pread with its result: isal has no case.      *)
decompress_data(zip, blocknum) ==
    \/ getAlgorithm = "zlib" /\ decompressdata_zlib
    \/ getAlgorithm = "zstd" /\ pread_block(decompressdata_zstd(zip), blocknum)
    \/ getAlgorithm = "isal" /\ pread_fail

(* One turn of h5fd_pread's loop, or its end.  The number of the block is  *)
(* an int.                                                                 *)
h5fd_pread ==
    LET blocknum == ToInt(curoff \div BufSize) IN
    /\ pc = "loop"
    /\ \/ getAlgorithm = "unknown" /\ pread_fail
       \/ library_fail
       \/ getAlgorithm # "unknown" /\ nbread >= count /\ pread_return
       \/ /\ getAlgorithm # "unknown" /\ nbread < count
          /\ \/ ~hdf5_readdata(blocknum) /\ pread_fail
             \/ /\ hdf5_readdata(blocknum)
                /\ decompress_data(blocks[blocknum + 1], blocknum)
    /\ UNCHANGED file

Next ==
    \/ convert_read \/ dzfile_write
    \/ \E v \in Iovs, o \in Offsets : dzfile_preadv(v, o)
    \/ dzfile_get
    \/ h5fd_pread

Spec == Init /\ [][Next]_vars

(* The converter and a reader that has been called keep running.           *)
FairSpec == Spec /\ WF_vars(convert_read) /\ WF_vars(h5fd_pread)
-----------------------------------------------------------------------------
(* The file as it was compressed.                                          *)
Stored == FlattenSeq([i \in 1 .. Len(blocks) |-> blocks[i].data])

(* The answer pread(2) would have given for that file.                     *)
Expected(n, o) ==
    SubSeq(Stored, o + 1, IF o + n < Len(Stored) THEN o + n ELSE Len(Stored))

(* A preadv that began at or before the end of the file has returned.      *)
Answered ==
    pc = "returned" /\ caller = "preadv" /\ start <= Len(Stored)

(* The blocks are where h5fd_pread looks for them: the file is smaller     *)
(* than 2 GiB and did not grow after a short read of convert2h5.           *)
Regular ==
    /\ Len(Stored) <= IntHalf
    /\ \A i \in 1 .. Len(blocks) - 1 : Len(blocks[i].data) = BufSize

(* A file convert2h5 can store so that h5fd_pread reads it back: also zstd *)
(* and every block with a compressed form that fits.                       *)
Sound ==
    /\ Regular
    /\ alg = "zstd"
    /\ \A i \in 1 .. Len(blocks) : blocks[i].data \notin Incompressible

(* However clients write to the file while convert2h5 reads it, every byte *)
(* of it is stored, once and in its place, but for those that were written *)
(* behind the back of convert2h5: where it had read already, or after it   *)
(* had found the end of the file.                                          *)
AllStored ==
    cpc = "done" =>
      /\ Len(Stored) <= Len(content)
      /\ \A i \in (1 .. Len(content)) \ late :
           i <= Len(Stored) /\ Stored[i] = content[i]

(* A read of a compressed file (a regular one) that does not fail returns  *)
(* what pread(2) would: the bytes at that place, up to the end of the      *)
(* file, wherever its buffers and the blocks begin and end.  But an empty  *)
(* buffer ends it: preadv takes the 0 that comes back for the end of file. *)
ReadExact ==
    Answered /\ Regular /\ ret # -1
      => /\ ret = Len(out)
         /\ out = Expected(IF count = 0 THEN Len(out) ELSE want, start)

(* Unless a library call does, it does not fail when it stays inside the   *)
(* file, nor at the end of a file whose last block is not full.            *)
ReadInside ==
    Answered /\ Sound /\ ~fault
      /\ (start + want <= Len(Stored) \/ Len(Stored) % BufSize # 0)
      => ret # -1

(* dzfile_get copies the whole file, even where its last read fails, if    *)
(* the open of the destination and every pwrite do what they should and no *)
(* library call fails; otherwise it returns 0 just the same.               *)
GetCopies ==
    pc = "returned" /\ caller = "get" /\ Sound /\ ~fault => out = Stored

(* In a regular file, from an offset that is not behind its end,           *)
(* validbytes is never negative and the memmove of h5fd_pread never leaves *)
(* the decompressed block: only decompressdata_zlib can kill the process.  *)
CopyInside ==
    pc = "crashed" /\ Regular /\ start <= Len(Stored) => alg = "zlib"


(* What is left of count is not a multiple of 4 GiB, 0 as an int, when a   *)
(* negative validbytes is replaced by it; or validbytes is not negative.   *)
CountFits ==
    want < 2 * IntHalf \/ (Regular /\ start <= Len(Stored))

(* Then no turn of the loop is idle, in any file: it copies a byte or more *)
(* from one of the blocks (unless the block's number has overflowed), or   *)
(* it ends a pread that has got some, and the next one begins there.  So   *)
(* that no read goes on for ever: preadv wants finitely many bytes, and    *)
(* dzfile_get, which begins at 0, has finitely many blocks.                *)
TurnMoves ==
    [][pc = "loop" /\ pc' = "loop" /\ CountFits =>
         \/ /\ curoff' > curoff
            /\ curoff < IntHalf * BufSize => curoff < Len(blocks) * BufSize
         \/ curoff' = curoff /\ nbread > 0 /\ nbread' = 0]_reader

(* Every such read ends: validbytes = 0 leaves the loop of h5fd_pread.     *)
ReadEnds == pc = "loop" /\ CountFits ~> pc # "loop"
=============================================================================
