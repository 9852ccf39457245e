--------------------------- MODULE H5PreadProofs ---------------------------
(***************************************************************************)
(* Proofs about H5Pread, for files, blocks, buffers and reads of any size: *)
(* convert2h5 stores every byte once, and h5fd_pread gives back what       *)
(* pread(2) would, although it computes with an int that wraps around.     *)
(***************************************************************************)
EXTENDS H5Pread, FoldFacts

-----------------------------------------------------------------------------
(* Arithmetic.                                                             *)

(* Division leaves a remainder that is smaller than the divisor.           *)
LEMMA DivMod ==
  ASSUME NEW a \in Nat, NEW b \in Nat \ {0}
  PROVE  /\ a \div b \in Nat /\ a % b \in 0 .. b - 1
         /\ a = (a \div b) * b + (a % b)
<1>1. a \div b \in Nat /\ a % b \in 0 .. b - 1
  OBVIOUS
<1>2. a = (a \div b) * b + (a % b)
  OBVIOUS
<1> QED
  BY <1>1, <1>2

(* Which multiple of b a number is at or behind.                           *)
LEMMA DivAtLeast ==
  ASSUME NEW a \in Nat, NEW b \in Nat \ {0}, NEW n \in Nat, a \div b >= n
  PROVE  a >= n * b
OBVIOUS

(* ... and which one it is before.                                         *)
LEMMA DivBelow ==
  ASSUME NEW a \in Nat, NEW b \in Nat \ {0}, NEW n \in Nat, a \div b < n
  PROVE  a < n * b
OBVIOUS

(* A multiple leaves no remainder.                                         *)
LEMMA ModMultiple ==
  ASSUME NEW n \in Nat, NEW b \in Nat \ {0}
  PROVE  (n * b) % b = 0
OBVIOUS

(* Conversion to int changes nothing in the range of int.                  *)
LEMMA ToIntId ==
  ASSUME NEW x \in Int, -IntHalf <= x, x < IntHalf
  PROVE  ToInt(x) = x
<1>1. IntHalf \in Nat \ {0}
  BY PreadAssumption DEF PreadAssumption
<1>2. x + IntHalf \in 0 .. 2 * IntHalf - 1
  BY <1>1
<1>3. (x + IntHalf) % (2 * IntHalf) = x + IntHalf
  BY <1>1, <1>2
<1> QED
  BY <1>1, <1>3 DEF ToInt
-----------------------------------------------------------------------------
(* The converter.                                                          *)
Datas == [i \in 1 .. Len(blocks) |-> blocks[i].data]

(* No block but the last is shorter than H5_BUFSIZE.                       *)
Whole == \A i \in 1 .. Len(blocks) - 1 : Len(blocks[i].data) = BufSize

(* Where block i of bs ends, when the blocks before it are whole.          *)
EndOf(bs, i) == (i - 1) * BufSize + Len(bs[i].data)

(* As much is stored as has been read, and, as long as no read was short,  *)
(* block i holds what is stored from (i - 1) * BufSize on.                 *)
StoreInv ==
    /\ \A i \in 1 .. Len(blocks) : Len(blocks[i].data) \in 1 .. BufSize
    /\ Stored \in Seq(Byte) /\ Len(Stored) = cpos
    /\ Whole =>
         /\ \A i \in 1 .. Len(blocks) :
              /\ EndOf(blocks, i) <= cpos
              /\ blocks[i].data =
                   SubSeq(Stored, (i - 1) * BufSize + 1, EndOf(blocks, i))
         /\ blocks = <<>> => cpos = 0
         /\ blocks # <<>> => cpos = EndOf(blocks, Len(blocks))

(* What is stored is in the file still, but for what was written late, and *)
(* at the end there is nothing else in the file.                           *)
LateInv ==
    /\ \A i \in (1 .. cpos) \ late : Stored[i] = content[i]
    /\ cpc = "done" => \A i \in (1 .. Len(content)) \ late : i <= cpos

(* The types that TypeOK needs to be inductive.                            *)
Got == Byte \cup {Noise}

TypeInv ==
    /\ TypeOK
    /\ out \in Seq(Got) /\ buf \in Seq(Got)
    /\ nbread \in Nat /\ curoff \in Nat
    /\ pc # "idle" => cpc = "done"

(* What is stored is in the blocks.                                        *)
LEMMA StoredSame == ASSUME UNCHANGED blocks PROVE Stored' = Stored
  BY DEF Stored

(* Types and stored blocks at the start.                                   *)
LEMMA InitStore == Init => TypeInv /\ StoreInv /\ LateInv
<1> SUFFICES ASSUME Init
             PROVE  TypeInv /\ StoreInv /\ LateInv
  OBVIOUS
<1>1. /\ content \in Seq(Byte) /\ blocks = <<>> /\ cpos = 0 /\ cpc = "convert"
      /\ Len(content) \in Nat /\ MaxWrites \in Nat
  BY PreadAssumption DEF Init, PreadAssumption
<1>2. Datas = <<>>
  BY <1>1 DEF Datas
<1>3. Stored = <<>>
  BY <1>2, FlattenEmpty DEF Stored, Datas
<1>4. Len(blocks) = 0 /\ <<>> \in Seq(Byte) /\ Len(<<>>) = 0
  BY <1>1
<1>5. StoreInv /\ LateInv
  BY <1>1, <1>3, <1>4 DEF StoreInv, Whole, LateInv
<1>6. dst \in BOOLEAN /\ fault \in BOOLEAN
  BY DEF Init
<1>7. TypeInv
  BY <1>1, <1>6 DEF Init, TypeInv, TypeOK
<1> QED
  BY <1>5, <1>7

(* What lies in the first of two sequences, in their concatenation,        *)
LEMMA SubSeqOfFirst ==
  ASSUME NEW S, NEW s \in Seq(S), NEW t \in Seq(S),
         NEW m \in Nat \ {0}, NEW n \in Int, n <= Len(s)
  PROVE  SubSeq(s \o t, m, n) = SubSeq(s, m, n)
<1>1. /\ s \o t \in Seq(S) /\ Len(s) \in Nat
      /\ \A i \in m .. n : s[i] \in S /\ (s \o t)[i] = s[i]
  <2>1. \A i \in m .. n : i \in 1 .. Len(s) /\ i \in 1 .. Len(s) + Len(t)
    BY LenProperties
  <2> QED
    BY <2>1, ConcatProperties, ElementOfSeq, LenProperties
<1> DEFINE x == SubSeq(s \o t, m, n)
           y == SubSeq(s, m, n)
           k == IF m <= n THEN n - m + 1 ELSE 0
<1>2. /\ x \in Seq(S) /\ Len(x) = k
      /\ \A i \in 1 .. n - m + 1 : x[i] = (s \o t)[m + i - 1]
  BY <1>1, SubSeqProperties
<1>3. /\ y \in Seq(S) /\ Len(y) = k
      /\ \A i \in 1 .. n - m + 1 : y[i] = s[m + i - 1]
  BY <1>1, SubSeqProperties
<1>4. \A i \in 1 .. k : i \in 1 .. n - m + 1 /\ m + i - 1 \in m .. n
  OBVIOUS
<1> HIDE DEF x, y, k
<1>5. Len(x) = Len(y) /\ \A i \in 1 .. Len(x) : x[i] = y[i]
  BY <1>1, <1>2, <1>3, <1>4
<1>6. x = y
  BY <1>2, <1>3, <1>5, SeqEqual
<1> QED
  BY <1>6 DEF x, y

(* and the second of them.                                                 *)
LEMMA SubSeqOfSecond ==
  ASSUME NEW S, NEW s \in Seq(S), NEW t \in Seq(S)
  PROVE  SubSeq(s \o t, Len(s) + 1, Len(s) + Len(t)) = t
<1> DEFINE m == Len(s) + 1
           n == Len(s) + Len(t)
           y == SubSeq(s \o t, m, n)
<1>1. /\ Len(s) \in Nat /\ Len(t) \in Nat /\ s \o t \in Seq(S)
      /\ \A i \in 1 .. n : (s \o t)[i] =
           IF i <= Len(s) THEN s[i] ELSE t[i - Len(s)]
  BY ConcatProperties, LenProperties
<1>2. /\ m \in Int /\ n \in Int /\ n - m + 1 = Len(t)
      /\ \A i \in m .. n : (s \o t)[i] \in S
  <2>1. \A i \in m .. n : i \in 1 .. n /\ ~(i <= Len(s)) /\ i - Len(s) \in 1 .. Len(t)
    BY <1>1
  <2>2. \A j \in 1 .. Len(t) : t[j] \in S
    BY ElementOfSeq
  <2> QED
    BY <1>1, <2>1, <2>2
<1>3. /\ y \in Seq(S) /\ Len(y) = Len(t)
      /\ \A i \in 1 .. Len(t) : y[i] = (s \o t)[m + i - 1]
  <2>1. m <= n \/ Len(t) = 0
    BY <1>1
  <2>2. y = SubSeq(s \o t, m, n)
    OBVIOUS
  <2> DEFINE u == s \o t
  <2> HIDE DEF m, n, y
  <2>3. /\ u \in Seq(S)
        /\ \A i \in m .. n : u[i] \in S
    BY <1>1, <1>2
  <2> HIDE DEF u
  <2>4. /\ SubSeq(u, m, n) \in Seq(S)
        /\ Len(SubSeq(u, m, n)) = IF m <= n THEN n - m + 1 ELSE 0
        /\ \A i \in 1 .. n - m + 1 : SubSeq(u, m, n)[i] = u[m + i - 1]
    BY <1>2, <2>3, SubSeqProperties
  <2>5. y = SubSeq(u, m, n)
    BY <2>2 DEF u
  <2> QED
    BY <1>2, <2>1, <2>4, <2>5 DEF u
<1>4. ASSUME NEW i \in 1 .. Len(t)
      PROVE  y[i] = t[i]
  <2>1. m + i - 1 \in 1 .. n /\ ~(m + i - 1 <= Len(s)) /\ (m + i - 1) - Len(s) = i
    BY <1>1
  <2> HIDE DEF y, m, n
  <2> QED
    BY <1>1, <1>3, <2>1
<1> HIDE DEF y
<1>5. y = t
  BY <1>3, <1>4, SeqEqual
<1> QED
  BY <1>5 DEF y

(* One turn of convert2h5: what is appended is the next part of the file.  *)
LEMMA ConvertStep ==
  ASSUME TypeInv, StoreInv, LateInv, convert_read
  PROVE  TypeInv' /\ StoreInv' /\ LateInv'
<1> DEFINE rest == Len(content) - cpos
           n == IF rest < BufSize THEN rest ELSE BufSize
           b == SubSeq(content, cpos + 1, cpos + n)
           L == Len(blocks)
<1>1. /\ content \in Seq(Byte) /\ blocks \in Seq(Zipped) /\ alg \in Algorithms
      /\ Len(content) \in Nat /\ cpos \in 0 .. Len(content) /\ L \in Nat
      /\ BufSize \in Nat \ {0} /\ cpc = "convert"
      /\ UNCHANGED <<content, alg, late, writes, reader>>
      /\ n \in 0 .. BufSize /\ cpos + n <= Len(content)
      /\ n = 0 <=> cpos = Len(content)
  BY PreadAssumption
  DEF TypeInv, TypeOK, convert_read, PreadAssumption
<1>2. pc = "idle" /\ pc' = "idle"
  BY <1>1 DEF TypeInv, TypeOK, reader
<1>3. CASE n = 0 /\ cpc' = "done" /\ UNCHANGED <<blocks, cpos>>
  <2>1. TypeInv'
    BY <1>1, <1>2, <1>3 DEF TypeInv, TypeOK, reader
  <2>2. /\ Stored' = Stored /\ Whole' = Whole
        /\ \A i : EndOf(blocks', i) = EndOf(blocks, i)
    BY <1>3, StoredSame DEF Whole, EndOf
  <2>3. StoreInv'
    BY <1>1, <1>3, <2>2 DEF StoreInv
  <2>4. LateInv'
    BY <1>1, <1>3, <2>2 DEF LateInv
  <2> QED
    BY <2>1, <2>3, <2>4
<1>4. CASE /\ n > 0
           /\ blocks' = Append(blocks, compress_data(b))
           /\ cpos' = cpos + n
           /\ UNCHANGED cpc
  <2>1. /\ b \in Seq(Byte) /\ Len(b) = n
        /\ \A i \in 1 .. n : b[i] = content[cpos + i]
    <3>1. \A i \in cpos + 1 .. cpos + n : content[i] \in Byte
      BY <1>1, ElementOfSeq
    <3> DEFINE m == cpos + 1
               e == cpos + n
    <3>2. m \in Int /\ e \in Int /\ e - m + 1 = n /\ m <= e
          /\ \A i \in 1 .. n : m + i - 1 = cpos + i
      BY <1>1, <1>4
    <3>3. \A i \in m .. e : content[i] \in Byte
      BY <3>1
    <3>4. b = SubSeq(content, m, e)
      OBVIOUS
    <3> HIDE DEF n, b, m, e
    <3>5. /\ SubSeq(content, m, e) \in Seq(Byte)
          /\ Len(SubSeq(content, m, e)) = IF m <= e THEN e - m + 1 ELSE 0
          /\ \A i \in 1 .. e - m + 1 : SubSeq(content, m, e)[i] = content[m + i - 1]
      BY <3>2, <3>3, SubSeqProperties
    <3> QED
      BY <3>2, <3>4, <3>5
  <2> HIDE DEF b
  <2>2. /\ compress_data(b) \in Zipped /\ compress_data(b).data = b
    BY <1>1, <2>1
    DEF compress_data, compressdata_zlib, compressdata_zstd, Zipped
  <2>3. /\ blocks' \in Seq(Zipped) /\ Len(blocks') = L + 1
        /\ \A i \in 1 .. L : blocks'[i] = blocks[i]
        /\ blocks'[L + 1].data = b
    BY <1>1, <1>4, <2>2, AppendProperties
  <2>4. TypeInv'
    BY <1>1, <1>2, <1>4, <2>3 DEF TypeInv, TypeOK, reader
  <2>5. \A i \in 1 .. Len(blocks') : Len(blocks'[i].data) \in 1 .. BufSize
    BY <1>1, <1>4, <2>1, <2>3 DEF StoreInv
  <2>6. Stored' = Stored \o b
    <3>1. Datas \in Seq(Seq(Byte)) /\ Len(Datas) = L
      <4>1. ASSUME NEW i \in 1 .. L
            PROVE  blocks[i].data \in Seq(Byte)
        <5>1. blocks[i] \in Zipped
          BY <1>1
        <5> QED
          BY <5>1 DEF Zipped
      <4> QED
        BY <1>1, <4>1 DEF Datas
    <3>2. Datas' = Append(Datas, b)
      BY <1>1, <2>1, <2>3, <3>1 DEF Datas
    <3>3. FlattenSeq(Datas') = FlattenSeq(Datas) \o b
      BY <2>1, <3>1, <3>2, FlattenAppend
    <3>4. Stored = FlattenSeq(Datas) /\ Stored' = FlattenSeq(Datas')
      BY DEF Stored, Datas
    <3> QED
      BY <3>3, <3>4
  <2>7. /\ Stored \in Seq(Byte) /\ Len(Stored) = cpos
        /\ Stored' \in Seq(Byte) /\ Len(Stored') = cpos'
        /\ \A i \in 1 .. cpos : Stored'[i] = Stored[i]
        /\ \A i \in 1 .. n : Stored'[cpos + i] = content[cpos + i]
    <3>1. Stored \in Seq(Byte) /\ Len(Stored) = cpos
      BY DEF StoreInv
    <3>2. /\ Stored' \in Seq(Byte) /\ Len(Stored') = cpos + n
          /\ \A i \in 1 .. cpos + n : Stored'[i] =
               IF i <= cpos THEN Stored[i] ELSE b[i - cpos]
      <4> HIDE DEF n
      <4>1. Len(b) = n
        BY <2>1
      <4>2. /\ Stored \o b \in Seq(Byte) /\ Len(Stored \o b) = Len(Stored) + Len(b)
            /\ \A i \in 1 .. Len(Stored) + Len(b) : (Stored \o b)[i] =
                 IF i <= Len(Stored) THEN Stored[i] ELSE b[i - Len(Stored)]
        BY <2>1, <3>1, ConcatProperties
      <4> QED
        BY <2>6, <3>1, <4>1, <4>2
    <3>3. \A i \in 1 .. n : /\ cpos + i \in 1 .. cpos + n
                            /\ ~(cpos + i <= cpos) /\ (cpos + i) - cpos = i
      BY <1>1
    <3>4. \A i \in 1 .. cpos : i \in 1 .. cpos + n /\ i <= cpos
      BY <1>1
    <3> HIDE DEF n
    <3>5. \A i \in 1 .. cpos : Stored'[i] = Stored[i]
      BY <3>2, <3>4
    <3>6. ASSUME NEW i \in 1 .. n
          PROVE  Stored'[cpos + i] = content[cpos + i]
      <4>1. Stored'[cpos + i] = b[i]
        BY <3>2, <3>3
      <4> QED
        BY <2>1, <4>1 DEF n
    <3> QED
      BY <1>4, <3>1, <3>2, <3>5, <3>6
  <2>8. \A m \in Nat \ {0}, e \in Int :
          e <= cpos => SubSeq(Stored', m, e) = SubSeq(Stored, m, e)
    BY <2>1, <2>6, <2>7, SubSeqOfFirst
  <2>9. SubSeq(Stored', cpos + 1, cpos + n) = b
    BY <2>1, <2>6, <2>7, SubSeqOfSecond
  <2>10. ASSUME Whole'
        PROVE  /\ \A i \in 1 .. L + 1 :
                    /\ EndOf(blocks', i) <= cpos'
                    /\ blocks'[i].data =
                         SubSeq(Stored', (i - 1) * BufSize + 1, EndOf(blocks', i))
               /\ cpos' = EndOf(blocks', L + 1)
    <3>1. /\ Whole /\ \A i \in 1 .. L : EndOf(blocks', i) = EndOf(blocks, i)
          /\ \A i \in 1 .. L : Len(blocks[i].data) = BufSize
      <4>1. \A i \in 1 .. L : EndOf(blocks', i) = EndOf(blocks, i)
        BY <2>3 DEF EndOf
      <4>2. \A i \in 1 .. L : Len(blocks'[i].data) = BufSize
        <5>1. \A i \in 1 .. L : i \in 1 .. Len(blocks') - 1
          BY <1>1, <2>3
        <5> QED
          BY <2>10, <5>1 DEF Whole
      <4>3. \A i \in 1 .. L : Len(blocks[i].data) = BufSize
        BY <2>3, <4>2
      <4>4. \A i \in 1 .. L - 1 : i \in 1 .. L
        BY <1>1
      <4> QED
        BY <4>1, <4>3, <4>4 DEF Whole
    <3>2. cpos = L * BufSize
      <4>1. CASE L = 0
        BY <1>1, <3>1, <4>1 DEF StoreInv
      <4>2. CASE L # 0
        <5>1. blocks # <<>> /\ Len(blocks[L].data) = BufSize
          BY <1>1, <3>1, <4>2
        <5>2. cpos = (L - 1) * BufSize + BufSize
          BY <3>1, <5>1 DEF StoreInv, EndOf
        <5> QED
          BY <1>1, <5>2
      <4> QED
        BY <4>1, <4>2
    <3>3. EndOf(blocks', L + 1) = cpos + n
      <4>1. EndOf(blocks', L + 1) = ((L + 1) - 1) * BufSize + n
        BY <2>1, <2>3 DEF EndOf
      <4>2. (L + 1) - 1 = L
        BY <1>1
      <4> QED
        BY <3>2, <4>1, <4>2
    <3>4. blocks'[L + 1].data =
            SubSeq(Stored', ((L + 1) - 1) * BufSize + 1, EndOf(blocks', L + 1))
      <4>1. (L + 1) - 1 = L
        BY <1>1
      <4> QED
        BY <2>3, <2>9, <3>2, <3>3, <4>1
    <3>5. ASSUME NEW i \in 1 .. L
          PROVE  /\ EndOf(blocks', i) <= cpos + n
                 /\ blocks'[i].data =
                      SubSeq(Stored', (i - 1) * BufSize + 1, EndOf(blocks', i))
      <4>1. /\ EndOf(blocks, i) <= cpos
            /\ blocks[i].data =
                 SubSeq(Stored, (i - 1) * BufSize + 1, EndOf(blocks, i))
        BY <3>1 DEF StoreInv
      <4>2. EndOf(blocks, i) \in Int /\ (i - 1) * BufSize + 1 \in Nat \ {0}
        <5>1. Len(blocks[i].data) \in Nat /\ i - 1 \in Nat
          BY <1>1, <3>1
        <5>2. (i - 1) * BufSize \in Nat
          BY <1>1, <5>1
        <5> QED
          BY <5>1, <5>2 DEF EndOf
      <4>3. blocks'[i].data = blocks[i].data /\ EndOf(blocks', i) = EndOf(blocks, i)
        BY <2>3, <3>1
      <4>4. SubSeq(Stored', (i - 1) * BufSize + 1, EndOf(blocks, i))
              = SubSeq(Stored, (i - 1) * BufSize + 1, EndOf(blocks, i))
        BY <2>8, <4>1, <4>2
      <4>5. EndOf(blocks, i) <= cpos + n
        BY <1>1, <4>1, <4>2
      <4> QED
        BY <4>1, <4>3, <4>4, <4>5
    <3>6. cpos' = cpos + n /\ cpos + n \in Int
      BY <1>1, <1>4
    <3>7. ASSUME NEW i \in 1 .. L + 1
          PROVE  /\ EndOf(blocks', i) <= cpos'
                 /\ blocks'[i].data =
                      SubSeq(Stored', (i - 1) * BufSize + 1, EndOf(blocks', i))
      <4>1. CASE i = L + 1
        BY <3>3, <3>4, <3>6, <4>1
      <4>2. CASE i \in 1 .. L
        BY <3>5, <3>6, <4>2
      <4> QED
        BY <1>1, <4>1, <4>2
    <3> QED
      BY <3>3, <3>6, <3>7
  <2>11. StoreInv'
    <3>1. blocks' # <<>> /\ L + 1 = Len(blocks')
      BY <1>1, <2>3
    <3> HIDE DEF L, n
    <3> QED
      BY <2>5, <2>7, <2>10, <3>1 DEF StoreInv
  <2>12. LateInv'
    <3> SUFFICES ASSUME NEW i \in (1 .. cpos + n) \ late
                 PROVE  Stored'[i] = content[i]
      BY <1>1, <1>4 DEF LateInv
    <3>1. CASE i <= cpos
      <4>1. i \in 1 .. cpos /\ i \in (1 .. cpos) \ late
        BY <1>1, <3>1
      <4> QED
        BY <2>7, <4>1 DEF LateInv
    <3>2. CASE i > cpos
      <4>1. i - cpos \in 1 .. n /\ cpos + (i - cpos) = i
        BY <1>1, <3>2
      <4> HIDE DEF n
      <4> QED
        BY <2>7, <4>1
    <3> QED
      BY <1>1, <3>1, <3>2
  <2> QED
    BY <2>4, <2>11, <2>12
<1> QED
  BY <1>3, <1>4 DEF convert_read

(* A client that writes disturbs nothing that is stored, and what it       *)
(* writes where convert2h5 has read is late.                               *)
LEMMA WriteStep ==
  ASSUME TypeInv, StoreInv, LateInv, dzfile_write
  PROVE  TypeInv' /\ StoreInv' /\ LateInv'
<1>1. /\ content \in Seq(Byte) /\ Len(content) \in Nat /\ cpos \in 0 .. Len(content)
      /\ late \subseteq 1 .. Len(content)
      /\ writes \in 0 .. MaxWrites /\ writes < MaxWrites /\ writes' = writes + 1
      /\ MaxWrites \in Nat
      /\ UNCHANGED <<alg, blocks, cpc, cpos, reader>>
  BY PreadAssumption DEF TypeInv, TypeOK, dzfile_write, PreadAssumption
<1>2. PICK k \in 1 .. Len(content) + 1, b \in Byte :
        /\ content' = IF k > Len(content) THEN Append(content, b)
                      ELSE [content EXCEPT ![k] = b]
        /\ late' = IF cpc = "done" \/ k <= cpos THEN late \cup {k} ELSE late
  BY PreadAssumption DEF dzfile_write, PreadAssumption
<1>3. /\ content' \in Seq(Byte) /\ Len(content') \in Nat
      /\ Len(content') >= Len(content) /\ k <= Len(content')
      /\ \A i \in 1 .. Len(content') :
           i # k => i \in 1 .. Len(content) /\ content'[i] = content[i]
  <2>1. CASE k > Len(content)
    <3>1. k = Len(content) + 1
      BY <1>1, <2>1
    <3>2. /\ content' \in Seq(Byte) /\ Len(content') = Len(content) + 1
          /\ \A i \in 1 .. Len(content) : content'[i] = content[i]
      BY <1>1, <1>2, <2>1, AppendProperties
    <3> QED
      BY <1>1, <3>1, <3>2
  <2>2. CASE ~(k > Len(content))
    <3>1. k \in 1 .. Len(content)
      BY <1>1, <2>2
    <3>2. /\ content' \in Seq(Byte) /\ Len(content') = Len(content)
          /\ \A i \in 1 .. Len(content) :
               content'[i] = IF i = k THEN b ELSE content[i]
      BY <1>1, <1>2, <2>2, <3>1, ExceptSeq
    <3> QED
      BY <1>1, <3>1, <3>2
  <2> QED
    BY <2>1, <2>2
<1>4. TypeInv'
  <2>1. late' \subseteq 1 .. Len(content') /\ cpos' \in 0 .. Len(content')
        /\ writes' \in 0 .. MaxWrites
    BY <1>1, <1>2, <1>3
  <2> QED
    BY <1>1, <1>3, <2>1 DEF TypeInv, TypeOK, reader
<1>5. Stored' = Stored /\ Whole' = Whole
  BY <1>1, StoredSame DEF Whole
<1>6. StoreInv'
  BY <1>1, <1>5 DEF StoreInv
<1>7. ASSUME NEW i \in (1 .. cpos) \ late'
      PROVE  Stored[i] = content'[i]
  <2>1. i # k /\ i \notin late
    BY <1>1, <1>2
  <2>2. i \in 1 .. Len(content') /\ i \in (1 .. cpos) \ late
    BY <1>1, <1>3, <2>1
  <2> QED
    BY <1>3, <2>1, <2>2 DEF LateInv
<1>8. ASSUME cpc = "done", NEW i \in (1 .. Len(content')) \ late'
      PROVE  i <= cpos
  <2>1. i # k /\ i \notin late
    BY <1>2, <1>8
  <2>2. i \in (1 .. Len(content)) \ late
    BY <1>3, <2>1
  <2> QED
    BY <1>8, <2>2 DEF LateInv
<1>9. LateInv'
  BY <1>1, <1>5, <1>7, <1>8 DEF LateInv
<1> QED
  BY <1>4, <1>6, <1>9
-----------------------------------------------------------------------------
(* The reader: types.                                                      *)

(* Conversion to int gives an integer.                                     *)
LEMMA ToIntType == ASSUME NEW x \in Int PROVE ToInt(x) \in Int
  BY PreadAssumption DEF PreadAssumption, ToInt

(* ... which is not larger.                                                *)
LEMMA ToIntBelow == ASSUME NEW x \in Nat PROVE ToInt(x) <= x
<1> DEFINE h == 2 * IntHalf
<1>1. IntHalf \in Nat \ {0} /\ h \in Nat \ {0}
  BY PreadAssumption DEF PreadAssumption
<1>2. \A y \in Nat : y % h <= y
  <2> HIDE DEF h
  <2> QED
    BY <1>1
<1>3. (x + IntHalf) % h <= x + IntHalf /\ (x + IntHalf) % h \in Int
  BY <1>1, <1>2
<1>4. ToInt(x) = ((x + IntHalf) % h) - IntHalf
  BY DEF ToInt
<1> HIDE DEF h
<1> QED
  BY <1>1, <1>3, <1>4

(* Bytes that are put behind those in buf.                                 *)
LEMMA CopyType ==
  ASSUME TypeInv, NEW block \in Seq(Byte), NEW at \in Int, NEW v \in Int,
         pc = "loop", nbread < count, pread_copy(block, at, v), UNCHANGED file
  PROVE  TypeInv'
<1> DEFINE left == count - nbread
           n == IF v < 0 \/ v > left THEN ToInt(left) ELSE v
           got == [i \in 1 .. n |-> Fetch(block, at + i)]
<1>1. /\ n \in Int /\ n <= left /\ count \in Nat /\ nbread \in Nat
      /\ nbread = Len(buf) /\ curoff = start + Len(out) + nbread
      /\ buf \in Seq(Got) /\ out \in Seq(Got)
      /\ start \in Nat /\ Len(out) \in Nat
  <2>1. count \in Nat /\ nbread \in Nat /\ left \in Nat
    BY DEF TypeInv, TypeOK
  <2>2. ToInt(left) \in Int /\ ToInt(left) <= left
    BY <2>1, ToIntType, ToIntBelow
  <2> QED
    BY <2>1, <2>2 DEF TypeInv, TypeOK
<1>2. CASE /\ n >= 0
           /\ buf' = buf \o got
           /\ nbread' = nbread + n
           /\ curoff' = curoff + n
           /\ turn' = 1 - turn
           /\ UNCHANGED <<pc, caller, iov, start, want, count, out, ret, dst, fault>>
  <2>1. got \in Seq(Got) /\ Len(got) = n
    <3>1. \A i \in 1 .. n : Fetch(block, at + i) \in Got
      BY DEF Fetch, Got
    <3>2. got \in [1 .. n -> Got]
      BY <3>1
    <3>3. n \in Nat
      BY <1>1, <1>2
    <3> HIDE DEF n, got
    <3> QED
      BY <3>2, <3>3
  <2> HIDE DEF got, n
  <2>2. buf' \in Seq(Got) /\ Len(buf') = nbread + n
    BY <1>1, <1>2, <2>1, ConcatProperties
  <2>3. /\ nbread' \in Nat /\ nbread' <= count /\ curoff' \in Nat
        /\ curoff' = start + Len(out) + nbread'
    BY <1>1, <1>2
  <2>4. turn' \in {0, 1}
    BY <1>2 DEF TypeInv, TypeOK
  <2> QED
    BY <1>2, <2>2, <2>3, <2>4 DEF TypeInv, TypeOK, file
<1>3. CASE /\ pc' = "crashed"
           /\ UNCHANGED <<caller, iov, start, want, count, curoff, nbread, buf,
                          out, ret, turn, dst, fault>>
  BY <1>3 DEF TypeInv, TypeOK, file
<1> QED
  BY <1>2, <1>3 DEF pread_copy

(* A return to the caller keeps the types.                                 *)
LEMMA ReturnType ==
  ASSUME TypeInv, pc = "loop", pread_return, UNCHANGED file
  PROVE  TypeInv'
<1>1. /\ out \in Seq(Got) /\ buf \in Seq(Got) /\ iov \in Seq(Nat)
      /\ nbread = Len(buf) /\ curoff = start + Len(out) + nbread
      /\ start \in Nat /\ curoff \in Nat /\ BufLen \in Nat \ {0}
      /\ Len(out) \in Nat /\ nbread \in Nat
  BY PreadAssumption DEF TypeInv, TypeOK, PreadAssumption
<1>2. /\ out' = out \o buf /\ out' \in Seq(Got)
      /\ Len(out') = Len(out) + nbread
  BY <1>1, ConcatProperties DEF pread_return
<1>3. ASSUME fault' \in {fault, TRUE},
             Finish(Len(out)) \/ Finish(Len(out) + nbread) \/ Finish(0)
      PROVE  TypeInv'
  <2>1. /\ pc' = "returned" /\ ret' \in Nat
        /\ UNCHANGED <<caller, iov, start, want, count, curoff, nbread, buf, turn>>
    BY <1>1, <1>3 DEF Finish
  <2>3. dst' \in BOOLEAN /\ fault' \in BOOLEAN
    BY <1>3 DEF Finish, TypeInv, TypeOK
  <2>2. TypeOK'
    BY <2>1, <2>3 DEF TypeInv, TypeOK, file
  <2> QED
    BY <1>2, <2>1, <2>2 DEF TypeInv, file
<1>4. CASE /\ iov # <<>> /\ iov' = Tail(iov) /\ Enter(Head(iov), curoff)
           /\ UNCHANGED <<pc, caller, start, want, ret, dst, fault>>
  <2>1. Head(iov) \in Nat /\ iov' \in Seq(Nat)
    BY <1>1, <1>4, HeadTailProperties
  <2> QED
    BY <1>1, <1>2, <1>4, <2>1 DEF Enter, TypeInv, TypeOK, file
<1>5. CASE /\ fault' \in {fault, TRUE}
           /\ Enter(BufLen, curoff)
           /\ UNCHANGED <<pc, caller, iov, start, want, ret, dst>>
  <2>1. fault' \in BOOLEAN
    BY <1>5 DEF TypeInv, TypeOK
  <2> QED
    BY <1>1, <1>2, <1>5, <2>1 DEF Enter, TypeInv, TypeOK, file
<1> QED
  BY <1>3, <1>4, <1>5 DEF pread_return, pwrite

(* So does a turn of h5fd_pread,                                           *)
LEMMA PreadType ==
  ASSUME TypeInv, h5fd_pread
  PROVE  TypeInv'
<1> DEFINE k == ToInt(curoff \div BufSize)
           block == blocks[k + 1].data
<1>1. pc = "loop" /\ UNCHANGED file
  BY DEF h5fd_pread
<1>2. CASE pread_fail \/ library_fail
  <2>1. /\ pc' = "returned" /\ ret' \in {-1} \cup Nat /\ out' = out
        /\ UNCHANGED <<caller, iov, start, want, count, curoff, nbread, buf, turn>>
    BY <1>1, <1>2 DEF pread_fail, library_fail, Finish
  <2>2. dst' \in BOOLEAN /\ fault' \in BOOLEAN
    BY <1>2 DEF pread_fail, library_fail, Finish, TypeInv, TypeOK
  <2>3. TypeOK'
    BY <1>1, <2>1, <2>2 DEF TypeInv, TypeOK, file
  <2> QED
    BY <1>1, <2>1, <2>3 DEF TypeInv, file
<1>3. CASE pread_return
  BY <1>1, <1>3, ReturnType
<1>4. CASE decompressdata_zlib
  BY <1>1, <1>2, <1>4 DEF decompressdata_zlib, TypeInv, TypeOK, file
<1>5. CASE nbread < count /\ hdf5_readdata(k) /\ pread_block(block, k)
  <2>1. /\ curoff \in Nat /\ BufSize \in Nat \ {0} /\ blocks \in Seq(Zipped)
    BY PreadAssumption DEF TypeInv, TypeOK, PreadAssumption
  <2>2. k \in Int
    BY <2>1, DivMod, ToIntType
  <2> HIDE DEF k
  <2>3. block \in Seq(Byte)
    <3>1. k + 1 \in 1 .. Len(blocks)
      BY <1>5, <2>1, <2>2 DEF hdf5_readdata
    <3>2. blocks[k + 1] \in Zipped
      BY <2>1, <3>1
    <3> QED
      BY <3>2 DEF Zipped
  <2>4. k * BufSize \in Int /\ Len(block) \in Nat
    BY <2>1, <2>2, <2>3
  <2> HIDE DEF block
  <2>5. ToInt(k * BufSize) \in Int
    BY <2>4, ToIntType
  <2>6. ToInt(Len(block) - curoff + ToInt(k * BufSize)) \in Int
    BY <2>1, <2>4, <2>5, ToIntType
  <2>7. curoff - ToInt(k * BufSize) \in Int
    BY <2>1, <2>5
  <2> QED
    BY <1>1, <1>3, <1>5, <2>3, <2>6, <2>7, CopyType DEF pread_block
<1> QED
  BY <1>1, <1>2, <1>3, <1>4, <1>5
  DEF h5fd_pread, decompress_data, decompressdata_zstd

(* What a client may pass to preadv.                                       *)
LEMMA IovFacts ==
  ASSUME NEW v \in Iovs
  PROVE  /\ v \in Seq(Nat) /\ v # <<>>
         /\ Head(v) \in Nat /\ Tail(v) \in Seq(Nat)
         /\ FoldSeq(+, 0, v) \in Nat /\ FoldSeq(+, 0, Tail(v)) \in Nat
         /\ FoldSeq(+, 0, v) = Head(v) + FoldSeq(+, 0, Tail(v))
<1>1. v \in Seq(Nat) /\ v # <<>>
  BY PreadAssumption DEF PreadAssumption
<1>2. Head(v) \in Nat /\ Tail(v) \in Seq(Nat)
  BY <1>1, HeadTailProperties
<1> QED
  BY <1>1, <1>2, FoldSeqType, FoldSeqHead

(* and a call of preadv or dzfile_get.                                     *)
LEMMA CallType ==
  ASSUME TypeInv,
         (\E v \in Iovs, o \in Offsets : dzfile_preadv(v, o)) \/ dzfile_get
  PROVE  TypeInv'
<1>1. <<>> \in Seq(Got) /\ Len(<<>>) = 0 /\ <<>> \in Seq(Nat)
  BY EmptySeq
<1>2. ASSUME NEW v \in Iovs, NEW o \in Offsets, dzfile_preadv(v, o)
      PROVE  TypeInv'
  <2>1. /\ Head(v) \in Nat /\ Tail(v) \in Seq(Nat)
        /\ FoldSeq(+, 0, v) \in Nat
    BY IovFacts
  <2>2. o \in Nat
    BY PreadAssumption DEF PreadAssumption
  <2>3. want' \in Nat
    BY <1>2, <2>1 DEF dzfile_preadv
  <2>4. /\ cpc = "done" /\ pc' = "loop" /\ caller' = "preadv" /\ iov' = Tail(v)
        /\ start' = o /\ count' = Head(v) /\ curoff' = o /\ nbread' = 0
        /\ buf' = <<>> /\ out' = <<>> /\ ret' = ret /\ turn' = 0
        /\ dst' = dst /\ fault' = FALSE
        /\ UNCHANGED <<content, alg, blocks, cpc, cpos, late, writes>>
    BY <1>2 DEF dzfile_preadv, Enter, file
  <2>5. /\ nbread' = Len(buf') /\ nbread' <= count'
        /\ curoff' = start' + Len(out') + nbread'
        /\ start' \in Nat /\ count' \in Nat /\ nbread' \in Nat /\ curoff' \in Nat
    <3>1. Head(v) \in Nat
      BY <2>1
    <3>2. Len(buf') = 0 /\ Len(out') = 0
      BY <1>1, <2>4
    <3>3. /\ count' = Head(v) /\ start' = o /\ curoff' = o /\ nbread' = 0
      BY <2>4
    <3> QED
      BY <2>2, <3>1, <3>2, <3>3
  <2>6. /\ iov' \in Seq(Nat) /\ iov' \in Seq(Nat)
        /\ out' \in Seq(Got) /\ buf' \in Seq(Got)
    BY <1>1, <2>1, <2>4
  <2>7. TypeOK'
    BY <2>3, <2>4, <2>5, <2>6 DEF TypeInv, TypeOK
  <2> QED
    BY <2>4, <2>5, <2>6, <2>7 DEF TypeInv
<1>3. CASE dzfile_get
  <2>1. dst' \in BOOLEAN /\ fault' \in BOOLEAN
    BY <1>3 DEF dzfile_get
  <2>2. TypeOK'
    BY <1>1, <1>3, <2>1, PreadAssumption
    DEF dzfile_get, Enter, file, TypeInv, TypeOK, PreadAssumption
  <2> QED
    BY <1>1, <1>3, <2>2 DEF dzfile_get, Enter, file, TypeInv
<1> QED
  BY <1>2, <1>3

(* The invariants of the file and the types are kept by every step.        *)
LEMMA FileStep ==
  ASSUME TypeInv, StoreInv, LateInv, [Next]_vars
  PROVE  TypeInv' /\ StoreInv' /\ LateInv'
<1>1. ASSUME UNCHANGED file
      PROVE  StoreInv' /\ LateInv'
  <2>1. UNCHANGED <<content, blocks, cpc, cpos, late>>
    BY <1>1 DEF file
  <2>2. Stored' = Stored /\ Whole' = Whole
    BY <2>1, StoredSame DEF Whole
  <2> QED
    BY <2>1, <2>2 DEF StoreInv, LateInv
<1>2. CASE convert_read
  BY <1>2, ConvertStep
<1>3. CASE dzfile_write
  BY <1>3, WriteStep
<1>4. CASE (\E v \in Iovs, o \in Offsets : dzfile_preadv(v, o)) \/ dzfile_get
  <2>1. UNCHANGED file
    BY <1>4 DEF dzfile_preadv, dzfile_get
  <2> QED
    BY <1>1, <1>4, <2>1, CallType
<1>5. CASE h5fd_pread
  <2>1. UNCHANGED file
    BY <1>5 DEF h5fd_pread
  <2> QED
    BY <1>1, <1>5, <2>1, PreadType
<1>6. CASE UNCHANGED vars
  BY <1>1, <1>6 DEF vars, file, reader, TypeInv, TypeOK
<1> QED
  BY <1>2, <1>3, <1>4, <1>5, <1>6 DEF Next

(* The types and the stored blocks, always.                                *)
LEMMA FileInvariant == Spec => [](TypeInv /\ StoreInv /\ LateInv)
  BY InitStore, FileStep, PTL DEF Spec

(* The variables keep their types: nbread never passes count, however      *)
(* validbytes has wrapped around.                                          *)
THEOREM PreadTypeCorrect == Spec => []TypeOK
<1>1. TypeInv => TypeOK
  BY DEF TypeInv
<1> QED
  BY <1>1, FileInvariant, PTL

(* Whatever clients write, and whenever they do, convert2h5 stores every   *)
(* byte once and in its place, for any H5_BUFSIZE, but for those written   *)
(* where it had read already or behind the end it had found: they are the  *)
(* ones its truncates destroy.                                             *)
THEOREM ConvertStoresAll == Spec => []AllStored
<1>1. TypeInv /\ StoreInv /\ LateInv => AllStored
  <2> SUFFICES ASSUME TypeInv, StoreInv, LateInv, cpc = "done"
               PROVE  /\ Len(Stored) <= Len(content)
                      /\ \A i \in (1 .. Len(content)) \ late :
                           i <= Len(Stored) /\ Stored[i] = content[i]
    BY DEF AllStored
  <2>1. Len(content) \in Nat /\ cpos \in 0 .. Len(content) /\ Len(Stored) = cpos
    BY DEF TypeInv, TypeOK, StoreInv
  <2>2. ASSUME NEW i \in (1 .. Len(content)) \ late
        PROVE  i <= Len(Stored) /\ Stored[i] = content[i]
    <3>1. i <= cpos
      BY <2>2 DEF LateInv
    <3>2. i \in (1 .. cpos) \ late
      BY <2>1, <2>2, <3>1
    <3> QED
      BY <2>1, <3>1, <3>2 DEF LateInv
  <2> QED
    BY <2>1, <2>2
<1> QED
  BY <1>1, FileInvariant, PTL
-----------------------------------------------------------------------------
(* The reader: what it has read.                                           *)

(* The bytes that the buffers v have room for.                             *)
Room(v) == FoldSeq(+, 0, v)

(* The bytes of a preadv that are there or still asked for.                *)
Asked == Len(out) + count + Room(iov)

(* While it reads a regular file, h5fd_pread has the bytes from start to   *)
(* curoff.  A call of preadv still asks for all that is missing, unless it *)
(* is at the end of the file; and so does dzfile_get, BUFLEN at a time.    *)
Progress ==
    /\ curoff <= Len(Stored)
    /\ out \o buf = SubSeq(Stored, start + 1, curoff)
    /\ caller = "preadv" =>
         Asked <= want /\ (curoff < Len(Stored) => Asked = want)
    /\ caller = "get" =>
         /\ count = BufLen
         /\ Len(out) % BufLen = 0 \/ (nbread = 0 /\ curoff = Len(Stored))

ReadInv ==
    /\ pc = "loop" /\ caller = "get" => start = 0
    /\ pc = "loop" /\ Regular /\ start <= Len(Stored) => Progress
    /\ ReadExact /\ ReadInside /\ GetCopies /\ CopyInside

(* A block of a regular file has a number that is an int.                  *)
LEMMA BlockNumber ==
  ASSUME TypeInv, StoreInv, Regular, curoff <= Len(Stored)
  PROVE  /\ curoff \div BufSize \in Nat
         /\ ToInt(curoff \div BufSize) = curoff \div BufSize
<1> DEFINE q == curoff \div BufSize
<1>1. /\ curoff \in Nat /\ BufSize \in Nat \ {0, 1} /\ IntHalf \in Nat \ {0}
      /\ Len(Stored) \in Nat /\ curoff <= IntHalf
  BY PreadAssumption DEF TypeInv, TypeOK, StoreInv, PreadAssumption, Regular
<1>2. q \in Nat
  BY <1>1, DivMod
<1>3. curoff < IntHalf * BufSize
  <2>1. IntHalf * BufSize >= IntHalf * 2
    BY <1>1
  <2> QED
    BY <1>1, <2>1
<1>4. q < IntHalf
  <2>1. CASE q >= IntHalf
    <3>1. curoff >= IntHalf * BufSize
      BY <1>1, <2>1, DivAtLeast
    <3> QED
      BY <1>1, <1>3, <3>1
  <2> QED
    BY <1>1, <1>2, <2>1
<1> HIDE DEF q
<1>5. ToInt(q) = q
  BY <1>1, <1>2, <1>4, ToIntId
<1> QED
  BY <1>2, <1>5 DEF q

(* curoff lies in dataset k, which begins at base in the file and holds    *)
(* block: at byte number at of it, with valid bytes from there to its end.   *)
InBlock(k, base, block, at, valid) ==
    /\ k = curoff \div BufSize /\ k < Len(blocks)
    /\ base = k * BufSize
    /\ block = blocks[k + 1].data
    /\ at = curoff - base
    /\ valid = Len(block) - at

(* The block that curoff lies in, found with an int that does not wrap     *)
(* around below 2 GiB: its bytes from curoff on are those of the file, and *)
(* there are none only at the end of it.                                   *)
LEMMA BlockAt ==
  ASSUME TypeInv, StoreInv, cpc = "done", Regular, curoff <= Len(Stored),
         NEW k, NEW base, NEW block, NEW at, NEW valid,
         InBlock(k, base, block, at, valid)
  PROVE  /\ block \in Seq(Byte) /\ at \in Nat /\ valid \in Nat
         /\ ToInt(base) = base
         /\ ToInt(Len(block) - curoff + base) = valid
         /\ curoff + valid <= Len(Stored)
         /\ valid = 0 => curoff = Len(Stored)
         /\ \A i \in 1 .. valid : block[at + i] = Stored[curoff + i]
<1>1. /\ Stored \in Seq(Byte) /\ blocks \in Seq(Zipped)
      /\ Len(Stored) \in Nat /\ Len(blocks) \in Nat /\ curoff \in Nat
      /\ BufSize \in Nat \ {0} /\ IntHalf \in Nat \ {0} /\ BufSize < IntHalf
      /\ Len(Stored) <= IntHalf
  BY PreadAssumption DEF TypeInv, TypeOK, StoreInv, PreadAssumption, Regular
<1>2. /\ k \in Nat /\ base \in Nat
      /\ at \in 0 .. BufSize - 1 /\ curoff = base + at
  <2>1. /\ k \in Nat /\ curoff % BufSize \in 0 .. BufSize - 1
        /\ curoff = base + (curoff % BufSize)
    BY <1>1, DivMod DEF InBlock
  <2>2. base \in Nat
    BY <1>1, <2>1 DEF InBlock
  <2>3. at = curoff - base
    BY DEF InBlock
  <2> QED
    BY <1>1, <2>1, <2>2, <2>3
<1>3. k + 1 \in 1 .. Len(blocks) /\ (k + 1) - 1 = k
  BY <1>1, <1>2 DEF InBlock
<1>4. /\ block \in Seq(Byte) /\ Len(block) \in 1 .. BufSize
      /\ valid = Len(block) - at
  <2>1. blocks[k + 1] \in Zipped
    BY <1>1, <1>3
  <2>2. Len(blocks[k + 1].data) \in 1 .. BufSize
    BY <1>3 DEF StoreInv
  <2> QED
    BY <2>1, <2>2 DEF Zipped, InBlock
<1>5. Whole
  BY DEF Regular, Whole
<1>6. /\ EndOf(blocks, k + 1) = base + Len(block)
      /\ cpos = Len(Stored)
      /\ EndOf(blocks, k + 1) <= cpos
      /\ block = SubSeq(Stored, base + 1, EndOf(blocks, k + 1))
  BY <1>3, <1>4, <1>5 DEF StoreInv, EndOf, InBlock
<1>7. base + Len(block) <= Len(Stored)
  BY <1>6
<1>8. ToInt(base) = base
  BY <1>1, <1>2, <1>4, <1>7, ToIntId
<1>9. /\ at <= Len(block)
      /\ Len(block) = at => curoff = Len(Stored)
  <2>1. CASE k + 1 < Len(blocks)
    <3>1. k + 1 \in 1 .. Len(blocks) - 1
      BY <1>1, <1>2, <2>1
    <3>2. Len(block) = BufSize
      BY <3>1, <1>5 DEF Whole, InBlock
    <3> QED
      BY <1>1, <1>2, <3>2
  <2>2. CASE k + 1 = Len(blocks)
    <3>1. blocks # <<>>
      BY <1>2, <2>2
    <3>2. cpos = EndOf(blocks, k + 1)
      BY <1>5, <2>2, <3>1 DEF StoreInv
    <3>3. Len(Stored) = base + Len(block)
      BY <1>6, <3>2
    <3> QED
      BY <1>1, <1>2, <1>4, <3>3
  <2>3. k + 1 < Len(blocks) \/ k + 1 = Len(blocks)
    BY <1>1, <1>3
  <2> QED
    BY <2>1, <2>2, <2>3
<1>10. /\ valid \in 0 .. BufSize
       /\ Len(block) - curoff + base = valid
  BY <1>1, <1>2, <1>4, <1>9
<1>11. ToInt(Len(block) - curoff + base) = valid
  BY <1>1, <1>10, ToIntId
<1>12. ASSUME NEW i \in 1 .. valid
       PROVE  block[at + i] = Stored[curoff + i]
  <2> DEFINE m == base + 1
             e == base + Len(block)
  <2>1. /\ m \in Nat /\ e \in Int /\ e - m + 1 = Len(block)
        /\ \A j \in m .. e : Stored[j] \in Byte
    <3>1. m \in Nat /\ e \in Int /\ e - m + 1 = Len(block)
      BY <1>2, <1>4
    <3>2. ASSUME NEW j \in m .. e
          PROVE  Stored[j] \in Byte
      <4>1. j \in 1 .. Len(Stored)
        BY <1>1, <1>2, <1>4, <1>7
      <4> QED
        BY <1>1, <4>1, ElementOfSeq
    <3> QED
      BY <3>1, <3>2
  <2>2. block = SubSeq(Stored, m, e)
    BY <1>6
  <2>3. at + i \in 1 .. Len(block) /\ m + (at + i) - 1 = curoff + i
    BY <1>2, <1>4, <1>10
  <2> HIDE DEF m, e
  <2>4. \A j \in 1 .. e - m + 1 : SubSeq(Stored, m, e)[j] = Stored[m + j - 1]
    BY <2>1, SubSeqProperties
  <2>5. block[at + i] = Stored[m + (at + i) - 1]
    BY <2>1, <2>2, <2>3, <2>4
  <2> QED
    BY <2>3, <2>5
<1>13. curoff + valid <= Len(Stored)
  BY <1>1, <1>2, <1>4, <1>7, <1>10
<1>14. valid = 0 => curoff = Len(Stored)
  BY <1>2, <1>4, <1>9, <1>10
<1>15. at \in Nat /\ valid \in Nat
  BY <1>2, <1>10
<1> QED
  BY <1>4, <1>8, <1>11, <1>12, <1>13, <1>14, <1>15

(* There is no block at curoff only at the end of a file whose last block  *)
(* is full.                                                                *)
LEMMA NoBlock ==
  ASSUME TypeInv, StoreInv, cpc = "done", Regular, curoff <= Len(Stored),
         curoff \div BufSize >= Len(blocks)
  PROVE  curoff = Len(Stored) /\ Len(Stored) % BufSize = 0
<1> DEFINE L == Len(blocks)
<1>1. /\ Stored \in Seq(Byte) /\ blocks \in Seq(Zipped)
      /\ Len(Stored) \in Nat /\ L \in Nat /\ curoff \in Nat
      /\ BufSize \in Nat \ {0}
  BY PreadAssumption DEF TypeInv, TypeOK, StoreInv, PreadAssumption
<1>2. Whole /\ cpos = Len(Stored)
  BY DEF Regular, Whole, StoreInv
<1>3. curoff >= L * BufSize
  BY <1>1, DivAtLeast
<1>4. Len(Stored) <= L * BufSize
  <2>1. CASE L = 0
    <3>1. cpos = 0
      BY <1>1, <1>2, <2>1 DEF StoreInv
    <3> QED
      BY <1>1, <1>2, <2>1, <3>1
  <2>2. CASE L # 0
    <3>1. L \in 1 .. L /\ blocks # <<>>
      BY <1>1, <2>2
    <3> DEFINE x == (L - 1) * BufSize
    <3>2. cpos = x + Len(blocks[L].data)
      BY <1>2, <3>1 DEF StoreInv, EndOf
    <3>3. Len(blocks[L].data) \in 1 .. BufSize
      BY <3>1 DEF StoreInv
    <3>4. x \in Int /\ x + BufSize = L * BufSize
      BY <1>1
    <3> HIDE DEF x
    <3>5. Len(Stored) <= x + BufSize
      BY <1>1, <1>2, <3>2, <3>3, <3>4
    <3> QED
      BY <3>4, <3>5
  <2> QED
    BY <2>1, <2>2
<1>5. L * BufSize \in Int
  BY <1>1
<1>6. curoff = L * BufSize /\ Len(Stored) = L * BufSize
  BY <1>1, <1>3, <1>4, <1>5
<1> QED
  BY <1>1, <1>6, ModMultiple

(* The bytes h5fd_pread copies are the next ones of the file.              *)
LEMMA CopyProgress ==
  ASSUME TypeInv, StoreInv, Progress, Regular, pc = "loop", nbread < count,
         NEW k, NEW base, NEW block, NEW at, NEW valid,
         InBlock(k, base, block, at, valid), valid # 0,
         pread_copy(block, at, valid), UNCHANGED file
  PROVE  pc' = "loop" /\ Progress'
<1> DEFINE left == count - nbread
           n == IF valid < 0 \/ valid > left THEN ToInt(left) ELSE valid
           got == [i \in 1 .. n |-> Fetch(block, at + i)]
           next == SubSeq(Stored, curoff + 1, curoff + n)
<1>1. /\ Stored \in Seq(Byte) /\ Len(Stored) \in Nat
      /\ curoff \in Nat /\ nbread \in Nat /\ count \in Nat /\ start \in Nat
      /\ out \in Seq(Got) /\ buf \in Seq(Got) /\ Len(out) \in Nat
      /\ start <= curoff /\ curoff <= Len(Stored) /\ cpc = "done"
  BY DEF TypeInv, TypeOK, StoreInv, Progress
<1>2. /\ at \in Nat /\ valid \in Nat /\ block \in Seq(Byte)
      /\ curoff + valid <= Len(Stored)
      /\ \A i \in 1 .. valid : block[at + i] = Stored[curoff + i]
  BY <1>1, BlockAt
<1>3. at + valid = Len(block) /\ Len(block) \in Nat
  BY <1>2 DEF InBlock
<1>4. n \in Nat \ {0} /\ n <= valid
  <2>1. /\ Len(block) <= BufSize /\ BufSize < IntHalf
        /\ BufSize \in Nat /\ IntHalf \in Nat \ {0}
    <3>1. k \in Nat /\ Len(blocks) \in Nat /\ k < Len(blocks)
      <4>1. BufSize \in Nat \ {0} /\ blocks \in Seq(Zipped)
        BY PreadAssumption DEF TypeInv, TypeOK, PreadAssumption
      <4>2. curoff \div BufSize \in Nat
        BY <1>1, <4>1, DivMod
      <4> QED
        BY <4>1, <4>2 DEF InBlock
    <3>2. k + 1 \in 1 .. Len(blocks) /\ block = blocks[k + 1].data
      BY <3>1 DEF InBlock
    <3> QED
      BY <3>2, PreadAssumption DEF StoreInv, PreadAssumption
  <2>2. left \in Nat \ {0}
    BY <1>1
  <2>3. valid > left => ToInt(left) = left
    <3> HIDE DEF left
    <3>1. valid > left => left < IntHalf /\ -IntHalf <= left
      BY <1>2, <1>3, <2>1, <2>2
    <3> QED
      BY <2>2, <3>1, ToIntId
  <2> QED
    BY <1>2, <2>2, <2>3
<1>5. /\ buf' = buf \o got /\ nbread' = nbread + n /\ curoff' = curoff + n
      /\ UNCHANGED <<pc, caller, iov, start, want, count, out>>
  <2>1. ~(n < 0 \/ (n > 0 /\ (at < 0 \/ at + n > Len(block))))
    BY <1>2, <1>3, <1>4
  <2> QED
    BY <2>1 DEF pread_copy
<1> HIDE DEF n
<1>6. got \in Seq(Got) /\ Len(got) = n
      /\ \A i \in 1 .. n : got[i] = Stored[curoff + i]
  <2>1. ASSUME NEW i \in 1 .. n
        PROVE  Fetch(block, at + i) = Stored[curoff + i] /\ Stored[curoff + i] \in Byte
    <3>1. i \in 1 .. valid /\ at + i \in 1 .. Len(block)
          /\ curoff + i \in 1 .. Len(Stored)
      BY <1>1, <1>2, <1>3, <1>4
    <3>2. Stored[curoff + i] \in Byte
      BY <1>1, <3>1, ElementOfSeq
    <3> QED
      BY <1>2, <3>1, <3>2 DEF Fetch
  <2>2. \A i \in 1 .. n : Fetch(block, at + i) \in Got
    BY <2>1 DEF Got
  <2>3. got \in [1 .. n -> Got]
    BY <2>2
  <2>4. \A i \in 1 .. n : got[i] = Stored[curoff + i]
    BY <2>1
  <2> HIDE DEF got
  <2> QED
    BY <1>4, <2>3, <2>4
<1> HIDE DEF got
<1>7. next \in Seq(Byte) /\ Len(next) = n
      /\ \A i \in 1 .. n : next[i] = Stored[curoff + i]
  <2> DEFINE m == curoff + 1
             e == curoff + n
  <2>1. m \in Nat /\ e \in Int /\ e - m + 1 = n /\ m <= e
    BY <1>1, <1>4
  <2>2. ASSUME NEW j \in m .. e
        PROVE  Stored[j] \in Byte
    <3>1. j \in 1 .. Len(Stored)
      BY <1>1, <1>2, <1>4
    <3> QED
      BY <1>1, <3>1, ElementOfSeq
  <2>3. \A i \in 1 .. n : m + i - 1 = curoff + i
    BY <1>1, <1>4
  <2> HIDE DEF m, e
  <2>4. /\ SubSeq(Stored, m, e) \in Seq(Byte)
        /\ Len(SubSeq(Stored, m, e)) = IF m <= e THEN e - m + 1 ELSE 0
        /\ \A i \in 1 .. e - m + 1 : SubSeq(Stored, m, e)[i] = Stored[m + i - 1]
    BY <2>1, <2>2, SubSeqProperties
  <2>5. next = SubSeq(Stored, m, e)
    BY DEF m, e
  <2> HIDE DEF next
  <2> QED
    BY <2>1, <2>3, <2>4, <2>5
<1> HIDE DEF next
<1>8. got = next
  <2>1. next \in Seq(Got)
    BY <1>7, SeqMonotonic DEF Got
  <2> QED
    BY <1>6, <1>7, <2>1, SeqEqual
<1>9. out' \o buf' = SubSeq(Stored, start + 1, curoff')
  <2>1. out \o (buf \o got) = (out \o buf) \o got
    <3>1. out \in Seq(Got) /\ buf \in Seq(Got) /\ got \in Seq(Got)
      BY <1>1, <1>6
    <3>2. (out \o buf) \o got = out \o (buf \o got)
      BY ONLY <3>1, ConcatAssociative
    <3> QED
      BY <3>2
  <2>2. /\ start + 1 \in 1 .. Len(Stored) + 1
        /\ curoff \in (start + 1) - 1 .. Len(Stored)
        /\ curoff + n \in curoff .. Len(Stored)
    BY <1>1, <1>2, <1>4
  <2>3. SubSeq(Stored, start + 1, curoff) \o next
          = SubSeq(Stored, start + 1, curoff + n)
    BY <1>1, <2>2, ConcatAdjacentSubSeq DEF next
  <2> QED
    BY <1>5, <1>8, <2>1, <2>3 DEF Progress
<1>10. curoff < Len(Stored) /\ curoff' <= Len(Stored)
  BY <1>1, <1>2, <1>4, <1>5
<1>11. Asked' = Asked /\ Stored' = Stored
  <2>1. out' = out /\ count' = count /\ iov' = iov
    BY <1>5
  <2>2. Asked' = Asked
    BY <2>1 DEF Asked
  <2> QED
    BY <2>2, StoredSame DEF file
<1>12. caller' = "preadv" =>
         Asked' <= want' /\ (curoff' < Len(Stored') => Asked' = want')
  BY <1>1, <1>5, <1>10, <1>11 DEF Progress
<1>13. caller' = "get" => count' = BufLen /\ Len(out') % BufLen = 0
  <2>1. curoff # Len(Stored)
    BY <1>1, <1>10
  <2> QED
    BY <1>5, <2>1 DEF Progress
<1>14. curoff' <= Len(Stored')
  BY <1>10, <1>11
<1>15. out' \o buf' = SubSeq(Stored', start' + 1, curoff')
  BY <1>5, <1>9, <1>11
<1> QED
  BY <1>5, <1>12, <1>13, <1>14, <1>15 DEF Progress

(* Room for the buffers of preadv, one at a time.                          *)
LEMMA RoomFacts ==
  /\ Room(<<>>) = 0
  /\ \A v \in Seq(Nat) :
       /\ Room(v) \in Nat
       /\ v # <<>> => /\ Head(v) \in Nat /\ Tail(v) \in Seq(Nat)
                      /\ Room(Tail(v)) \in Nat
                      /\ Room(v) = Head(v) + Room(Tail(v))
<1>1. \A v \in Seq(Nat) : Room(v) \in Nat
  BY FoldSeqType DEF Room
<1>2. \A v \in Seq(Nat) : v # <<>> => Room(v) = Head(v) + Room(Tail(v))
  BY FoldSeqHead DEF Room
<1>3. Room(<<>>) = 0
  BY FoldSeqEmpty DEF Room
<1> QED
  BY <1>1, <1>2, <1>3, HeadTailProperties

(* A call begins with nothing read.                                        *)
LEMMA CallProgress ==
  ASSUME TypeInv, StoreInv,
         (\E v \in Iovs, o \in Offsets : dzfile_preadv(v, o)) \/ dzfile_get
  PROVE  ReadInv'
<1>1. /\ Stored \in Seq(Byte) /\ Len(Stored) \in Nat /\ BufLen \in Nat \ {0}
      /\ Offsets \subseteq Nat
  BY PreadAssumption DEF StoreInv, PreadAssumption
<1>2. Len(<<>>) = 0 /\ <<>> \o <<>> = <<>>
  OBVIOUS
<1>3. /\ pc' = "loop" /\ out' = <<>> /\ buf' = <<>> /\ nbread' = 0
      /\ curoff' = start' /\ Stored' = Stored
      /\ caller' = "get" => start' = 0 /\ count' = BufLen
  BY StoredSame DEF dzfile_preadv, dzfile_get, Enter, file
<1>4. start' \in Nat
  BY CallType DEF TypeInv, TypeOK
<1>5. out' \o buf' = SubSeq(Stored', start' + 1, curoff')
  <2>1. SubSeq(Stored, start' + 1, start') = <<>>
    <3>1. \A n \in Nat : SubSeq(Stored, n + 1, n) = <<>>
      <4> TAKE n \in Nat
      <4>1. n + 1 \in Int /\ n \in Int /\ n < n + 1
        OBVIOUS
      <4> QED
        BY ONLY <4>1, SubSeqEmpty
    <3> QED
      BY <1>4, <3>1, Zenon
  <2> QED
    BY <1>2, <1>3, <2>1
<1>6. caller' = "preadv" => Asked' = want'
  <2>1. ASSUME NEW v \in Iovs, NEW o \in Offsets, dzfile_preadv(v, o)
        PROVE  Asked' = want'
    <3>1. /\ count' = Head(v) /\ iov' = Tail(v) /\ want' = Room(v)
      BY <2>1 DEF dzfile_preadv, Enter, Room
    <3>2. v \in Seq(Nat) /\ v # <<>>
      BY PreadAssumption DEF PreadAssumption
    <3>3. Head(v) \in Nat /\ Room(Tail(v)) \in Nat
          /\ Room(v) = Head(v) + Room(Tail(v))
      BY <3>2, RoomFacts
    <3>4. Asked' = Len(out') + count' + Room(iov')
      BY DEF Asked
    <3>5. Len(out') = 0
      BY <1>2, <1>3
    <3> QED
      BY <3>1, <3>3, <3>4, <3>5
  <2>2. dzfile_get => caller' = "get"
    BY DEF dzfile_get
  <2> QED
    BY <2>1, <2>2
<1>7. want' \in Nat \/ caller' # "preadv"
  BY CallType DEF TypeInv, TypeOK
<1>8. Len(out') % BufLen = 0
  BY <1>1, <1>2, <1>3
<1>9. start' <= Len(Stored') => Progress'
  BY <1>3, <1>5, <1>6, <1>7, <1>8 DEF Progress
<1> QED
  BY <1>3, <1>9 DEF ReadInv, ReadExact, ReadInside, GetCopies, CopyInside, Answered

(* Numbers divided by BUFLEN.                                              *)
LEMMA NextMultiple ==
  ASSUME NEW a \in Nat, NEW b \in Nat \ {0}, a % b = 0
  PROVE  (a + b) % b = 0
<1> DEFINE q == a \div b
<1>1. q \in Nat /\ a = q * b
  BY DivMod
<1> HIDE DEF q
<1>2. a + b = (q + 1) * b
  BY <1>1
<1> QED
  BY <1>1, <1>2, ModMultiple

(* A file that ends with a full block is a multiple of BUFLEN too.         *)
LEMMA MultipleOfMultiple ==
  ASSUME NEW c \in Nat, NEW B \in Nat \ {0}, NEW b \in Nat \ {0},
         c % B = 0, B % b = 0
  PROVE  c % b = 0
<1> DEFINE q == c \div B
           p == B \div b
<1>1. q \in Nat /\ c = q * B /\ p \in Nat /\ B = p * b
  BY DivMod
<1> HIDE DEF q, p
<1>2. c = (q * p) * b /\ q * p \in Nat
  BY <1>1
<1> QED
  BY <1>2, ModMultiple

(* What is left of a multiple of BUFLEN and is less than it is nothing.    *)
LEMMA NoRest ==
  ASSUME NEW a \in Nat, NEW b \in Nat \ {0}, NEW n \in Nat,
         a % b = 0, (a + n) % b = 0, n < b
  PROVE  n = 0
<1> DEFINE q == a \div b
           r == (a + n) \div b
<1>1. q \in Nat /\ a = q * b /\ r \in Nat /\ a + n = r * b
  <2>1. a + n \in Nat
    OBVIOUS
  <2> QED
    BY <2>1, DivMod
<1> HIDE DEF q, r
<1>2. n = (r - q) * b
  BY <1>1
<1>3. CASE r - q >= 1
  <2>1. (r - q) * b >= 1 * b
    BY <1>1, <1>3
  <2> QED
    BY <1>2, <2>1
<1>4. CASE r - q <= 0
  <2>1. (r - q) * b <= 0
    BY <1>1, <1>4
  <2> QED
    BY <1>2, <2>1
<1> QED
  BY <1>1, <1>3, <1>4

(* A return to the caller, because count bytes are there or the file is at *)
(* its end: the call goes on where it should, or its answer is right.      *)
LEMMA ReturnProgress ==
  ASSUME TypeInv, StoreInv, Progress, Regular, pc = "loop",
         start <= Len(Stored),
         caller = "get" => start = 0,
         pread_return, UNCHANGED file,
         nbread >= count \/ curoff = Len(Stored)
  PROVE  ReadInv'
<1>1. /\ Stored \in Seq(Byte) /\ Len(Stored) \in Nat
      /\ curoff \in Nat /\ nbread \in Nat /\ count \in Nat /\ start \in Nat
      /\ want \in Nat /\ BufLen \in Nat \ {0}
      /\ out \in Seq(Got) /\ buf \in Seq(Got) /\ Len(out) \in Nat
      /\ iov \in Seq(Nat) /\ caller \in {"preadv", "get"}
      /\ nbread = Len(buf) /\ nbread <= count
      /\ curoff = start + Len(out) + nbread
  BY PreadAssumption DEF TypeInv, TypeOK, StoreInv, PreadAssumption
<1>2. /\ out' = out \o buf /\ out' \in Seq(Got)
      /\ Len(out') = Len(out) + nbread
      /\ out' = SubSeq(Stored, start + 1, curoff) /\ curoff <= Len(Stored)
  <2>1. out' = out \o buf
    BY DEF pread_return
  <2>2. out \o buf \in Seq(Got) /\ Len(out \o buf) = Len(out) + nbread
    BY <1>1, ConcatProperties
  <2>3. out \o buf = SubSeq(Stored, start + 1, curoff) /\ curoff <= Len(Stored)
    BY DEF Progress
  <2> QED
    BY <2>1, <2>2, <2>3
<1>3. Stored' = Stored /\ start' = start /\ want' = want /\ caller' = caller
  BY StoredSame DEF pread_return, pwrite, Finish, file
<1>4. Room(iov) \in Nat /\ Asked = Len(out) + count + Room(iov)
  BY <1>1, RoomFacts DEF Asked
<1>5. caller = "preadv" => Asked <= want /\ (curoff < Len(Stored) => Asked = want)
  BY DEF Progress
<1>6. caller = "get" =>
        count = BufLen /\ (Len(out) % BufLen = 0 \/ curoff = Len(Stored))
  BY DEF Progress
<1>7. ASSUME Finish(Len(out) + nbread),
             nbread = 0 \/ (caller = "preadv" /\ iov = <<>>)
      PROVE  ReadInv'
  <2>1. /\ pc' = "returned"
        /\ caller = "preadv" => ret' = Len(out') /\ ret' # -1
    BY <1>1, <1>2, <1>7 DEF Finish
  <2>2. nbread = 0 /\ count > 0 => curoff = Len(Stored)
    BY <1>1
  <2>3. CASE caller = "preadv"
    <3> DEFINE asked == IF count = 0 THEN Len(out') ELSE want
    <3>1. start + asked >= curoff
      BY <1>1, <1>2, <1>4, <1>5, <2>3
    <3>2. curoff < Len(Stored) => start + asked = curoff
      <4>1. CASE count > 0 /\ iov = <<>> /\ nbread = count
        <5>1. Room(iov) = 0
          BY <4>1, RoomFacts
        <5> QED
          BY <1>1, <1>4, <1>5, <2>3, <4>1, <5>1
      <4>2. CASE count = 0
        BY <1>1, <1>2, <4>2
      <4> QED
        BY <1>1, <1>7, <2>2, <4>1, <4>2
    <3>3. asked \in Nat
      BY <1>1, <1>2
    <3> HIDE DEF asked
    <3>4. curoff = IF start + asked < Len(Stored) THEN start + asked
                   ELSE Len(Stored)
      BY <1>1, <1>2, <3>1, <3>2, <3>3
    <3>5. out' = SubSeq(Stored', start' + 1,
                        IF start' + asked < Len(Stored') THEN start' + asked
                        ELSE Len(Stored'))
      BY <1>2, <1>3, <3>4
    <3>6. asked = IF count' = 0 THEN Len(out') ELSE want'
      BY <1>7 DEF asked, Finish
    <3>7. ReadExact'
      BY <1>3, <2>1, <2>3, <3>5, <3>6 DEF ReadExact, Expected
    <3> QED
      BY <1>3, <2>1, <2>3, <3>7
      DEF ReadInv, ReadExact, ReadInside, GetCopies, CopyInside, Answered
  <2>4. CASE caller = "get"
    <3>1. nbread = 0 /\ curoff = Len(Stored) /\ start = 0
      BY <1>1, <1>6, <1>7, <2>2, <2>4
    <3>2. out' = Stored
      BY <1>1, <1>2, <3>1, SubSeqFull
    <3> QED
      BY <1>3, <2>1, <2>4, <3>2
      DEF ReadInv, ReadExact, ReadInside, GetCopies, CopyInside, Answered
  <2> QED
    BY <1>1, <2>3, <2>4
<1>8. ASSUME pc' = "loop", buf' = <<>>, nbread' = 0, curoff' = curoff,
             caller = "preadv" =>
               Asked' <= want /\ (curoff < Len(Stored) => Asked' = want),
             caller = "get" =>
               count' = BufLen /\ (Len(out') % BufLen = 0 \/ curoff = Len(Stored))
      PROVE  ReadInv'
  <2>1. out' \o buf' = SubSeq(Stored', start' + 1, curoff')
    <3>1. out' \o <<>> = out'
      BY <1>2, ConcatEmptySeq
    <3> QED
      BY <1>2, <1>3, <1>8, <3>1
  <2>2. Progress'
    BY <1>2, <1>3, <1>8, <2>1 DEF Progress
  <2> QED
    BY <1>3, <1>8, <2>2 DEF ReadInv, ReadExact, ReadInside, GetCopies, CopyInside, Answered
<1>9. CASE nbread = 0 /\ Finish(Len(out))
  <2>1. Len(out) + nbread = Len(out)
    BY <1>1, <1>9
  <2> QED
    BY <1>7, <1>9, <2>1
<1>10. CASE caller = "preadv" /\ iov = <<>> /\ Finish(Len(out) + nbread)
  BY <1>7, <1>10
<1>11. CASE /\ caller = "preadv" /\ iov # <<>>
            /\ iov' = Tail(iov)
            /\ Enter(Head(iov), curoff)
            /\ UNCHANGED <<pc, caller, start, want, ret, dst, fault>>
  <2>1. /\ Head(iov) \in Nat /\ Room(Tail(iov)) \in Nat
        /\ Room(iov) = Head(iov) + Room(Tail(iov))
    BY <1>1, <1>11, RoomFacts
  <2>2. Asked' = Len(out') + Head(iov) + Room(Tail(iov))
    BY <1>11 DEF Asked, Enter
  <2>3. Asked' = Len(out) + nbread + Room(iov)
    <3>1. Len(out') = Len(out) + nbread /\ Len(out) \in Nat /\ nbread \in Nat
      BY <1>1, <1>2
    <3> QED
      BY <2>1, <2>2, <3>1
  <2>4. Asked' <= want /\ (curoff < Len(Stored) => Asked' = want)
    <3>1. caller = "preadv"
      BY <1>11
    <3>2. Asked <= want /\ (curoff < Len(Stored) => Asked = want)
      BY <1>5, <3>1
    <3>3. curoff < Len(Stored) => nbread = count
      BY <1>1
    <3> QED
      BY <1>1, <1>4, <2>3, <3>2, <3>3
  <2>5. pc' = "loop" /\ buf' = <<>> /\ nbread' = 0 /\ curoff' = curoff
    BY <1>11 DEF Enter
  <2>6. caller # "get"
    BY <1>11
  <2> QED
    BY <1>8, <2>4, <2>5, <2>6
<1>12. CASE /\ caller = "get" /\ nbread > 0
            /\ Enter(BufLen, curoff)
            /\ UNCHANGED <<pc, caller, iov, start, want, ret, dst>>
  <2>1. count = BufLen /\ (Len(out) % BufLen = 0 \/ curoff = Len(Stored))
    BY <1>6, <1>12
  <2>2. CASE curoff = Len(Stored)
    BY <1>8, <1>12, <2>2 DEF Enter
  <2>3. CASE curoff # Len(Stored)
    <3>1. nbread = BufLen /\ Len(out) % BufLen = 0
      BY <1>1, <2>1, <2>3
    <3>2. Len(out') % BufLen = 0
      BY <1>1, <1>2, <3>1, NextMultiple
    <3> QED
      BY <1>8, <1>12, <3>2 DEF Enter
  <2> QED
    BY <2>2, <2>3
<1>13. CASE caller = "get" /\ fault' = TRUE /\ Finish(0)
  BY <1>3, <1>13
  DEF Finish, ReadInv, ReadExact, ReadInside, GetCopies, CopyInside, Answered
<1> QED
  BY <1>9, <1>10, <1>11, <1>12, <1>13 DEF pread_return, pwrite

(* h5fd_pread fails on a file that can be read back only at its very end,  *)
(* where the last block is full: preadv had asked for more than there is,  *)
(* and dzfile_get has copied everything.                                   *)
LEMMA FailProgress ==
  ASSUME TypeInv, StoreInv, pc = "loop", caller = "get" => start = 0,
         pread_fail, UNCHANGED file,
         Sound /\ start <= Len(Stored)
           => /\ nbread < count /\ Progress
              /\ curoff = Len(Stored) /\ Len(Stored) % BufSize = 0
  PROVE  ReadInv'
<1>1. /\ Stored \in Seq(Byte) /\ Len(Stored) \in Nat
      /\ nbread \in Nat /\ count \in Nat /\ start \in Nat /\ want \in Nat
      /\ BufLen \in Nat \ {0} /\ BufSize \in Nat \ {0} /\ BufSize % BufLen = 0
      /\ out \in Seq(Got) /\ Len(out) \in Nat /\ buf \in Seq(Got)
      /\ iov \in Seq(Nat) /\ nbread = Len(buf)
      /\ curoff = start + Len(out) + nbread
  BY PreadAssumption DEF TypeInv, TypeOK, StoreInv, PreadAssumption
<1>2. /\ Stored' = Stored /\ start' = start /\ want' = want
      /\ caller' = caller /\ out' = out /\ pc' = "returned"
      /\ caller = "preadv" => ret' = -1
      /\ alg' = alg /\ blocks' = blocks /\ fault' = fault
  BY StoredSame DEF pread_fail, Finish, file
<1>3. Sound' = Sound
  BY <1>2 DEF Sound, Regular
<1>4. ReadExact'
  BY <1>2 DEF ReadExact, Answered
<1>5. ReadInside'
  <2> SUFFICES ASSUME caller = "preadv", start <= Len(Stored), Sound,
                      start + want <= Len(Stored) \/ Len(Stored) % BufSize # 0
               PROVE  FALSE
    BY <1>2, <1>3 DEF ReadInside, Answered
  <2>1. /\ Asked <= want /\ curoff = Len(Stored) /\ nbread < count
        /\ start + want <= Len(Stored)
    BY DEF Progress
  <2>2. Asked = Len(out) + count + Room(iov) /\ Room(iov) \in Nat
    BY <1>1, RoomFacts DEF Asked
  <2> QED
    BY <1>1, <2>1, <2>2
<1>6. GetCopies'
  <2> SUFFICES ASSUME caller = "get", Sound
               PROVE  out = Stored
    BY <1>2, <1>3 DEF GetCopies
  <2>1. /\ start = 0 /\ curoff = Len(Stored) /\ Len(Stored) % BufSize = 0
        /\ out \o buf = SubSeq(Stored, start + 1, curoff)
        /\ count = BufLen /\ (Len(out) % BufLen = 0 \/ nbread = 0)
        /\ nbread < count
    BY <1>1 DEF Progress
  <2>2. nbread = 0
    <3>1. CASE Len(out) % BufLen = 0
      <4>1. Len(Stored) = Len(out) + nbread /\ nbread < BufLen
        BY <1>1, <2>1
      <4>2. Len(Stored) % BufLen = 0
        BY <1>1, <2>1, MultipleOfMultiple
      <4>3. (Len(out) + nbread) % BufLen = 0
        BY <4>1, <4>2
      <4> QED
        BY <1>1, <3>1, <4>1, <4>3, NoRest
    <3> QED
      BY <2>1, <3>1
  <2>3. buf = <<>>
    <3>1. Len(buf) = 0 /\ buf \in Seq(Got)
      BY <1>1, <2>2
    <3> QED
      BY ONLY <3>1, EmptySeq
  <2>4. out \o <<>> = out
    BY <1>1, ConcatEmptySeq
  <2>5. SubSeq(Stored, 0 + 1, Len(Stored)) = Stored
    BY <1>1, SubSeqFull
  <2> QED
    BY <2>1, <2>3, <2>4, <2>5
<1> QED
  BY <1>2, <1>4, <1>5, <1>6 DEF ReadInv, CopyInside

(* One turn of h5fd_pread.                                                 *)
LEMMA PreadProgress ==
  ASSUME TypeInv, StoreInv, ReadInv, h5fd_pread
  PROVE  ReadInv'
<1> DEFINE k == ToInt(curoff \div BufSize)
           block == blocks[k + 1].data
           base == k * BufSize
           at == curoff - base
           valid == Len(block) - at
<1>1. /\ pc = "loop" /\ UNCHANGED file /\ cpc = "done" /\ Stored' = Stored
      /\ Regular' = Regular /\ Sound' = Sound
      /\ caller = "get" => start = 0
      /\ blocks \in Seq(Zipped) /\ curoff \in Nat /\ BufSize \in Nat \ {0}
      /\ Len(Stored) \in Nat
  <2>1. pc = "loop" /\ UNCHANGED file
    BY DEF h5fd_pread
  <2>2. /\ cpc = "done" /\ blocks \in Seq(Zipped) /\ curoff \in Nat
        /\ BufSize \in Nat \ {0} /\ Len(Stored) \in Nat
        /\ caller = "get" => start = 0
    BY <2>1, PreadAssumption
    DEF TypeInv, TypeOK, StoreInv, ReadInv, PreadAssumption
  <2>3. blocks' = blocks /\ alg' = alg /\ Stored' = Stored
    BY <2>1, StoredSame DEF file
  <2>4. Regular' = Regular /\ Sound' = Sound
    BY <2>3 DEF Regular, Sound
  <2> QED
    BY <2>1, <2>2, <2>3, <2>4
<1>2. Regular /\ curoff <= Len(Stored)
        => k \in Nat /\ k = curoff \div BufSize
  BY BlockNumber
<1>3. Sound => Regular /\ getAlgorithm = "zstd"
  BY DEF Sound, getAlgorithm, hdf5_readstr
<1>4. Regular /\ start <= Len(Stored) => Progress
  BY <1>1 DEF ReadInv
<1>5. ASSUME pread_fail, Sound => ~hdf5_readdata(k) /\ nbread < count
      PROVE  ReadInv'
  <2>1. ASSUME Sound, start <= Len(Stored)
        PROVE  /\ nbread < count /\ Progress
               /\ curoff = Len(Stored) /\ Len(Stored) % BufSize = 0
    <3>1. Regular /\ Progress /\ curoff <= Len(Stored)
      BY <1>3, <1>4, <2>1 DEF Progress
    <3>2. k >= Len(blocks)
      <4>1. ASSUME k < Len(blocks)
            PROVE  FALSE
        <5>1. k + 1 \in 1 .. Len(blocks)
          BY <1>1, <1>2, <3>1, <4>1
        <5>2. blocks[k + 1].data \notin Incompressible
          BY <2>1, <5>1 DEF Sound
        <5> QED
          BY <1>5, <2>1, <5>1, <5>2 DEF hdf5_readdata
      <4> QED
        BY <1>1, <1>2, <3>1, <4>1
    <3>3. curoff \div BufSize >= Len(blocks)
      BY <1>2, <3>1, <3>2
    <3> QED
      BY <1>1, <1>5, <2>1, <3>1, <3>3, NoBlock
  <2> QED
    BY <1>1, <1>5, <2>1, FailProgress
<1>6. ASSUME pread_return,
             Regular /\ start <= Len(Stored)
               => nbread >= count \/ curoff = Len(Stored)
      PROVE  ReadInv'
  <2>1. CASE Regular /\ start <= Len(Stored)
    BY <1>1, <1>4, <1>6, <2>1, ReturnProgress
  <2>2. CASE ~(Regular /\ start <= Len(Stored))
    <3>1. /\ UNCHANGED <<caller, start>>
          /\ pc' # "crashed"
      BY <1>1, <1>6 DEF pread_return, pwrite, Finish
    <3>2. Sound' => Regular
      BY <1>1, <1>3
    <3>3. caller = "get" => start <= Len(Stored)
      BY <1>1
    <3> QED
      BY <1>1, <2>2, <3>1, <3>2, <3>3
      DEF ReadInv, ReadExact, ReadInside, GetCopies, CopyInside, Answered
  <2> QED
    BY <2>1, <2>2
<1>7. ASSUME pc' = "crashed", UNCHANGED <<alg, start>>,
             alg = "zlib" \/ ~(Regular /\ start <= Len(Stored))
      PROVE  ReadInv'
  BY <1>1, <1>7 DEF ReadInv, ReadExact, ReadInside, GetCopies, CopyInside, Answered
<1>8. ASSUME nbread < count, hdf5_readdata(k), pread_block(block, k)
      PROVE  ReadInv'
  <2>1. CASE ~(Regular /\ start <= Len(Stored))
    <3>1. CASE pread_return
      BY <1>6, <2>1, <3>1
    <3>2. CASE \E x, y : pread_copy(block, x, y)
      <4>1. /\ pc' = "crashed" \/ pc' = "loop"
            /\ UNCHANGED <<alg, caller, start>>
        BY <1>1, <3>2 DEF pread_copy, file
      <4> QED
        BY <1>1, <1>7, <2>1, <4>1
        DEF ReadInv, ReadExact, ReadInside, GetCopies, CopyInside, Answered
    <3> QED
      BY <1>8, <3>1, <3>2 DEF pread_block
  <2>2. CASE Regular /\ start <= Len(Stored)
    <3>1. Progress /\ curoff <= Len(Stored) /\ k < Len(blocks)
          /\ k = curoff \div BufSize
      <4>1. Progress /\ curoff <= Len(Stored)
        BY <1>4, <2>2 DEF Progress
      <4>2. k \in Nat /\ k = curoff \div BufSize
        BY <1>2, <2>2, <4>1
      <4>3. k + 1 \in 1 .. Len(blocks)
        BY <1>8 DEF hdf5_readdata
      <4> HIDE DEF k
      <4> QED
        BY <1>1, <4>1, <4>2, <4>3
    <3>2. InBlock(k, base, block, at, valid)
      BY <3>1 DEF InBlock
    <3>3. /\ ToInt(base) = base
          /\ ToInt(Len(block) - curoff + base) = valid
          /\ valid = 0 => curoff = Len(Stored)
      <4> HIDE DEF k, base, block, at, valid
      <4> QED
        BY <1>1, <2>2, <3>1, <3>2, BlockAt
    <3>4. \/ valid = 0 /\ pread_return
          \/ valid # 0 /\ pread_copy(block, at, valid)
      <4> DEFINE b == ToInt(base)
                 v == ToInt(Len(block) - curoff + b)
      <4>1. \/ v = 0 /\ pread_return
            \/ v # 0 /\ pread_copy(block, curoff - b, v)
        BY <1>8 DEF pread_block
      <4>2. b = base /\ v = valid /\ curoff - b = at
        BY <3>3
      <4> HIDE DEF b, v, at, valid, base, block, k
      <4> QED
        BY <4>1, <4>2
    <3>5. CASE valid = 0 /\ pread_return
      BY <1>6, <3>3, <3>5
    <3>6. CASE valid # 0 /\ pread_copy(block, at, valid)
      <4> HIDE DEF k, base, block, at, valid
      <4>1. pc' = "loop" /\ Progress'
        BY <1>1, <1>8, <2>2, <3>1, <3>2, <3>6, CopyProgress
      <4>2. UNCHANGED <<caller, start>>
        BY <3>6 DEF pread_copy
      <4> QED
        BY <1>1, <4>1, <4>2
        DEF ReadInv, ReadExact, ReadInside, GetCopies, CopyInside, Answered
    <3> QED
      BY <3>4, <3>5, <3>6
  <2> QED
    BY <2>1, <2>2
<1>9. CASE getAlgorithm = "unknown" /\ pread_fail
  BY <1>3, <1>5, <1>9
<1>10. CASE nbread >= count /\ pread_return
  BY <1>6, <1>10
<1>11. CASE nbread < count /\ ~hdf5_readdata(k) /\ pread_fail
  BY <1>5, <1>11
<1>12. CASE /\ nbread < count /\ hdf5_readdata(k)
            /\ decompress_data(blocks[k + 1], k)
  <2>1. CASE getAlgorithm # "zstd" /\ pread_fail
    BY <1>3, <1>5, <2>1
  <2>2. CASE getAlgorithm = "zstd" /\ pread_block(block, k)
    BY <1>8, <1>12, <2>2
  <2>3. CASE /\ getAlgorithm = "zlib" /\ pc' = "crashed"
             /\ UNCHANGED <<caller, iov, start, want, count, curoff, nbread, buf,
                            out, ret, turn, dst, fault>>
    <3>1. alg = "zlib" /\ alg' = alg
      BY <1>1, <2>3 DEF getAlgorithm, hdf5_readstr, file
    <3> QED
      BY <1>7, <2>3, <3>1
  <2> QED
    BY <1>12, <2>1, <2>2, <2>3
    DEF decompress_data, decompressdata_zlib, decompressdata_zstd
<1>13. CASE library_fail
  <2>1. /\ pc' = "returned" /\ fault' = TRUE /\ caller' = caller
        /\ caller = "preadv" => ret' = -1
    BY <1>13 DEF library_fail, Finish
  <2> QED
    BY <2>1
    DEF ReadInv, ReadExact, ReadInside, GetCopies, CopyInside, Answered
<1> QED
  BY <1>9, <1>10, <1>11, <1>12, <1>13 DEF h5fd_pread

(* Nobody reads before convert2h5 is done, and what was read is untouched  *)
(* by a client's write and by a step that moves nothing.                   *)
LEMMA ReadStep ==
  ASSUME TypeInv, StoreInv, ReadInv, [Next]_vars
  PROVE  ReadInv'
<1>1. CASE convert_read
  <2>1. pc = "idle" /\ pc' = "idle"
    BY <1>1 DEF convert_read, reader, TypeInv
  <2> QED
    BY <2>1 DEF ReadInv, ReadExact, ReadInside, GetCopies, CopyInside, Answered
<1>2. CASE (\E v \in Iovs, o \in Offsets : dzfile_preadv(v, o)) \/ dzfile_get
  BY <1>2, CallProgress
<1>3. CASE h5fd_pread
  BY <1>3, PreadProgress
<1>4. CASE dzfile_write \/ UNCHANGED vars
  <2>1. /\ UNCHANGED <<Stored, alg, blocks, pc, caller, iov, start, want, count>>
        /\ UNCHANGED <<curoff, nbread, buf, out, ret, fault>>
    BY <1>4, StoredSame DEF dzfile_write, vars, file, reader
  <2>2. /\ Regular' = Regular /\ Sound' = Sound /\ Asked' = Asked
        /\ Answered' = Answered
    BY <2>1 DEF Regular, Sound, Asked, Answered
  <2>3. Progress' = Progress
    BY <2>1, <2>2 DEF Progress
  <2>4. ReadExact' = ReadExact
    BY <2>1, <2>2 DEF ReadExact, Expected
  <2> QED
    BY <2>1, <2>2, <2>3, <2>4 DEF ReadInv, ReadInside, GetCopies, CopyInside
<1> QED
  BY <1>1, <1>2, <1>3, <1>4 DEF Next

(* Nothing is read at the start.                                           *)
LEMMA InitRead == Init => ReadInv
  BY DEF Init, ReadInv, ReadExact, ReadInside, GetCopies, CopyInside, Answered

(* What has been read is right, always.                                    *)
LEMMA ReadInvariant == Spec => []ReadInv
<1>1. Init => TypeInv /\ StoreInv /\ LateInv /\ ReadInv
  BY InitStore, InitRead
<1>2. TypeInv /\ StoreInv /\ LateInv /\ ReadInv /\ [Next]_vars
        => TypeInv' /\ StoreInv' /\ LateInv' /\ ReadInv'
  BY FileStep, ReadStep
<1> QED
  BY <1>1, <1>2, PTL DEF Spec

(* A preadv that does not fail returns what pread(2) would, wherever its   *)
(* buffers, its offset and the blocks of the file begin and end, with int  *)
(* arithmetic and a negative validbytes compared as an unsigned number.    *)
THEOREM PreadExact == Spec => []ReadExact
<1>1. ReadInv => ReadExact
  BY DEF ReadInv
<1> QED
  BY <1>1, ReadInvariant, PTL

(* Unless a library call fails, a preadv inside a file that convert2h5     *)
(* stored well does not; nor does one at the end, unless the last block is *)
(* full.                                                                   *)
THEOREM PreadInside == Spec => []ReadInside
<1>1. ReadInv => ReadInside
  BY DEF ReadInv
<1> QED
  BY <1>1, ReadInvariant, PTL

(* A copy from a block of a regular file stays inside of the block.        *)
THEOREM PreadCopiesInside == Spec => []CopyInside
<1>1. ReadInv => CopyInside
  BY DEF ReadInv
<1> QED
  BY <1>1, ReadInvariant, PTL

(* If its destination is open, every pwrite is whole and no library call   *)
(* fails, dzfile_get copies all of such a file, whatever BUFLEN is, as     *)
(* long as it divides H5_BUFSIZE: the read that fails is one that had      *)
(* nothing to get.                                                         *)
THEOREM GetCopiesAll == Spec => []GetCopies
<1>1. ReadInv => GetCopies
  BY DEF ReadInv
<1> QED
  BY <1>1, ReadInvariant, PTL

(* What preadv still asks for, in this buffer and the next ones, is part   *)
(* of what it was called with.                                             *)
CountInv ==
    pc = "loop" =>
      /\ caller = "get" => count = BufLen
      /\ caller = "preadv" => count + Room(iov) <= want

(* So it is when it begins, and when the next buffer is taken up.          *)
LEMMA CountStep ==
  ASSUME TypeInv, CountInv, [Next]_vars
  PROVE  CountInv'
<1>1. /\ iov \in Seq(Nat) /\ count \in Nat /\ want \in Nat /\ Room(iov) \in Nat
  BY RoomFacts DEF TypeInv, TypeOK
<1>2. ASSUME UNCHANGED <<pc, caller, count, iov, want>>
      PROVE  CountInv'
  BY <1>2 DEF CountInv
<1>3. CASE convert_read \/ dzfile_write \/ UNCHANGED vars
  BY <1>2, <1>3 DEF convert_read, dzfile_write, vars, reader
<1>4. ASSUME NEW v \in Iovs, NEW o \in Offsets, dzfile_preadv(v, o)
      PROVE  CountInv'
  <2>1. /\ caller' = "preadv" /\ count' = Head(v) /\ iov' = Tail(v)
        /\ want' = Room(v)
    BY <1>4 DEF dzfile_preadv, Enter, Room
  <2>2. v \in Seq(Nat) /\ v # <<>>
    BY PreadAssumption DEF PreadAssumption
  <2>3. /\ Head(v) \in Nat /\ Room(Tail(v)) \in Nat
        /\ Room(v) = Head(v) + Room(Tail(v))
    BY <2>2, RoomFacts
  <2> QED
    BY <2>1, <2>3 DEF CountInv
<1>5. CASE dzfile_get
  BY <1>5 DEF dzfile_get, Enter, CountInv
<1>6. ASSUME pc' # "loop"
      PROVE  CountInv'
  BY <1>6 DEF CountInv
<1>7. CASE h5fd_pread
  <2>1. pc = "loop"
    BY <1>7 DEF h5fd_pread
  <2>2. CASE pread_fail \/ library_fail
    BY <1>6, <2>2 DEF pread_fail, library_fail, Finish
  <2>3. CASE pread_return
    <3>1. CASE /\ caller = "preadv" /\ iov # <<>>
               /\ iov' = Tail(iov)
               /\ Enter(Head(iov), curoff)
               /\ UNCHANGED <<pc, caller, start, want, ret, dst, fault>>
      <4>1. /\ Head(iov) \in Nat /\ Room(Tail(iov)) \in Nat
            /\ Room(iov) = Head(iov) + Room(Tail(iov))
        BY <1>1, <3>1, RoomFacts
      <4>2. count' = Head(iov) /\ iov' = Tail(iov) /\ want' = want
            /\ caller' = "preadv"
        BY <3>1 DEF Enter
      <4>3. count + Room(iov) <= want
        BY <2>1, <3>1 DEF CountInv
      <4> QED
        BY <1>1, <4>1, <4>2, <4>3 DEF CountInv
    <3>2. CASE caller = "get" /\ pwrite
      BY <1>6, <3>2 DEF pwrite, Enter, Finish, CountInv
    <3>3. CASE pc' = "returned"
      BY <1>6, <3>3
    <3> QED
      BY <2>3, <3>1, <3>2, <3>3 DEF pread_return, Finish
  <2>4. CASE pc' = "crashed"
    BY <1>6, <2>4
  <2>5. CASE UNCHANGED <<pc, caller, count, iov, want>>
    BY <1>2, <2>5
  <2> QED
    BY <1>7, <2>2, <2>3, <2>4, <2>5
    DEF h5fd_pread, decompress_data, decompressdata_zlib, pread_block, pread_copy
<1> QED
  BY <1>3, <1>4, <1>5, <1>7 DEF Next

(* The invariants that progress rests on.                                  *)
LEMMA CountInvariant ==
  Spec => [](TypeInv /\ StoreInv /\ ReadInv /\ CountInv)
<1>1. Init => CountInv
  BY DEF Init, CountInv
<1>2. TypeInv /\ CountInv /\ [Next]_vars => CountInv'
  BY CountStep
<1> QED
  BY <1>1, <1>2, FileInvariant, ReadInvariant, PTL DEF Spec

(* A number below 2^32 that is not 0 is not 0 as an int.                   *)
LEMMA ToIntNotZero ==
  ASSUME NEW x \in Nat \ {0}, x < 2 * IntHalf
  PROVE  ToInt(x) # 0
<1> DEFINE h == 2 * IntHalf
           y == x + IntHalf
<1>1. IntHalf \in Nat \ {0} /\ h \in Nat \ {0} /\ y \in Nat /\ x < h
      /\ ToInt(x) = (y % h) - IntHalf
  BY PreadAssumption DEF PreadAssumption, ToInt
<1>2. CASE y < h
  <2>1. y % h = y
    <3> HIDE DEF h, y
    <3> QED
      BY <1>1, <1>2
  <2> QED
    BY <1>1, <2>1
<1>3. CASE y >= h
  <2>1. y - h \in 0 .. h - 1
    BY <1>1, <1>3
  <2>2. y % h = y - h
    <3> HIDE DEF h, y
    <3> QED
      BY <1>1, <1>3, <2>1
  <2> QED
    BY <1>1, <2>2
<1> QED
  BY <1>1, <1>2, <1>3

(* The loop of h5fd_pread makes progress whenever it goes on, whatever     *)
(* validbytes has wrapped around to, since 0 leaves it: in any file, for a *)
(* call that wants less than 4 GiB, and in a regular one, from an offset   *)
(* that is not behind its end, whatever it wants.                          *)
THEOREM PreadTurnMoves == Spec => TurnMoves
<1> DEFINE k == ToInt(curoff \div BufSize)
           Near == curoff < IntHalf * BufSize => curoff < Len(blocks) * BufSize
           Moves == \/ curoff' > curoff /\ Near
                    \/ curoff' = curoff /\ nbread > 0 /\ nbread' = 0
<1>1. ASSUME TypeInv, StoreInv, ReadInv, CountInv, [Next]_vars,
             pc = "loop", pc' = "loop", CountFits
      PROVE  Moves \/ UNCHANGED reader
  <2>1. /\ curoff \in Nat /\ nbread \in Nat /\ count \in Nat /\ want \in Nat
        /\ blocks \in Seq(Zipped) /\ Len(blocks) \in Nat /\ cpc = "done"
        /\ BufSize \in Nat \ {0} /\ BufLen \in Nat \ {0}
        /\ IntHalf \in Nat \ {0} /\ BufLen < 2 * IntHalf
    <3>1. /\ BufSize \in Nat \ {0} /\ BufLen \in Nat \ {0}
          /\ IntHalf \in Nat \ {0} /\ BufSize < IntHalf /\ BufSize % BufLen = 0
      BY PreadAssumption DEF PreadAssumption
    <3>2. BufLen <= BufSize
      <4>1. BufSize < BufLen => BufSize % BufLen = BufSize
        BY <3>1
      <4> QED
        BY <3>1, <4>1
    <3> QED
      BY <1>1, <3>1, <3>2 DEF TypeInv, TypeOK
  <2>2. ASSUME pread_return
        PROVE  Moves
    BY <1>1, <2>2 DEF pread_return, pwrite, Finish, Enter
  <2>3. ASSUME hdf5_readdata(k)
        PROVE  Near
    <3>1. ASSUME curoff < IntHalf * BufSize
          PROVE  curoff < Len(blocks) * BufSize
      <4> DEFINE q == curoff \div BufSize
      <4>1. q \in Nat
        BY <2>1, DivMod
      <4>2. q < IntHalf
        <5>1. q >= IntHalf => curoff >= IntHalf * BufSize
          BY <2>1, DivAtLeast
        <5>2. IntHalf * BufSize \in Int
          BY <2>1
        <5> HIDE DEF q
        <5> QED
          BY <2>1, <3>1, <4>1, <5>1, <5>2
      <4>3. k = q
        <5> HIDE DEF q
        <5>1. ToInt(q) = q
          BY <2>1, <4>1, <4>2, ToIntId
        <5> QED
          BY <5>1 DEF q
      <4>4. q < Len(blocks)
        <5>1. k + 1 \in 1 .. Len(blocks)
          BY <2>3 DEF hdf5_readdata
        <5> HIDE DEF k, q
        <5> QED
          BY <2>1, <4>1, <4>3, <5>1
      <4> QED
        BY <2>1, <4>4, DivBelow
    <3> QED
      BY <3>1
  <2>4. ASSUME nbread < count, NEW d, NEW a, NEW v \in Int, v # 0,
               want < 2 * IntHalf \/ (v > 0 /\ v < IntHalf),
               pread_copy(d, a, v)
        PROVE  curoff' > curoff
    <3> DEFINE left == count - nbread
               n == IF v < 0 \/ v > left THEN ToInt(left) ELSE v
    <3>1. left \in Nat \ {0} /\ ToInt(left) \in Int
      <4>1. left \in Nat \ {0}
        BY <2>1, <2>4
      <4> HIDE DEF left
      <4> QED
        BY <4>1, ToIntType
    <3>2. n >= 0 /\ curoff' = curoff + n
      BY <1>1, <2>4 DEF pread_copy
    <3>3. ToInt(left) # 0 \/ n = v
      <4>1. CASE want < 2 * IntHalf
        <5>1. count < 2 * IntHalf
          <6>1. CASE caller = "get"
            BY <1>1, <2>1, <6>1 DEF CountInv
          <6>2. CASE caller = "preadv"
            <7>1. Room(iov) \in Nat /\ count + Room(iov) <= want
              BY <1>1, <6>2, RoomFacts DEF CountInv, TypeInv, TypeOK
            <7> QED
              BY <2>1, <4>1, <7>1
          <6> QED
            BY <1>1, <6>1, <6>2 DEF TypeInv, TypeOK
        <5>2. left < 2 * IntHalf
          BY <2>1, <5>1
        <5> HIDE DEF left
        <5> QED
          BY <3>1, <5>2, ToIntNotZero
      <4>2. CASE v > 0 /\ v < IntHalf
        <5>1. CASE v > left
          <6>1. left < IntHalf /\ -IntHalf <= left
            BY <2>1, <3>1, <4>2, <5>1
          <6> HIDE DEF left
          <6>2. ToInt(left) = left
            BY <3>1, <6>1, ToIntId
          <6> QED
            BY <3>1, <6>2
        <5>2. CASE ~(v > left)
          BY <4>2, <5>2
        <5> QED
          BY <5>1, <5>2
      <4> QED
        BY <2>4, <4>1, <4>2
    <3>4. n # 0 /\ n \in Int
      <4> HIDE DEF left
      <4> QED
        BY <2>4, <3>1, <3>3
    <3> HIDE DEF n
    <3> QED
      BY <2>1, <3>2, <3>4
  <2>5. ASSUME nbread < count, hdf5_readdata(k), pread_block(blocks[k + 1].data, k)
        PROVE  Moves
    <3> DEFINE d == blocks[k + 1].data
               b == ToInt(k * BufSize)
               v == ToInt(Len(d) - curoff + b)
    <3>1. \/ v = 0 /\ pread_return
          \/ v # 0 /\ pread_copy(d, curoff - b, v)
      BY <2>5 DEF pread_block
    <3>2. k \in Int /\ k + 1 \in 1 .. Len(blocks)
      BY <2>1, <2>5, DivMod, ToIntType DEF hdf5_readdata
    <3>3. d \in Seq(Byte) /\ Len(d) \in Nat /\ Len(d) <= BufSize
      <4> HIDE DEF k
      <4>1. blocks[k + 1] \in Zipped
        BY <2>1, <3>2
      <4>2. Len(blocks[k + 1].data) \in 1 .. BufSize
        BY <1>1, <3>2 DEF StoreInv
      <4> QED
        BY <4>1, <4>2 DEF Zipped
    <3>4. v \in Int
      <4> HIDE DEF k, d
      <4>1. k * BufSize \in Int
        BY <2>1, <3>2
      <4>2. b \in Int
        BY <4>1, ToIntType
      <4> HIDE DEF b
      <4>3. Len(d) - curoff + b \in Int
        BY <2>1, <3>3, <4>2
      <4> QED
        BY <4>3, ToIntType
    <3>5. CASE v # 0 /\ pread_copy(d, curoff - b, v)
      <4>1. want < 2 * IntHalf \/ (v > 0 /\ v < IntHalf)
        <5>1. CASE want < 2 * IntHalf
          BY <5>1
        <5>2. CASE Regular /\ start <= Len(Stored)
          <6>1. Progress /\ curoff <= Len(Stored)
            BY <1>1, <5>2 DEF ReadInv, Progress
          <6>2. k = curoff \div BufSize /\ k \in Nat
            BY <1>1, <5>2, <6>1, BlockNumber
          <6> DEFINE base == k * BufSize
                     at == curoff - base
                     valid == Len(d) - at
          <6>3. InBlock(k, base, d, at, valid)
            <7>1. k < Len(blocks)
              <8> HIDE DEF k
              <8> QED
                BY <2>1, <3>2, <6>2
            <7> QED
              BY <6>2, <7>1 DEF InBlock
          <6>4. /\ ToInt(base) = base /\ valid \in Nat /\ at \in Nat
                /\ ToInt(Len(d) - curoff + base) = valid
            <7> HIDE DEF k, base, d, at, valid
            <7> QED
              BY <1>1, <2>1, <5>2, <6>1, <6>3, BlockAt
          <6>5. v = valid
            BY <6>4
          <6>6. valid <= Len(d) /\ BufSize < IntHalf
            <7>1. BufSize < IntHalf
              BY PreadAssumption DEF PreadAssumption
            <7> HIDE DEF k, base, d, at
            <7> QED
              BY <3>3, <6>4, <7>1
          <6> HIDE DEF k, base, d, at, valid, v
          <6> QED
            BY <2>1, <3>3, <3>5, <6>4, <6>5, <6>6
        <5> QED
          BY <1>1, <5>1, <5>2 DEF CountFits
      <4>2. nbread < count
        BY <2>5
      <4> HIDE DEF d, b, v, k
      <4>3. curoff' > curoff
        BY <2>4, <3>4, <3>5, <4>1, <4>2
      <4> QED
        BY <2>3, <2>5, <4>3
    <3>6. CASE pread_return
      BY <2>2, <3>6
    <3> HIDE DEF d, b, v, k, Moves
    <3> QED
      BY <3>1, <3>5, <3>6
  <2>6. h5fd_pread \/ UNCHANGED reader
    BY <1>1 DEF Next, convert_read, dzfile_write, dzfile_preadv, dzfile_get, vars
  <2>7. CASE h5fd_pread
    <3>1. ~pread_fail /\ ~library_fail
      BY <1>1 DEF pread_fail, library_fail, Finish
    <3> QED
      BY <1>1, <2>2, <2>5, <2>7, <3>1
      DEF h5fd_pread, decompress_data, decompressdata_zlib, decompressdata_zstd
  <2> QED
    BY <2>6, <2>7
<1>2. TypeInv /\ StoreInv /\ ReadInv /\ CountInv /\ [Next]_vars
        => [pc = "loop" /\ pc' = "loop" /\ CountFits => Moves]_reader
  BY <1>1
<1> QED
  BY <1>2, CountInvariant, PTL DEF Spec, TurnMoves
=============================================================================
