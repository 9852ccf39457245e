----------------------------- MODULE PutProofs -----------------------------
(***************************************************************************)
(* Proofs about Put: however many processes put a file to the same name,   *)
(* the region locks of dzfile_lockw let one of them write at a time, and a *)
(* copy that was completed is not mixed with another one when it closes.   *)
(***************************************************************************)
EXTENDS Put, TLAPS

(* What is locked: no unit twice, and by a process all that it has copied  *)
(* and is about to write.                                                  *)
LockInv ==
    /\ \A p \in Puts : pc[p] # "done" => 0 .. total[p] - 1 \subseteq locks[p]
    /\ \A p \in Puts : pc[p] = "write" => Region(p) \subseteq locks[p]
    /\ \A p, q \in Puts : p # q => locks[p] \cap locks[q] = {}

(* What is copied: as much of the source as total says, unless a write was *)
(* short.                                                                  *)
CopyInv ==
    /\ \A p \in Puts : total[p] <= Len(source[p])
    /\ \A p \in Puts :
         pc[p] \in {"getlk", "setlk", "write"} => total[p] < Len(source[p])
    /\ \A p \in Puts : Writing(p) /\ pos[p] = total[p] =>
         \A i \in 1 .. total[p] : dst[i] = source[p][i]

PutInv == TypeOK /\ LockInv /\ CopyInv

(* A process with a buffer has at least a unit and at most BUFLEN to write.*)
LEMMA BufferSize ==
  ASSUME PutInv, NEW p \in Puts, pc[p] \in {"getlk", "setlk", "write"}
  PROVE  nbread(p) \in 1 .. BUFLEN /\ total[p] + nbread(p) <= Len(source[p])
<1>1. total[p] \in Nat /\ Len(source[p]) \in Nat /\ total[p] < Len(source[p])
  BY DEF PutInv, TypeOK, CopyInv
<1> QED
  BY <1>1, PutAssumption DEF PutAssumption, nbread

(* Two processes that have written both hold the lock of the first unit,   *)
(* so they are one.                                                        *)
LEMMA LocksSerialise == PutInv => OneWriter
<1> SUFFICES ASSUME PutInv, NEW p \in Puts, NEW q \in Puts,
                    Writing(p), Writing(q)
             PROVE  p = q
  BY DEF OneWriter
<1>1. 0 \in locks[p] /\ 0 \in locks[q]
  <2>1. total[p] \in Nat /\ total[q] \in Nat
    BY DEF PutInv, TypeOK
  <2> QED
    BY <2>1 DEF PutInv, LockInv, Writing
<1> QED
  BY <1>1 DEF PutInv, LockInv

(* What a process writes lies between what it has copied and the end of    *)
(* the region it has locked last.                                          *)
LEMMA LocksCover == PutInv => WriteLocked
<1> SUFFICES ASSUME PutInv, NEW p \in Puts, pc[p] = "write",
                    NEW i \in pos[p] .. pos[p] + nbread(p) - 1
             PROVE  i \in locks[p]
  BY DEF WriteLocked
<1>1. /\ pos[p] \in Nat /\ total[p] \in Nat /\ pos[p] <= total[p]
      /\ nbread(p) \in 1 .. BUFLEN /\ BUFLEN \in Nat
  BY BufferSize, PutAssumption DEF PutInv, TypeOK, PutAssumption
<1>2. i \in 0 .. total[p] - 1 \/ i \in total[p] .. total[p] + BUFLEN - 1
  BY <1>1
<1> QED
  BY <1>2 DEF PutInv, LockInv, Region

(* A process that closes after its whole source was copied has it in the   *)
(* destination.                                                            *)
LEMMA CopyComplete == PutInv => PutCopied
<1> SUFFICES ASSUME PutInv, NEW p \in Puts, pc[p] = "close",
                    total[p] = Len(source[p]), pos[p] = total[p]
             PROVE  SubSeq(dst, 1, total[p]) = source[p]
  BY DEF PutCopied
<1> DEFINE n == total[p]
           s == SubSeq(dst, 1, n)
<1>1. /\ dst \in Seq(Unit) /\ source[p] \in Seq(Unit)
      /\ n \in Nat /\ n <= Len(dst) /\ n = Len(source[p])
  BY DEF PutInv, TypeOK
<1>2. \A i \in 1 .. n : dst[i] = source[p][i]
  <2>1. CASE n = 0
    BY <2>1
  <2>2. CASE n # 0
    BY <1>1, <2>2 DEF PutInv, CopyInv, Writing
  <2> QED
    BY <2>1, <2>2
<1>3. s \in Seq(Unit) /\ Len(s) = n /\ \A i \in 1 .. n : s[i] = dst[i]
  BY <1>1
<1>4. \A i \in 1 .. n : s[i] = source[p][i]
  BY <1>2, <1>3
<1> HIDE DEF s
<1> QED
  BY <1>1, <1>3, <1>4

(* The invariant holds before any process has begun.                       *)
LEMMA PutInit == Init => PutInv
  BY PutAssumption
  DEF PutAssumption, Init, PutInv, TypeOK, LockInv, CopyInv, Labels, Writing

(* A step that only moves p, which has not ended, to a label outside of    *)
(* the lock and the write.                                                 *)
LEMMA MoveKeeps ==
  ASSUME PutInv, NEW p \in Puts, NEW l \in {"read", "close", "done"},
         pc[p] # "done", Goto(p, l),
         UNCHANGED <<source, dst, total, pos, locks, kills>>
  PROVE  PutInv'
<1>1. TypeOK'
  BY DEF PutInv, TypeOK, Goto, Labels
<1>2. LockInv'
  BY DEF PutInv, TypeOK, LockInv, Goto, Region
<1>3. CopyInv'
  BY DEF PutInv, TypeOK, CopyInv, Goto, Writing
<1> QED
  BY <1>1, <1>2, <1>3 DEF PutInv

(* A write, short or not.                                                  *)
LEMMA WriteKeeps ==
  ASSUME PutInv, NEW p \in Puts, pc[p] = "write", NEW n \in 1 .. nbread(p),
         dst' = Written(p, pos[p], n),
         pos' = [pos EXCEPT ![p] = @ + n],
         total' = [total EXCEPT ![p] = @ + nbread(p)],
         Goto(p, "read"), UNCHANGED <<source, locks, kills>>
  PROVE  PutInv'
<1> DEFINE o == pos[p]
           t == total[p]
           k == nbread(p)
           m == IF Len(dst) < o + n THEN o + n ELSE Len(dst)
<1>1. /\ o \in Nat /\ t \in Nat /\ o <= t /\ o <= Len(dst) /\ Len(dst) \in Nat
      /\ dst \in Seq(Unit) /\ source[p] \in Seq(Unit)
      /\ BUFLEN \in Nat /\ k \in 1 .. BUFLEN /\ t + k <= Len(source[p])
      /\ n \in 1 .. k
  BY BufferSize, PutAssumption DEF PutInv, TypeOK, PutAssumption
<1>2. /\ pc' = [pc EXCEPT ![p] = "read"] /\ source' = source
      /\ pos' = [pos EXCEPT ![p] = o + n]
      /\ total' = [total EXCEPT ![p] = t + k]
      /\ pc \in [Puts -> Labels] /\ total \in [Puts -> Nat]
      /\ pos \in [Puts -> Nat] /\ source \in [Puts -> Seq(Unit)]
  BY DEF Goto, PutInv, TypeOK
<1>n. /\ o \in Nat /\ t \in Nat /\ o <= t /\ k \in Nat /\ n \in 1 .. k
      /\ Len(source[p]) \in Nat /\ t + k <= Len(source[p])
  BY <1>1
<1>s. /\ \A j \in 1 .. Len(source[p]) : source[p][j] \in Unit
      /\ \A j \in 1 .. Len(dst) : dst[j] \in Unit
  BY <1>1
<1>3. m \in Nat /\ Len(dst) <= m /\ o + n <= m
  BY <1>1
<1>4. \A i \in 1 .. m :
        dst'[i] = IF i \in o + 1 .. o + n THEN source[p][t + i - o] ELSE dst[i]
  BY DEF Written
<1> HIDE DEF m
<1>5. dst' \in Seq(Unit) /\ Len(dst') = m
  <2>1. ASSUME NEW i \in 1 .. m
        PROVE  dst'[i] \in Unit
    <3>1. CASE i \in o + 1 .. o + n
      <4>0. i \in Int /\ o + 1 <= i /\ i <= o + n /\ n <= k
        BY <1>n, <3>1
      <4>1. t + i - o \in 1 .. Len(source[p])
        <5>1. i - o \in Nat /\ 1 <= i - o /\ i - o <= k
          BY <1>n, <4>0
        <5>2. t + i - o = t + (i - o)
          BY <1>n, <4>0
        <5> HIDE DEF k, t, o
        <5> QED
          BY <1>n, <5>1, <5>2
      <4>2. source[p][t + i - o] \in Unit
        BY <1>s, <4>1
      <4> QED
        BY <1>4, <3>1, <4>2
    <3>2. CASE i \notin o + 1 .. o + n
      <4>1. i \in 1 .. Len(dst)
        BY <1>1, <3>2 DEF m
      <4>2. dst[i] \in Unit
        BY <1>s, <4>1
      <4> QED
        BY <1>4, <3>2, <4>2
    <3> QED
      BY <3>1, <3>2
  <2>2. dst' \in [1 .. m -> Unit]
    BY <2>1 DEF Written, m
  <2> QED
    BY <1>3, <2>2
<1>6. TypeOK'
  <2>1. \A q \in Puts : pos'[q] <= Len(dst') /\ pos'[q] <= total'[q]
    <3>1. CASE \A q \in Puts : q = p
      BY <1>1, <1>2, <1>3, <1>5, <3>1
    <3>2. ASSUME NEW q \in Puts, q # p
          PROVE  pos'[q] <= Len(dst') /\ pos'[q] <= total'[q]
      <4>1. /\ pos'[q] = pos[q] /\ total'[q] = total[q]
            /\ pos[q] \in Nat /\ pos[q] <= Len(dst) /\ pos[q] <= total[q]
        BY <1>2, <3>2 DEF PutInv, TypeOK
      <4> QED
        BY <1>1, <1>3, <1>5, <4>1
    <3>3. pos'[p] <= Len(dst') /\ pos'[p] <= total'[p]
      BY <1>1, <1>2, <1>3, <1>5
    <3> QED
      BY <3>2, <3>3
  <2>2. /\ pc' \in [Puts -> Labels] /\ total' \in [Puts -> Nat]
        /\ pos' \in [Puts -> Nat]
    BY <1>1, <1>2 DEF Labels
  <2> QED
    BY <1>5, <2>1, <2>2 DEF PutInv, TypeOK
<1>7. LockInv'
  <2>1. 0 .. t + k - 1 \subseteq locks[p]
    <3>1. /\ 0 .. t - 1 \subseteq locks[p]
          /\ t .. t + BUFLEN - 1 \subseteq locks[p]
      BY DEF PutInv, LockInv, Region
    <3>2. \A i \in 0 .. t + k - 1 :
            i \in 0 .. t - 1 \/ i \in t .. t + BUFLEN - 1
      BY <1>1
    <3> QED
      BY <3>1, <3>2
  <2>2. ASSUME NEW q \in Puts, pc'[q] # "done"
        PROVE  0 .. total'[q] - 1 \subseteq locks'[q]
    <3>1. CASE q = p
      <4> SUFFICES ASSUME NEW i \in 0 .. total'[q] - 1
                   PROVE  i \in locks'[q]
        OBVIOUS
      <4>1. total'[q] = t + k /\ locks' = locks
        BY <1>2, <3>1
      <4>2. i \in 0 .. t + k - 1
        BY <1>1, <1>2, <3>1, <4>1
      <4> QED
        BY <2>1, <3>1, <4>1, <4>2
    <3>2. CASE q # p
      BY <1>2, <2>2, <3>2 DEF PutInv, LockInv
    <3> QED
      BY <3>1, <3>2
  <2>3. ASSUME NEW q \in Puts, pc'[q] = "write"
        PROVE  Region(q)' \subseteq locks'[q]
    <3>1. q # p /\ pc[q] = "write" /\ total'[q] = total[q]
      BY <1>2, <2>3
    <3> QED
      BY <3>1 DEF PutInv, LockInv, Region
  <2> QED
    BY <2>2, <2>3 DEF PutInv, LockInv
<1>8. \A q \in Puts \ {p} : ~Writing(q)
  <2>1. 0 \in locks[p]
    <3>1. CASE t = 0
      BY <1>1, <3>1 DEF PutInv, LockInv, Region
    <3>2. CASE t # 0
      <4>1. 0 \in 0 .. t - 1
        BY <1>1, <3>2
      <4> QED
        BY <4>1 DEF PutInv, LockInv
    <3> QED
      BY <3>1, <3>2
  <2>2. ASSUME NEW q \in Puts \ {p}, Writing(q)
        PROVE  FALSE
    <3>1. 0 \in 0 .. total[q] - 1
      BY <1>2, <2>2 DEF Writing
    <3> QED
      BY <2>1, <2>2, <3>1 DEF PutInv, LockInv, Writing
  <2> QED
    BY <2>2
<1>9. CopyInv'
  <2>1. ASSUME NEW q \in Puts, Writing(q)', pos'[q] = total'[q],
               NEW i \in 1 .. total'[q]
        PROVE  dst'[i] = source'[q][i]
    <3>1. CASE q # p
      BY <1>2, <1>8, <2>1, <3>1 DEF Writing
    <3>2. CASE q = p
      <4>1. o = t /\ n = k /\ i \in 1 .. t + k
        BY <1>1, <1>2, <2>1, <3>2
      <4>2. CASE i \in o + 1 .. o + n
        BY <1>1, <1>2, <1>3, <1>4, <3>2, <4>1, <4>2
      <4>3. CASE i \notin o + 1 .. o + n
        <5>1. i \in 1 .. t /\ i \in 1 .. m /\ Writing(p)
          BY <1>1, <1>3, <4>1, <4>3 DEF Writing
        <5>2. dst[i] = source[p][i]
          BY <4>1, <5>1 DEF PutInv, CopyInv
        <5> QED
          BY <1>2, <1>4, <3>2, <4>3, <5>1, <5>2
      <4> QED
        BY <4>2, <4>3
    <3> QED
      BY <3>1, <3>2
  <2>2. \A q \in Puts : total'[q] <= Len(source'[q])
    BY <1>1, <1>2 DEF PutInv, CopyInv
  <2>3. \A q \in Puts : pc'[q] \in {"getlk", "setlk", "write"} =>
                           total'[q] < Len(source'[q])
    BY <1>2 DEF PutInv, CopyInv
  <2> QED
    BY <2>1, <2>2, <2>3 DEF CopyInv
<1> QED
  BY <1>6, <1>7, <1>9 DEF PutInv

(* Every action keeps the invariant.                                       *)
LEMMA PutStep == PutInv /\ [Next]_vars => PutInv'
<1> SUFFICES ASSUME PutInv, [Next]_vars
             PROVE  PutInv'
  OBVIOUS
<1> USE PutAssumption DEF PutAssumption
<1>1. ASSUME NEW p \in Puts, put_open(p)
      PROVE  PutInv'
  BY <1>1, MoveKeeps DEF put_open, PutInv, TypeOK
<1>2. ASSUME NEW p \in Puts, put_read(p)
      PROVE  PutInv'
  <2>1. CASE Goto(p, "close")
    BY <1>2, <2>1, MoveKeeps DEF put_read, PutInv, TypeOK
  <2>2. CASE total[p] < Len(source[p]) /\ Goto(p, "getlk")
    <3>1. TypeOK'
      BY <1>2, <2>2 DEF put_read, PutInv, TypeOK, Goto, Labels
    <3>2. LockInv'
      BY <1>2, <2>2 DEF put_read, PutInv, TypeOK, LockInv, Goto, Region
    <3>3. CopyInv'
      BY <1>2, <2>2 DEF put_read, PutInv, TypeOK, CopyInv, Goto, Writing
    <3> QED
      BY <3>1, <3>2, <3>3 DEF PutInv
  <2> QED
    BY <1>2, <2>1, <2>2 DEF put_read
<1>3. ASSUME NEW p \in Puts, lockw_getlk(p)
      PROVE  PutInv'
  <2>1. TypeOK'
    BY <1>3 DEF lockw_getlk, PutInv, TypeOK, Goto, Labels
  <2>2. LockInv'
    BY <1>3 DEF lockw_getlk, PutInv, TypeOK, LockInv, Goto, Region
  <2>3. CopyInv'
    BY <1>3 DEF lockw_getlk, PutInv, TypeOK, CopyInv, Goto, Writing
  <2> QED
    BY <2>1, <2>2, <2>3 DEF PutInv
<1>8. ASSUME NEW p \in Puts, lockw_getlk_fail(p)
      PROVE  PutInv'
  BY <1>8, MoveKeeps DEF lockw_getlk_fail, PutInv, TypeOK
<1>4. ASSUME NEW p \in Puts, lockw_setlk(p)
      PROVE  PutInv'
  <2>1. CASE Goto(p, "close") /\ UNCHANGED locks
    BY <1>4, <2>1, MoveKeeps DEF lockw_setlk, PutInv, TypeOK
  <2>2. CASE /\ ~Conflict(p)
             /\ locks' = [locks EXCEPT ![p] = @ \cup Region(p)]
             /\ Goto(p, "write")
    <3>1. TypeOK'
      <4>1. Region(p) \subseteq Nat
        BY DEF Region, PutInv, TypeOK
      <4> QED
        BY <1>4, <2>2, <4>1 DEF lockw_setlk, PutInv, TypeOK, Goto, Labels
    <3>2. LockInv'
      BY <1>4, <2>2
      DEF lockw_setlk, PutInv, TypeOK, LockInv, Goto, Region, Conflict
    <3>3. CopyInv'
      BY <1>4, <2>2 DEF lockw_setlk, PutInv, TypeOK, CopyInv, Goto, Writing
    <3> QED
      BY <3>1, <3>2, <3>3 DEF PutInv
  <2> QED
    BY <1>4, <2>1, <2>2 DEF lockw_setlk
<1>5. ASSUME NEW p \in Puts, put_write(p)
      PROVE  PutInv'
  <2>1. CASE Goto(p, "close") /\ UNCHANGED <<dst, total, pos>>
    BY <1>5, <2>1, MoveKeeps DEF put_write, PutInv, TypeOK
  <2>2. ASSUME NEW n \in 1 .. nbread(p),
               dst' = Written(p, pos[p], n),
               pos' = [pos EXCEPT ![p] = @ + n],
               total' = [total EXCEPT ![p] = @ + nbread(p)],
               Goto(p, "read")
        PROVE  PutInv'
    <3>1. pc[p] = "write" /\ UNCHANGED <<source, locks, kills>>
      BY <1>5 DEF put_write
    <3> QED
      BY <2>2, <3>1, WriteKeeps
  <2> QED
    BY <1>5, <2>1, <2>2 DEF put_write
<1>6. ASSUME NEW p \in Puts, put_close(p) \/ Kill(p)
      PROVE  PutInv'
  <2>1. /\ pc' = [pc EXCEPT ![p] = "done"]
        /\ locks' = [locks EXCEPT ![p] = {}]
        /\ UNCHANGED <<source, dst, total, pos>>
    BY <1>6 DEF put_close, Kill, Goto
  <2>2. kills' \in 0 .. MaxKills
    BY <1>6 DEF put_close, Kill, PutInv, TypeOK
  <2>3. TypeOK'
    BY <2>1, <2>2 DEF PutInv, TypeOK, Labels
  <2>4. LockInv'
    BY <2>1 DEF PutInv, TypeOK, LockInv, Region
  <2>5. CopyInv'
    BY <2>1 DEF PutInv, TypeOK, CopyInv, Writing
  <2> QED
    BY <2>3, <2>4, <2>5 DEF PutInv
<1>7. CASE UNCHANGED vars
  BY <1>7 DEF vars, PutInv, TypeOK, LockInv, CopyInv, Writing, Region
<1> QED
  BY <1>1, <1>2, <1>3, <1>4, <1>5, <1>6, <1>7, <1>8
  DEF Next, dzfile_put, AllDone

(* The invariant holds throughout.                                         *)
LEMMA PutInvariant == Spec => []PutInv
  BY PutInit, PutStep, PTL DEF Spec

(* dzfile_put is type correct.                                             *)
THEOREM PutTypeCorrect == Spec => []TypeOK
<1>1. PutInv => TypeOK
  BY DEF PutInv
<1> QED
  BY <1>1, PutInvariant, PTL

(* Every write is to units its process has locked, after any number of     *)
(* short writes.                                                           *)
THEOREM PutWritesLocked == Spec => []WriteLocked
  BY LocksCover, PutInvariant, PTL

(* The region locks serialise whole copies to the same name, for any       *)
(* number of processes, whatever fails and whoever is killed.              *)
THEOREM PutSerial == Spec => []OneWriter
  BY LocksSerialise, PutInvariant, PTL

(* A copy that was completed is whole when it is closed.                   *)
THEOREM PutWhole == Spec => []PutCopied
  BY CopyComplete, PutInvariant, PTL
=============================================================================
