---------------------------- MODULE WalkerProofs ----------------------------
(***************************************************************************)
(* What is proved of Convert, carried over to the whole daemon: whatever   *)
(* the scan enqueues, however often, and whenever it ends the process.     *)
(* And why the scan ends it.                                               *)
(***************************************************************************)
EXTENDS Walker, ConvertProofs

(* Every step of the walker keeps the types of the scan.                   *)
LEMMA WTypeNext ==
  ASSUME WTypeOK, [WNext]_wvars
  PROVE  WTypeOK'
<1> USE WalkerAssumption DEF WTypeOK
<1>1. CASE Stop
  BY <1>1 DEF Stop
<1>2. CASE scan_opendir
  <2>1. Present \subseteq Names
    BY DEF Present
  <2>2. QED
    BY <1>1, <1>2, <2>1 DEF scan_opendir, scan_exit
<1>3. ASSUME NEW n \in Names, scan_entry(n)
      PROVE  WTypeOK'
  <2>1. CASE queue' = Append(queue, n)
    <3>1. queue' \in Seq(Names)
      BY <2>1
    <3>2. CASE UNCHANGED <<spc, aged>> /\ todo' = todo \ {n}
      BY <3>1, <3>2
    <3>3. QED
      BY <1>1, <1>3, <3>2 DEF scan_entry, scan_exit
  <2>2. CASE UNCHANGED <<spc, queue, aged>> /\ todo' = todo \ {n}
    BY <2>2
  <2>3. QED
    BY <1>1, <1>3, <2>1, <2>2 DEF scan_entry, scan_exit
<1>4. CASE scan_end \/ Start
  BY <1>4 DEF scan_end, Start
<1>5. ASSUME NEW w \in Workers, take(w)
      PROVE  WTypeOK'
  <2>1. queue' \in Seq(Names)
    BY <1>5 DEF take
  <2>2. QED
    BY <1>5, <2>1 DEF take
<1>6. ASSUME NEW w \in Workers, work(w)
      PROVE  WTypeOK'
  <2>1. aged' \in [Files -> BOOLEAN]
    BY <1>6 DEF work
  <2>2. QED
    BY <1>6, <2>1 DEF work
<1>7. ASSUME NEW f \in Files, Age(f)
      PROVE  WTypeOK'
  BY <1>7 DEF Age
<1>8. CASE UNCHANGED wvars
  BY <1>8 DEF wvars, scanvars
<1>9. QED
  BY <1>1, <1>2, <1>3, <1>4, <1>5, <1>6, <1>7, <1>8 DEF WNext, Scan, Kill

(* The scan only ever handles names of the directory.                      *)
LEMMA WalkerTypeCorrect == WSpec => []WTypeOK
<1>1. WInit => WTypeOK
  BY WalkerAssumption DEF WInit, WTypeOK
<1>2. QED
  BY <1>1, WTypeNext, PTL DEF WSpec

(* Every behaviour of dzfile-walker (scan, queue, threads, exit(1), crash, *)
(* restart) is, by how Walker is built, one of the conversion protocol.    *)
LEMMA WalkerImplementsConvert == WSpec => Spec
<1>1. WInit => Init
  BY DEF WInit
<1>2. ASSUME WTypeOK, [WNext]_wvars
      PROVE  [Next]_vars
  <2>1. CASE Scan
    <3>1. CASE scan_opendir
      BY <3>1 DEF scan_opendir, scan_exit, Next
    <3>2. ASSUME NEW n \in Names, scan_entry(n)
          PROVE  [Next]_vars
      BY <3>2 DEF scan_entry, scan_exit, Next
    <3>3. CASE scan_end
      BY <3>3 DEF scan_end
    <3>4. QED
      BY <2>1, <3>1, <3>2, <3>3 DEF Scan
  <2>2. CASE Kill
    BY <2>2 DEF Kill, Next
  <2>3. CASE Start
    BY <2>3 DEF Start
  <2>4. ASSUME NEW w \in Workers, take(w)
        PROVE  [Next]_vars
    <3>1. ASSUME UNCHANGED vars
          PROVE  [Next]_vars
      BY <3>1
    <3>2. ASSUME NEW f \in Files, process_file(w, f)
          PROVE  [Next]_vars
      BY <3>2 DEF Next
    <3>3. Head(queue)[1] \in Files
      BY <1>2, <2>4 DEF take, WTypeOK, Names
    <3>4. QED
      BY <2>4, <3>1, <3>2, <3>3 DEF take
  <2>5. ASSUME NEW w \in Workers, work(w)
        PROVE  [Next]_vars
    BY <2>5 DEF work, Next
  <2>6. ASSUME NEW f \in Files, Age(f)
        PROVE  [Next]_vars
    BY <2>6 DEF Age
  <2>7. CASE UNCHANGED wvars
    BY <2>7 DEF wvars
  <2>8. QED
    BY <1>2, <2>1, <2>2, <2>3, <2>4, <2>5, <2>6, <2>7 DEF WNext
<1>3. QED
  BY <1>1, <1>2, WalkerTypeCorrect, PTL DEF WSpec, Spec

(* In the daemon, too, the content of a user file is destroyed only after  *)
(* its hidden file is published.                                           *)
COROLLARY WalkerPublishes == WSpec => []PublishBeforeDestroy
BY WalkerImplementsConvert, PublishBeforeDestroyTheorem, PTL

(* A daemon with one thread (nbthread 1) is lossless for every file, under *)
(* the conditions of IsolatedLosslessTheorem: no two threads ever meet, so *)
(* only a file whose hidden name the thread failed to stat twice, once in  *)
(* findhiddenFile and once in convert2h5, can lose anything.               *)
THEOREM SingleThreadLossless ==
  ASSUME Quiet, \A v, w \in Workers : v = w
  PROVE  WSpec => [](\A f \in Files \ unseen : Intact(f))
<1> DEFINE Alone == overlap = {}
           Seen  == \A f \in Files \ unseen : Intact(f)
<1>1. Init => Alone
  BY DEF Init
<1>2. ASSUME TypeOK, Alone, [Next]_vars
      PROVE  Alone'
  <2>1. ASSUME NEW w \in Workers, NEW f \in Files, process_file(w, f)
        PROVE  Alone'
    BY <1>2, <2>1, ConvertAssumption DEF process_file, TypeOK, ThreadType
  <2>2. ASSUME NEW w \in Workers, Step(w)
        PROVE  Alone'
    BY <1>2, <2>2 DEF Step
  <2>3. CASE Exit \/ Crash
    BY <1>2, <2>3 DEF Exit, Crash, Halt
  <2>4. CASE UNCHANGED vars
    BY <1>2, <2>4 DEF vars
  <2>5. QED
    BY <1>2, <2>1, <2>2, <2>3, <2>4 DEF Next
<1>3. Alone /\ IsolatedLossless => Seen
  BY DEF IsolatedLossless, Exposed
<1>4. Spec => []TypeOK
  BY TypeCorrect, PTL
<1>5. Spec => []IsolatedLossless
  BY IsolatedLosslessTheorem
<1> HIDE DEF Alone, Seen
<1>6. Spec => []Alone
  BY <1>1, <1>2, <1>4, PTL DEF Spec
<1>7. WSpec => []Seen
  BY <1>3, <1>5, <1>6, WalkerImplementsConvert, PTL
<1> QED
  BY <1>7 DEF Seen
-----------------------------------------------------------------------------
(* Why the scan ends the process.  The invariant: of the names readdir has *)
(* still to return, a hidden one is there, and a temporary one is there or *)
(* has been published.                                                     *)

Buffered ==
    \A f \in Files :
      /\ <<f, "tmp">> \in todo => tmp[f] # Absent \/ hid[f] # Absent
      /\ <<f, "DZF">> \in todo => hid[f] # Absent \/ f \in HidDirs

(* A temporary file goes only by the rename that makes it a hidden one.    *)
LEMMA TmpFrame ==
  ASSUME TypeOK, OwnTmp, NEW w \in Workers, Step(w), NEW f \in Files,
         tmp[f] # Absent, tmp'[f] = Absent
  PROVE  hid'[f] # Absent
<1> USE ConvertAssumption DEF TypeOK, disk
<1>1. CASE process_stat(w) \/ process_find(w)
  BY <1>1 DEF process_stat, process_find
<1>2. CASE stat_h5name(w) \/ stat_tmp_h5name(w) \/ open_path(w)
  BY <1>2 DEF stat_h5name, stat_tmp_h5name, early_out, open_path, Fail
<1>3. CASE write_algorithm(w) \/ stat_path(w)
  BY <1>3 DEF write_algorithm, hdf5_writestr, stat_path, Fail
<1>4. CASE truncate_0(w) \/ truncate_n(w)
  BY <1>4 DEF truncate_0, truncate_n, Fail
<1>5. CASE hdf5_open_tmp(w)
  <2>1. [blocks |-> <<>>, open |-> w, sound |-> FALSE] \in H5file
    BY DEF H5file
  <2> QED
    BY <1>5, <2>1 DEF hdf5_open_tmp, Fail, DiskType
<1>6. CASE convert_block(w)
  <2>1. PICK b \in Block :
          tmp' = [tmp EXCEPT ![task[w]] = hdf5_writedata(tmp[task[w]], b)]
    BY <1>6, BlockLemma
  <2> QED
    BY <1>6, <2>1, BlockLemma, WriteLemma DEF DiskType
<1>7. CASE rename_h5(w)
  BY <1>7 DEF rename_h5, Fail, DiskType
<1>8. CASE convert_out(w)
  <2>1. PICK ok \in BOOLEAN : tmp' = Close(tmp, {w}, ok)
    BY <1>8 DEF convert_out
  <2> QED
    BY <2>1, CloseLemma DEF DiskType, Directory
<1> QED
  BY <1>1, <1>2, <1>3, <1>4, <1>5, <1>6, <1>7, <1>8 DEF Step, convert2h5

(* Every step of the walker keeps what readdir has buffered explicable.    *)
LEMMA BufferedNext ==
  ASSUME TypeOK, OwnTmp, WTypeOK, Buffered, [WNext]_wvars
  PROVE  Buffered'
<1>1. ASSUME todo' \subseteq todo, UNCHANGED <<tmp, hid>>
      PROVE  Buffered'
  BY <1>1 DEF Buffered
<1>2. CASE Stop
  BY <1>2 DEF Stop, Buffered
<1>3. CASE scan_opendir
  <2>1. CASE todo' = Present /\ UNCHANGED vars
    BY <2>1 DEF Buffered, Present, Names, vars
  <2> QED
    BY <1>2, <1>3, <2>1 DEF scan_opendir, scan_exit
<1>4. ASSUME NEW n \in Names, scan_entry(n)
      PROVE  Buffered'
  BY <1>1, <1>2, <1>4 DEF scan_entry, scan_exit, vars
<1>5. CASE scan_end \/ Start
  BY <1>1, <1>5 DEF scan_end, Start, vars
<1>6. ASSUME NEW w \in Workers, take(w)
      PROVE  Buffered'
  BY <1>1, <1>6 DEF take, vars, process_file, disk
<1>7. ASSUME NEW w \in Workers, work(w)
      PROVE  Buffered'
  <2>1. Step(w) /\ UNCHANGED todo
    BY <1>7 DEF work
  <2>2. HidFrame(w)
    BY <2>1, StepFrame
  <2>3. \A f \in Files : tmp[f] # Absent /\ tmp'[f] = Absent => hid'[f] # Absent
    BY <2>1, TmpFrame
  <2> QED
    BY <2>1, <2>2, <2>3 DEF Buffered, HidFrame
<1>8. ASSUME NEW f \in Files, Age(f)
      PROVE  Buffered'
  BY <1>1, <1>8 DEF Age, vars
<1>9. CASE UNCHANGED wvars
  BY <1>1, <1>9 DEF wvars, vars, scanvars
<1> QED
  BY <1>2, <1>3, <1>4, <1>5, <1>6, <1>7, <1>8, <1>9 DEF WNext, Scan, Kill

(* When the scan of dzfile-walker.cc ends the process at a name, and its   *)
(* stat did not fail for a reason of its own, the name was the temporary   *)
(* file of a conversion that was published after opendir: for any number   *)
(* of threads, any other failing calls and any crashes and restarts.       *)
THEOREM ExitPublishedTheorem ==
  ASSUME "stat" \notin Faults
  PROVE  WSpec => ExitPublished
<1>1. WInit => Buffered
  BY DEF WInit, Buffered
<1>2. ASSUME TypeOK, Buffered, WTypeOK, [WNext]_wvars
      PROVE  [spc = "readdir" /\ spc' = "exited" /\ UNCHANGED crashes =>
                \E f \in Files : <<f, "tmp">> \in todo /\ tmp[f] = Absent
                                 /\ hid[f] # Absent]_wvars
  <2> SUFFICES ASSUME spc = "readdir", spc' = "exited", UNCHANGED crashes
               PROVE  \E f \in Files : <<f, "tmp">> \in todo
                        /\ tmp[f] = Absent /\ hid[f] # Absent
    OBVIOUS
  <2>1. PICK n \in Names : scan_entry(n)
    <3>1. ~Kill
      BY <1>2, ConvertAssumption DEF Kill, Crash, TypeOK, DiskType
    <3> QED
      BY <1>2, <3>1 DEF WNext, Scan, scan_opendir, scan_end, Start, take,
                        work, Age, wvars, scanvars
  <2>2. n \in todo /\ n \notin Present
    BY <2>1 DEF scan_entry
  <2>3. n[1] \in Files /\ n = <<n[1], n[2]>> /\ n[2] \in {"user", "DZF", "tmp"}
    BY DEF Names
  <2> QED
    BY <1>2, <2>2, <2>3 DEF Buffered, Present
<1>3. WSpec => [](TypeOK /\ OwnTmp)
  BY WalkerImplementsConvert, TypeCorrect, PTL
<1>4. WSpec => []Buffered
  BY <1>1, <1>3, BufferedNext, WalkerTypeCorrect, PTL DEF WSpec
<1>5. QED
  BY <1>2, <1>3, <1>4, WalkerTypeCorrect, PTL DEF WSpec, ExitPublished
=============================================================================
