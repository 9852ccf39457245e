---------------------------- MODULE ConvertProofs ----------------------------
(***************************************************************************)
(* Theorems about Convert, for every set of files and threads, every       *)
(* content, every limit on descriptors and every choice of faults.         *)
(***************************************************************************)
EXTENDS Convert, TLAPS

Directory == [Files -> H5file \cup {Absent}]

(* H5Fclose changes neither which names exist nor what the files hold.     *)
LEMMA CloseLemma ==
  ASSUME NEW dir \in Directory, NEW W \in SUBSET Workers, NEW ok \in BOOLEAN
  PROVE  /\ Close(dir, W, ok) \in Directory
         /\ \A f \in Files :
              /\ Close(dir, W, ok)[f] = Absent <=> dir[f] = Absent
              /\ dir[f] # Absent =>
                   /\ Close(dir, W, ok)[f].blocks = dir[f].blocks
                   /\ Holder(dir[f]) \in W =>
                        /\ Close(dir, W, ok)[f].open = NoWorker
                        /\ Close(dir, W, ok)[f].sound = ok
              /\ Holder(dir[f]) \notin W => Close(dir, W, ok)[f] = dir[f]
<1>1. ASSUME NEW f \in Files
      PROVE  /\ Close(dir, W, ok)[f] \in H5file \cup {Absent}
             /\ Close(dir, W, ok)[f] = Absent <=> dir[f] = Absent
             /\ dir[f] # Absent =>
                  /\ Close(dir, W, ok)[f].blocks = dir[f].blocks
                  /\ Holder(dir[f]) \in W =>
                       /\ Close(dir, W, ok)[f].open = NoWorker
                       /\ Close(dir, W, ok)[f].sound = ok
             /\ Holder(dir[f]) \notin W => Close(dir, W, ok)[f] = dir[f]
  <2>1. CASE Holder(dir[f]) \in W
    <3>1. dir[f] \in H5file
      BY <2>1, ConvertAssumption DEF Holder, Directory
    <3>2. Close(dir, W, ok)[f] =
            [blocks |-> dir[f].blocks, open |-> NoWorker, sound |-> ok]
      BY <2>1 DEF Close
    <3>3. Close(dir, W, ok)[f] \in H5file
      BY <3>1, <3>2 DEF H5file
    <3>4. QED
      BY <2>1, <3>1, <3>2, <3>3, ConvertAssumption DEF H5file
  <2>2. CASE Holder(dir[f]) \notin W
    BY <2>2 DEF Close, Directory
  <2>3. QED
    BY <2>1, <2>2
<1>2. Close(dir, W, ok) \in Directory
  BY <1>1 DEF Close, Directory
<1>3. QED
  BY <1>1, <1>2

(* truncate(2) yields a content.                                           *)
LEMMA ResizeLemma ==
  ASSUME NEW s \in Seq(Block), NEW n \in Nat
  PROVE  Resize(s, n) \in Seq(Block) /\ Len(Resize(s, n)) = n
BY ConvertAssumption DEF Resize
-----------------------------------------------------------------------------
(* Type correctness rests on OwnTmp, because hdf5_writedata is only        *)
(* meaningful on a temporary file that is there.                           *)
LEMMA TypeInit == Init => TypeOK
BY ConvertAssumption
   DEF Init, TypeOK, DiskType, ThreadType, FdType, Labels, HasFd

(* A thread that returns from process_file keeps the types.                *)
LEMMA ReturnLemma ==
  ASSUME ThreadType, FdType, NEW w \in Workers, Return(w),
         fdfile' \in [Fds -> Files \cup {NoFile}], fdpos' \in [Fds -> Nat]
  PROVE  ThreadType' /\ FdType'
<1>1. ThreadType'
  BY ConvertAssumption DEF ThreadType, Return, Labels
<1>2. srcfd' \in [Workers -> Fds \cup {0}]
  BY DEF FdType, Return
<1>3. stsize' \in [Workers -> Nat]
  BY DEF FdType, Return
<1>4. \A v \in Workers : pc'[v] \in HasFd => srcfd'[v] \in Fds
  BY DEF ThreadType, FdType, Return, HasFd
<1>5. QED
  BY <1>1, <1>2, <1>3, <1>4 DEF FdType

(* A thread that goes on inside process_file keeps the types.              *)
LEMMA GotoLemma ==
  ASSUME ThreadType, FdType, NEW w \in Workers, NEW l \in Labels,
         Goto(w, l), l # "idle", pc[w] # "idle",
         l \in HasFd => pc[w] \in HasFd, UNCHANGED <<srcfd, fdfile>>,
         fdpos' \in [Fds -> Nat], stsize' \in [Workers -> Nat]
  PROVE  ThreadType' /\ FdType'
<1>1. ThreadType'
  BY DEF ThreadType, Goto
<1>2. \A v \in Workers : pc'[v] \in HasFd => srcfd'[v] \in Fds
  BY DEF ThreadType, FdType, Goto
<1>3. QED
  BY <1>1, <1>2 DEF FdType

(* So does close(2) of any descriptor number.                              *)
LEMMA CloseFdLemma ==
  ASSUME FdType, NEW d \in Fds, close(d)
  PROVE  fdfile' \in [Fds -> Files \cup {NoFile}] /\ fdpos' \in [Fds -> Nat]
BY DEF FdType, close

(* Adding a dataset changes nothing else of an HDF5 file.                  *)
LEMMA WriteLemma ==
  ASSUME NEW h \in H5file, NEW b \in Block
  PROVE  /\ hdf5_writedata(h, b) \in H5file
         /\ hdf5_writedata(h, b) # Absent
         /\ hdf5_writedata(h, b).open = h.open
         /\ hdf5_writedata(h, b).blocks = Append(h.blocks, b)
<1>1. hdf5_writedata(h, b) \in H5file
  BY DEF hdf5_writedata, H5file
<1>2. QED
  BY <1>1, ConvertAssumption DEF hdf5_writedata, H5file

(* What a turn of convert2h5's loop finds and does.                        *)
LEMMA BlockLemma ==
  ASSUME TypeOK, OwnTmp, NEW w \in Workers, convert_block(w)
  PROVE  /\ task[w] \in Files /\ tmp[task[w]] \in H5file
         /\ srcfd[w] \in Fds /\ fdpos[srcfd[w]] \in Nat
         /\ \/ UNCHANGED tmp
            \/ \E b \in Block :
                 /\ UNCHANGED <<pc, task>>
                 /\ tmp' = [tmp EXCEPT ![task[w]] =
                              hdf5_writedata(tmp[task[w]], b)]
<1> USE DEF TypeOK
<1>1. srcfd[w] \in Fds /\ fdpos[srcfd[w]] \in Nat /\ task[w] \in Files
  BY DEF FdType, ThreadType, convert_block, HasFd
<1>2. tmp[task[w]] \in H5file
  BY <1>1, ConvertAssumption DEF DiskType, OwnTmp, Holder, convert_block
<1>3. ASSUME fdfile[srcfd[w]] # NoFile,
             fdpos[srcfd[w]] < Len(src[fdfile[srcfd[w]]])
      PROVE  src[fdfile[srcfd[w]]][fdpos[srcfd[w]] + 1] \in Block
  BY <1>1, <1>3 DEF DiskType, FdType
<1>4. QED
  BY <1>1, <1>2, <1>3 DEF convert_block, Fail, disk

(* The looks of the threads at the directory keep their types.             *)
LEMMA LooksType ==
  ASSUME TypeOK, NEW w \in Workers, Step(w)
  PROVE  missed' \in SUBSET Workers /\ unseen' \in SUBSET Files
<1> USE DEF TypeOK, DiskType, looks
<1>1. CASE process_find(w)
  BY <1>1 DEF process_find
<1>2. CASE stat_h5name(w)
  <2>1. task[w] \in Files
    BY <1>2 DEF stat_h5name, ThreadType
  <2> QED
    BY <1>2, <2>1 DEF stat_h5name
<1>3. CASE UNCHANGED looks
  BY <1>3
<1> QED
  BY <1>1, <1>2, <1>3 DEF Step, convert2h5

(* A step of a thread keeps the types, as the temporary file it goes on    *)
(* with is its own.                                                        *)
LEMMA TypeStep ==
  ASSUME TypeOK, OwnTmp, NEW w \in Workers, Step(w)
  PROVE  TypeOK'
<1> USE ConvertAssumption DEF TypeOK, disk, fdvars
<1>0. /\ UNCHANGED <<crashes, data, overlap>>
      /\ missed' \in SUBSET Workers /\ unseen' \in SUBSET Files
  BY LooksType DEF Step
<1>1. CASE process_stat(w)
  <2>1. DiskType'
    BY <1>0, <1>1 DEF DiskType, process_stat
  <2>2. ThreadType' /\ FdType'
    BY <1>1, ReturnLemma, GotoLemma
       DEF process_stat, ThreadType, FdType, Labels, HasFd
  <2>3. QED
    BY <2>1, <2>2
<1>2. CASE process_find(w)
  <2>1. DiskType'
    BY <1>0, <1>2 DEF DiskType, process_find
  <2>2. ThreadType' /\ FdType'
    BY <1>2, ReturnLemma, GotoLemma
       DEF process_find, ThreadType, FdType, Labels, HasFd
  <2>3. QED
    BY <2>1, <2>2
<1>3. CASE stat_h5name(w)
  <2>1. DiskType'
    BY <1>0, <1>3 DEF DiskType, stat_h5name, early_out, Fail
  <2>2. CASE early_out(w)
    <3>1. /\ fdfile' \in [Fds -> Files \cup {NoFile}]
          /\ fdpos' \in [Fds -> Nat]
      BY <2>2, CloseFdLemma DEF FdType, early_out
    <3>2. QED
      BY <2>1, <2>2, <3>1, ReturnLemma DEF early_out
  <2>3. CASE ~early_out(w)
    BY <2>1, <2>3, <1>3, GotoLemma
       DEF stat_h5name, Fail, ThreadType, FdType, Labels, HasFd
  <2>4. QED
    BY <2>2, <2>3
<1>4. CASE stat_tmp_h5name(w)
  <2>1. DiskType'
    BY <1>0, <1>4 DEF DiskType, stat_tmp_h5name, early_out, Fail
  <2>2. CASE early_out(w)
    <3>1. /\ fdfile' \in [Fds -> Files \cup {NoFile}]
          /\ fdpos' \in [Fds -> Nat]
      BY <2>2, CloseFdLemma DEF FdType, early_out
    <3>2. QED
      BY <2>1, <2>2, <3>1, ReturnLemma DEF early_out
  <2>3. CASE ~early_out(w)
    BY <2>1, <2>3, <1>4, GotoLemma
       DEF stat_tmp_h5name, Fail, ThreadType, FdType, Labels, HasFd
  <2>4. QED
    BY <2>2, <2>3
<1>5. CASE open_path(w)
  <2>1. DiskType'
    BY <1>0, <1>5 DEF DiskType, open_path
  <2>2. CASE Return(w) /\ UNCHANGED <<fdfile, fdpos>>
    BY <2>1, <2>2, ReturnLemma DEF FdType
  <2>3. ASSUME NEW d \in Fds, Goto(w, "create"), UNCHANGED stsize,
               srcfd' = [srcfd EXCEPT ![w] = d],
               fdfile' = [fdfile EXCEPT ![d] = task[w]],
               fdpos' = [fdpos EXCEPT ![d] = 0]
        PROVE  ThreadType' /\ FdType'
    <3>1. ThreadType'
      BY <2>3, <1>5 DEF ThreadType, Goto, Labels, open_path
    <3>2. srcfd' \in [Workers -> Fds \cup {0}]
      BY <2>3 DEF FdType
    <3>3. fdfile' \in [Fds -> Files \cup {NoFile}] /\ fdpos' \in [Fds -> Nat]
      BY <2>3 DEF FdType, ThreadType
    <3>4. \A v \in Workers : pc'[v] \in HasFd => srcfd'[v] \in Fds
      BY <2>3 DEF FdType, ThreadType, Goto
    <3>5. QED
      BY <2>3, <3>1, <3>2, <3>3, <3>4 DEF FdType
  <2>4. QED
    BY <1>5, <2>1, <2>2, <2>3 DEF open_path
<1>6. CASE hdf5_open_tmp(w)
  <2>1. [blocks |-> <<>>, open |-> w, sound |-> FALSE] \in H5file
    BY DEF H5file
  <2>2. DiskType'
    <3>1. UNCHANGED <<src, hid>>
      BY <1>6 DEF hdf5_open_tmp, Fail
    <3>2. \/ UNCHANGED tmp
          \/ tmp' = [tmp EXCEPT ![task[w]] =
                       [blocks |-> <<>>, open |-> w, sound |-> FALSE]]
      BY <1>6 DEF hdf5_open_tmp, Fail
    <3>3. tmp' \in [Files -> H5file \cup {Absent}]
      BY <2>1, <3>2 DEF DiskType
    <3> QED
      BY <1>0, <3>1, <3>3 DEF DiskType
  <2>3. ThreadType' /\ FdType'
    <3>1. /\ pc[w] = "create"
          /\ Goto(w, "algorithm") \/ Goto(w, "out")
          /\ UNCHANGED <<srcfd, fdfile, fdpos, stsize>>
      BY <1>6 DEF hdf5_open_tmp, Fail
    <3>2. {"algorithm", "out"} \subseteq Labels /\ "create" \in HasFd
      BY DEF Labels, HasFd
    <3>3. fdpos' \in [Fds -> Nat] /\ stsize' \in [Workers -> Nat]
      BY <3>1 DEF FdType, ThreadType
    <3> QED
      BY <3>1, <3>2, <3>3, GotoLemma
  <2>4. QED
    BY <2>2, <2>3
<1>7. CASE write_algorithm(w)
  <2>1. DiskType'
    BY <1>0, <1>7 DEF DiskType, ThreadType, write_algorithm, hdf5_writestr, Fail
  <2>2. ThreadType' /\ FdType'
    BY <1>7, GotoLemma
       DEF write_algorithm, hdf5_writestr, Fail, ThreadType, FdType, Labels, HasFd
  <2>3. QED
    BY <2>1, <2>2
<1>8. CASE convert_block(w)
  <2>1. fdpos' \in [Fds -> Nat]
    BY <1>8, BlockLemma DEF FdType, convert_block, Fail
  <2>2. tmp' \in [Files -> H5file \cup {Absent}]
    <3>1. CASE UNCHANGED tmp
      BY <3>1 DEF DiskType
    <3>2. CASE ~UNCHANGED tmp
      <4>1. PICK b \in Block :
              tmp' = [tmp EXCEPT ![task[w]] = hdf5_writedata(tmp[task[w]], b)]
        BY <1>8, <3>2, BlockLemma
      <4>2. hdf5_writedata(tmp[task[w]], b) \in H5file
        BY <1>8, BlockLemma, WriteLemma
      <4>3. QED
        BY <4>1, <4>2 DEF DiskType
    <3>3. QED
      BY <3>1, <3>2
  <2>3. DiskType'
    BY <1>0, <1>8, <2>2 DEF DiskType, convert_block, Fail
  <2>4. ThreadType' /\ FdType'
    <3>1. CASE UNCHANGED <<pc, task>>
      BY <1>8, <2>1, <3>1 DEF convert_block, Fail, ThreadType, FdType
    <3>2. CASE \E l \in {"out", "rename"} : Goto(w, l)
      <4>1. /\ pc[w] = "block" /\ stsize' \in [Workers -> Nat]
            /\ UNCHANGED <<srcfd, fdfile>>
        BY <1>8 DEF convert_block, Fail, FdType
      <4>2. {"out", "rename"} \subseteq Labels /\ "block" \in HasFd
        BY DEF Labels, HasFd
      <4> QED
        BY <2>1, <3>2, <4>1, <4>2, GotoLemma
    <3>3. QED
      BY <1>8, <3>1, <3>2 DEF convert_block, Fail
  <2>5. QED
    BY <2>3, <2>4
<1>9. CASE rename_h5(w)
  <2>1. DiskType'
    BY <1>0, <1>9 DEF DiskType, ThreadType, rename_h5, Fail
  <2>2. ThreadType' /\ FdType'
    BY <1>9, GotoLemma
       DEF rename_h5, Fail, ThreadType, FdType, Labels, HasFd
  <2>3. QED
    BY <2>1, <2>2
<1>10. CASE stat_path(w)
  <2>1. DiskType'
    BY <1>0, <1>10 DEF DiskType, stat_path, Fail
  <2>2. Len(src[task[w]]) \in Nat
    BY <1>10 DEF DiskType, ThreadType, stat_path
  <2>3. stsize' \in [Workers -> Nat]
    BY <1>10, <2>2 DEF FdType, stat_path, Fail
  <2>4. ThreadType' /\ FdType'
    BY <1>10, <2>3, GotoLemma
       DEF stat_path, Fail, FdType, Labels, HasFd
  <2>5. QED
    BY <2>1, <2>4
<1>11. CASE truncate_0(w)
  <2>1. Resize(src[task[w]], 0) \in Seq(Block)
    BY <1>11, ResizeLemma DEF DiskType, ThreadType, FdType, truncate_0
  <2>2. DiskType'
    <3>1. UNCHANGED <<tmp, hid>>
      BY <1>11 DEF truncate_0, Fail
    <3>2. src' \in [Files -> Seq(Block)]
      BY <1>11, <2>1 DEF DiskType, truncate_0, Fail
    <3> QED
      BY <1>0, <3>1, <3>2 DEF DiskType
  <2>3. ThreadType' /\ FdType'
    BY <1>11, GotoLemma
       DEF truncate_0, Fail, ThreadType, FdType, Labels, HasFd
  <2>4. QED
    BY <2>2, <2>3
<1>12. CASE truncate_n(w)
  <2>1. Resize(src[task[w]], stsize[w]) \in Seq(Block)
    BY <1>12, ResizeLemma DEF DiskType, ThreadType, FdType, truncate_n
  <2>2. DiskType'
    <3>1. UNCHANGED <<tmp, hid>>
      BY <1>12 DEF truncate_n, Fail
    <3>2. src' \in [Files -> Seq(Block)]
      BY <1>12, <2>1 DEF DiskType, truncate_n, Fail
    <3> QED
      BY <1>0, <3>1, <3>2 DEF DiskType
  <2>3. ThreadType' /\ FdType'
    BY <1>12, GotoLemma
       DEF truncate_n, Fail, ThreadType, FdType, Labels, HasFd
  <2>4. QED
    BY <2>2, <2>3
<1>13. CASE convert_out(w)
  <2>1. tmp' \in Directory /\ hid' \in Directory
    <3>1. PICK ok \in BOOLEAN :
            tmp' = Close(tmp, {w}, ok) /\ hid' = Close(hid, {w}, ok)
      BY <1>13 DEF convert_out
    <3>2. tmp \in Directory /\ hid \in Directory /\ {w} \in SUBSET Workers
      BY DEF DiskType, Directory
    <3>3. QED
      BY <3>1, <3>2, CloseLemma
  <2>2. DiskType'
    BY <1>0, <1>13, <2>1 DEF DiskType, convert_out, Directory
  <2>3. fdfile' \in [Fds -> Files \cup {NoFile}] /\ fdpos' \in [Fds -> Nat]
    BY <1>13, CloseFdLemma DEF convert_out, FdType, HasFd
  <2>4. ThreadType' /\ FdType'
    BY <1>13, <2>3, ReturnLemma DEF convert_out
  <2>5. QED
    BY <2>2, <2>4
<1>14. QED
  BY <1>1, <1>2, <1>3, <1>4, <1>5, <1>6, <1>7,
     <1>8, <1>9, <1>10, <1>11, <1>12, <1>13
  DEF Step, convert2h5

(* So does the end of the walker, by a crash or by exit.                   *)
LEMMA TypeHalt ==
  ASSUME TypeOK, NEW ok \in BOOLEAN, Halt(ok), crashes' \in 0 .. MaxCrashes
  PROVE  TypeOK'
<1> USE DEF TypeOK
<1>1. tmp' \in Directory /\ hid' \in Directory
  BY CloseLemma DEF Halt, DiskType, Directory
<1>2. DiskType'
  BY <1>1 DEF DiskType, Halt, Directory
<1>3. ThreadType'
  BY DEF ThreadType, Halt, Labels
<1>4. FdType'
  BY DEF FdType, Halt, HasFd
<1>5. QED
  BY <1>2, <1>3, <1>4

(* Every step keeps the types.                                             *)
LEMMA TypeNext ==
  ASSUME TypeOK, OwnTmp, [Next]_vars
  PROVE  TypeOK'
<1>1. ASSUME NEW w \in Workers, NEW f \in Files, process_file(w, f)
      PROVE  TypeOK'
  <2>1. DiskType'
    BY <1>1 DEF TypeOK, DiskType, process_file, disk, looks
  <2>2. ThreadType'
    BY <1>1, ConvertAssumption DEF TypeOK, ThreadType, process_file, Labels
  <2>3. FdType'
    BY <1>1 DEF TypeOK, ThreadType, FdType, process_file, fdvars, HasFd
  <2>4. QED
    BY <2>1, <2>2, <2>3 DEF TypeOK
<1>2. CASE Exit
  BY <1>2, TypeHalt DEF Exit, TypeOK, DiskType
<1>3. CASE Crash
  BY <1>3, TypeHalt, ConvertAssumption DEF Crash, TypeOK, DiskType
<1>4. CASE UNCHANGED vars
  BY <1>4 DEF TypeOK, DiskType, ThreadType, FdType, vars
<1>5. QED
  BY <1>1, <1>2, <1>3, <1>4, TypeStep DEF Next
-----------------------------------------------------------------------------
(* The temporary file has one owner: H5Fcreate refuses a file that this    *)
(* process holds open, so two threads that both passed the check for the   *)
(* temporary file cannot both get past hdf5_open with it.                  *)
LEMMA OwnTmpStep ==
  ASSUME TypeOK, OwnTmp, NEW w \in Workers, Step(w)
  PROVE  OwnTmp'
<1> USE ConvertAssumption DEF OwnTmp
<1>1. ASSUME NEW l \in Labels \ {"block", "rename", "algorithm"},
             pc' = [pc EXCEPT ![w] = l],
             \A v \in Workers : v # w => task'[v] = task[v],
             UNCHANGED tmp
      PROVE  OwnTmp'
  BY <1>1 DEF TypeOK, ThreadType
<1>2. CASE process_stat(w) \/ process_find(w)
  BY <1>1, <1>2 DEF process_stat, process_find, Return, Goto, disk, TypeOK,
                    ThreadType, Labels
<1>3. CASE stat_h5name(w) \/ stat_tmp_h5name(w) \/ open_path(w)
  BY <1>1, <1>3 DEF stat_h5name, stat_tmp_h5name, open_path, early_out,
                    Fail, Return, Goto, disk, TypeOK, ThreadType, Labels
<1>4. CASE stat_path(w) \/ truncate_0(w) \/ truncate_n(w)
  BY <1>1, <1>4 DEF stat_path, truncate_0, truncate_n, Fail, Goto, disk,
                    Labels
<1>5. CASE hdf5_open_tmp(w)
  <2>1. CASE UNCHANGED tmp /\ Goto(w, "out")
    BY <1>1, <2>1 DEF Goto, Labels
  <2>2. CASE ~(UNCHANGED tmp /\ Goto(w, "out"))
    <3>1. /\ Holder(tmp[task[w]]) = NoWorker
          /\ tmp' = [tmp EXCEPT ![task[w]] =
                       [blocks |-> <<>>, open |-> w, sound |-> FALSE]]
          /\ Goto(w, "algorithm")
      BY <1>5, <2>2 DEF hdf5_open_tmp, Fail, disk
    <3>2. [blocks |-> <<>>, open |-> w, sound |-> FALSE] \in H5file
      BY DEF H5file
    <3>3. task[w] \in Files
      BY <1>5 DEF hdf5_open_tmp, TypeOK, ThreadType
    <3>4. Holder(tmp'[task[w]]) = w
      BY <3>1, <3>2, <3>3 DEF Holder, TypeOK, DiskType
    <3>5. QED
      BY <3>1, <3>3, <3>4 DEF Goto, TypeOK, DiskType, ThreadType
  <2>3. QED
    BY <2>1, <2>2
<1>6. CASE write_algorithm(w)
  BY <1>6 DEF write_algorithm, hdf5_writestr, Fail, Goto, disk, TypeOK, ThreadType
<1>7. CASE convert_block(w)
  <2>1. CASE UNCHANGED tmp
    BY <1>7, <2>1 DEF convert_block, Fail, Goto, TypeOK, ThreadType
  <2>2. CASE ~UNCHANGED tmp
    <3>1. PICK b \in Block :
            /\ UNCHANGED <<pc, task>>
            /\ tmp' = [tmp EXCEPT ![task[w]] =
                         hdf5_writedata(tmp[task[w]], b)]
      BY <1>7, <2>2, BlockLemma
    <3>2. Holder(tmp'[task[w]]) = Holder(tmp[task[w]])
      BY <1>7, <3>1, BlockLemma, WriteLemma DEF Holder, TypeOK, DiskType
    <3>3. QED
      BY <1>7, <3>1, <3>2, BlockLemma DEF TypeOK, DiskType, ThreadType
  <2>3. QED
    BY <2>1, <2>2
<1>8. CASE rename_h5(w)
  <2>1. task[w] \in Files /\ Holder(tmp[task[w]]) = w
    BY <1>8 DEF rename_h5, TypeOK, ThreadType
  <2>2. CASE UNCHANGED tmp
    BY <1>1, <1>8, <2>2 DEF rename_h5, Fail, Goto, Labels
  <2>3. CASE ~UNCHANGED tmp
    <3>1. /\ tmp' = [tmp EXCEPT ![task[w]] = Absent]
          /\ Goto(w, "stat_src")
      BY <1>8, <2>3 DEF rename_h5, Fail, disk
    <3>2. QED
      BY <2>1, <3>1 DEF Goto, TypeOK, DiskType, ThreadType
  <2>4. QED
    BY <2>2, <2>3
<1>9. CASE convert_out(w)
  <2>1. PICK ok \in BOOLEAN : tmp' = Close(tmp, {w}, ok)
    BY <1>9 DEF convert_out
  <2>2. \A f \in Files : Holder(tmp[f]) # w => tmp'[f] = tmp[f]
    <3>1. tmp \in Directory /\ {w} \in SUBSET Workers
      BY DEF TypeOK, DiskType, Directory
    <3>2. QED
      BY <2>1, <3>1, CloseLemma
  <2>3. QED
    BY <1>9, <2>2 DEF convert_out, Return, TypeOK, ThreadType
<1>10. QED
  BY <1>2, <1>3, <1>4, <1>5, <1>6, <1>7, <1>8, <1>9 DEF Step, convert2h5

(* Every step keeps the temporary files apart: hdf5_open gives out only    *)
(* one nobody holds.                                                       *)
LEMMA OwnTmpNext ==
  ASSUME TypeOK, OwnTmp, [Next]_vars
  PROVE  OwnTmp'
<1>1. ASSUME NEW w \in Workers, NEW f \in Files, process_file(w, f)
      PROVE  OwnTmp'
  BY <1>1 DEF OwnTmp, process_file, disk, TypeOK, ThreadType
<1>2. CASE Exit \/ Crash
  BY <1>2 DEF Exit, Crash, Halt, OwnTmp
<1>3. CASE UNCHANGED vars
  BY <1>3 DEF vars, OwnTmp
<1>4. QED
  BY <1>1, <1>2, <1>3, OwnTmpStep DEF Next

(* Every reachable state is well typed, and a thread between hdf5_open and *)
(* the rename of convert2h5 is the one that holds its temporary file open, *)
(* whatever other threads do with the same file, whichever calls fail and  *)
(* whatever descriptor the early exits close.                              *)
THEOREM TypeCorrect == Spec => [](TypeOK /\ OwnTmp)
<1>1. Init => TypeOK /\ OwnTmp
  BY TypeInit DEF Init, OwnTmp
<1>2. TypeOK /\ OwnTmp /\ [Next]_vars => TypeOK' /\ OwnTmp'
  BY TypeNext, OwnTmpNext
<1>3. QED
  BY <1>1, <1>2, PTL DEF Spec

(* The first half alone: srcfd is an open descriptor number from the open  *)
(* of convert2h5 to its "out:", whatever calls fail and crashes happen.    *)
THEOREM ConvertTypeCorrect == Spec => []TypeOK
BY TypeCorrect, PTL

-----------------------------------------------------------------------------
(* What one step of a thread may do to what other threads rely on.         *)

Filling == {"stat_tmp", "open", "create", "algorithm", "block", "rename"}

Emptying == {"stat_src", "truncate_0", "truncate_n"}

(* A hidden file, once there, stays; only the rename of a thread that      *)
(* works on f makes one or replaces its blocks.                            *)
HidFrame(w) ==
    \A f \in Files :
      /\ hid[f] # Absent => hid'[f] # Absent
      /\ ~(pc[w] = "rename" /\ task[w] = f) =>
           /\ hid[f] = Absent => hid'[f] = Absent
           /\ hid[f] # Absent => hid'[f].blocks = hid[f].blocks

(* Only the truncates of a thread that works on f touch the user file f.   *)
SrcFrame(w) ==
    \A f \in Files :
      ~(pc[w] \in {"truncate_0", "truncate_n"} /\ task[w] = f) =>
        src'[f] = src[f]

(* The control of convert2h5.                                              *)
PcFrame(w) ==
    /\ \A v \in Workers \ {w} : pc'[v] = pc[v] /\ task'[v] = task[v]
    /\ pc'[w] # "idle" => task'[w] = task[w]
    /\ pc'[w] = "idle" => task'[w] = NoFile
    /\ pc'[w] \in Filling =>
         \/ pc[w] \in Filling \ {"rename"}
         \/ pc[w] = "stat_h5" /\ (hid[task[w]] = Absent \/ w \notin missed
                                                       \/ task[w] \in unseen')
    /\ pc'[w] = "stat_h5" => pc[w] # "rename"
    /\ pc'[w] = "stat_h5" /\ w \notin missed' =>
         hid[task[w]] = Absent \/ task[w] \in HidDirs
    /\ pc'[w] \in Emptying =>
         \/ pc[w] = "rename" /\ hid'[task[w]] # Absent
         \/ pc[w] \in Emptying

(* What the other threads have seen, and the files nobody looked at.       *)
LookFrame(w) ==
    /\ \A v \in Workers \ {w} : v \in missed' <=> v \in missed
    /\ unseen \subseteq unseen'

(* A step of one thread leaves the other files, or the other threads, as   *)
(* they are.                                                               *)
LEMMA StepFrame ==
  ASSUME TypeOK, OwnTmp, NEW w \in Workers, Step(w)
  PROVE  HidFrame(w) /\ SrcFrame(w) /\ PcFrame(w) /\ LookFrame(w)
<1> USE ConvertAssumption DEF Filling, Emptying
<1>0. task[w] \in Files /\ pc[w] \in Labels
  BY DEF Step, convert2h5, process_stat, process_find, stat_h5name,
         stat_tmp_h5name, open_path, hdf5_open_tmp, write_algorithm, hdf5_writestr,
         convert_block, rename_h5, stat_path, truncate_0, truncate_n,
         convert_out, TypeOK, ThreadType
<1>1. ASSUME UNCHANGED hid
      PROVE  HidFrame(w)
  BY <1>1 DEF HidFrame
<1>2. ASSUME UNCHANGED src
      PROVE  SrcFrame(w)
  BY <1>2 DEF SrcFrame
<1>3. ASSUME Return(w)
      PROVE  PcFrame(w)
  BY <1>3 DEF Return, PcFrame, TypeOK, ThreadType
<1>4. ASSUME NEW l \in Labels \ {"idle"}, Goto(w, l),
             l \in Filling =>
               \/ pc[w] \in Filling \ {"rename"}
               \/ pc[w] = "stat_h5" /\ (hid[task[w]] = Absent
                    \/ w \notin missed \/ task[w] \in unseen'),
             l = "stat_h5" => pc[w] # "rename",
             l = "stat_h5" /\ w \notin missed' =>
               hid[task[w]] = Absent \/ task[w] \in HidDirs,
             l \in Emptying =>
               \/ pc[w] = "rename" /\ hid'[task[w]] # Absent
               \/ pc[w] \in Emptying
      PROVE  PcFrame(w)
  BY <1>4 DEF Goto, PcFrame, TypeOK, ThreadType
<1>19. LookFrame(w)
  BY DEF Step, convert2h5, process_find, stat_h5name, looks, LookFrame
<1> USE DEF Labels, disk
<1>5. CASE process_stat(w)
  BY <1>19, <1>1, <1>2, <1>3, <1>4, <1>5 DEF process_stat
<1>6. CASE process_find(w)
  BY <1>19, <1>1, <1>2, <1>3, <1>4, <1>6 DEF process_find, findhiddenFile
<1>7. CASE stat_h5name(w)
  BY <1>19, <1>1, <1>2, <1>3, <1>4, <1>7 DEF stat_h5name, early_out, Fail
<1>8. CASE stat_tmp_h5name(w)
  BY <1>19, <1>1, <1>2, <1>3, <1>4, <1>8 DEF stat_tmp_h5name, early_out, Fail
<1>9. CASE open_path(w)
  BY <1>19, <1>1, <1>2, <1>3, <1>4, <1>9 DEF open_path
<1>10. CASE hdf5_open_tmp(w)
  BY <1>19, <1>1, <1>2, <1>4, <1>10 DEF hdf5_open_tmp, Fail
<1>11. CASE write_algorithm(w)
  BY <1>19, <1>1, <1>2, <1>4, <1>11 DEF write_algorithm, hdf5_writestr, Fail
<1>12. CASE convert_block(w)
  <2>1. CASE UNCHANGED <<pc, task>>
    BY <1>19, <1>1, <1>2, <1>12, <2>1
       DEF convert_block, Fail, PcFrame, TypeOK, ThreadType
  <2>2. CASE \E l \in {"out", "rename"} : Goto(w, l)
    BY <1>19, <1>1, <1>2, <1>4, <1>12, <2>2 DEF convert_block, Fail
  <2>3. QED
    BY <1>12, <2>1, <2>2 DEF convert_block, Fail
<1>13. CASE rename_h5(w)
  <2>1. CASE UNCHANGED hid /\ Goto(w, "out")
    BY <1>19, <1>1, <1>2, <1>4, <1>13, <2>1 DEF rename_h5, Fail
  <2>2. CASE ~(UNCHANGED hid /\ Goto(w, "out"))
    <3>1. /\ tmp[task[w]] # Absent
          /\ hid' = [hid EXCEPT ![task[w]] = tmp[task[w]]]
          /\ Goto(w, "stat_src")
          /\ UNCHANGED src
          /\ pc[w] = "rename"
      BY <1>13, <2>2 DEF rename_h5, Fail
    <3>2. HidFrame(w) /\ hid'[task[w]] # Absent
      BY <1>0, <3>1 DEF HidFrame, TypeOK, DiskType
    <3>3. QED
      BY <1>19, <1>2, <1>4, <3>1, <3>2
  <2>3. QED
    BY <2>1, <2>2
<1>14. CASE stat_path(w)
  BY <1>19, <1>1, <1>2, <1>4, <1>14 DEF stat_path, Fail
<1>15. CASE truncate_0(w)
  BY <1>19, <1>0, <1>1, <1>4, <1>15
     DEF truncate_0, Fail, SrcFrame, TypeOK, DiskType
<1>16. CASE truncate_n(w)
  BY <1>19, <1>0, <1>1, <1>4, <1>16
     DEF truncate_n, Fail, SrcFrame, TypeOK, DiskType
<1>17. CASE convert_out(w)
  <2>1. PICK ok \in BOOLEAN : hid' = Close(hid, {w}, ok)
    BY <1>17 DEF convert_out
  <2>2. hid \in Directory /\ {w} \in SUBSET Workers
    BY DEF TypeOK, DiskType, Directory
  <2>3. HidFrame(w)
    BY <2>1, <2>2, CloseLemma DEF HidFrame
  <2>4. QED
    BY <1>19, <1>2, <1>3, <1>17, <2>3 DEF convert_out
<1>18. QED
  BY <1>5, <1>6, <1>7, <1>8, <1>9, <1>10, <1>11, <1>12, <1>13, <1>14, <1>15,
     <1>16, <1>17, <1>19
  DEF Step, convert2h5

-----------------------------------------------------------------------------
(* Publication.  The invariant says which side of the rename each thread   *)
(* is on: before it the hidden file of an isolated file is absent, as one  *)
(* of the two looks for it has shown; between it and the last truncate the *)
(* hidden file is there.                                                   *)

Sole ==
    \A f \in Files \ overlap : \A v, w \in Workers :
      task[v] = f /\ task[w] = f => v = w

Unpublished ==
    /\ \A w \in Workers :
         /\ \/ pc[w] \in Filling
            \/ pc[w] = "stat_h5" /\ w \notin missed
         /\ task[w] \notin Exposed
         => hid[task[w]] = Absent
    /\ \A f \in HidDirs : hid[f] = Absent

Published == \A w \in Workers : pc[w] \in Emptying => hid[task[w]] # Absent

PublishInv ==
    /\ TypeOK /\ OwnTmp
    /\ Sole /\ Unpublished /\ Published /\ PublishBeforeDestroy

(* The rename replaces no directory.                                       *)
LEMMA HidDirsStep ==
  ASSUME TypeOK, OwnTmp, \A f \in HidDirs : hid[f] = Absent,
         NEW w \in Workers, Step(w)
  PROVE  \A f \in HidDirs : hid'[f] = Absent
<1> SUFFICES ASSUME NEW f \in HidDirs
             PROVE  hid'[f] = Absent
  OBVIOUS
<1>1. f \in Files
  BY ConvertAssumption
<1>2. CASE pc[w] = "rename" /\ task[w] = f
  <2>1. rename_h5(w)
    BY <1>2 DEF Step, convert2h5, process_stat, process_find, stat_h5name,
       stat_tmp_h5name, open_path, hdf5_open_tmp, write_algorithm,
       hdf5_writestr, convert_block, stat_path, truncate_0, truncate_n,
       convert_out
  <2> QED
    BY <1>2, <2>1 DEF rename_h5, Fail, disk
<1>3. CASE ~(pc[w] = "rename" /\ task[w] = f)
  BY <1>1, <1>3, StepFrame DEF HidFrame
<1> QED
  BY <1>2, <1>3

(* A step of a thread keeps the order of publishing and destroying.        *)
LEMMA PublishStep ==
  ASSUME PublishInv, NEW w \in Workers, Step(w)
  PROVE  Sole' /\ Unpublished' /\ Published' /\ PublishBeforeDestroy'
<1> USE ConvertAssumption
<1>1. HidFrame(w) /\ SrcFrame(w) /\ PcFrame(w) /\ LookFrame(w)
  BY StepFrame DEF PublishInv
<1>2. TypeOK /\ TypeOK' /\ UNCHANGED <<data, overlap>>
  BY TypeStep DEF PublishInv, Step
<1>3. \A v \in Workers : task'[v] # NoFile => task'[v] = task[v]
  BY <1>1, <1>2 DEF PcFrame, TypeOK, ThreadType
<1>4. Sole'
  BY <1>2, <1>3 DEF PublishInv, Sole
<1>5. Unpublished'
  <2>1. \A f \in HidDirs : hid'[f] = Absent
    BY HidDirsStep DEF PublishInv, Unpublished
  <2> SUFFICES ASSUME NEW v \in Workers,
                      \/ pc'[v] \in Filling
                      \/ pc'[v] = "stat_h5" /\ v \notin missed',
                      task'[v] \notin Exposed'
               PROVE  hid'[task'[v]] = Absent
    BY <2>1 DEF Unpublished
  <2>2. task'[v] = task[v] /\ task[v] \in Files
    BY <1>1, <1>2, <1>3 DEF TypeOK, ThreadType, Filling
  <2>3. task[v] \notin Exposed /\ task[v] \notin unseen'
    BY <1>1, <1>2, <2>2 DEF Exposed, LookFrame
  <2>4. hid[task[v]] = Absent
    <3>1. CASE v # w
      BY <1>1, <2>3, <3>1 DEF PublishInv, Unpublished, PcFrame, LookFrame
    <3>2. CASE v = w
      BY <1>1, <2>3, <3>2 DEF PublishInv, Unpublished, PcFrame, Filling
    <3> QED
      BY <3>1, <3>2
  <2>5. CASE pc[w] = "rename" /\ task[w] = task[v]
    BY <1>1, <2>2, <2>3, <2>5
       DEF PublishInv, Sole, PcFrame, Filling, Exposed
  <2>6. CASE ~(pc[w] = "rename" /\ task[w] = task[v])
    BY <1>1, <2>2, <2>4, <2>6 DEF HidFrame
  <2> QED
    BY <2>5, <2>6
<1>6. Published'
  <2> SUFFICES ASSUME NEW v \in Workers, pc'[v] \in Emptying
               PROVE  hid'[task'[v]] # Absent
    BY DEF Published
  <2>1. task'[v] = task[v] /\ task[v] \in Files
    BY <1>1, <1>2, <1>3 DEF TypeOK, ThreadType, Emptying
  <2>2. QED
    BY <1>1, <2>1 DEF PublishInv, Published, PcFrame, HidFrame
<1>7. PublishBeforeDestroy'
  <2> SUFFICES ASSUME NEW f \in Files, src'[f] # data[f]
               PROVE  hid'[f] # Absent
    BY <1>2 DEF PublishBeforeDestroy
  <2>1. hid[f] # Absent
    BY <1>1 DEF PublishInv, PublishBeforeDestroy, Published, SrcFrame,
                Emptying
  <2>2. QED
    BY <1>1, <2>1 DEF HidFrame
<1>8. QED
  BY <1>4, <1>5, <1>6, <1>7

(* So does the end of the walker, after which the published blocks are     *)
(* still there.                                                            *)
LEMMA PublishHalt ==
  ASSUME PublishInv, NEW ok \in BOOLEAN, Halt(ok)
  PROVE  /\ Sole' /\ Unpublished' /\ Published' /\ PublishBeforeDestroy'
         /\ \A f \in Files : hid[f] # Absent =>
              hid'[f] # Absent /\ hid'[f].blocks = hid[f].blocks
<1> USE ConvertAssumption DEF PublishInv, Halt
<1>1. hid \in Directory /\ Workers \in SUBSET Workers
  BY DEF TypeOK, DiskType, Directory
<1>2. \A f \in Files : hid[f] # Absent =>
        hid'[f] # Absent /\ hid'[f].blocks = hid[f].blocks
  BY <1>1, CloseLemma
<1>3. Sole'
  BY DEF Sole, TypeOK, DiskType
<1>4. Unpublished' /\ Published'
  BY <1>1, CloseLemma DEF Unpublished, Published, Filling, Emptying, Halt
<1>5. PublishBeforeDestroy'
  BY <1>2 DEF PublishBeforeDestroy
<1>6. QED
  BY <1>2, <1>3, <1>4, <1>5

(* So does a thread that takes up a file.                                  *)
LEMMA PublishFile ==
  ASSUME PublishInv, NEW w \in Workers, NEW f \in Files, process_file(w, f)
  PROVE  Sole' /\ Unpublished' /\ Published' /\ PublishBeforeDestroy'
<1> USE ConvertAssumption DEF PublishInv, process_file, disk, looks
<1>1. \A v \in Workers : pc'[v] \in Filling \cup Emptying \cup {"stat_h5"} =>
        pc'[v] = pc[v] /\ task'[v] = task[v]
  BY DEF TypeOK, ThreadType, Filling, Emptying
<1>2. overlap \subseteq overlap' /\ overlap' \subseteq overlap \cup {f}
  OBVIOUS
<1>3. Sole'
  <2> SUFFICES ASSUME NEW g \in Files, g \notin overlap',
                      NEW u \in Workers, NEW v \in Workers,
                      task'[u] = g, task'[v] = g
               PROVE  u = v
    BY DEF Sole
  <2>1. CASE g = f
    BY <2>1 DEF TypeOK, ThreadType
  <2>2. CASE g # f
    BY <1>2, <2>2 DEF Sole, TypeOK, ThreadType
  <2>3. QED
    BY <2>1, <2>2
<1>4. Unpublished' /\ Published'
  BY <1>1, <1>2 DEF Unpublished, Published, Exposed
<1>5. PublishBeforeDestroy'
  BY DEF PublishBeforeDestroy
<1>6. QED
  BY <1>3, <1>4, <1>5

(* Every step keeps the order of publishing and destroying.                *)
LEMMA PublishNext == PublishInv /\ [Next]_vars => PublishInv'
<1> SUFFICES ASSUME PublishInv, [Next]_vars PROVE PublishInv'
  OBVIOUS
<1>1. TypeOK' /\ OwnTmp'
  BY TypeNext, OwnTmpNext DEF PublishInv
<1>2. CASE Exit \/ Crash
  BY <1>1, <1>2, PublishHalt DEF Exit, Crash, PublishInv
<1>3. CASE UNCHANGED vars
  BY <1>1, <1>3 DEF vars, PublishInv, Sole, Unpublished, Published, Exposed,
                    PublishBeforeDestroy
<1>4. QED
  BY <1>1, <1>2, <1>3, PublishStep, PublishFile DEF Next, PublishInv

(* It holds at the start.                                                  *)
LEMMA PublishInit == Init => PublishInv
<1> SUFFICES ASSUME Init PROVE PublishInv
  OBVIOUS
<1>1. TypeOK
  BY TypeInit
<1>2. OwnTmp /\ Unpublished /\ Published
  BY ConvertAssumption DEF Init, OwnTmp, Unpublished, Published, Filling, Emptying
<1>3. Sole
  BY ConvertAssumption DEF Init, Sole
<1>4. PublishBeforeDestroy
  BY DEF Init, PublishBeforeDestroy
<1>5. QED
  BY <1>1, <1>2, <1>3, <1>4 DEF PublishInv

(* convert2h5 destroys the content of a user file only after its rename    *)
(* has published a hidden file, which nothing takes away again: for any    *)
(* number of threads on the same file, any failing calls, any crashes.     *)
THEOREM PublishBeforeDestroyTheorem == Spec => []PublishBeforeDestroy
<1>1. PublishInv => PublishBeforeDestroy
  BY DEF PublishInv
<1>2. QED
  BY <1>1, PublishInit, PublishNext, PTL DEF Spec

(* The hidden file of a file that no two threads work on at the same time  *)
(* is published once: no later step of convert2h5, exit or crash replaces, *)
(* changes or removes it, unless a thread fails to stat the hidden name    *)
(* both in findhiddenFile and in convert2h5.  One failed stat of the two   *)
(* is harmless, and so is a failed stat of the temporary name.             *)
THEOREM PublishedOnceTheorem == Spec => PublishedOnce
<1>1. ASSUME PublishInv, [Next]_vars
      PROVE  [\A f \in Files \ Exposed' :
                hid[f] # Absent =>
                  hid'[f] # Absent /\ hid'[f].blocks = hid[f].blocks]_vars
  <2>1. CASE UNCHANGED vars
    BY <2>1
  <2>2. ASSUME NEW f \in Files \ Exposed', hid[f] # Absent, Next
        PROVE  hid'[f] # Absent /\ hid'[f].blocks = hid[f].blocks
    <3>1. CASE Exit \/ Crash
      BY <1>1, <2>2, <3>1, PublishHalt DEF Exit, Crash
    <3>2. ASSUME NEW w \in Workers, NEW g \in Files, process_file(w, g)
          PROVE  hid'[f] # Absent /\ hid'[f].blocks = hid[f].blocks
      BY <2>2, <3>2 DEF process_file, disk
    <3>3. ASSUME NEW w \in Workers, Step(w)
          PROVE  hid'[f] # Absent /\ hid'[f].blocks = hid[f].blocks
      <4>1. HidFrame(w) /\ f \notin Exposed
        BY <1>1, <2>2, <3>3, StepFrame DEF PublishInv, Step, LookFrame, Exposed
      <4>2. ~(pc[w] = "rename" /\ task[w] = f)
        BY <1>1, <2>2, <4>1 DEF PublishInv, Unpublished, Filling
      <4>3. QED
        BY <2>2, <4>1, <4>2 DEF HidFrame
    <3>4. QED
      BY <2>2, <3>1, <3>2, <3>3 DEF Next
  <2>3. QED
    BY <1>1, <2>1, <2>2
<1>2. QED
  BY <1>1, PublishInit, PublishNext, PTL DEF Spec, PublishedOnce

-----------------------------------------------------------------------------
(* Losslessness of isolated files.  It holds under three conditions, each  *)
(* of them necessary (a run of Convert refutes it without): the early      *)
(* exits of convert2h5 close no descriptor of another thread, H5Fclose     *)
(* does not fail, and the process does not crash.  exit(1) may happen.     *)

Quiet == StackFds = {} /\ "close" \notin Faults /\ MaxCrashes = 0

(* Each thread's descriptor is its own and is open on its file.            *)
FdOwn ==
    /\ \A w \in Workers : pc[w] \in HasFd => fdfile[srcfd[w]] = task[w]
    /\ \A v, w \in Workers :
         pc[v] \in HasFd /\ pc[w] \in HasFd /\ v # w => srcfd[v] # srcfd[w]

(* The temporary file holds what was read so far.                          *)
Prefix(s, n, t) ==
    Len(s) = n /\ n <= Len(t) /\ \A i \in 1 .. n : s[i] = t[i]

CopiedBy(w) ==
    /\ pc[w] \in {"create", "algorithm"} => fdpos[srcfd[w]] = 0
    /\ pc[w] = "algorithm" => tmp[task[w]].blocks = <<>>
    /\ pc[w] = "block" =>
         Prefix(tmp[task[w]].blocks, fdpos[srcfd[w]], data[task[w]])
    /\ pc[w] = "rename" => tmp[task[w]].blocks = data[task[w]]

Copied == \A w \in Workers : task[w] \notin Exposed => CopiedBy(w)

LosslessInv == PublishInv /\ FdOwn /\ Copied /\ IsolatedLossless

(* A step leaves the other threads' descriptors alone.                     *)
FdFrame(w) ==
    \A v \in Workers \ {w} : pc[v] \in HasFd =>
      /\ srcfd'[v] = srcfd[v]
      /\ fdfile'[srcfd[v]] = fdfile[srcfd[v]]
      /\ fdpos'[srcfd[v]] = fdpos[srcfd[v]]

(* Without stale numbers, a thread closes its own descriptors only.        *)
LEMMA FdStep ==
  ASSUME Quiet, TypeOK, OwnTmp, FdOwn, NEW w \in Workers, Step(w)
  PROVE  FdOwn' /\ FdFrame(w)
<1> USE ConvertAssumption DEF TypeOK, HasFd
<1>0. PcFrame(w) /\ TypeOK'
  BY StepFrame, TypeStep
<1>1. ASSUME UNCHANGED <<srcfd, fdfile>>,
             pc[w] \in HasFd => UNCHANGED task /\ fdpos' =
               [fdpos EXCEPT ![srcfd[w]] = fdpos'[srcfd[w]]],
             pc[w] \notin HasFd => UNCHANGED fdpos,
             pc'[w] \in HasFd => pc[w] \in HasFd
      PROVE  FdOwn' /\ FdFrame(w)
  <2>1. FdFrame(w)
    BY <1>1 DEF FdFrame, FdOwn, FdType
  <2>2. FdOwn'
    BY <1>0, <1>1 DEF FdOwn, PcFrame
  <2>3. QED
    BY <2>1, <2>2
<1>2. ASSUME Return(w), UNCHANGED <<fdfile, fdpos>>
      PROVE  FdOwn' /\ FdFrame(w)
  <2>1. FdFrame(w)
    BY <1>2 DEF FdFrame, Return, FdType
  <2>2. FdOwn'
    BY <1>0, <1>2, <2>1 DEF FdOwn, FdFrame, PcFrame, Return, ThreadType
  <2>3. QED
    BY <2>1, <2>2
<1>3. CASE process_stat(w)
  BY <1>1, <1>2, <1>3 DEF process_stat, Goto, fdvars, ThreadType
<1>4. CASE process_find(w)
  BY <1>1, <1>2, <1>4 DEF process_find, Goto, fdvars, ThreadType
<1>5. CASE stat_h5name(w)
  BY <1>1, <1>2, <1>5 DEF stat_h5name, early_out, Fail, Goto, fdvars,
                          ThreadType, Quiet
<1>6. CASE stat_tmp_h5name(w)
  BY <1>1, <1>2, <1>6 DEF stat_tmp_h5name, early_out, Fail, Goto, fdvars,
                          ThreadType, Quiet
<1>7. CASE open_path(w)
  <2>1. CASE Return(w)
    BY <1>2, <1>7, <2>1 DEF open_path, Return, Goto, ThreadType
  <2>2. CASE ~Return(w)
    <3>1. PICK d \in Fds :
            /\ fdfile[d] = NoFile
            /\ srcfd' = [srcfd EXCEPT ![w] = d]
            /\ fdfile' = [fdfile EXCEPT ![d] = task[w]]
            /\ fdpos' = [fdpos EXCEPT ![d] = 0]
            /\ Goto(w, "create")
      BY <1>7, <2>2 DEF open_path
    <3>2. \A v \in Workers \ {w} : pc[v] \in HasFd => srcfd[v] # d
      BY <3>1 DEF FdOwn, ThreadType
    <3>3. FdFrame(w)
      BY <3>1, <3>2 DEF FdFrame, FdType
    <3>4. \A v \in Workers : pc'[v] \in HasFd => fdfile'[srcfd'[v]] = task'[v]
      BY <3>1, <3>3 DEF FdOwn, FdFrame, FdType, ThreadType, Goto
    <3>5. \A u, v \in Workers :
            pc'[u] \in HasFd /\ pc'[v] \in HasFd /\ u # v =>
              srcfd'[u] # srcfd'[v]
      BY <3>1, <3>2 DEF FdOwn, FdType, ThreadType, Goto
    <3>6. QED
      BY <3>3, <3>4, <3>5 DEF FdOwn
  <2>3. QED
    BY <2>1, <2>2
<1>8. CASE hdf5_open_tmp(w)
  BY <1>1, <1>8 DEF hdf5_open_tmp, Fail, Goto, fdvars, FdType
<1>9. CASE write_algorithm(w)
  BY <1>1, <1>9 DEF write_algorithm, hdf5_writestr, Fail, Goto, fdvars, FdType
<1>10. CASE convert_block(w)
  BY <1>1, <1>10 DEF convert_block, Fail, Goto, fdvars, FdType
<1>11. CASE rename_h5(w)
  BY <1>1, <1>11 DEF rename_h5, Fail, Goto, fdvars, FdType
<1>12. CASE stat_path(w)
  BY <1>1, <1>12 DEF stat_path, Fail, Goto, fdvars, FdType
<1>13. CASE truncate_0(w)
  BY <1>1, <1>13 DEF truncate_0, Fail, Goto, fdvars, FdType
<1>14. CASE truncate_n(w)
  BY <1>1, <1>14 DEF truncate_n, Fail, Goto, fdvars, FdType
<1>15. CASE convert_out(w)
  <2>1. FdFrame(w)
    BY <1>15 DEF FdFrame, FdOwn, FdType, convert_out, close, Return
  <2>2. FdOwn'
    BY <1>0, <1>15, <2>1
       DEF FdOwn, FdFrame, PcFrame, Return, convert_out, ThreadType
  <2>3. QED
    BY <2>1, <2>2
<1>16. QED
  BY <1>3, <1>4, <1>5, <1>6, <1>7, <1>8, <1>9, <1>10, <1>11, <1>12, <1>13,
     <1>14, <1>15
  DEF Step, convert2h5

(* A step leaves the HDF5 files of other threads alone, and closes its own *)
(* properly.                                                               *)
H5Frame(w) ==
    \A f \in Files :
      /\ f # task[w] /\ Holder(tmp[f]) # w => tmp'[f] = tmp[f]
      /\ hid[f] # Absent /\ ~(pc[w] = "rename" /\ task[w] = f) =>
           hid'[f] = hid[f] \/ hid'[f].sound

(* Only the thread that has a temporary file writes to it, and a published *)
(* file changes only by the next rename, or into one that is sound.        *)
LEMMA H5Step ==
  ASSUME Quiet, TypeOK, OwnTmp, NEW w \in Workers, Step(w)
  PROVE  H5Frame(w)
<1> USE ConvertAssumption DEF TypeOK, disk
<1>1. ASSUME UNCHANGED <<tmp, hid>>
      PROVE  H5Frame(w)
  BY <1>1 DEF H5Frame
<1>2. CASE process_stat(w) \/ process_find(w)
  BY <1>1, <1>2 DEF process_stat, process_find
<1>3. CASE stat_h5name(w) \/ stat_tmp_h5name(w) \/ open_path(w)
  BY <1>1, <1>3 DEF stat_h5name, stat_tmp_h5name, early_out, open_path, Fail
<1>4. CASE write_algorithm(w) \/ stat_path(w)
  BY <1>1, <1>4 DEF write_algorithm, hdf5_writestr, stat_path, Fail
<1>5. CASE truncate_0(w) \/ truncate_n(w)
  BY <1>1, <1>5 DEF truncate_0, truncate_n, Fail
<1>6. CASE hdf5_open_tmp(w)
  BY <1>6 DEF hdf5_open_tmp, Fail, H5Frame, DiskType
<1>7. CASE convert_block(w)
  BY <1>7 DEF convert_block, Fail, H5Frame, DiskType
<1>8. CASE rename_h5(w)
  BY <1>8 DEF rename_h5, Fail, H5Frame, DiskType
<1>9. CASE convert_out(w)
  <2>1. PICK ok \in BOOLEAN :
          ok /\ tmp' = Close(tmp, {w}, ok) /\ hid' = Close(hid, {w}, ok)
    BY <1>9 DEF convert_out, Quiet
  <2>2. tmp \in Directory /\ hid \in Directory /\ {w} \in SUBSET Workers
    BY DEF DiskType, Directory
  <2>3. ASSUME NEW f \in Files
        PROVE  /\ Holder(tmp[f]) # w => tmp'[f] = tmp[f]
               /\ hid[f] # Absent => hid'[f] = hid[f] \/ hid'[f].sound
    <3>1. Holder(tmp[f]) # w => tmp'[f] = tmp[f]
      BY <2>1 DEF Close
    <3>2. Holder(hid[f]) # w => hid'[f] = hid[f]
      BY <2>1 DEF Close
    <3>3. hid[f] # Absent /\ Holder(hid[f]) = w => hid'[f].sound = ok
      BY <2>1, <2>2, CloseLemma
    <3>4. QED
      BY <2>1, <3>1, <3>2, <3>3
  <2>4. QED
    BY <2>3 DEF H5Frame
<1>10. QED
  BY <1>2, <1>3, <1>4, <1>5, <1>6, <1>7, <1>8, <1>9 DEF Step, convert2h5

(* A content that agrees with another one up to its length is that one.    *)
LEMMA PrefixLemma ==
  ASSUME NEW s \in Seq(Block), NEW t \in Seq(Block), NEW n \in Nat,
         Prefix(s, n, t)
  PROVE  /\ n = Len(t) => s = t
         /\ n < Len(t) => Prefix(Append(s, t[n + 1]), n + 1, t)
<1>1. n = Len(t) => s = t
  BY DEF Prefix
<1>2. ASSUME n < Len(t)
      PROVE  Prefix(Append(s, t[n + 1]), n + 1, t)
  <2>1. t[n + 1] \in Block /\ Len(Append(s, t[n + 1])) = n + 1
    BY <1>2 DEF Prefix
  <2>2. ASSUME NEW i \in 1 .. n + 1
        PROVE  Append(s, t[n + 1])[i] = t[i]
    BY <1>2, <2>1 DEF Prefix
  <2>3. QED
    BY <1>2, <2>1, <2>2 DEF Prefix
<1>3. QED
  BY <1>1, <1>2

(* The copy goes on: a thread's own step.                                  *)
LEMMA CopyOwn ==
  ASSUME LosslessInv, NEW w \in Workers, Step(w), task'[w] \notin Exposed',
         pc'[w] # "idle"
  PROVE  CopiedBy(w)'
<1> USE ConvertAssumption DEF LosslessInv, PublishInv, TypeOK
<1>1. TypeOK' /\ OwnTmp' /\ UNCHANGED <<data, overlap>>
  BY TypeStep, OwnTmpStep DEF Step
<1>2. task'[w] = task[w] /\ task[w] \in Files /\ task[w] \notin Exposed
  BY StepFrame, <1>1 DEF PcFrame, ThreadType, LookFrame, Exposed
<1>3. CopiedBy(w)
  BY <1>2 DEF Copied
<1>4. ASSUME NEW l \in Labels, Goto(w, l),
             l \notin {"create", "algorithm", "block", "rename"}
      PROVE  CopiedBy(w)'
  BY <1>4 DEF CopiedBy, Goto, ThreadType
<1>5. CASE process_stat(w) \/ process_find(w)
  BY <1>4, <1>5 DEF process_stat, process_find, Return, Labels, ThreadType
<1>6. CASE stat_h5name(w) \/ stat_tmp_h5name(w)
  BY <1>4, <1>6 DEF stat_h5name, stat_tmp_h5name, early_out, Fail, Return,
                    Labels, ThreadType
<1>7. CASE open_path(w)
  BY <1>2, <1>7 DEF open_path, Return, Goto, CopiedBy, ThreadType, FdType
<1>8. CASE hdf5_open_tmp(w)
  <2>1. CASE Goto(w, "out")
    BY <1>4, <2>1 DEF Labels
  <2>2. CASE ~Goto(w, "out")
    BY <1>2, <1>3, <1>8, <2>2
       DEF hdf5_open_tmp, Fail, Goto, CopiedBy, ThreadType, DiskType, fdvars
  <2>3. QED
    BY <2>1, <2>2
<1>9. CASE write_algorithm(w)
  <2>1. CASE Goto(w, "out")
    BY <1>4, <2>1 DEF Labels
  <2>2. CASE ~Goto(w, "out")
    BY <1>1, <1>2, <1>3, <1>9, <2>2
       DEF write_algorithm, hdf5_writestr, Fail, Goto, CopiedBy, ThreadType, DiskType,
           fdvars, disk, Prefix
  <2>3. QED
    BY <2>1, <2>2
<1>10. CASE convert_block(w)
  <2> DEFINE h == tmp[task[w]]
             n == fdpos[srcfd[w]]
             t == data[task[w]]
  <2>1. h \in H5file /\ srcfd[w] \in Fds /\ n \in Nat /\ t \in Seq(Block)
    BY <1>2, <1>10, BlockLemma DEF DiskType
  <2>2. fdfile[srcfd[w]] = task[w] /\ src[task[w]] = t
    BY <1>2, <1>10 DEF convert_block, FdOwn, HasFd, Unpublished, Filling,
                       IsolatedLossless, Intact, View
  <2>3. Prefix(h.blocks, n, t) /\ h.blocks \in Seq(Block)
    BY <1>3, <1>10, <2>1 DEF convert_block, CopiedBy, H5file
  <2>4. CASE Goto(w, "out")
    BY <1>4, <2>4 DEF Labels
  <2>5. CASE Goto(w, "rename")
    <3>1. UNCHANGED tmp /\ n >= Len(t)
      BY <1>2, <1>10, <2>2, <2>5
         DEF convert_block, Fail, Goto, disk, ThreadType
    <3>2. n = Len(t)
      BY <2>1, <2>3, <3>1 DEF Prefix
    <3>3. h.blocks = t
      BY <2>1, <2>3, <3>2, PrefixLemma
    <3>4. QED
      BY <1>1, <1>2, <2>5, <3>1, <3>3 DEF CopiedBy, Goto, ThreadType
  <2>6. CASE ~Goto(w, "out") /\ ~Goto(w, "rename")
    <3>1. /\ UNCHANGED <<pc, task, srcfd>>
          /\ n < Len(t)
          /\ fdpos' = [fdpos EXCEPT ![srcfd[w]] = n + 1]
          /\ tmp' = [tmp EXCEPT ![task[w]] = hdf5_writedata(h, t[n + 1])]
          /\ pc[w] = "block"
      BY <1>2, <1>10, <2>2, <2>6 DEF convert_block, Fail
    <3>2. t[n + 1] \in Block
      BY <2>1, <3>1
    <3>3. /\ tmp'[task[w]].blocks = Append(h.blocks, t[n + 1])
          /\ fdpos'[srcfd[w]] = n + 1
      BY <1>2, <2>1, <3>1, <3>2, WriteLemma DEF DiskType, FdType
    <3>4. Prefix(Append(h.blocks, t[n + 1]), n + 1, t)
      BY <2>1, <2>3, <3>1, PrefixLemma
    <3>5. QED
      BY <1>1, <1>2, <3>1, <3>3, <3>4 DEF CopiedBy
  <2>7. QED
    BY <2>4, <2>5, <2>6
<1>11. CASE rename_h5(w) \/ stat_path(w)
  BY <1>4, <1>11 DEF rename_h5, stat_path, Fail, Labels
<1>12. CASE truncate_0(w) \/ truncate_n(w)
  BY <1>4, <1>12 DEF truncate_0, truncate_n, Fail, Labels
<1>13. CASE convert_out(w)
  BY <1>13 DEF convert_out, Return, ThreadType
<1>14. QED
  BY <1>5, <1>6, <1>7, <1>8, <1>9, <1>10, <1>11, <1>12, <1>13
  DEF Step, convert2h5

(* A step of a thread keeps what has been copied of a file it has alone.   *)
LEMMA LosslessStep ==
  ASSUME Quiet, LosslessInv, NEW w \in Workers, Step(w)
  PROVE  FdOwn' /\ Copied' /\ IsolatedLossless'
<1> USE ConvertAssumption DEF LosslessInv, PublishInv
<1>1. HidFrame(w) /\ SrcFrame(w) /\ PcFrame(w)
  BY StepFrame
<1>8. Exposed \subseteq Exposed' /\ overlap \subseteq Exposed
  BY StepFrame DEF LookFrame, Step, Exposed
<1>2. FdOwn' /\ FdFrame(w) /\ H5Frame(w)
  BY FdStep, H5Step
<1>3. TypeOK' /\ OwnTmp' /\ UNCHANGED <<data, overlap>>
  BY TypeStep, OwnTmpStep DEF Step
<1>4. task[w] \in Files
  BY DEF Step, convert2h5, process_stat, process_find, stat_h5name,
         stat_tmp_h5name, open_path, hdf5_open_tmp, write_algorithm, hdf5_writestr,
         convert_block, rename_h5, stat_path, truncate_0, truncate_n,
         convert_out, TypeOK, ThreadType
<1>5. Copied'
  <2> SUFFICES ASSUME NEW v \in Workers, task'[v] \notin Exposed'
               PROVE  CopiedBy(v)'
    BY DEF Copied
  <2>1. CASE pc'[v] \notin {"create", "algorithm", "block", "rename"}
    BY <2>1 DEF CopiedBy
  <2>2. CASE v = w /\ pc'[v] # "idle"
    BY <2>2, CopyOwn
  <2>3. CASE v # w /\ pc'[v] \in {"create", "algorithm", "block", "rename"}
    <3>1. /\ pc'[v] = pc[v] /\ task'[v] = task[v]
          /\ srcfd'[v] = srcfd[v] /\ fdpos'[srcfd[v]] = fdpos[srcfd[v]]
      BY <1>1, <1>2, <2>3 DEF PcFrame, FdFrame, HasFd
    <3>2. CopiedBy(v) /\ task[v] \in Files
      BY <1>8, <2>3, <3>1 DEF Copied, TypeOK, ThreadType
    <3>3. task[v] # task[w]
      BY <1>4, <1>8, <2>3, <3>1, <3>2 DEF Sole
    <3>4. pc[v] \in {"algorithm", "block", "rename"} =>
            tmp'[task[v]] = tmp[task[v]]
      BY <1>2, <2>3, <3>2, <3>3 DEF H5Frame, OwnTmp
    <3>5. QED
      BY <1>3, <3>1, <3>2, <3>4 DEF CopiedBy
  <2>4. QED
    BY <2>1, <2>2, <2>3
<1>6. IsolatedLossless'
  <2> SUFFICES ASSUME NEW f \in Files, f \notin Exposed'
               PROVE  Intact(f)'
    BY DEF IsolatedLossless
  <2>1. Intact(f) /\ f \notin Exposed
    BY <1>8 DEF IsolatedLossless
  <2>2. CASE pc[w] = "rename" /\ task[w] = f
    <3>1. rename_h5(w)
      BY <2>2 DEF Step, convert2h5, process_stat, process_find, stat_h5name,
         stat_tmp_h5name, open_path, hdf5_open_tmp, write_algorithm, hdf5_writestr,
         convert_block, stat_path, truncate_0, truncate_n, convert_out
    <3>2. UNCHANGED src
      BY <3>1 DEF rename_h5, Fail, disk
    <3>3. CASE UNCHANGED hid
      BY <1>3, <2>1, <3>2, <3>3 DEF Intact, View
    <3>4. CASE ~UNCHANGED hid
      <4>1. hid'[f] = tmp[f] /\ tmp[f] # Absent
        BY <1>4, <2>2, <3>1, <3>4
           DEF rename_h5, Fail, disk, TypeOK, DiskType
      <4>2. tmp[f].blocks = data[f] /\ tmp[f].open = w
        BY <2>1, <2>2, <4>1 DEF Copied, CopiedBy, OwnTmp, Holder
      <4>3. QED
        BY <1>3, <4>1, <4>2 DEF Intact, View
    <3>5. QED
      BY <3>3, <3>4
  <2>3. CASE ~(pc[w] = "rename" /\ task[w] = f)
    <3>1. CASE hid[f] = Absent
      <4>1. src'[f] = src[f]
        BY <1>1, <3>1 DEF SrcFrame, Published, Emptying
      <4>2. QED
        BY <1>1, <1>3, <2>1, <2>3, <3>1, <4>1 DEF HidFrame, Intact, View
    <3>2. CASE hid[f] # Absent
      BY <1>1, <1>2, <1>3, <2>1, <2>3, <3>2
         DEF HidFrame, H5Frame, Intact, View
    <3>3. QED
      BY <3>1, <3>2
  <2>4. QED
    BY <2>2, <2>3
<1>7. QED
  BY <1>2, <1>5, <1>6

(* So does a thread that takes up a file.                                  *)
LEMMA LosslessFile ==
  ASSUME LosslessInv, NEW w \in Workers, NEW f \in Files, process_file(w, f)
  PROVE  FdOwn' /\ Copied' /\ IsolatedLossless'
<1> USE ConvertAssumption DEF LosslessInv, PublishInv, process_file, disk,
                              fdvars
<1>1. \A v \in Workers : pc'[v] \in HasFd =>
        pc[v] \in HasFd /\ pc'[v] = pc[v] /\ task'[v] = task[v]
  BY DEF TypeOK, ThreadType, HasFd
<1>2. Exposed \subseteq Exposed'
  BY DEF Exposed, looks
<1>3. FdOwn'
  BY <1>1 DEF FdOwn
<1>4. Copied'
  <2> SUFFICES ASSUME NEW v \in Workers, task'[v] \notin Exposed'
               PROVE  CopiedBy(v)'
    BY DEF Copied
  <2>1. CASE pc'[v] \notin HasFd
    BY <2>1 DEF CopiedBy, HasFd
  <2>2. CASE pc'[v] \in HasFd
    BY <1>1, <1>2, <2>2 DEF Copied, CopiedBy
  <2>3. QED
    BY <2>1, <2>2
<1>5. IsolatedLossless'
  BY <1>2 DEF IsolatedLossless, Intact, View
<1>6. QED
  BY <1>3, <1>4, <1>5

(* So does an exit of the walker without a crash.                          *)
LEMMA LosslessHalt ==
  ASSUME LosslessInv, NEW ok \in BOOLEAN, ok, Halt(ok)
  PROVE  FdOwn' /\ Copied' /\ IsolatedLossless'
<1> USE ConvertAssumption
<1>1. FdOwn' /\ Copied'
  BY DEF Halt, FdOwn, Copied, CopiedBy, HasFd
<1>2. ASSUME NEW f \in Files, Intact(f)
      PROVE  Intact(f)'
  <2>1. hid' = Close(hid, Workers, ok) /\ UNCHANGED <<src, data>>
    BY DEF Halt
  <2>2. hid \in Directory /\ Workers \in SUBSET Workers
    BY DEF LosslessInv, PublishInv, TypeOK, DiskType, Directory
  <2>3. hid[f] # Absent =>
          hid'[f] # Absent /\ hid'[f].blocks = hid[f].blocks
    BY PublishHalt DEF LosslessInv
  <2>4. hid[f] # Absent /\ Holder(hid[f]) \in Workers => hid'[f].sound = ok
    BY <2>1, <2>2, CloseLemma
  <2>5. Holder(hid[f]) \notin Workers => hid'[f] = hid[f]
    BY <2>1 DEF Close
  <2>6. hid[f] = Absent => hid'[f] = Absent
    BY <2>5 DEF Holder
  <2>7. QED
    BY <1>2, <2>1, <2>3, <2>4, <2>5, <2>6 DEF Intact, View, Holder
<1>3. UNCHANGED Exposed
  BY DEF Halt, Exposed
<1>4. QED
  BY <1>1, <1>2, <1>3 DEF IsolatedLossless, LosslessInv

(* Every step keeps what has been copied.                                  *)
LEMMA LosslessNext == Quiet /\ LosslessInv /\ [Next]_vars => LosslessInv'
<1> SUFFICES ASSUME Quiet, LosslessInv, [Next]_vars PROVE LosslessInv'
  OBVIOUS
<1>1. PublishInv'
  BY PublishNext DEF LosslessInv
<1>2. CASE Exit
  BY <1>1, <1>2, LosslessHalt DEF Exit, LosslessInv
<1>3. CASE Crash
  BY <1>3 DEF Crash, Quiet, LosslessInv, PublishInv, TypeOK, DiskType
<1>4. CASE UNCHANGED vars
  BY <1>1, <1>4 DEF vars, LosslessInv, FdOwn, Copied, CopiedBy, Exposed,
                    IsolatedLossless, Intact, View
<1>5. QED
  BY <1>1, <1>2, <1>3, <1>4, LosslessStep, LosslessFile DEF Next, LosslessInv

(* What the library serves of a file is always what the clients wrote, if  *)
(* no two threads work on that file at the same time and no thread fails   *)
(* to stat its hidden name twice, for any number of threads, files and     *)
(* descriptors and any failures of open, read, compress and write, rename, *)
(* truncate and the other stats, and any exit(1), as long as the early     *)
(* exits close no foreign descriptor, H5Fclose does not fail and the       *)
(* process is not killed.                                                  *)
THEOREM IsolatedLosslessTheorem ==
  ASSUME Quiet
  PROVE  Spec => []IsolatedLossless
<1>1. Init => LosslessInv
  <2> SUFFICES ASSUME Init PROVE LosslessInv
    OBVIOUS
  <2>1. FdOwn /\ Copied
    BY DEF Init, FdOwn, Copied, CopiedBy, HasFd
  <2>2. IsolatedLossless
    BY DEF Init, IsolatedLossless, Intact, View
  <2>3. QED
    BY <2>1, <2>2, PublishInit DEF LosslessInv
<1>2. LosslessInv /\ [Next]_vars => LosslessInv'
  BY LosslessNext
<1>3. LosslessInv => IsolatedLossless
  BY DEF LosslessInv
<1>4. QED
  BY <1>1, <1>2, <1>3, PTL DEF Spec

-----------------------------------------------------------------------------
(* The size of the user file.  It is away from what it was only between    *)
(* the two truncates, and meanwhile convert2h5 knows it.                   *)
Sized ==
    \A f \in Files \ overlap :
      /\ (\A w \in Workers : task[w] = f => pc[w] # "truncate_n")
           => Len(src[f]) = Len(data[f])
      /\ \A w \in Workers :
           task[w] = f /\ pc[w] \in {"truncate_0", "truncate_n"}
             => stsize[w] = Len(data[f])

(* What a step does to the size, and to what its thread knows of it.       *)
LEMMA SizeStep ==
  ASSUME TypeOK, "truncate" \notin Faults, NEW w \in Workers, Step(w)
  PROVE  /\ \A v \in Workers \ {w} : stsize'[v] = stsize[v]
         /\ \/ /\ UNCHANGED src
               /\ pc[w] \notin {"stat_src", "truncate_0", "truncate_n"}
               /\ pc'[w] \notin {"truncate_0", "truncate_n"}
            \/ /\ UNCHANGED src
               /\ pc[w] = "stat_src"
               /\ \/ pc'[w] = "out"
                  \/ pc'[w] = "truncate_0" /\ stsize'[w] = Len(src[task[w]])
            \/ /\ pc[w] = "truncate_0" /\ pc'[w] = "truncate_n"
               /\ UNCHANGED stsize
            \/ /\ pc[w] = "truncate_n" /\ pc'[w] = "out"
               /\ Len(src'[task[w]]) = stsize[w]
<1> USE DEF TypeOK, ThreadType, FdType, DiskType, Goto, Return, Fail, disk, fdvars
<1>1. CASE \/ process_stat(w) \/ process_find(w) \/ stat_h5name(w)
           \/ stat_tmp_h5name(w) \/ open_path(w) \/ hdf5_open_tmp(w)
           \/ write_algorithm(w) \/ convert_block(w) \/ rename_h5(w)
           \/ convert_out(w)
  BY <1>1 DEF process_stat, process_find, stat_h5name, stat_tmp_h5name, open_path,
              hdf5_open_tmp, write_algorithm, hdf5_writestr, convert_block,
              rename_h5, convert_out, early_out
<1>2. CASE stat_path(w)
  BY <1>2 DEF stat_path
<1>3. CASE truncate_0(w)
  BY <1>3 DEF truncate_0
<1>4. CASE truncate_n(w)
  <2>1. task[w] \in Files
    BY <1>4 DEF truncate_n
  <2>2. Len(Resize(src[task[w]], stsize[w])) = stsize[w]
    BY <2>1, ResizeLemma
  <2> QED
    BY <1>4, <2>1, <2>2 DEF truncate_n
<1> QED
  BY <1>1, <1>2, <1>3, <1>4 DEF Step, convert2h5

(* A step of a thread keeps the size of a file it has alone, when no       *)
(* truncate fails.                                                         *)
LEMMA SizedStep ==
  ASSUME PublishInv, Sized, "truncate" \notin Faults, NEW w \in Workers, Step(w)
  PROVE  Sized'
<1>1. SrcFrame(w) /\ PcFrame(w)
  BY StepFrame DEF PublishInv
<1>2. UNCHANGED <<data, overlap>>
  BY DEF Step
<1>3. TypeOK /\ Sole
  BY DEF PublishInv
<1> SUFFICES ASSUME NEW f \in Files, f \notin overlap
             PROVE  /\ (\A v \in Workers : task'[v] = f => pc'[v] # "truncate_n")
                         => Len(src'[f]) = Len(data[f])
                    /\ \A v \in Workers :
                         task'[v] = f /\ pc'[v] \in {"truncate_0", "truncate_n"}
                           => stsize'[v] = Len(data[f])
  BY <1>2 DEF Sized
<1>4. CASE task[w] # f
  <2>1. src'[f] = src[f]
    BY <1>1, <1>4 DEF SrcFrame
  <2>2. task'[w] # f
    BY <1>1, <1>3, <1>4, ConvertAssumption DEF PcFrame, ConvertAssumption
  <2> QED
    BY <1>1, <1>3, <1>4, <2>1, <2>2, SizeStep DEF Sized, PcFrame
<1>5. CASE task[w] = f
  <2>1. \A v \in Workers : task'[v] = f => v = w
    BY <1>1, <1>3, <1>5 DEF Sole, PcFrame
  <2>2. pc'[w] # "idle" => task'[w] = f
    BY <1>1, <1>5 DEF PcFrame
  <2>3. \A v \in Workers : task[v] = f => v = w
    BY <1>3, <1>5 DEF Sole
  <2>4. /\ pc[w] # "truncate_n" => Len(src[f]) = Len(data[f])
        /\ pc[w] \in {"truncate_0", "truncate_n"} => stsize[w] = Len(data[f])
    BY <1>5, <2>3 DEF Sized
  <2> QED
    BY <1>3, <1>5, <2>1, <2>2, <2>4, SizeStep
<1> QED
  BY <1>4, <1>5

(* So does a thread that takes up a file.                                  *)
LEMMA SizedFile ==
  ASSUME PublishInv, Sized, NEW w \in Workers, NEW f \in Files, process_file(w, f)
  PROVE  Sized'
<1>1. \A v \in Workers :
        pc'[v] \in {"truncate_0", "truncate_n"} \/ pc[v] = "truncate_n"
          => pc'[v] = pc[v] /\ task'[v] = task[v]
  BY DEF process_file, PublishInv, TypeOK, ThreadType
<1>2. overlap \subseteq overlap' /\ UNCHANGED <<src, data, stsize>>
  BY DEF process_file, disk
<1> QED
  BY <1>1, <1>2 DEF Sized

(* A file no two threads have worked on keeps its length but between the   *)
(* two truncates, as long as neither of these fails and the process does   *)
(* not end between them; any other call may fail, and the early exits may  *)
(* close any descriptor.                                                   *)
THEOREM SizeKeptTheorem ==
  ASSUME "truncate" \notin Faults, "exit" \notin Faults, MaxCrashes = 0
  PROVE  Spec => []SizeKept
<1>1. Init => Sized
  BY DEF Init, Sized
<1>2. PublishInv /\ Sized /\ [Next]_vars => Sized'
  <2> SUFFICES ASSUME PublishInv, Sized, [Next]_vars PROVE Sized'
    OBVIOUS
  <2>1. ~Exit /\ ~Crash
    <3>1. ~Exit
      BY DEF Exit
    <3>2. crashes \in 0 .. MaxCrashes
      BY DEF PublishInv, TypeOK, DiskType
    <3>3. ~(crashes < MaxCrashes)
      BY <3>2
    <3> QED
      BY <3>1, <3>3 DEF Crash
  <2>2. CASE UNCHANGED vars
    BY <2>2 DEF vars, Sized
  <2> QED
    BY <2>1, <2>2, SizedStep, SizedFile DEF Next
<1>3. TypeOK /\ Sized => SizeKept
  <2> SUFFICES ASSUME Sized, NEW f \in Files \ overlap, ~Busy(f)
               PROVE  Len(src[f]) = Len(data[f])
    BY DEF SizeKept
  <2> QED
    BY DEF Sized, Busy
<1>4. PublishInv => TypeOK
  BY DEF PublishInv
<1> QED
  BY <1>1, <1>2, <1>3, <1>4, PublishInit, PublishNext, PTL DEF Spec
=============================================================================
