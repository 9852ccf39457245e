------------------------------- MODULE Convert -------------------------------
(***************************************************************************)
(* The conversion protocol: process_file (dzfile-walker.cc) and convert2h5 *)
(* (dzfile-intern.cc), run by the threads of the walker's pool on the      *)
(* files of data_dir.                                                      *)
(*                                                                         *)
(* For a user file x the protocol uses two more names in the directory,    *)
(* the temporary .x.DZF.tmp and the hidden .x.DZF.  Every system call on a *)
(* name that another thread can see is a step of its own; the read /       *)
(* compress / write of one block is one step, because the temporary file   *)
(* is seen by its own thread only (OwnTmp below).                          *)
(*                                                                         *)
(* A content is a sequence of H5_BUFSIZE blocks.  HDF5 buffers metadata    *)
(* until H5Fclose: a file is "sound" (H5Fopen will read it back) only once *)
(* it was closed.  HDF5 itself is external; a threadsafe build is assumed. *)
(***************************************************************************)
EXTENDS Integers, Sequences

CONSTANTS
    Files,       \* the user files of data_dir
    Workers,     \* the threads of the pool (policy.nbthread of them)
    NoWorker,    \* an HDF5 file that nobody holds open
    NoFile,      \* a closed descriptor
    Absent,      \* a name that is not in the directory
    Block,       \* the contents of one block
    Hole,        \* the block of zeros a hole reads as
    Contents,    \* the contents the user files may start with
    LowSize,     \* policy.low_size, in blocks
    Blacklist,   \* the files match_extension finds in policy.blacklist
    HidDirs,     \* the files x for which somebody made a directory .x.DZF
    MaxFds,      \* the process's limit on open descriptors
    StackFds,    \* positive values convert2h5's uninitialised srcfd may hold
    Faults,      \* the calls that may fail for reasons of their own, and
                 \* "exit": the main thread may call exit(1)
    MaxCrashes,  \* bound on the crashes of the walker process
    MaxBlocks    \* bound on the blocks of an HDF5 file: a descriptor number
                 \* that changes hands can be read for ever

Fds == 1 .. MaxFds

Calls == {"open", "create", "algorithm", "read", "write", "rename", "stat",
          "truncate", "close", "opendir", "exit"}

(* An HDF5 file: its datasets block0, block1, ... in order; the thread     *)
(* that holds it open; whether H5Fopen would accept what is on disk.       *)
H5file == [blocks : Seq(Block), open : Workers \cup {NoWorker},
           sound : BOOLEAN]

ASSUME ConvertAssumption ==
    /\ NoWorker \notin Workers
    /\ NoFile \notin Files
    /\ Hole \in Block
    /\ Contents \subseteq Seq(Block)
    /\ Absent \notin H5file
    /\ LowSize \in Nat
    /\ Blacklist \subseteq Files
    /\ HidDirs \subseteq Files
    /\ MaxFds \in Nat
    /\ StackFds \subseteq Fds
    /\ Faults \subseteq Calls
    /\ MaxCrashes \in Nat
    /\ MaxBlocks \in Nat

VARIABLES
    src,      \* what the user file itself holds
    tmp,      \* the temporary HDF5 file, .x.DZF.tmp
    hid,      \* the hidden HDF5 file, .x.DZF
    pc,       \* where each thread is
    task,     \* the file each thread works on
    srcfd,    \* convert2h5's srcfd, per thread
    fdfile,   \* the process's descriptor table: the file
    fdpos,    \* ... and the read position
    stsize,   \* convert2h5's stbuf.st_size, per thread
    crashes,  \* crashes so far
    data,     \* ghost: the content the clients wrote
    overlap,  \* ghost: files two threads have worked on at the same time
    missed,   \* ghost: threads between a findhiddenFile that returned -1
              \* and the stat of convert2h5
    unseen    \* ghost: files whose hidden name a thread failed to stat twice,
              \* in findhiddenFile and in convert2h5

disk   == <<src, tmp, hid>>
fdvars == <<srcfd, fdfile, fdpos>>
looks  == <<missed, unseen>>
ghosts == <<data, overlap, looks>>
vars   == <<src, tmp, hid, pc, task, srcfd, fdfile, fdpos, stsize, crashes,
            data, overlap, missed, unseen>>

Labels == {"idle", "stat", "find", "stat_h5", "stat_tmp", "open", "create",
           "algorithm", "block", "rename", "stat_src", "truncate_0",
           "truncate_n", "out"}

(* The labels between a successful open(path) and the close at "out:".     *)
HasFd == {"create", "algorithm", "block", "rename", "stat_src",
          "truncate_0", "truncate_n", "out"}

DiskType ==
    /\ src \in [Files -> Seq(Block)]
    /\ tmp \in [Files -> H5file \cup {Absent}]
    /\ hid \in [Files -> H5file \cup {Absent}]
    /\ data \in [Files -> Seq(Block)]
    /\ overlap \in SUBSET Files
    /\ missed \in SUBSET Workers
    /\ unseen \in SUBSET Files
    /\ crashes \in 0 .. MaxCrashes

ThreadType ==
    /\ pc \in [Workers -> Labels]
    /\ task \in [Workers -> Files \cup {NoFile}]
    /\ \A w \in Workers : pc[w] = "idle" <=> task[w] = NoFile

FdType ==
    /\ srcfd \in [Workers -> Fds \cup {0}]
    /\ \A w \in Workers : pc[w] \in HasFd => srcfd[w] \in Fds
    /\ fdfile \in [Fds -> Files \cup {NoFile}]
    /\ fdpos \in [Fds -> Nat]
    /\ stsize \in [Workers -> Nat]

(* The variables are of their types; a thread has a file exactly while it  *)
(* is inside process_file, and an open descriptor number in srcfd from the *)
(* open of convert2h5 to its "out:".                                       *)
TypeOK == DiskType /\ ThreadType /\ FdType

-----------------------------------------------------------------------------
(* The walker starts on a directory with user files only.                  *)
Init ==
    /\ data \in [Files -> Contents]
    /\ src = data
    /\ tmp = [f \in Files |-> Absent]
    /\ hid = [f \in Files |-> Absent]
    /\ pc = [w \in Workers |-> "idle"]
    /\ task = [w \in Workers |-> NoFile]
    /\ srcfd = [w \in Workers |-> 0]
    /\ fdfile = [d \in Fds |-> NoFile]
    /\ fdpos = [d \in Fds |-> 0]
    /\ stsize = [w \in Workers |-> 0]
    /\ crashes = 0
    /\ overlap = {}
    /\ missed = {}
    /\ unseen = {}

Goto(w, l) ==
    /\ pc' = [pc EXCEPT ![w] = l]
    /\ UNCHANGED task

(* process_file returns; its variables and those of convert2h5 are gone.   *)
Return(w) ==
    /\ pc' = [pc EXCEPT ![w] = "idle"]
    /\ task' = [task EXCEPT ![w] = NoFile]
    /\ srcfd' = [srcfd EXCEPT ![w] = 0]
    /\ stsize' = [stsize EXCEPT ![w] = 0]

(* A call fails for a reason of its own (disk full, I/O error, ...) and    *)
(* the code jumps to l.                                                    *)
Fail(w, call, l) ==
    /\ call \in Faults
    /\ Goto(w, l)
    /\ UNCHANGED <<disk, fdvars, stsize>>

(* Who holds an HDF5 file open.                                            *)
Holder(h) == IF h = Absent THEN NoWorker ELSE h.open

(* H5Fclose or the library's exit handler on the HDF5 files of the threads *)
(* in W, which are flushed when ok.                                        *)
Close(dir, W, ok) ==
    [f \in Files |->
       IF Holder(dir[f]) \in W
         THEN [blocks |-> dir[f].blocks, open |-> NoWorker, sound |-> ok]
         ELSE dir[f]]

(* close(d), whether or not d is open.                                     *)
close(d) ==
    /\ fdfile' = [fdfile EXCEPT ![d] = NoFile]
    /\ fdpos' = [fdpos EXCEPT ![d] = 0]

(* truncate(2): cut, or extend with a hole.                                *)
Resize(s, n) == [i \in 1 .. n |-> IF i <= Len(s) THEN s[i] ELSE Hole]
-----------------------------------------------------------------------------
(* A thread is given file f: process_file up to its first call that looks  *)
(* at the directory.  Names of the system (.dzs, .x.DZF, .x.DZF.tmp) leave *)
(* process_file here and are in Walker.                                    *)
process_file(w, f) ==
    /\ pc[w] = "idle"
    /\ task' = [task EXCEPT ![w] = f]
    /\ pc' = [pc EXCEPT ![w] = "stat"]
    /\ overlap' = IF \E v \in Workers : task[v] = f
                    THEN overlap \cup {f} ELSE overlap
    /\ UNCHANGED <<disk, fdvars, stsize, crashes, data, looks>>

(* stat(filename) and the policy on its size.                              *)
process_stat(w) ==
    /\ pc[w] = "stat"
    /\ \/ /\ Len(src[task[w]]) < LowSize \/ "stat" \in Faults
          /\ Return(w)
          /\ UNCHANGED <<disk, fdfile, fdpos>>
       \/ /\ Len(src[task[w]]) >= LowSize
          /\ Goto(w, "find")
          /\ UNCHANGED <<disk, fdvars, stsize>>

(* 1 when the hidden file is there, 0 when not, 2 for a directory, and -1  *)
(* when its stat (or a malloc) fails.                                      *)
findhiddenFile(f) ==
    {IF f \in HidDirs THEN 2 ELSE IF hid[f] # Absent THEN 1 ELSE 0}
        \cup (IF "stat" \in Faults THEN {-1} ELSE {})

match_extension(f) == f \in Blacklist

(* findhiddenFile, of whose answers only 1 stops process_file; then the    *)
(* blacklist.                                                              *)
process_find(w) ==
    /\ pc[w] = "find"
    /\ \E rc \in findhiddenFile(task[w]) :
         \/ /\ rc = 1 \/ match_extension(task[w])
            /\ Return(w)
            /\ UNCHANGED <<disk, fdfile, fdpos, missed>>
         \/ /\ rc # 1 /\ ~match_extension(task[w])
            /\ Goto(w, "stat_h5")
            /\ missed' = IF rc = -1 THEN missed \cup {w} ELSE missed
            /\ UNCHANGED <<disk, fdvars, stsize>>
    /\ UNCHANGED unseen

-----------------------------------------------------------------------------
(* The two early exits of convert2h5 jump to "out:" with srcfd and h5fd    *)
(* never assigned.  srcfd may hold any value of StackFds, or one that is   *)
(* not positive; the descriptor is closed whoever it belongs to.  An old   *)
(* hid_t is never a valid identifier again, so H5Fclose of h5fd fails and  *)
(* changes nothing.                                                        *)
early_out(w) ==
    /\ Return(w)
    /\ \/ \E d \in StackFds : close(d)
       \/ UNCHANGED <<fdfile, fdpos>>
    /\ UNCHANGED disk

(* A stat that fails, for whatever reason, counts as "does not exist".     *)
stat_h5name(w) ==
    LET there == hid[task[w]] # Absent \/ task[w] \in HidDirs IN
    /\ pc[w] = "stat_h5"
    /\ \/ there /\ early_out(w) /\ UNCHANGED unseen
       \/ /\ ~there
          /\ Goto(w, "stat_tmp")
          /\ UNCHANGED <<disk, fdvars, stsize, unseen>>
       \/ /\ Fail(w, "stat", "stat_tmp")
          /\ unseen' = IF w \in missed THEN unseen \cup {task[w]} ELSE unseen
    /\ missed' = missed \ {w}

(* Mutant: a temporary file that nobody holds open is taken for a stale    *)
(* one and unlinked.                                                       *)
stat_tmp_h5name_unlink(w) ==
    /\ pc[w] = "stat_tmp"
    /\ \/ Holder(tmp[task[w]]) # NoWorker /\ early_out(w)
       \/ /\ Holder(tmp[task[w]]) = NoWorker
          /\ tmp' = [tmp EXCEPT ![task[w]] = Absent]
          /\ Goto(w, "open")
          /\ UNCHANGED <<src, hid, fdvars, stsize>>

stat_tmp_h5name(w) ==
    /\ pc[w] = "stat_tmp"
    /\ \/ tmp[task[w]] # Absent /\ early_out(w)
       \/ /\ tmp[task[w]] = Absent
          /\ Goto(w, "open")
          /\ UNCHANGED <<disk, fdvars, stsize>>
       \/ Fail(w, "stat", "open")

(* Mutant: the test for a failed open is forgotten.                        *)
open_path_unchecked(w) ==
    /\ pc[w] = "open"
    /\ \E d \in Fds \cup {0} :
         /\ d # 0 => fdfile[d] = NoFile
         /\ srcfd' = [srcfd EXCEPT ![w] = d]
         /\ fdfile' = IF d = 0 THEN fdfile ELSE [fdfile EXCEPT ![d] = task[w]]
    /\ Goto(w, "create")
    /\ UNCHANGED <<disk, fdpos, stsize>>

(* open(path, O_RDONLY) takes the lowest free descriptor.                  *)
open_path(w) ==
    /\ pc[w] = "open"
    /\ \/ \E d \in Fds :
            /\ fdfile[d] = NoFile
            /\ \A e \in Fds : fdfile[e] = NoFile => d <= e
            /\ srcfd' = [srcfd EXCEPT ![w] = d]
            /\ fdfile' = [fdfile EXCEPT ![d] = task[w]]
            /\ fdpos' = [fdpos EXCEPT ![d] = 0]
            /\ Goto(w, "create")
            /\ UNCHANGED <<disk, stsize>>
       \/ /\ "open" \in Faults \/ \A d \in Fds : fdfile[d] # NoFile
          /\ Return(w)
          /\ UNCHANGED <<disk, fdfile, fdpos>>

(* Mutant: the failure of hdf5_open is not noticed.                        *)
hdf5_open_unchecked(w) ==
    LET f == task[w] IN
    /\ pc[w] = "create"
    /\ tmp' = IF Holder(tmp[f]) = NoWorker
                THEN [tmp EXCEPT ![f] = [blocks |-> <<>>, open |-> w,
                                         sound |-> FALSE]]
                ELSE tmp
    /\ Goto(w, "algorithm")
    /\ UNCHANGED <<src, hid, fdvars, stsize>>

(* hdf5_open(tmp_h5name, H5_WRITE): H5Fcreate with H5F_ACC_TRUNC empties a *)
(* file that is there already, but refuses one this process holds open.    *)
hdf5_open_tmp(w) ==
    LET f == task[w] IN
    /\ pc[w] = "create"
    /\ \/ /\ Holder(tmp[f]) = NoWorker
          /\ tmp' = [tmp EXCEPT ![f] = [blocks |-> <<>>, open |-> w,
                                        sound |-> FALSE]]
          /\ Goto(w, "algorithm")
          /\ UNCHANGED <<src, hid, fdvars, stsize>>
       \/ /\ Holder(tmp[f]) # NoWorker
          /\ Goto(w, "out")
          /\ UNCHANGED <<disk, fdvars, stsize>>
       \/ Fail(w, "create", "out")

(* Mutant: the switch has no case for the walker's method.                 *)
write_algorithm_nocase(w) ==
    /\ pc[w] = "algorithm"
    /\ Goto(w, "out")
    /\ UNCHANGED <<disk, fdvars, stsize>>

(* A dataset with a string in it; convert2h5 goes on at l.                 *)
hdf5_writestr(w, l) ==
    \/ Goto(w, l) /\ UNCHANGED <<disk, fdvars, stsize>>
    \/ Fail(w, "algorithm", "out")

(* The algorithm's name and version.                                       *)
write_algorithm(w) ==
    /\ pc[w] = "algorithm"
    /\ hdf5_writestr(w, "block")

(* Dataset "block<count>" with the compressed block b is added to file h.  *)
hdf5_writedata(h, b) ==
    [blocks |-> Append(h.blocks, b), open |-> h.open, sound |-> h.sound]

(* Mutant: the loop ends on the first short count, a block too early.      *)
convert_block_short(w) ==
    LET f == task[w]
        d == srcfd[w] IN
    /\ pc[w] = "block"
    /\ \/ /\ fdfile[d] # NoFile
          /\ fdpos[d] + 1 >= Len(src[fdfile[d]])
          /\ Goto(w, "rename")
          /\ UNCHANGED <<disk, fdvars, stsize>>
       \/ /\ fdfile[d] # NoFile
          /\ fdpos[d] + 1 < Len(src[fdfile[d]])
          /\ fdpos' = [fdpos EXCEPT ![d] = @ + 1]
          /\ tmp' = [tmp EXCEPT ![f] =
                      hdf5_writedata(@, src[fdfile[d]][fdpos[d] + 1])]
          /\ UNCHANGED <<src, hid, pc, task, srcfd, fdfile, stsize>>

(* One turn of the loop: read a block, compress it, hdf5_writedata.  The   *)
(* read fails with EBADF on a descriptor that somebody closed.             *)
convert_block(w) ==
    LET f == task[w]
        d == srcfd[w]
        g == fdfile[d] IN
    /\ pc[w] = "block"
    /\ \/ /\ g = NoFile
          /\ Goto(w, "out")
          /\ UNCHANGED <<disk, fdvars, stsize>>
       \/ Fail(w, "read", "out")
       \/ /\ g # NoFile
          /\ fdpos[d] >= Len(src[g])
          /\ Goto(w, "rename")
          /\ UNCHANGED <<disk, fdvars, stsize>>
       \/ /\ g # NoFile
          /\ fdpos[d] < Len(src[g])
          /\ Len(tmp[f].blocks) < MaxBlocks
          /\ fdpos' = [fdpos EXCEPT ![d] = @ + 1]
          /\ \/ /\ tmp' = [tmp EXCEPT ![f] =
                            hdf5_writedata(@, src[g][fdpos[d] + 1])]
                /\ UNCHANGED <<pc, task>>
             \/ /\ "write" \in Faults
                /\ Goto(w, "out")
                /\ UNCHANGED tmp
          /\ UNCHANGED <<src, hid, srcfd, fdfile, stsize>>

(* Mutant: a failed rename is only logged.                                 *)
rename_unchecked(w) ==
    LET f == task[w] IN
    /\ pc[w] = "rename"
    /\ Goto(w, "stat_src")
    /\ \/ /\ hid' = [hid EXCEPT ![f] = tmp[f]]
          /\ tmp' = [tmp EXCEPT ![f] = Absent]
       \/ "rename" \in Faults /\ UNCHANGED <<hid, tmp>>
    /\ UNCHANGED <<src, fdvars, stsize>>

(* rename(tmp_h5name, h5name), with the file still open.  It replaces a    *)
(* file but no directory.                                                  *)
rename_h5(w) ==
    LET f == task[w] IN
    /\ pc[w] = "rename"
    /\ \/ /\ tmp[f] # Absent /\ f \notin HidDirs
          /\ hid' = [hid EXCEPT ![f] = tmp[f]]
          /\ tmp' = [tmp EXCEPT ![f] = Absent]
          /\ Goto(w, "stat_src")
          /\ UNCHANGED <<src, fdvars, stsize>>
       \/ /\ tmp[f] = Absent \/ f \in HidDirs
          /\ Goto(w, "out")
          /\ UNCHANGED <<disk, fdvars, stsize>>
       \/ Fail(w, "rename", "out")

(* Mutant: the size is taken with the second truncate, too late.           *)
truncate_n_late(w) ==
    /\ pc[w] = "truncate_n"
    /\ src' = [src EXCEPT ![task[w]] = Resize(@, Len(src[task[w]]))]
    /\ Goto(w, "out")
    /\ UNCHANGED <<tmp, hid, fdvars, stsize>>

(* stat(path) for the size, then truncate to 0 and back to that size: the  *)
(* blocks are given back and the file keeps its length.                    *)
stat_path(w) ==
    /\ pc[w] = "stat_src"
    /\ \/ /\ stsize' = [stsize EXCEPT ![w] = Len(src[task[w]])]
          /\ Goto(w, "truncate_0")
          /\ UNCHANGED <<disk, fdvars>>
       \/ Fail(w, "stat", "out")

truncate_0(w) ==
    /\ pc[w] = "truncate_0"
    /\ \/ /\ src' = [src EXCEPT ![task[w]] = Resize(@, 0)]
          /\ Goto(w, "truncate_n")
          /\ UNCHANGED <<tmp, hid, fdvars, stsize>>
       \/ Fail(w, "truncate", "out")

truncate_n(w) ==
    /\ pc[w] = "truncate_n"
    /\ \/ /\ src' = [src EXCEPT ![task[w]] = Resize(@, stsize[w])]
          /\ Goto(w, "out")
          /\ UNCHANGED <<tmp, hid, fdvars, stsize>>
       \/ Fail(w, "truncate", "out")

(* Mutant: a failed H5Fclose is handled by unlinking h5name.               *)
convert_out_unlink(w) ==
    /\ pc[w] = "out"
    /\ close(srcfd[w])
    /\ \/ /\ tmp' = Close(tmp, {w}, TRUE)
          /\ hid' = Close(hid, {w}, TRUE)
       \/ /\ "close" \in Faults
          /\ tmp' = Close(tmp, {w}, FALSE)
          /\ hid' = [hid EXCEPT ![task[w]] = Absent]
    /\ Return(w)
    /\ UNCHANGED src

(* "out:" close(srcfd) closes that number, whoever has it by now; the      *)
(* result of H5Fclose is ignored.                                          *)
convert_out(w) ==
    /\ pc[w] = "out"
    /\ close(srcfd[w])
    /\ \E ok \in {TRUE} \cup IF "close" \in Faults THEN {FALSE} ELSE {} :
         /\ tmp' = Close(tmp, {w}, ok)
         /\ hid' = Close(hid, {w}, ok)
    /\ Return(w)
    /\ UNCHANGED src

convert2h5(w) ==
    \/ stat_h5name(w)
    \/ /\ \/ stat_tmp_h5name(w) \/ open_path(w) \/ hdf5_open_tmp(w)
          \/ write_algorithm(w) \/ convert_block(w) \/ rename_h5(w)
          \/ stat_path(w) \/ truncate_0(w) \/ truncate_n(w) \/ convert_out(w)
       /\ UNCHANGED looks

Step(w) ==
    /\ \/ process_stat(w) /\ UNCHANGED looks
       \/ process_find(w)
       \/ convert2h5(w)
    /\ UNCHANGED <<crashes, data, overlap>>
-----------------------------------------------------------------------------
(* The process ends and is started again.  exit(1) of the main thread runs *)
(* HDF5's exit handler, which flushes and closes its files; after a crash  *)
(* (a signal) they are sound only if HDF5 happened to have flushed them.   *)
Halt(ok) ==
    /\ tmp' = Close(tmp, Workers, ok)
    /\ hid' = Close(hid, Workers, ok)
    /\ pc' = [w \in Workers |-> "idle"]
    /\ task' = [w \in Workers |-> NoFile]
    /\ srcfd' = [w \in Workers |-> 0]
    /\ stsize' = [w \in Workers |-> 0]
    /\ fdfile' = [d \in Fds |-> NoFile]
    /\ fdpos' = [d \in Fds |-> 0]
    /\ missed' = {}
    /\ UNCHANGED <<src, data, overlap, unseen>>

Exit ==
    /\ "exit" \in Faults
    /\ Halt(TRUE)
    /\ UNCHANGED crashes

Crash ==
    /\ crashes < MaxCrashes
    /\ crashes' = crashes + 1
    /\ \E ok \in BOOLEAN : Halt(ok)

Next ==
    \/ \E w \in Workers, f \in Files : process_file(w, f)
    \/ \E w \in Workers : Step(w)
    \/ Exit
    \/ Crash

Spec == Init /\ [][Next]_vars
-----------------------------------------------------------------------------
(* What a client reads of f through the library: the hidden file when      *)
(* there is one (dzfile_open), the user file otherwise.  (dzfile_open      *)
(* refuses the files of HidDirs; for them it is the user file that counts.)*)
View(f) == IF hid[f] = Absent THEN src[f] ELSE hid[f].blocks

Intact(f) ==
    /\ View(f) = data[f]
    /\ hid[f] # Absent => hid[f].open # NoWorker \/ hid[f].sound

(* Files that two threads have met on, or that a thread took for not yet   *)
(* converted because it could not look.                                    *)
Exposed == overlap \cup unseen

Busy(f) == \E w \in Workers : task[w] = f

(* Losslessness: at every moment what the library serves of every file is  *)
(* what the clients wrote, and the hidden file can be opened unless the    *)
(* walker still holds it open for writing.                                 *)
Lossless == \A f \in Files : Intact(f)

(* Losslessness for the files that no two threads work on at the same time *)
(* and whose hidden name no thread failed to stat twice, whatever happens  *)
(* to other files: one of the two looks is enough, and a failed look at    *)
(* the temporary file does no harm.                                        *)
IsolatedLossless == \A f \in Files \ Exposed : Intact(f)

(* The weaker promise: the content a client wrote is never gone from both  *)
(* the user file and a hidden file that can be opened (or is still open).  *)
NothingLost == \A f \in Files : src[f] = data[f] \/ Intact(f)

(* The truncates of convert2h5 destroy the content of the user file only   *)
(* after the rename has published a hidden file, and no failure, exit or   *)
(* crash can take that hidden file away again.                             *)
PublishBeforeDestroy == \A f \in Files : src[f] # data[f] => hid[f] # Absent

(* A thread that writes to the temporary file between hdf5_open and the    *)
(* rename is the only one that holds it open: whatever other threads do    *)
(* with the same file, nobody renames, empties or closes it meanwhile.     *)
OwnTmp ==
    \A w \in Workers :
      pc[w] \in {"algorithm", "block", "rename"} =>
        Holder(tmp[task[w]]) = w

(* Once the rename has published the hidden file of a file that no two     *)
(* threads have worked on, no step ever replaces, changes or removes it,   *)
(* unless both looks of one thread at the hidden name fail.                *)
PublishedOnce ==
    [][\A f \in Files \ Exposed' :
         hid[f] # Absent =>
           hid'[f] # Absent /\ hid'[f].blocks = hid[f].blocks]_vars

(* A file no two threads have worked on has its own length whenever no     *)
(* thread is at work on it: the two truncates restore what they cut.       *)
SizeKept ==
    \A f \in Files \ overlap : ~Busy(f) => Len(src[f]) = Len(data[f])
=============================================================================
