------------------------------- MODULE DzStore -------------------------------
(***************************************************************************)
(* The library (dzfile-api.c) as its clients use it: several processes     *)
(* call it on the files of data_dir while the walker compresses them.      *)
(* Every system call, hash-map update and database transaction that other  *)
(* processes can see is a step of its own.                                 *)
(*                                                                         *)
(* A file's content is one value; a descriptor refers to an inode, which   *)
(* outlives its name.  The walker is what Convert shows one thread of it   *)
(* to do: read the file, publish the hidden file, punch the user file,     *)
(* close.  ZeroMQ (dz_notifymq) only takes messages away.  Nobody makes a  *)
(* directory of the name of a hidden file (Convert has those).             *)
(***************************************************************************)
EXTENDS Integers, FiniteSets

CONSTANTS
    Procs,      \* the client processes
    Files,      \* names in data_dir
    NoFile,     \* no name
    Values,     \* what a client may write
    Empty,      \* the content of a new file
    Zero,       \* what a punched file reads as
    Absent,     \* no such hidden file, no entry in the hash map
    Closed,     \* a free descriptor
    MaxFds,     \* descriptors of a process
    MaxInodes,  \* bound on the files ever created
    MaxOps,     \* bound on the calls
    MaxFaults,  \* bound on killed processes and failed transactions
    CallsFail,  \* system calls may fail for reasons of their own
    Exclusive   \* the walker and the clients never use the same file at once

Fds    == 1 .. MaxFds
Inodes == 1 .. MaxInodes
Data   == Values \cup {Empty, Zero}

(* A hidden file: what is compressed in it and, a ghost, the inode it was  *)
(* made from.                                                              *)
H5 == [data : Data, of : Inodes]

(* An open descriptor: its inode and whether it may read and write.        *)
Ofd == [ino : Inodes, r : BOOLEAN, w : BOOLEAN]

ASSUME StoreAssumption ==
    /\ IsFiniteSet(Procs) /\ IsFiniteSet(Files)
    /\ NoFile \notin Files
    /\ Absent \notin H5 /\ Closed \notin Ofd
    /\ MaxFds \in Nat /\ MaxInodes \in Nat /\ MaxOps \in Nat
    /\ MaxFaults \in Nat
    /\ CallsFail \in BOOLEAN /\ Exclusive \in BOOLEAN

VARIABLES
    user,     \* the inode each name refers to, 0 if there is none
    idata,    \* what each inode holds
    hid,      \* the hidden file of each name, with its content
    fd,       \* the descriptor table of each process
    h5fdmap,  \* the hash map of each process: the HDF5 file of a descriptor
    pc,       \* where each process is in its call
    file,     \* the file of that call
    arg,      \* its flags, and the HDF5 file it has opened
    wpc, wfile, wsnap,  \* the walker: where, on which file, what it read
    inodes,   \* how many files were ever created
    rows,     \* how many rows table filemeta has
    space,    \* table space: writtenbytes, diskbytes, filenum
    itruth,   \* ghost: what clients wrote to each inode
    cut,      \* ghost: the inodes whose hidden file has been unlinked
    missed,   \* ghost: those whose hidden file was there when dzfile_unlink,
              \* dzfile_truncate or the walker failed to look for it
    ops, faults

disk   == <<user, idata, hid, inodes>>
proc   == <<fd, h5fdmap>>
call   == <<pc, file, arg>>
walker == <<wpc, wfile, wsnap>>
db     == <<rows, space>>
marks  == <<cut, missed>>
ghosts == <<itruth, cut, missed>>
vars   == <<user, idata, hid, inodes, fd, h5fdmap, pc, file, arg, wpc, wfile, wsnap,
            rows, space, itruth, cut, missed, ops, faults>>

Labels == {"idle", "open_find", "open_h5", "open_user", "open_lstat", "creat_find",
           "insert", "add_filenum", "open_raw", "creat", "write_add",
           "writev_add", "unlink_find", "unlink_hid", "unlink_sub",
           "unlink_user", "unlink_check", "truncate_find", "truncate"}

(* The variables are of their types, and a process is inside a call on a   *)
(* file exactly when it is not idle.                                       *)
TypeOK ==
    /\ user \in [Files -> Inodes \cup {0}]
    /\ idata \in [Inodes -> Data]
    /\ hid \in [Files -> H5 \cup {Absent}]
    /\ fd \in [Procs -> [Fds -> Ofd \cup {Closed}]]
    /\ h5fdmap \in [Procs -> [Fds -> H5 \cup {Absent}]]
    /\ pc \in [Procs -> Labels]
    /\ file \in [Procs -> Files \cup {NoFile}]
    /\ \A p \in Procs :
         pc[p] \in {"idle", "write_add", "writev_add"} <=> file[p] = NoFile
    /\ arg \in [Procs -> [flags : {"r", "wc", "creat"}, h5 : H5 \cup {Absent}]]
    /\ wpc \in {"idle", "rename", "truncate", "close"}
    /\ wfile \in Files \cup {NoFile}
    /\ wsnap \in H5 \cup {Absent}
    /\ inodes \in 0 .. MaxInodes
    /\ rows \in Nat
    /\ space \in [written : Int, disk : Int, filenum : Int]
    /\ itruth \in [Inodes -> Data]
    /\ cut \subseteq Inodes /\ missed \subseteq Inodes
    /\ ops \in 0 .. MaxOps
    /\ faults \in 0 .. MaxFaults

Init ==
    /\ user = [f \in Files |-> 0]
    /\ idata = [i \in Inodes |-> Empty]
    /\ hid = [f \in Files |-> Absent]
    /\ fd = [p \in Procs |-> [d \in Fds |-> Closed]]
    /\ h5fdmap = [p \in Procs |-> [d \in Fds |-> Absent]]
    /\ pc = [p \in Procs |-> "idle"]
    /\ file = [p \in Procs |-> NoFile]
    /\ arg = [p \in Procs |-> [flags |-> "r", h5 |-> Absent]]
    /\ wpc = "idle" /\ wfile = NoFile /\ wsnap = Absent
    /\ inodes = 0
    /\ rows = 0
    /\ space = [written |-> 0, disk |-> 0, filenum |-> 0]
    /\ itruth = [i \in Inodes |-> Empty]
    /\ cut = {} /\ missed = {}
    /\ ops = 0 /\ faults = 0
-----------------------------------------------------------------------------
Goto(p, l) ==
    /\ pc' = [pc EXCEPT ![p] = l]
    /\ UNCHANGED <<file, arg>>

Return(p) ==
    /\ pc' = [pc EXCEPT ![p] = "idle"]
    /\ file' = [file EXCEPT ![p] = NoFile]
    /\ arg' = [arg EXCEPT ![p] = [flags |-> "r", h5 |-> Absent]]

(* A system call fails for a reason of its own, and the function returns.  *)
Fail(p) == CallsFail /\ Return(p)

(* The walker leaves f to the clients.                                     *)
Usable(f) == ~Exclusive \/ wfile # f

(* Process p calls a function on file f, which begins at l.                *)
Call(p, f, l, flags) ==
    /\ pc[p] = "idle" /\ ops < MaxOps /\ Usable(f)
    /\ pc' = [pc EXCEPT ![p] = l]
    /\ file' = [file EXCEPT ![p] = f]
    /\ arg' = [arg EXCEPT ![p] = [flags |-> flags, h5 |-> Absent]]
    /\ ops' = ops + 1
    /\ UNCHANGED <<disk, proc, walker, db, ghosts, faults>>

(* The lowest free descriptors of p: one, or none (EMFILE).                *)
Free(p) ==
    {d \in Fds : fd[p][d] = Closed /\ \A e \in Fds : fd[p][e] = Closed => d <= e}

(* The process is gone, with its descriptors and its hash map.             *)
Die(p) ==
    /\ fd' = [fd EXCEPT ![p] = [d \in Fds |-> Closed]]
    /\ h5fdmap' = [h5fdmap EXCEPT ![p] = [d \in Fds |-> Absent]]
    /\ Return(p)

(* The inode a new file gets.                                              *)
NewInode == inodes + 1

(* open(2) of inode i as descriptor d.                                     *)
Install(p, d, i, r, w) ==
    fd' = [fd EXCEPT ![p][d] = [ino |-> i, r |-> r, w |-> w]]

(* A transaction on the table space; it fails when the database stays      *)
(* locked for longer than the busy timeout, and nobody looks at that.      *)
space_update(field, n) ==
    \/ /\ space' = [space EXCEPT ![field] = @ + n]
       /\ UNCHANGED faults
    \/ /\ faults < MaxFaults
       /\ faults' = faults + 1
       /\ UNCHANGED space
-----------------------------------------------------------------------------
(* 1 when the hidden file is there, 0 when not, -1 when its stat, or the   *)
(* malloc for its name, fails.                                             *)
findhiddenFile(f) ==
    {IF hid[f] # Absent THEN 1 ELSE 0} \cup (IF CallsFail THEN {-1} ELSE {})

dzfile_open(p, f, flags) == Call(p, f, "open_find", flags)

(* Mutant: the test for -1 is forgotten.                                   *)
open_find_negative(p) ==
    /\ pc[p] = "open_find"
    /\ \E rc \in findhiddenFile(file[p]) :
         \/ rc # 1 /\ Goto(p, "open_lstat")
         \/ rc = 1 /\ arg[p].flags = "r" /\ Goto(p, "open_h5")
         \/ rc = 1 /\ arg[p].flags # "r" /\ Return(p)
    /\ UNCHANGED <<disk, proc, walker, db, ghosts, ops, faults>>

(* findhiddenFile; a compressed file can only be opened for reading.       *)
open_find(p) ==
    /\ pc[p] = "open_find"
    /\ \E rc \in findhiddenFile(file[p]) :
         \/ rc = 0 /\ Goto(p, "open_lstat")
         \/ rc = 1 /\ arg[p].flags = "r" /\ Goto(p, "open_h5")
         \/ rc = 1 /\ arg[p].flags # "r" /\ Return(p)
         \/ rc = -1 /\ Return(p)
    /\ UNCHANGED <<disk, proc, walker, db, ghosts, ops, faults>>

(* hdf5_open fails when the hidden file has gone or the walker has it open *)
(* for writing.                                                            *)
open_h5(p) ==
    LET f == file[p] IN
    /\ pc[p] = "open_h5"
    /\ \/ (hid[f] = Absent \/ wfile = f) /\ Return(p)
       \/ Fail(p)
       \/ /\ hid[f] # Absent /\ wfile # f
          /\ pc' = [pc EXCEPT ![p] = "open_user"]
          /\ arg' = [arg EXCEPT ![p].h5 = hid[f]]
          /\ UNCHANGED file
    /\ UNCHANGED <<disk, proc, walker, db, ghosts, ops, faults>>

add_dzfd(p, d, h5) == h5fdmap' = [h5fdmap EXCEPT ![p][d] = h5]

(* Mutant: a failed open of the user file is taken for descriptor 0.       *)
open_user_unchecked(p) ==
    /\ pc[p] = "open_user"
    /\ \E d \in Free(p) :
         /\ Install(p, d, user[file[p]], TRUE, FALSE)
         /\ add_dzfd(p, d, arg[p].h5)
    /\ Return(p)
    /\ UNCHANGED <<disk, walker, db, ghosts, ops, faults>>

(* open of the user file and add_dzfd.  When the open fails -1 is added to *)
(* the hash map; -1 is its deleted key, and inserting that one aborts.     *)
open_user(p) ==
    LET f == file[p] IN
    /\ pc[p] = "open_user"
    /\ \/ /\ user[f] # 0
          /\ \E d \in Free(p) :
               /\ Install(p, d, user[f], TRUE, FALSE)
               /\ add_dzfd(p, d, arg[p].h5)
          /\ Return(p)
       \/ (user[f] = 0 \/ Free(p) = {} \/ CallsFail) /\ Die(p)
    /\ UNCHANGED <<disk, walker, db, ghosts, ops, faults>>

(* Only an lstat that finds nothing inserts a row.                         *)
open_lstat(p) ==
    /\ pc[p] = "open_lstat"
    /\ \/ Goto(p, IF user[file[p]] = 0 THEN "insert" ELSE "open_raw")
       \/ CallsFail /\ Goto(p, "open_raw")
    /\ UNCHANGED <<disk, proc, walker, db, ghosts, ops, faults>>

After(p) == IF arg[p].flags = "creat" THEN "creat" ELSE "open_raw"

(* Mutant: filenum is raised also when the insert has failed.              *)
fmt_entry_insert_always(p) ==
    /\ pc[p] = "insert"
    /\ \/ /\ rows' = rows + 1
          /\ UNCHANGED faults
       \/ /\ faults < MaxFaults
          /\ faults' = faults + 1
          /\ UNCHANGED rows
    /\ Goto(p, "add_filenum")
    /\ UNCHANGED <<disk, proc, walker, space, ghosts, ops>>

(* fmt_entry_insert: a row, and in a second transaction filenum + 1.       *)
fmt_entry_insert(p) ==
    /\ pc[p] = "insert"
    /\ \/ /\ rows' = rows + 1
          /\ Goto(p, "add_filenum")
          /\ UNCHANGED faults
       \/ /\ faults < MaxFaults
          /\ faults' = faults + 1
          /\ Goto(p, After(p))
          /\ UNCHANGED rows
    /\ UNCHANGED <<disk, proc, walker, space, ghosts, ops>>

add_filenum(p) ==
    /\ pc[p] = "add_filenum"
    /\ space_update("filenum", 1)
    /\ Goto(p, After(p))
    /\ UNCHANGED <<disk, proc, walker, rows, ghosts, ops>>

(* open(filename, flags) of a file that is not compressed; "r" is O_RDONLY *)
(* and "wc" O_RDWR with O_CREAT.  It fails for a name that is missing,     *)
(* when the descriptors are used up, on a full disk, ...                   *)
open_raw(p) ==
    LET f == file[p]
        w == arg[p].flags # "r" IN
    /\ pc[p] = "open_raw"
    /\ \/ /\ user[f] # 0
          /\ \E d \in Free(p) : Install(p, d, user[f], TRUE, w)
          /\ UNCHANGED <<user, inodes>>
       \/ /\ user[f] = 0 /\ w /\ NewInode <= MaxInodes
          /\ \E d \in Free(p) : Install(p, d, NewInode, TRUE, w)
          /\ user' = [user EXCEPT ![f] = NewInode]
          /\ inodes' = NewInode
       \/ /\ \/ Free(p) = {} \/ CallsFail
             \/ user[f] = 0 /\ (~w \/ NewInode > MaxInodes)
          /\ UNCHANGED <<user, fd, inodes>>
    /\ Return(p)
    /\ UNCHANGED <<idata, hid, h5fdmap, walker, db, ghosts, ops, faults>>
-----------------------------------------------------------------------------
dzfile_creat(p, f) == Call(p, f, "creat_find", "creat")

(* A compressed file is not created; EEXIST itself is returned.            *)
creat_find(p) ==
    /\ pc[p] = "creat_find"
    /\ \E rc \in findhiddenFile(file[p]) :
         \/ rc = 0 /\ Goto(p, "insert")
         \/ rc # 0 /\ Return(p)
    /\ UNCHANGED <<disk, proc, walker, db, ghosts, ops, faults>>

(* creat(2) makes the file, or empties the one that is there, and opens it *)
(* for writing only.                                                       *)
creat(p) ==
    LET f == file[p]
        i == IF user[f] = 0 THEN NewInode ELSE user[f] IN
    /\ pc[p] = "creat"
    /\ \/ /\ i <= MaxInodes
          /\ \E d \in Free(p) : Install(p, d, i, FALSE, TRUE)
          /\ user' = [user EXCEPT ![f] = i]
          /\ idata' = [idata EXCEPT ![i] = Empty]
          /\ itruth' = [itruth EXCEPT ![i] = Empty]
          /\ inodes' = IF user[f] = 0 THEN NewInode ELSE inodes
       \/ /\ Free(p) = {} \/ i > MaxInodes \/ CallsFail
          /\ UNCHANGED <<user, fd, idata, itruth, inodes>>
    /\ Return(p)
    /\ UNCHANGED <<hid, h5fdmap, walker, db, marks, ops, faults>>

(* Mutant: the descriptor is closed but stays in the hash map.             *)
dzfile_close_keep(p, d) ==
    /\ pc[p] = "idle" /\ fd[p][d] # Closed
    /\ fd' = [fd EXCEPT ![p][d] = Closed]
    /\ UNCHANGED <<disk, h5fdmap, call, walker, db, ghosts, ops, faults>>

remove_dzfd(p, d) == h5fdmap' = [h5fdmap EXCEPT ![p][d] = Absent]

dzfile_close(p, d) ==
    /\ pc[p] = "idle" /\ fd[p][d] # Closed
    /\ fd' = [fd EXCEPT ![p][d] = Closed]
    /\ remove_dzfd(p, d)
    /\ UNCHANGED <<disk, call, walker, db, ghosts, ops, faults>>

(* write(2) on a descriptor; the byte counter is updated at l.             *)
Write(p, d, v, l) ==
    LET i == fd[p][d].ino IN
    /\ pc[p] = "idle" /\ ops < MaxOps
    /\ fd[p][d] # Closed /\ fd[p][d].w
    /\ idata' = [idata EXCEPT ![i] = v]
    /\ itruth' = [itruth EXCEPT ![i] = v]
    /\ pc' = [pc EXCEPT ![p] = l]
    /\ ops' = ops + 1
    /\ UNCHANGED <<user, hid, inodes, proc, file, arg, walker, db, marks, faults>>

dzfile_write(p, d, v) == Write(p, d, v, "write_add")

(* dzfile_writev and dzfile_pwritev write with dzfile_write, which counts  *)
(* the bytes, and count them once more.                                    *)
dzfile_writev(p, d, v) == Write(p, d, v, "writev_add")

dzfile_ftruncate(p, d) ==
    LET i == fd[p][d].ino IN
    /\ pc[p] = "idle" /\ ops < MaxOps
    /\ fd[p][d] # Closed /\ fd[p][d].w
    /\ idata' = [idata EXCEPT ![i] = Empty]
    /\ itruth' = [itruth EXCEPT ![i] = Empty]
    /\ ops' = ops + 1
    /\ UNCHANGED <<user, hid, inodes, proc, call, walker, db, marks, faults>>

write_add(p) ==
    /\ \/ pc[p] = "write_add" /\ Return(p)
       \/ pc[p] = "writev_add" /\ Goto(p, "write_add")
    /\ space_update("written", 1)
    /\ UNCHANGED <<disk, proc, walker, rows, ghosts, ops>>
-----------------------------------------------------------------------------
dzfile_unlink(p, f) == Call(p, f, "unlink_find", "r")

(* Mutant: the user file is unlinked before the hidden file.               *)
unlink_find_swapped(p) ==
    /\ pc[p] = "unlink_find"
    /\ user' = [user EXCEPT ![file[p]] = 0]
    /\ IF hid[file[p]] = Absent THEN Return(p) ELSE Goto(p, "unlink_hid")
    /\ UNCHANGED <<idata, hid, inodes, proc, walker, db, ghosts, ops, faults>>

(* The look for the hidden file of f gave rc, and the call goes on as if   *)
(* there were none.                                                        *)
Miss(f, rc) ==
    missed' = IF rc # 0 /\ hid[f] # Absent THEN missed \cup {hid[f].of}
              ELSE missed

(* findhiddenFile and the stat after it.  Whatever is not 1, -1 too, goes  *)
(* on with the user file.                                                  *)
unlink_find(p) ==
    /\ pc[p] = "unlink_find"
    /\ \E rc \in findhiddenFile(file[p]) :
         \/ /\ rc = 1 /\ (Goto(p, "unlink_hid") \/ Fail(p))
            /\ UNCHANGED missed
         \/ /\ rc # 1 /\ Goto(p, "unlink_user")
            /\ Miss(file[p], rc)
    /\ UNCHANGED <<disk, proc, walker, db, itruth, cut, ops, faults>>

unlink_hid(p) ==
    /\ pc[p] = "unlink_hid"
    /\ \/ /\ hid[file[p]] # Absent
          /\ hid' = [hid EXCEPT ![file[p]] = Absent]
          /\ Goto(p, "unlink_sub")
          /\ cut' = cut \cup {hid[file[p]].of}
       \/ /\ hid[file[p]] = Absent \/ CallsFail
          /\ Return(p)
          /\ UNCHANGED <<hid, cut>>
    /\ UNCHANGED <<user, idata, inodes, proc, walker, db, itruth, missed, ops,
                   faults>>

unlink_sub(p) ==
    /\ pc[p] = "unlink_sub"
    /\ space_update("disk", -1)
    /\ Goto(p, "unlink_user")
    /\ UNCHANGED <<disk, proc, walker, rows, ghosts, ops>>

unlink_user(p) ==
    /\ pc[p] = "unlink_user"
    /\ \/ /\ user[file[p]] # 0
          /\ user' = [user EXCEPT ![file[p]] = 0]
          /\ Goto(p, "unlink_check")
       \/ /\ user[file[p]] = 0 \/ CallsFail
          /\ Return(p)
          /\ UNCHANGED user
    /\ UNCHANGED <<idata, hid, inodes, proc, walker, db, ghosts, ops, faults>>

(* stat(filename) after the unlink succeeds only for a file that somebody  *)
(* created since; its size is subtracted.                                  *)
unlink_check(p) ==
    LET i == user[file[p]] IN
    /\ pc[p] = "unlink_check"
    /\ \/ (i = 0 \/ CallsFail) /\ UNCHANGED <<space, faults>>
       \/ i # 0 /\ space_update("written", IF idata[i] = Empty THEN 0 ELSE -1)
    /\ Return(p)
    /\ UNCHANGED <<disk, proc, walker, rows, ghosts, ops>>

dzfile_truncate(p, f) == Call(p, f, "truncate_find", "r")

(* Only a hidden file that is found refuses the truncate.                  *)
truncate_find(p) ==
    /\ pc[p] = "truncate_find"
    /\ \E rc \in findhiddenFile(file[p]) :
         \/ rc = 1 /\ Return(p) /\ UNCHANGED missed
         \/ rc # 1 /\ Goto(p, "truncate") /\ Miss(file[p], rc)
    /\ UNCHANGED <<disk, proc, walker, db, itruth, cut, ops, faults>>

truncate(p) ==
    LET i == user[file[p]] IN
    /\ pc[p] = "truncate"
    /\ \/ (i = 0 \/ CallsFail) /\ UNCHANGED <<idata, itruth>>
       \/ /\ i # 0
          /\ idata' = [idata EXCEPT ![i] = Empty]
          /\ itruth' = [itruth EXCEPT ![i] = Empty]
    /\ Return(p)
    /\ UNCHANGED <<user, hid, inodes, proc, walker, db, marks, ops, faults>>

(* A client is killed.                                                     *)
Kill(p) ==
    /\ faults < MaxFaults
    /\ faults' = faults + 1
    /\ Die(p)
    /\ UNCHANGED <<disk, walker, db, ghosts, ops>>
-----------------------------------------------------------------------------
InUse(f) ==
    \/ \E p \in Procs : file[p] = f
    \/ \E p \in Procs, d \in Fds : fd[p][d] # Closed /\ fd[p][d].ino = user[f]

(* What is left of a content by the two truncates: its length.             *)
Punched(v) == IF v = Empty THEN Empty ELSE Zero

(* The walker reads a file that has no hidden file yet, or whose hidden    *)
(* file it failed to stat twice (unseen in Convert).                       *)
walker_read(f) ==
    /\ wpc = "idle" /\ user[f] # 0
    /\ hid[f] = Absent \/ CallsFail
    /\ Miss(f, -1)
    /\ Exclusive => ~InUse(f)
    /\ wpc' = "rename" /\ wfile' = f
    /\ wsnap' = [data |-> idata[user[f]], of |-> user[f]]
    /\ UNCHANGED <<disk, proc, call, db, itruth, cut, ops, faults>>

walker_rename ==
    /\ wpc = "rename"
    /\ hid' = [hid EXCEPT ![wfile] = wsnap]
    /\ wpc' = "truncate"
    /\ UNCHANGED <<user, idata, inodes, proc, call, wfile, wsnap, db, ghosts,
                   ops, faults>>

(* stat, truncate to 0 and back to the size, unless the file has gone.     *)
walker_truncate ==
    LET i == user[wfile] IN
    /\ wpc = "truncate"
    /\ idata' = IF i = 0 THEN idata ELSE [idata EXCEPT ![i] = Punched(@)]
    /\ wpc' = "close"
    /\ UNCHANGED <<user, hid, inodes, proc, call, wfile, wsnap, db, ghosts, ops,
                   faults>>

walker_close ==
    /\ wpc = "close"
    /\ wpc' = "idle" /\ wfile' = NoFile /\ wsnap' = Absent
    /\ UNCHANGED <<disk, proc, call, db, ghosts, ops, faults>>

Client(p) ==
    \/ \E f \in Files :
         \/ \E flags \in {"r", "wc"} : dzfile_open(p, f, flags)
         \/ dzfile_creat(p, f) \/ dzfile_unlink(p, f) \/ dzfile_truncate(p, f)
    \/ \E d \in Fds :
         \/ dzfile_close(p, d)
         \/ \E v \in Values : dzfile_write(p, d, v) \/ dzfile_writev(p, d, v)
         \/ dzfile_ftruncate(p, d)
    \/ open_find(p) \/ open_h5(p) \/ open_user(p) \/ open_lstat(p)
    \/ fmt_entry_insert(p) \/ add_filenum(p) \/ open_raw(p)
    \/ creat_find(p) \/ creat(p) \/ write_add(p)
    \/ unlink_find(p) \/ unlink_hid(p) \/ unlink_sub(p) \/ unlink_user(p)
    \/ unlink_check(p)
    \/ truncate_find(p) \/ truncate(p)
    \/ Kill(p)

Walker ==
    \/ \E f \in Files : walker_read(f)
    \/ walker_rename \/ walker_truncate \/ walker_close

(* The clients have made MaxOps calls.                                     *)
Finished ==
    /\ ops = MaxOps /\ \A p \in Procs : pc[p] = "idle"
    /\ UNCHANGED vars

Next == (\E p \in Procs : Client(p)) \/ Walker \/ Finished

Spec == Init /\ [][Next]_vars
-----------------------------------------------------------------------------
(* The HDF5 file the hash map has for a descriptor.                        *)
find_dzfd(p, d) == h5fdmap[p][d]

(* What dzfile_pread of a descriptor serves.                               *)
dzfile_pread(p, d) ==
    IF find_dzfd(p, d) = Absent THEN idata[fd[p][d].ino]
    ELSE find_dzfd(p, d).data

(* The descriptors that can be read; pread(2) of another gives EBADF.      *)
Readable(p) == {d \in Fds : fd[p][d] # Closed /\ fd[p][d].r}

(* Through any descriptor it has open for reading, with a call of its own  *)
(* in progress or not, a client gets by dzfile_pread what was written to   *)
(* that file.                                                              *)
PreadTruth ==
    \A p \in Procs : \A d \in Readable(p) :
      dzfile_pread(p, d) = itruth[fd[p][d].ino]

(* The inodes that dzfile_pread of d depends on.                           *)
Source(p, d) ==
    {fd[p][d].ino} \cup
    (IF find_dzfd(p, d) = Absent THEN {} ELSE {find_dzfd(p, d).of})

(* The compressed files that dzfile_unlink has begun to remove, or whose   *)
(* hidden file a dzfile_unlink, a dzfile_truncate or the walker missed     *)
(* because it failed to look.                                              *)
Broken == cut \cup missed

(* The same for every descriptor, however the calls of the clients         *)
(* interleave and whichever of their system calls fail, but of a broken    *)
(* file: its open or half unlinked remains are not covered, the files      *)
(* created under its name afterwards are.                                  *)
PreadOwn ==
    \A p \in Procs : \A d \in Readable(p) :
      Source(p, d) \cap Broken = {}
        => dzfile_pread(p, d) = itruth[fd[p][d].ino]

(* The hash map holds no descriptor that is closed, or open for writing:   *)
(* a descriptor number that is used again never inherits an HDF5 file.     *)
MapOpen ==
    \A p \in Procs, d \in Fds :
      h5fdmap[p][d] # Absent => fd[p][d] # Closed /\ ~fd[p][d].w

(* A hidden file always has its user file, so that dzfile_open, which      *)
(* opens both, never finds only the first; the one way to lose it is a     *)
(* dzfile_unlink that failed to look for the hidden file.                  *)
HiddenHasFile ==
    \A f \in Files : hid[f] # Absent => user[f] # 0 \/ hid[f].of \in missed

Inserting == {p \in Procs : pc[p] = "add_filenum"}

(* space.filenum and the rows of filemeta differ by the inserts that are   *)
(* half done, and by no more than the failures so far.                     *)
FilenumRows ==
    /\ space.filenum + Cardinality(Inserting) <= rows
    /\ rows <= space.filenum + Cardinality(Inserting) + faults
=============================================================================
