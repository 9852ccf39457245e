--------------------------- MODULE DzStoreProofs ---------------------------
(***************************************************************************)
(* Proofs about DzStore for any processes, files, calls and faults.        *)
(***************************************************************************)
EXTENDS DzStore, FiniteSetTheorems, TLAPS

(* Between its findhiddenFile that found nothing, or its unlink of the     *)
(* hidden file, and the end of its call a process finds the file without a *)
(* hidden file, as the walker keeps off it ...                             *)
NotFound == {"open_lstat", "insert", "add_filenum", "open_raw", "creat",
             "unlink_sub"}

(* ... or, in two functions, it may have missed the one that is there.     *)
MayMiss == {"truncate", "unlink_user"}

Unseen(f) == hid[f] = Absent \/ hid[f].of \in missed

CallInv ==
    \A p \in Procs :
      /\ file[p] # NoFile => file[p] # wfile
      /\ pc[p] \in NotFound => hid[file[p]] = Absent
      /\ pc[p] \in MayMiss => Unseen(file[p])
      /\ pc[p] = "open_user" =>
           /\ arg[p].h5 # Absent
           /\ arg[p].h5.of \notin Broken => hid[file[p]] = arg[p].h5

(* Names have inodes of their own, and an inode that is not used yet is    *)
(* nowhere.                                                                *)
InodeInv ==
    /\ \A f \in Files : user[f] <= inodes
    /\ \A f, g \in Files : user[f] = user[g] /\ user[f] # 0 => f = g
    /\ \A p \in Procs, d \in Fds : fd[p][d] # Closed => fd[p][d].ino <= inodes
    /\ \A i \in Broken : i <= inodes
    /\ \A p \in Procs, d \in Fds :
         h5fdmap[p][d] # Absent => h5fdmap[p][d].of <= inodes

(* The hidden file of f is what its user file held, and nobody has that    *)
(* one open but through the hidden file.                                   *)
HiddenInv ==
    \A f \in Files : hid[f] # Absent =>
      /\ user[f] # 0 \/ hid[f].of \in missed
      /\ user[f] # 0 => hid[f].of = user[f]
      /\ user[f] # 0 /\ user[f] \notin Broken =>
           /\ hid[f].data = itruth[user[f]]
           /\ \A p \in Procs, d \in Fds :
                fd[p][d] # Closed /\ fd[p][d].ino = user[f]
                  => h5fdmap[p][d] # Absent

(* The walker has its file for itself.                                     *)
WalkerInv ==
    /\ wpc = "idle" <=> wfile = NoFile
    /\ wpc # "idle" =>
         /\ user[wfile] # 0
         /\ \A p \in Procs, d \in Fds :
              fd[p][d] # Closed => fd[p][d].ino # user[wfile]
         /\ wsnap # Absent
         /\ wsnap.of = user[wfile]
         /\ user[wfile] \notin Broken => wsnap.data = itruth[user[wfile]]
         /\ wpc = "rename" => hid[wfile] = Absent \/ user[wfile] \in Broken
         /\ wpc # "rename" => hid[wfile] = wsnap

(* Only a file with a hidden file is punched, ...                          *)
DataInv ==
    \A i \in Inodes \ Broken :
      idata[i] = itruth[i] \/ \E f \in Files : hid[f] # Absent /\ user[f] = i

(* ... and what the hash map refers to is the hidden file of its inode.    *)
MapInv ==
    \A p \in Procs, d \in Fds :
      h5fdmap[p][d] # Absent /\ h5fdmap[p][d].of \notin Broken =>
        /\ fd[p][d].ino = h5fdmap[p][d].of
        /\ \E f \in Files : hid[f] = h5fdmap[p][d]

DiskInv == InodeInv /\ HiddenInv /\ WalkerInv /\ DataInv /\ MapInv

StoreInv == TypeOK /\ MapOpen /\ CallInv /\ DiskInv
-----------------------------------------------------------------------------
(* What a call of a process leaves typed.                                  *)
CallType ==
    /\ pc \in [Procs -> Labels]
    /\ file \in [Procs -> Files \cup {NoFile}]
    /\ \A p \in Procs :
         pc[p] \in {"idle", "write_add", "writev_add"} <=> file[p] = NoFile
    /\ arg \in [Procs -> [flags : {"r", "wc", "creat"}, h5 : H5 \cup {Absent}]]

(* A call that returns or goes on keeps the types of the calls.            *)
LEMMA CallTypes ==
  ASSUME TypeOK, NEW p \in Procs
  PROVE  /\ Return(p) => CallType'
         /\ \A l \in Labels \ {"idle", "write_add", "writev_add"} :
              file[p] # NoFile /\ Goto(p, l) => CallType'
<1> USE StoreAssumption DEF StoreAssumption, TypeOK, CallType, Labels
<1>1. CASE Return(p)
  BY <1>1 DEF Return
<1>2. ASSUME NEW l \in Labels \ {"idle", "write_add", "writev_add"},
             file[p] # NoFile, Goto(p, l)
      PROVE  CallType'
  BY <1>2 DEF Goto
<1> QED
  BY <1>1, <1>2

FdType ==
    /\ fd \in [Procs -> [Fds -> Ofd \cup {Closed}]]
    /\ h5fdmap \in [Procs -> [Fds -> H5 \cup {Absent}]]

(* Opening descriptors, and the end of a process, keep the types of the    *)
(* descriptors and of the hash map.                                        *)
LEMMA FdTypes ==
  ASSUME TypeOK, NEW p \in Procs
  PROVE  /\ \A d \in Fds, i \in Inodes, r, w \in BOOLEAN :
              Install(p, d, i, r, w) /\ UNCHANGED h5fdmap => FdType'
         /\ \A d \in Fds, i \in Inodes, r, w \in BOOLEAN, h \in H5 \cup {Absent} :
              Install(p, d, i, r, w) /\ add_dzfd(p, d, h) => FdType'
         /\ Die(p) => FdType'
<1>1. ASSUME NEW d \in Fds, NEW i \in Inodes, NEW r \in BOOLEAN,
             NEW w \in BOOLEAN, Install(p, d, i, r, w)
      PROVE  fd' \in [Procs -> [Fds -> Ofd \cup {Closed}]]
  BY <1>1 DEF TypeOK, Install, Ofd
<1>2. ASSUME NEW d \in Fds, NEW h \in H5 \cup {Absent}, add_dzfd(p, d, h)
      PROVE  h5fdmap' \in [Procs -> [Fds -> H5 \cup {Absent}]]
  BY <1>2 DEF TypeOK, add_dzfd
<1>3. CASE Die(p)
  BY <1>3 DEF TypeOK, Die, FdType
<1> QED
  BY <1>1, <1>2, <1>3 DEF TypeOK, FdType

(* The files whose hidden file is missed are files.                        *)
LEMMA MissedType ==
  ASSUME TypeOK, NEW f \in Files, NEW rc, Miss(f, rc)
  PROVE  missed' \subseteq Inodes
<1>1. hid[f] # Absent => hid[f].of \in Inodes
  BY DEF TypeOK, H5
<1> QED
  BY <1>1 DEF Miss, TypeOK

(* A client that calls the library keeps the types.                        *)
LEMMA TypeCall ==
  ASSUME TypeOK, NEW p \in Procs, NEW f \in Files, NEW l \in Labels,
         l \notin {"idle", "write_add", "writev_add"},
         NEW flags \in {"r", "wc", "creat"}, Call(p, f, l, flags)
  PROVE  TypeOK'
<1> USE StoreAssumption DEF StoreAssumption
<1>1. CallType'
  BY DEF Call, TypeOK, CallType
<1> QED
  BY <1>1 DEF Call, TypeOK, CallType, disk, proc, walker, db, ghosts

(* So does every step of a client.                                         *)
LEMMA TypeStep ==
  ASSUME TypeOK, NEW p \in Procs, Client(p)
  PROVE  TypeOK'
<1> USE StoreAssumption DEF StoreAssumption
<1>1. CASE open_find(p)
  <2>1. CallType'
    BY <1>1, CallTypes DEF open_find, TypeOK, CallType, Labels
  <2> QED
    BY <1>1, <2>1 DEF open_find, TypeOK, CallType, disk, proc, walker, db, ghosts
<1>2. CASE open_h5(p)
  <2>1. CallType'
    <3>1. CASE Return(p)
      BY <3>1, CallTypes
    <3>2. CASE /\ hid[file[p]] # Absent
               /\ pc' = [pc EXCEPT ![p] = "open_user"]
               /\ arg' = [arg EXCEPT ![p].h5 = hid[file[p]]]
               /\ UNCHANGED file
      <4>1. file[p] \in Files
        BY <1>2 DEF open_h5, TypeOK
      <4>2. arg' \in [Procs -> [flags : {"r", "wc", "creat"}, h5 : H5 \cup {Absent}]]
        BY <3>2, <4>1 DEF TypeOK
      <4> QED
        BY <1>2, <3>2, <4>2 DEF open_h5, TypeOK, CallType, Labels
    <3> QED
      BY <1>2, <3>1, <3>2 DEF open_h5, Fail
  <2> QED
    BY <1>2, <2>1 DEF open_h5, TypeOK, CallType, disk, proc, walker, db, ghosts, Return, Fail
<1>3. CASE open_user(p)
  <2>1. CallType'
    BY <1>3, CallTypes DEF open_user, TypeOK, CallType, Labels, Install, add_dzfd, Die, Free
  <2> QED
    <3>1. FdType'
      BY <1>3, FdTypes DEF open_user, TypeOK, Free
    <3> QED
      BY <1>3, <2>1, <3>1
      DEF open_user, TypeOK, CallType, FdType, disk, walker, db, ghosts
<1>4. CASE open_lstat(p)
  <2>1. CallType'
    BY <1>4, CallTypes DEF open_lstat, TypeOK, CallType, Labels
  <2> QED
    BY <1>4, <2>1 DEF open_lstat, TypeOK, CallType, disk, proc, walker, db, ghosts
<1>5. CASE fmt_entry_insert(p)
  <2>1. CallType'
    BY <1>5, CallTypes DEF fmt_entry_insert, TypeOK, CallType, Labels, After
  <2> QED
    BY <1>5, <2>1 DEF fmt_entry_insert, TypeOK, CallType, disk, proc, walker, db, ghosts, After
<1>6. CASE add_filenum(p)
  <2>1. CallType'
    BY <1>6, CallTypes DEF add_filenum, TypeOK, CallType, Labels, After, space_update
  <2> QED
    BY <1>6, <2>1 DEF add_filenum, TypeOK, CallType, disk, proc, walker, db, ghosts, After, space_update
<1>7. CASE open_raw(p)
  <2>1. CallType'
    BY <1>7, CallTypes DEF open_raw, TypeOK, CallType, Labels, Install, Free, NewInode
  <2> QED
    <3>1. FdType' /\ user' \in [Files -> Inodes \cup {0}] /\ inodes' \in 0 .. MaxInodes
      <4> DEFINE w == arg[p].flags # "r"
      <4>1. file[p] \in Files
        BY <1>7 DEF open_raw, TypeOK
      <4>2. CASE /\ user[file[p]] # 0
                 /\ \E d \in Free(p) : Install(p, d, user[file[p]], TRUE, w)
                 /\ UNCHANGED <<user, inodes>>
        <5>1. user[file[p]] \in Inodes
          BY <4>1, <4>2 DEF TypeOK
        <5> QED
          BY <1>7, <4>2, <5>1, FdTypes DEF open_raw, TypeOK, Free
      <4>3. CASE /\ NewInode <= MaxInodes
                 /\ \E d \in Free(p) : Install(p, d, NewInode, TRUE, w)
                 /\ user' = [user EXCEPT ![file[p]] = NewInode]
                 /\ inodes' = NewInode
        <5>1. NewInode \in Inodes
          BY <4>3 DEF TypeOK, NewInode, Inodes
        <5>2. FdType'
          BY <1>7, <4>3, <5>1, FdTypes DEF open_raw, Free
        <5> QED
          BY <4>1, <4>3, <5>1, <5>2 DEF TypeOK, Inodes
      <4>4. CASE UNCHANGED <<user, fd, inodes>>
        BY <1>7, <4>4 DEF open_raw, TypeOK, FdType
      <4> QED
        BY <1>7, <4>2, <4>3, <4>4 DEF open_raw
    <3> QED
      BY <1>7, <2>1, <3>1
      DEF open_raw, TypeOK, CallType, FdType, walker, db, ghosts
<1>8. CASE creat_find(p)
  <2>1. CallType'
    BY <1>8, CallTypes DEF creat_find, TypeOK, CallType, Labels
  <2> QED
    BY <1>8, <2>1 DEF creat_find, TypeOK, CallType, disk, proc, walker, db, ghosts
<1>9. CASE creat(p)
  <2>1. CallType'
    BY <1>9, CallTypes DEF creat, TypeOK, CallType, Labels, Install, Free, NewInode
  <2> QED
    <3>1. /\ FdType' /\ user' \in [Files -> Inodes \cup {0}]
          /\ inodes' \in 0 .. MaxInodes
          /\ idata' \in [Inodes -> Data] /\ itruth' \in [Inodes -> Data]
      <4> DEFINE i == IF user[file[p]] = 0 THEN NewInode ELSE user[file[p]]
      <4>1. file[p] \in Files
        BY <1>9 DEF creat, TypeOK
      <4>2. CASE /\ i <= MaxInodes
                 /\ \E d \in Free(p) : Install(p, d, i, FALSE, TRUE)
                 /\ user' = [user EXCEPT ![file[p]] = i]
                 /\ idata' = [idata EXCEPT ![i] = Empty]
                 /\ itruth' = [itruth EXCEPT ![i] = Empty]
                 /\ inodes' = IF user[file[p]] = 0 THEN NewInode ELSE inodes
        <5>1. i \in Inodes
          BY <4>1, <4>2 DEF TypeOK, NewInode, Inodes
        <5>2. FdType'
          BY <1>9, <4>2, <5>1, FdTypes DEF creat, Free
        <5> QED
          BY <4>1, <4>2, <5>1, <5>2 DEF TypeOK, NewInode, Inodes, Data
      <4>3. CASE UNCHANGED <<user, fd, idata, itruth, inodes>>
        BY <1>9, <4>3 DEF creat, TypeOK, FdType
      <4> QED
        BY <1>9, <4>2, <4>3 DEF creat
    <3> QED
      BY <1>9, <2>1, <3>1 DEF creat, TypeOK, CallType, FdType, walker, db, marks
<1>10. CASE write_add(p)
  <2>1. CallType'
    BY <1>10, CallTypes DEF write_add, TypeOK, CallType, Goto, Labels
  <2> QED
    BY <1>10, <2>1 DEF write_add, TypeOK, CallType, disk, proc, walker, db, ghosts, space_update
<1>11. CASE unlink_find(p)
  <2>1. CallType'
    BY <1>11, CallTypes DEF unlink_find, TypeOK, CallType, Labels, Fail
  <2>2. missed' \subseteq Inodes
    BY <1>11, MissedType DEF unlink_find, TypeOK
  <2> QED
    BY <1>11, <2>1, <2>2 DEF unlink_find, TypeOK, CallType, disk, proc, walker, db
<1>12. CASE unlink_hid(p)
  <2>1. CallType'
    BY <1>12, CallTypes DEF unlink_hid, TypeOK, CallType, Labels
  <2> QED
    BY <1>12, <2>1 DEF unlink_hid, TypeOK, CallType, H5, proc, walker, db
<1>13. CASE unlink_sub(p)
  <2>1. CallType'
    BY <1>13, CallTypes DEF unlink_sub, TypeOK, CallType, Labels, space_update
  <2> QED
    BY <1>13, <2>1 DEF unlink_sub, TypeOK, CallType, disk, proc, walker, db, ghosts, space_update
<1>14. CASE unlink_user(p)
  <2>1. CallType'
    BY <1>14, CallTypes DEF unlink_user, TypeOK, CallType, Labels
  <2> QED
    BY <1>14, <2>1 DEF unlink_user, TypeOK, CallType, disk, proc, walker, db, ghosts
<1>15. CASE unlink_check(p)
  <2>1. CallType'
    BY <1>15, CallTypes DEF unlink_check, TypeOK, CallType, Labels, space_update
  <2> QED
    BY <1>15, <2>1 DEF unlink_check, TypeOK, CallType, disk, proc, walker, db, ghosts, space_update
<1>16. CASE truncate_find(p)
  <2>1. CallType'
    BY <1>16, CallTypes DEF truncate_find, TypeOK, CallType, Labels
  <2>2. missed' \subseteq Inodes
    BY <1>16, MissedType DEF truncate_find, TypeOK
  <2> QED
    BY <1>16, <2>1, <2>2
    DEF truncate_find, TypeOK, CallType, disk, proc, walker, db
<1>17. CASE truncate(p)
  <2>1. CallType'
    BY <1>17, CallTypes DEF truncate, TypeOK, CallType, Labels
  <2> QED
    <3>1. file[p] \in Files
      BY <1>17 DEF truncate, TypeOK
    <3>2. idata' \in [Inodes -> Data] /\ itruth' \in [Inodes -> Data]
      BY <1>17, <3>1 DEF truncate, TypeOK, Data
    <3> QED
      BY <1>17, <2>1, <3>2 DEF truncate, TypeOK, CallType, proc, walker, db, marks
<1>18. CASE Kill(p)
  <2>1. CallType'
    BY <1>18, CallTypes DEF Kill, TypeOK, CallType, Labels, Die
  <2> QED
    BY <1>18, <2>1, FdTypes
    DEF Kill, TypeOK, CallType, FdType, disk, walker, db, ghosts
<1>19. ASSUME NEW f \in Files,
             \/ \E flags \in {"r", "wc"} : dzfile_open(p, f, flags)
             \/ dzfile_creat(p, f) \/ dzfile_unlink(p, f) \/ dzfile_truncate(p, f)
      PROVE  TypeOK'
  BY <1>19, TypeCall
  DEF dzfile_open, dzfile_creat, dzfile_unlink, dzfile_truncate, Labels
<1>20. ASSUME NEW d \in Fds, dzfile_close(p, d)
       PROVE  TypeOK'
  BY <1>20 DEF dzfile_close, remove_dzfd, TypeOK, disk, call, walker, db, ghosts
<1>21. ASSUME NEW d \in Fds, NEW v \in Values,
              dzfile_write(p, d, v) \/ dzfile_writev(p, d, v)
       PROVE  TypeOK'
  <2>1. PICK l \in {"write_add", "writev_add"} : Write(p, d, v, l)
    BY <1>21 DEF dzfile_write, dzfile_writev
  <2>2. fd[p][d].ino \in Inodes
    BY <2>1 DEF Write, TypeOK, Ofd
  <2> QED
    BY <2>1, <2>2 DEF Write, TypeOK, Labels, Data, proc, walker, db, marks
<1>22. ASSUME NEW d \in Fds, dzfile_ftruncate(p, d)
       PROVE  TypeOK'
  <2>1. fd[p][d].ino \in Inodes
    BY <1>22 DEF dzfile_ftruncate, TypeOK, Ofd
  <2> QED
    BY <1>22, <2>1 DEF dzfile_ftruncate, TypeOK, Data, proc, call, walker, db, marks
<1> QED
  BY <1>1, <1>2, <1>3, <1>4, <1>5, <1>6, <1>7, <1>8, <1>9, <1>10, <1>11, <1>12, <1>13, <1>14, <1>15, <1>16, <1>17, <1>18, <1>19, <1>20, <1>21, <1>22 DEF Client

(* So does every step.                                                     *)
LEMMA TypeNext ==
  ASSUME TypeOK, [Next]_vars
  PROVE  TypeOK'
<1> USE StoreAssumption DEF StoreAssumption
<1>1. CASE \E p \in Procs : Client(p)
  BY <1>1, TypeStep
<1>2. ASSUME NEW f \in Files, walker_read(f)
      PROVE  TypeOK'
  <2>1. missed' \subseteq Inodes
    BY <1>2, MissedType DEF walker_read
  <2> QED
    BY <1>2, <2>1 DEF walker_read, TypeOK, H5, disk, proc, call, db
<1>3. CASE walker_rename
  BY <1>3 DEF walker_rename, TypeOK, proc, call, db, ghosts
<1>4. CASE walker_truncate
  <2>1. idata' \in [Inodes -> Data]
    BY <1>4 DEF walker_truncate, TypeOK, Punched, Data
  <2> QED
    BY <1>4, <2>1 DEF walker_truncate, TypeOK, proc, call, db, ghosts
<1>5. CASE walker_close
  BY <1>5 DEF walker_close, TypeOK, disk, proc, call, db, ghosts
<1>6. CASE UNCHANGED vars
  BY <1>6 DEF TypeOK, vars
<1> QED
  BY <1>1, <1>2, <1>3, <1>4, <1>5, <1>6 DEF Next, Walker, Finished

(* The types hold at the start.                                            *)
LEMMA TypeInit == Init => TypeOK
BY StoreAssumption DEF StoreAssumption, Init, TypeOK, Data, Labels

(* For any clients, files and faults, with or without a walker that keeps  *)
(* off the files in use, the variables keep their types.                   *)
THEOREM StoreTypeCorrect == Spec => []TypeOK
BY TypeInit, TypeNext, PTL DEF Spec
-----------------------------------------------------------------------------
(* The inodes that are given out are in their range.                       *)
LEMMA InodeRange ==
  ASSUME TypeOK, NEW f \in Files
  PROVE  /\ user[f] # 0 => user[f] \in Inodes
         /\ NewInode <= MaxInodes => NewInode \in Inodes
<1>1. user[f] \in Inodes \cup {0} /\ inodes \in Nat /\ MaxInodes \in Nat
  BY StoreAssumption DEF TypeOK, StoreAssumption
<1> QED
  BY <1>1 DEF NewInode, Inodes

(* Every step keeps the hash map to open descriptors.                      *)
LEMMA MapNext ==
  ASSUME TypeOK, MapOpen, [Next]_vars
  PROVE  MapOpen'
<1>1. ASSUME UNCHANGED proc
      PROVE  MapOpen'
  BY <1>1 DEF proc, MapOpen
<1>2. ASSUME NEW p \in Procs, Die(p)
      PROVE  MapOpen'
  BY <1>2 DEF TypeOK, MapOpen, Die
<1>3. ASSUME NEW p \in Procs, NEW d \in Free(p), NEW i \in Inodes,
             NEW r \in BOOLEAN, NEW w \in BOOLEAN, Install(p, d, i, r, w),
             \/ UNCHANGED h5fdmap
             \/ ~w /\ \E h \in H5 \cup {Absent} : add_dzfd(p, d, h)
      PROVE  MapOpen'
  <2>1. fd[p][d] = Closed /\ d \in Fds /\ h5fdmap[p][d] = Absent
    BY DEF Free, MapOpen
  <2>2. [ino |-> i, r |-> r, w |-> w] # Closed
    BY StoreAssumption DEF StoreAssumption, Ofd
  <2> QED
    BY <1>3, <2>1, <2>2 DEF Install, add_dzfd, TypeOK, MapOpen
<1>4. ASSUME NEW p \in Procs, NEW d \in Fds, dzfile_close(p, d)
      PROVE  MapOpen'
  BY <1>4 DEF dzfile_close, remove_dzfd, TypeOK, MapOpen
<1>5. ASSUME NEW p \in Procs, Client(p)
      PROVE  MapOpen'
  <2>1. CASE open_user(p)
    <3>1. CASE Die(p)
      BY <3>1, <1>2
    <3>2. ASSUME NEW d \in Free(p), user[file[p]] # 0,
                 Install(p, d, user[file[p]], TRUE, FALSE), add_dzfd(p, d, arg[p].h5)
          PROVE  MapOpen'
      <4>1. user[file[p]] \in Inodes /\ arg[p].h5 \in H5 \cup {Absent}
        BY <2>1, <3>2 DEF open_user, TypeOK
      <4> QED
        BY <3>2, <4>1, <1>3
    <3> QED
      BY <2>1, <3>1, <3>2 DEF open_user
  <2>2. CASE open_raw(p)
    <3>1. CASE UNCHANGED fd
      BY <2>2, <3>1, <1>1 DEF open_raw, proc
    <3>2. ASSUME NEW d \in Free(p), NEW i \in Inodes, NEW w \in BOOLEAN,
                 Install(p, d, i, TRUE, w)
          PROVE  MapOpen'
      BY <2>2, <3>2, <1>3 DEF open_raw
    <3>3. /\ user[file[p]] # 0 => user[file[p]] \in Inodes
          /\ NewInode <= MaxInodes => NewInode \in Inodes
      <4>1. file[p] \in Files
        BY <2>2 DEF open_raw, TypeOK
      <4> QED
        BY <4>1, InodeRange
    <3>4. (arg[p].flags # "r") \in BOOLEAN
      OBVIOUS
    <3> QED
      BY <2>2, <3>1, <3>2, <3>3, <3>4 DEF open_raw
  <2>3. CASE creat(p)
    <3>1. CASE UNCHANGED fd
      BY <2>3, <3>1, <1>1 DEF creat, proc
    <3>2. ASSUME NEW d \in Free(p), NEW i \in Inodes, Install(p, d, i, FALSE, TRUE)
          PROVE  MapOpen'
      BY <2>3, <3>2, <1>3 DEF creat
    <3> DEFINE i == IF user[file[p]] = 0 THEN NewInode ELSE user[file[p]]
    <3>3. i <= MaxInodes => i \in Inodes
      <4>1. file[p] \in Files
        BY <2>3 DEF creat, TypeOK
      <4> QED
        BY <4>1, InodeRange
    <3> QED
      BY <2>3, <3>1, <3>2, <3>3 DEF creat
  <2>4. CASE Kill(p)
    BY <2>4, <1>2 DEF Kill
  <2>5. CASE UNCHANGED proc
    BY <2>5, <1>1
  <2>6. ASSUME NEW d \in Fds, dzfile_close(p, d)
        PROVE  MapOpen'
    BY <2>6, <1>4
  <2>7. \/ UNCHANGED proc
        \/ open_user(p) \/ open_raw(p) \/ creat(p) \/ Kill(p)
        \/ \E d \in Fds : dzfile_close(p, d)
    BY <1>5
    DEF Client, dzfile_open, dzfile_creat, dzfile_unlink, dzfile_truncate,
        Call, dzfile_write, dzfile_writev, Write, dzfile_ftruncate, open_find,
        open_h5, open_lstat, fmt_entry_insert, add_filenum, creat_find,
        write_add, unlink_find, unlink_hid, unlink_sub, unlink_user,
        unlink_check, truncate_find, truncate
  <2> QED
    BY <2>1, <2>2, <2>3, <2>4, <2>5, <2>6, <2>7
<1>6. CASE Walker
  BY <1>6, <1>1
  DEF Walker, walker_read, walker_rename, walker_truncate, walker_close
<1>7. CASE UNCHANGED vars
  BY <1>7, <1>1 DEF vars, proc
<1> QED
  BY <1>5, <1>6, <1>7 DEF Next, Finished

(* The hash map is empty at the start.                                     *)
LEMMA MapInit == Init => MapOpen
BY DEF Init, MapOpen

(* For any clients and faults a descriptor number that is used again does  *)
(* not inherit the HDF5 file of the one before it.                         *)
THEOREM StoreMapOpen == Spec => []MapOpen
<1>1. Init => TypeOK /\ MapOpen
  BY TypeInit, MapInit
<1>2. TypeOK /\ MapOpen /\ [Next]_vars => (TypeOK /\ MapOpen)'
  BY TypeNext, MapNext
<1> QED
  BY <1>1, <1>2, PTL DEF Spec
-----------------------------------------------------------------------------
(* The half done inserts can be counted.                                   *)
LEMMA InsertingFinite ==
  IsFiniteSet(Inserting) /\ Cardinality(Inserting) \in Nat
BY StoreAssumption, FS_Subset, FS_CardinalityType
DEF StoreAssumption, Inserting

(* How many inserts are half done after p has gone to l.                   *)
LEMMA InsertingMoves ==
  ASSUME TypeOK, NEW p \in Procs, NEW l, pc' = [pc EXCEPT ![p] = l]
  PROVE  /\ (pc[p] = "add_filenum") <=> (l = "add_filenum")
              => Cardinality(Inserting') = Cardinality(Inserting)
         /\ pc[p] # "add_filenum" /\ l = "add_filenum"
              => Cardinality(Inserting') = Cardinality(Inserting) + 1
         /\ pc[p] = "add_filenum" /\ l # "add_filenum"
              => Cardinality(Inserting') = Cardinality(Inserting) - 1
<1>1. CASE (pc[p] = "add_filenum") <=> (l = "add_filenum")
  <2>1. Inserting' = Inserting
    BY <1>1 DEF TypeOK, Inserting
  <2> QED
    BY <1>1, <2>1
<1>2. CASE pc[p] # "add_filenum" /\ l = "add_filenum"
  <2>1. Inserting' = Inserting \cup {p} /\ p \notin Inserting
    BY <1>2 DEF TypeOK, Inserting
  <2> QED
    BY <1>2, <2>1, InsertingFinite, FS_AddElement
<1>3. CASE pc[p] = "add_filenum" /\ l # "add_filenum"
  <2>1. Inserting' = Inserting \ {p} /\ p \in Inserting
    BY <1>3 DEF TypeOK, Inserting
  <2> QED
    BY <1>3, <2>1, InsertingFinite, FS_RemoveElement
<1> QED
  BY <1>1, <1>2, <1>3

(* Every step keeps the rows and filenum together.                         *)
LEMMA RowsNext ==
  ASSUME TypeOK, FilenumRows, [Next]_vars
  PROVE  FilenumRows'
<1>0. /\ Cardinality(Inserting) \in Nat /\ space.filenum \in Int
      /\ faults \in Nat /\ rows \in Nat
  BY InsertingFinite, StoreAssumption DEF TypeOK, StoreAssumption
<1>1. ASSUME NEW p \in Procs, NEW l, pc[p] # "add_filenum", l # "add_filenum",
             pc' = [pc EXCEPT ![p] = l], UNCHANGED rows,
             space'.filenum = space.filenum, faults' \in {faults, faults + 1}
      PROVE  FilenumRows'
  <2>1. Cardinality(Inserting') = Cardinality(Inserting)
    BY <1>1, InsertingMoves
  <2> QED
    BY <1>0, <1>1, <2>1 DEF FilenumRows
<1>2. ASSUME UNCHANGED <<pc, rows, space, faults>>
      PROVE  FilenumRows'
  BY <1>2 DEF FilenumRows, Inserting
<1>3. ASSUME NEW p \in Procs, fmt_entry_insert(p)
      PROVE  FilenumRows'
  <2>1. CASE rows' = rows + 1 /\ Goto(p, "add_filenum") /\ UNCHANGED faults
    <3>1. /\ pc[p] # "add_filenum" /\ pc' = [pc EXCEPT ![p] = "add_filenum"]
          /\ UNCHANGED space
      BY <1>3, <2>1 DEF fmt_entry_insert, Goto
    <3>2. Cardinality(Inserting') = Cardinality(Inserting) + 1
      BY <3>1, InsertingMoves
    <3> QED
      BY <1>0, <2>1, <3>1, <3>2 DEF FilenumRows
  <2>2. CASE faults' = faults + 1 /\ Goto(p, After(p)) /\ UNCHANGED rows
    BY <1>1, <1>3, <2>2 DEF fmt_entry_insert, Goto, After
  <2> QED
    BY <1>3, <2>1, <2>2 DEF fmt_entry_insert
<1>4. ASSUME NEW p \in Procs, add_filenum(p)
      PROVE  FilenumRows'
  <2>0. pc[p] = "add_filenum" /\ UNCHANGED rows
        /\ After(p) # "add_filenum" /\ pc' = [pc EXCEPT ![p] = After(p)]
    BY <1>4 DEF add_filenum, Goto, After
  <2>1. UNCHANGED rows /\ Cardinality(Inserting') = Cardinality(Inserting) - 1
    BY <2>0, InsertingMoves
  <2>2. \/ space'.filenum = space.filenum + 1 /\ UNCHANGED faults
        \/ UNCHANGED space /\ faults' = faults + 1
    BY <1>4 DEF add_filenum, space_update, TypeOK
  <2> QED
    BY <1>0, <2>1, <2>2 DEF FilenumRows
<1>5. ASSUME NEW p \in Procs, Kill(p)
      PROVE  FilenumRows'
  <2>1. /\ pc' = [pc EXCEPT ![p] = "idle"] /\ faults' = faults + 1
        /\ UNCHANGED <<rows, space>>
    BY <1>5 DEF Kill, Die, Return, db
  <2>2. \/ Cardinality(Inserting') = Cardinality(Inserting)
        \/ Cardinality(Inserting') = Cardinality(Inserting) - 1
    <3>1. CASE pc[p] = "add_filenum"
      BY <2>1, <3>1, InsertingMoves
    <3>2. CASE pc[p] # "add_filenum"
      <4>1. (pc[p] = "add_filenum") <=> ("idle" = "add_filenum")
        BY <3>2
      <4> QED
        BY <2>1, <4>1, InsertingMoves
    <3> QED
      BY <3>1, <3>2
  <2> QED
    BY <1>0, <2>1, <2>2 DEF FilenumRows
<1>6. ASSUME NEW p \in Procs, NEW n \in Int, NEW field \in {"written", "disk"},
             space_update(field, n)
      PROVE  /\ space'.filenum = space.filenum
             /\ faults' \in {faults, faults + 1}
  BY <1>6 DEF space_update, TypeOK
<1>7. ASSUME NEW p \in Procs, Client(p), ~fmt_entry_insert(p),
             ~add_filenum(p), ~Kill(p)
      PROVE  FilenumRows'
  <2>1. CASE UNCHANGED db /\ UNCHANGED faults
    <3>1. \/ UNCHANGED pc
          \/ \E l \in Labels \ {"add_filenum"} :
               pc[p] # "add_filenum" /\ pc' = [pc EXCEPT ![p] = l]
      BY <1>7
      DEF Client, dzfile_open, dzfile_creat, dzfile_unlink, dzfile_truncate,
          Call, dzfile_write, dzfile_writev, Write, dzfile_ftruncate, open_find,
          open_h5, open_lstat, creat_find, open_user, open_raw, creat,
          write_add, unlink_find, unlink_hid, unlink_sub, unlink_user, Die,
          unlink_check, truncate_find, truncate, Goto, Return, Fail, Labels,
          dzfile_close, call
    <3> QED
      BY <2>1, <3>1, <1>1, <1>2 DEF db
  <2>2. CASE write_add(p) \/ unlink_sub(p) \/ unlink_check(p)
    <3>1. /\ UNCHANGED rows /\ pc[p] # "add_filenum"
          /\ \E l \in Labels \ {"add_filenum"} : pc' = [pc EXCEPT ![p] = l]
      BY <2>2
      DEF write_add, unlink_sub, unlink_check, Goto, Return, Labels
    <3>2. space'.filenum = space.filenum /\ faults' \in {faults, faults + 1}
      BY <2>2, <1>6 DEF write_add, unlink_sub, unlink_check
    <3> QED
      BY <3>1, <3>2, <1>1
  <2>3. UNCHANGED <<db, faults>> \/ write_add(p) \/ unlink_sub(p) \/ unlink_check(p)
    BY <1>7
    DEF Client, dzfile_open, dzfile_creat, dzfile_unlink, dzfile_truncate,
        Call, dzfile_write, dzfile_writev, Write, dzfile_ftruncate, open_find,
        open_h5, open_lstat, creat_find, open_user, open_raw, creat,
        unlink_find, unlink_hid, unlink_user, truncate_find, truncate,
        dzfile_close
  <2> QED
    BY <2>1, <2>2, <2>3 DEF db
<1>8. CASE Walker
  BY <1>8, <1>2
  DEF Walker, walker_read, walker_rename, walker_truncate, walker_close, db, call
<1>9. CASE UNCHANGED vars
  BY <1>9, <1>2 DEF vars
<1> QED
  BY <1>3, <1>4, <1>5, <1>7, <1>8, <1>9 DEF Next, Finished

(* filenum and the rows of filemeta differ by no more than the inserts in  *)
(* progress and the failures, for any number of clients and files.         *)
THEOREM StoreFilenumRows == Spec => []FilenumRows
<1>1. Init => FilenumRows
  <2> SUFFICES ASSUME Init PROVE FilenumRows
    OBVIOUS
  <2>1. Inserting = {}
    BY DEF Init, Inserting
  <2> QED
    BY <2>1, FS_EmptySet DEF Init, FilenumRows
<1>2. TypeOK /\ FilenumRows /\ [Next]_vars => FilenumRows'
  BY RowsNext
<1> QED
  BY <1>1, <1>2, StoreTypeCorrect, PTL DEF Spec
-----------------------------------------------------------------------------
(* What a step of a call leaves of CallInv.                                *)
LEMMA CallMoves ==
  ASSUME StoreInv, NEW p \in Procs, UNCHANGED <<hid, wfile, cut>>,
         \A i \in missed : i \in missed'
  PROVE  /\ Return(p) => CallInv'
         /\ \A l : l \notin NotFound \cup MayMiss \cup {"open_user"}
                  /\ Goto(p, l) => CallInv'
         /\ \A l : l # "open_user" /\ hid[file[p]] = Absent /\ Goto(p, l) => CallInv'
         /\ \A l \in MayMiss : Unseen(file[p])' /\ UNCHANGED file /\ Goto(p, l) => CallInv'
<1> USE DEF StoreInv, TypeOK, CallInv, Unseen
<1>0. \A i \in Broken : i \in Broken'
  BY DEF Broken
<1>1. CASE Return(p)
  BY <1>0, <1>1 DEF Return, NotFound, MayMiss
<1>2. ASSUME NEW l, l \notin NotFound \cup MayMiss \cup {"open_user"}, Goto(p, l)
      PROVE  CallInv'
  BY <1>0, <1>2 DEF Goto
<1>3. ASSUME NEW l, l # "open_user", hid[file[p]] = Absent, Goto(p, l)
      PROVE  CallInv'
  BY <1>0, <1>3 DEF Goto
<1>4. ASSUME NEW l \in MayMiss, Unseen(file[p])', UNCHANGED file, Goto(p, l)
      PROVE  CallInv'
  BY <1>0, <1>4 DEF Goto, MayMiss, NotFound
<1> QED
  BY <1>1, <1>2, <1>3, <1>4

(* What calls know stays true when neither they nor the hidden files       *)
(* change.                                                                 *)
LEMMA CallSame ==
  ASSUME CallInv, UNCHANGED <<pc, file, arg, hid, wfile, marks>>
  PROVE  CallInv'
BY DEF CallInv, Unseen, Broken, marks

(* What is on the disk stays well formed when nothing of it changes.       *)
LEMMA DiskSame ==
  ASSUME DiskInv, UNCHANGED <<disk, proc, walker, ghosts>>
  PROVE  DiskInv'
BY DEF DiskInv, InodeInv, HiddenInv, WalkerInv, DataInv, MapInv, Broken, disk,
       proc, walker, ghosts

(* Descriptors are closed, with their entries in the hash map.             *)
LEMMA DiskClosed ==
  ASSUME StoreInv, UNCHANGED <<disk, walker, ghosts>>,
         \A q \in Procs, e \in Fds :
           \/ fd'[q][e] = fd[q][e] /\ h5fdmap'[q][e] = h5fdmap[q][e]
           \/ fd'[q][e] = Closed /\ h5fdmap'[q][e] = Absent
  PROVE  DiskInv'
<1> USE DEF StoreInv, DiskInv, disk, walker, ghosts, Broken
<1>1. InodeInv'
  BY DEF InodeInv
<1>2. HiddenInv'
  BY DEF HiddenInv
<1>3. WalkerInv'
  BY DEF WalkerInv
<1>4. DataInv'
  BY DEF DataInv
<1>5. MapInv'
  BY DEF MapInv
<1> QED
  BY <1>1, <1>2, <1>3, <1>4, <1>5

(* An inode is written that no sound hidden file was made of, and that the *)
(* walker is not at.                                                       *)
LEMMA DiskWritten ==
  ASSUME StoreInv, NEW i \in Inodes, NEW v,
         idata' = [idata EXCEPT ![i] = v], itruth' = [itruth EXCEPT ![i] = v],
         \A f \in Files : hid[f] # Absent /\ user[f] = i => i \in Broken,
         wpc # "idle" => user[wfile] # i,
         UNCHANGED <<user, hid, inodes, proc, walker, marks>>
  PROVE  DiskInv'
<1> USE DEF StoreInv, DiskInv, proc, walker, marks
<1>0. Broken' = Broken
  BY DEF Broken
<1>1. InodeInv'
  BY <1>0 DEF InodeInv
<1>2. HiddenInv'
  BY <1>0 DEF TypeOK, HiddenInv
<1>3. WalkerInv'
  BY <1>0 DEF TypeOK, WalkerInv
<1>4. DataInv'
  BY <1>0 DEF TypeOK, DataInv
<1>5. MapInv'
  BY <1>0 DEF MapInv
<1> QED
  BY <1>1, <1>2, <1>3, <1>4, <1>5

(* A file without a hidden file is opened, and created if it is missing.   *)
LEMMA DiskOpened ==
  ASSUME StoreInv, NEW p \in Procs, NEW f \in Files, NEW d \in Free(p),
         NEW i \in Inodes, NEW r \in BOOLEAN, NEW w \in BOOLEAN,
         Install(p, d, i, r, w),
         hid[f] = Absent, f # wfile,
         \/ user[f] = i /\ UNCHANGED inodes
         \/ user[f] = 0 /\ i = NewInode /\ inodes' = i,
         user' = [user EXCEPT ![f] = i],
         \/ UNCHANGED <<idata, itruth>>
         \/ /\ idata' = [idata EXCEPT ![i] = Empty]
            /\ itruth' = [itruth EXCEPT ![i] = Empty],
         UNCHANGED <<hid, h5fdmap, walker, marks>>
  PROVE  DiskInv'
<1> USE DEF StoreInv, DiskInv, walker, marks
<1>0. Broken' = Broken
  BY DEF Broken
<1>1. /\ d \in Fds /\ fd[p][d] = Closed /\ h5fdmap[p][d] = Absent
      /\ inodes \in Nat /\ i \in Nat /\ i > 0 /\ i <= inodes' /\ inodes <= inodes'
  BY StoreAssumption
  DEF Free, MapOpen, StoreAssumption, TypeOK, NewInode, Inodes, InodeInv
<1>2. \A g \in Files : user[g] \in Nat
  BY StoreAssumption DEF StoreAssumption, TypeOK, Inodes
<1>3. \A q \in Procs, e \in Fds :
        fd'[q][e] = IF q = p /\ e = d THEN [ino |-> i, r |-> r, w |-> w] ELSE fd[q][e]
  BY <1>1 DEF Install, TypeOK
<1>4. \A g \in Files : g # f => user'[g] = user[g] /\ user[g] # i
  BY <1>1, <1>2 DEF TypeOK, InodeInv, NewInode
<1>5. user'[f] = i
  BY DEF TypeOK
<1>6. InodeInv'
  <2>1. \A g \in Files : user'[g] <= inodes'
    BY <1>1, <1>2, <1>4, <1>5 DEF InodeInv
  <2>2. \A g, h \in Files : user'[g] = user'[h] /\ user'[g] # 0 => g = h
    BY <1>4, <1>5 DEF InodeInv
  <2>3. ASSUME NEW q \in Procs, NEW e \in Fds, fd'[q][e] # Closed
        PROVE  fd'[q][e].ino <= inodes'
    <3>1. CASE q = p /\ e = d
      BY <1>1, <1>3, <3>1
    <3>2. CASE ~(q = p /\ e = d)
      <4>1. fd[q][e].ino \in Nat /\ fd[q][e].ino <= inodes
        BY <1>3, <2>3, <3>2 DEF TypeOK, Ofd, Inodes, InodeInv
      <4> QED
        BY <1>1, <1>3, <3>2, <4>1
    <3> QED
      BY <3>1, <3>2
  <2>4. \A j \in Broken' : j <= inodes'
    BY <1>0, <1>1 DEF TypeOK, Inodes, InodeInv, Broken
  <2>5. ASSUME NEW q \in Procs, NEW e \in Fds, h5fdmap[q][e] # Absent
        PROVE  h5fdmap[q][e].of <= inodes'
    <3>1. h5fdmap[q][e].of \in Nat /\ h5fdmap[q][e].of <= inodes
      BY <2>5 DEF TypeOK, H5, Inodes, InodeInv
    <3> QED
      BY <1>1, <3>1
  <2> QED
    BY <2>1, <2>2, <2>3, <2>4, <2>5 DEF InodeInv
<1>7. HiddenInv'
  <2> SUFFICES ASSUME NEW g \in Files, hid[g] # Absent
               PROVE  /\ user'[g] # 0 \/ hid[g].of \in missed
                      /\ user'[g] # 0 => hid[g].of = user'[g]
                      /\ user'[g] # 0 /\ user'[g] \notin Broken =>
                           /\ hid[g].data = itruth'[user'[g]]
                           /\ \A q \in Procs, e \in Fds :
                                fd'[q][e] # Closed /\ fd'[q][e].ino = user'[g]
                                  => h5fdmap[q][e] # Absent
    BY <1>0 DEF HiddenInv
  <2>1. g # f
    OBVIOUS
  <2>2. user[g] # 0 => itruth'[user[g]] = itruth[user[g]]
    <3>1. user[g] # 0 => user[g] \in Inodes
      BY DEF TypeOK, HiddenInv
    <3> QED
      BY <1>4, <2>1, <3>1 DEF TypeOK
  <2> QED
    BY <1>3, <1>4, <2>1, <2>2 DEF HiddenInv
<1>8. WalkerInv'
  <2>1. CASE wpc = "idle"
    BY <2>1 DEF WalkerInv
  <2>2. CASE wpc # "idle"
    <3>1. wfile \in Files /\ wfile # f
      BY <2>2 DEF WalkerInv, TypeOK
    <3>2. itruth'[user[wfile]] = itruth[user[wfile]]
      <4>1. user[wfile] \in Inodes
        BY <2>2, <3>1 DEF TypeOK, WalkerInv
      <4> QED
        BY <1>4, <3>1, <4>1 DEF TypeOK
    <3> QED
      BY <1>0, <1>3, <1>4, <2>2, <3>1, <3>2 DEF WalkerInv
  <2> QED
    BY <2>1, <2>2
<1>9. DataInv'
  BY <1>0, <1>4 DEF DataInv, TypeOK
<1>10. MapInv'
  BY <1>0, <1>1, <1>3 DEF MapInv
<1> QED
  BY <1>6, <1>7, <1>8, <1>9, <1>10

(* The hidden file and then the user file are opened.                      *)
LEMMA DiskOpenUser ==
  ASSUME StoreInv, NEW p \in Procs, open_user(p), NEW d \in Free(p),
         user[file[p]] # 0, Install(p, d, user[file[p]], TRUE, FALSE),
         add_dzfd(p, d, arg[p].h5)
  PROVE  DiskInv'
<1> USE DEF StoreInv, DiskInv, open_user, disk, walker, ghosts
<1>0. Broken' = Broken
  BY DEF Broken
<1>1. /\ d \in Fds /\ file[p] \in Files
      /\ arg[p].h5 \in H5
      /\ arg[p].h5.of \notin Broken => hid[file[p]] = arg[p].h5
  BY DEF Free, TypeOK, CallInv
<1>2. /\ \A q \in Procs, e \in Fds :
           fd'[q][e] = IF q = p /\ e = d THEN [ino |-> user[file[p]], r |-> TRUE, w |-> FALSE]
                       ELSE fd[q][e]
      /\ \A q \in Procs, e \in Fds :
           h5fdmap'[q][e] = IF q = p /\ e = d THEN arg[p].h5 ELSE h5fdmap[q][e]
  BY <1>1 DEF Install, add_dzfd, TypeOK
<1>3. arg[p].h5 # Absent
  BY <1>1, StoreAssumption DEF StoreAssumption
<1>4. wpc # "idle" => user[wfile] # user[file[p]]
  BY <1>1, StoreAssumption
  DEF WalkerInv, CallInv, InodeInv, TypeOK, StoreAssumption
<1>5. HiddenInv'
  BY <1>0, <1>1, <1>2, <1>3 DEF HiddenInv
<1>6. WalkerInv'
  BY <1>0, <1>2, <1>4 DEF WalkerInv
<1>7. DataInv'
  BY <1>0 DEF DataInv
<1>8. MapInv'
  BY <1>0, <1>1, <1>2, <1>3 DEF MapInv, HiddenInv
<1>9. InodeInv'
  <2>1. ASSUME NEW j \in Broken
        PROVE  j <= inodes
    BY <2>1 DEF InodeInv
  <2>2. arg[p].h5.of <= inodes
    <3>1. CASE arg[p].h5.of \in Broken
      BY <2>1, <3>1
    <3>2. CASE arg[p].h5.of \notin Broken
      <4>1. arg[p].h5.of = user[file[p]]
        BY <1>1, <1>3, <3>2 DEF HiddenInv
      <4> QED
        BY <1>1, <4>1 DEF InodeInv
    <3> QED
      BY <3>1, <3>2
  <2> QED
    BY <1>0, <1>1, <1>2, <2>2 DEF InodeInv
<1> QED
  BY <1>5, <1>6, <1>7, <1>8, <1>9

(* dzfile_unlink removes the hidden file.                                  *)
LEMMA DiskUnlinkHid ==
  ASSUME StoreInv, NEW p \in Procs, unlink_hid(p), hid[file[p]] # Absent,
         hid' = [hid EXCEPT ![file[p]] = Absent],
         cut' = cut \cup {hid[file[p]].of}
  PROVE  DiskInv'
<1> USE DEF StoreInv, DiskInv, unlink_hid, proc, walker
<1> DEFINE f == file[p]
<1>1. f \in Files /\ f # wfile
  BY StoreAssumption DEF TypeOK, CallInv, StoreAssumption
<1>2. \A g \in Files : hid'[g] = IF g = f THEN Absent ELSE hid[g]
  BY <1>1 DEF TypeOK
<1>3. /\ \A i \in Broken : i \in Broken'
      /\ \A i \in Broken' : i \in Broken \/ i = user[f]
      /\ hid[f].of \in Broken'
  BY <1>1 DEF Broken, HiddenInv
<1>4. user[f] # 0 => user[f] \in Broken'
  BY <1>1, <1>3 DEF HiddenInv
<1>5. InodeInv'
  BY <1>1, <1>3 DEF InodeInv
<1>6. HiddenInv'
  BY <1>2, <1>3 DEF HiddenInv
<1>7. WalkerInv'
  <2>1. CASE wpc = "idle"
    BY <2>1 DEF WalkerInv
  <2>2. CASE wpc # "idle"
    <3>1. wfile \in Files
      BY <2>2 DEF WalkerInv, TypeOK
    <3> QED
      BY <1>1, <1>2, <1>3, <2>2, <3>1 DEF WalkerInv
  <2> QED
    BY <2>1, <2>2
<1>8. DataInv'
  <2> SUFFICES ASSUME NEW i \in Inodes \ Broken', idata[i] # itruth[i]
               PROVE  \E g \in Files : hid'[g] # Absent /\ user[g] = i
    BY DEF DataInv
  <2>1. PICK g \in Files : hid[g] # Absent /\ user[g] = i
    BY <1>3 DEF DataInv
  <2>2. g # f
    BY <1>4, <2>1 DEF Inodes
  <2> QED
    BY <1>2, <2>1, <2>2
<1>9. MapInv'
  <2> SUFFICES ASSUME NEW q \in Procs, NEW e \in Fds, h5fdmap[q][e] # Absent,
                      h5fdmap[q][e].of \notin Broken'
               PROVE  /\ fd[q][e].ino = h5fdmap[q][e].of
                      /\ \E g \in Files : hid'[g] = h5fdmap[q][e]
    BY DEF MapInv
  <2>1. PICK g \in Files : hid[g] = h5fdmap[q][e]
    BY <1>3 DEF MapInv
  <2>2. g # f
    BY <1>3, <2>1
  <2> QED
    BY <1>2, <1>3, <2>1, <2>2 DEF MapInv
<1> QED
  BY <1>5, <1>6, <1>7, <1>8, <1>9

(* dzfile_unlink removes the user file.                                    *)
LEMMA DiskUnlinkUser ==
  ASSUME StoreInv, NEW p \in Procs, unlink_user(p),
         user' = [user EXCEPT ![file[p]] = 0]
  PROVE  DiskInv'
<1> USE DEF StoreInv, DiskInv, unlink_user, proc, walker, ghosts
<1> DEFINE f == file[p]
<1>0. Broken' = Broken /\ missed' = missed
  BY DEF Broken
<1>1. f \in Files /\ f # wfile /\ Unseen(f)
  BY StoreAssumption DEF TypeOK, CallInv, MayMiss, StoreAssumption
<1>2. \A g \in Files : user'[g] = IF g = f THEN 0 ELSE user[g]
  BY <1>1 DEF TypeOK
<1>3. InodeInv'
  <2>1. 0 <= inodes
    BY StoreAssumption DEF TypeOK, StoreAssumption
  <2> QED
    BY <1>0, <1>1, <1>2, <2>1 DEF InodeInv
<1>4. HiddenInv'
  BY <1>0, <1>1, <1>2 DEF HiddenInv, Unseen
<1>5. WalkerInv'
  <2>1. CASE wpc = "idle"
    BY <2>1 DEF WalkerInv
  <2>2. CASE wpc # "idle"
    <3>1. wfile \in Files
      BY <2>2 DEF WalkerInv, TypeOK
    <3> QED
      BY <1>0, <1>1, <1>2, <2>2, <3>1 DEF WalkerInv
  <2> QED
    BY <2>1, <2>2
<1>6. DataInv'
  <2> SUFFICES ASSUME NEW i \in Inodes \ Broken, idata[i] # itruth[i]
               PROVE  \E g \in Files : hid[g] # Absent /\ user'[g] = i
    BY <1>0 DEF DataInv
  <2>1. PICK g \in Files : hid[g] # Absent /\ user[g] = i
    BY DEF DataInv
  <2>2. i # 0
    BY DEF Inodes
  <2>3. g # f
    BY <2>1, <2>2, <1>1 DEF HiddenInv, Unseen, Broken
  <2> QED
    BY <1>2, <2>1, <2>3
<1>7. MapInv'
  BY <1>0 DEF MapInv
<1> QED
  BY <1>3, <1>4, <1>5, <1>6, <1>7
-----------------------------------------------------------------------------
(* The walker takes a file that nobody uses.                               *)
LEMMA DiskWalkerRead ==
  ASSUME StoreInv, Exclusive, NEW f \in Files, walker_read(f)
  PROVE  CallInv' /\ DiskInv'
<1> USE DEF StoreInv, DiskInv, walker_read, disk, proc, call, ghosts
<1>1. /\ f # NoFile
      /\ \A p \in Procs : file[p] # f
      /\ \A p \in Procs, d \in Fds : fd[p][d] # Closed => fd[p][d].ino # user[f]
  BY StoreAssumption DEF InUse, StoreAssumption
<1>2. user[f] \in Inodes /\ idata[user[f]] \in Data
  BY DEF TypeOK
<1>3. wsnap' \in H5 /\ wsnap'.of = user[f] /\ wsnap'.data = idata[user[f]]
  BY <1>2 DEF H5
<1>0. /\ \A i \in missed : i \in missed'
      /\ \A i \in Broken : i \in Broken'
      /\ \A i \in Broken' : i \in Broken \/ i = user[f]
      /\ hid[f] = Absent \/ user[f] \in Broken'
  BY DEF Miss, Broken, HiddenInv
<1>4. user[f] \notin Broken' => idata[user[f]] = itruth[user[f]]
  <2>1. user[f] \notin Broken' =>
          \A g \in Files : hid[g] # Absent => user[g] # user[f]
    BY <1>0 DEF InodeInv
  <2> QED
    BY <1>0, <1>2, <2>1 DEF DataInv
<1>5. CallInv'
  BY <1>0, <1>1 DEF CallInv, Unseen
<1>6. WalkerInv'
  BY <1>0, <1>1, <1>3, <1>4, StoreAssumption DEF WalkerInv, StoreAssumption
<1>7. InodeInv' /\ HiddenInv' /\ DataInv' /\ MapInv'
  BY <1>0 DEF InodeInv, HiddenInv, DataInv, MapInv
<1> QED
  BY <1>5, <1>6, <1>7

(* The walker publishes the hidden file.                                   *)
LEMMA DiskWalkerRename ==
  ASSUME StoreInv, walker_rename
  PROVE  CallInv' /\ DiskInv'
<1> USE DEF StoreInv, DiskInv, walker_rename, proc, call, ghosts
<1>1. /\ wpc # "idle" /\ wfile # NoFile /\ wfile \in Files
      /\ hid[wfile] = Absent \/ user[wfile] \in Broken
      /\ wsnap # Absent /\ wsnap.of = user[wfile] /\ Broken' = Broken
  BY DEF WalkerInv, TypeOK, Broken
<1>2. \A g \in Files : hid'[g] = IF g = wfile THEN wsnap ELSE hid[g]
  BY <1>1 DEF TypeOK
<1>3. CallInv'
  <2> SUFFICES ASSUME NEW p \in Procs
               PROVE  /\ file[p] # NoFile => file[p] # wfile
                      /\ pc[p] \in NotFound => hid'[file[p]] = Absent
                      /\ pc[p] \in MayMiss => Unseen(file[p])'
                      /\ pc[p] = "open_user" =>
                           /\ arg[p].h5 # Absent
                           /\ arg[p].h5.of \notin Broken => hid'[file[p]] = arg[p].h5
    BY <1>1 DEF CallInv
  <2>1. pc[p] \in NotFound \cup MayMiss \cup {"open_user"}
          => file[p] \in Files /\ file[p] # wfile
    BY DEF NotFound, MayMiss, TypeOK, CallInv
  <2> QED
    BY <1>2, <2>1 DEF CallInv, Unseen
<1>4. InodeInv'
  BY <1>1 DEF InodeInv
<1>5. HiddenInv'
  BY <1>1, <1>2 DEF HiddenInv, WalkerInv
<1>6. WalkerInv'
  BY <1>1, <1>2 DEF WalkerInv
<1>7. DataInv'
  BY <1>1, <1>2 DEF DataInv
<1>8. MapInv'
  <2> SUFFICES ASSUME NEW q \in Procs, NEW e \in Fds, h5fdmap[q][e] # Absent,
                      h5fdmap[q][e].of \notin Broken
               PROVE  /\ fd[q][e].ino = h5fdmap[q][e].of
                      /\ \E g \in Files : hid'[g] = h5fdmap[q][e]
    BY <1>1 DEF MapInv
  <2>1. PICK g \in Files : hid[g] = h5fdmap[q][e]
    BY DEF MapInv
  <2>2. g # wfile
    BY <1>1, <2>1 DEF HiddenInv, WalkerInv
  <2> QED
    BY <1>1, <1>2, <2>1, <2>2 DEF MapInv
<1> QED
  BY <1>3, <1>4, <1>5, <1>6, <1>7, <1>8

(* The user file is punched after the hidden file has got its name.        *)
LEMMA DiskWalkerTruncate ==
  ASSUME StoreInv, walker_truncate
  PROVE  CallInv' /\ DiskInv'
<1> USE DEF StoreInv, DiskInv, walker_truncate, proc, call, ghosts, Broken
<1>1. wfile \in Files /\ hid[wfile] # Absent
  BY DEF WalkerInv, TypeOK
<1>2. \A i \in Inodes : i # user[wfile] => idata'[i] = idata[i]
  BY DEF TypeOK
<1>3. CallInv'
  BY DEF CallInv, Unseen
<1>4. InodeInv' /\ HiddenInv' /\ MapInv'
  BY DEF InodeInv, HiddenInv, MapInv
<1>5. WalkerInv'
  BY DEF WalkerInv
<1>6. DataInv'
  BY <1>1, <1>2 DEF DataInv
<1> QED
  BY <1>3, <1>4, <1>5, <1>6

(* The walker is done with the file.                                       *)
LEMMA DiskWalkerClose ==
  ASSUME StoreInv, walker_close
  PROVE  CallInv' /\ DiskInv'
<1> USE DEF StoreInv, DiskInv, walker_close, disk, proc, call, ghosts, Broken
<1>1. CallInv'
  BY DEF CallInv, Unseen
<1>2. InodeInv' /\ HiddenInv' /\ WalkerInv' /\ DataInv' /\ MapInv'
  BY DEF InodeInv, HiddenInv, WalkerInv, DataInv, MapInv
<1> QED
  BY <1>1, <1>2
-----------------------------------------------------------------------------
(* The calls, when dzfile_unlink removes the hidden file.                  *)
LEMMA CallUnlinkHid ==
  ASSUME StoreInv, NEW p \in Procs, unlink_hid(p), hid[file[p]] # Absent,
         hid' = [hid EXCEPT ![file[p]] = Absent], Goto(p, "unlink_sub"),
         cut' = cut \cup {hid[file[p]].of}
  PROVE  CallInv'
<1> USE DEF StoreInv
<1>1. /\ file[p] \in Files /\ UNCHANGED <<wfile, missed>>
      /\ \A i \in Broken : i \in Broken'
      /\ hid[file[p]].of \in Broken'
  BY DEF unlink_hid, TypeOK, walker, Broken
<1> SUFFICES ASSUME NEW q \in Procs
             PROVE  /\ file'[q] # NoFile => file'[q] # wfile
                    /\ pc'[q] \in NotFound => hid'[file'[q]] = Absent
                    /\ pc'[q] \in MayMiss => Unseen(file[q])'
                    /\ pc'[q] = "open_user" =>
                         /\ arg'[q].h5 # Absent
                         /\ arg'[q].h5.of \notin Broken' => hid'[file'[q]] = arg'[q].h5
  BY DEF CallInv, unlink_hid, walker
<1>2. \A g \in Files : hid'[g] = IF g = file[p] THEN Absent ELSE hid[g]
  BY <1>1 DEF unlink_hid, TypeOK
<1>3. CASE q = p
  BY <1>1, <1>2, <1>3 DEF Goto, TypeOK, CallInv, NotFound, MayMiss
<1>4. CASE q # p
  <2>1. pc'[q] = pc[q] /\ file'[q] = file[q] /\ arg'[q] = arg[q]
    BY <1>4 DEF Goto, TypeOK
  <2>2. CASE pc[q] \in NotFound \cup MayMiss
    BY <1>1, <1>2, <2>1, <2>2 DEF CallInv, NotFound, MayMiss, Unseen, TypeOK
  <2>3. CASE pc[q] = "open_user"
    <3>1. file[q] \in Files /\ arg[q].h5 # Absent /\ file[q] # wfile
      BY <2>3 DEF TypeOK, CallInv
    <3>2. ASSUME arg[q].h5.of \notin Broken'
          PROVE  hid'[file[q]] = arg[q].h5
      <4>1. hid[file[q]] = arg[q].h5
        BY <1>1, <2>3, <3>2 DEF CallInv
      <4>2. file[q] # file[p]
        BY <1>1, <3>2, <4>1
      <4> QED
        BY <1>2, <3>1, <4>1, <4>2
    <3> QED
      BY <2>1, <2>3, <3>1, <3>2 DEF NotFound, MayMiss
  <2>4. CASE pc[q] \notin NotFound \cup MayMiss \cup {"open_user"}
    BY <2>1, <2>4 DEF CallInv
  <2> QED
    BY <2>2, <2>3, <2>4
<1> QED
  BY <1>3, <1>4

(* The calls, when dzfile_open has opened the hidden file.                 *)
LEMMA CallOpenH5 ==
  ASSUME StoreInv, NEW p \in Procs, open_h5(p)
  PROVE  CallInv'
<1> USE DEF StoreInv, open_h5, disk, walker, ghosts
<1>1. CASE Return(p)
  BY <1>1, CallMoves
<1>2. CASE /\ hid[file[p]] # Absent
           /\ pc' = [pc EXCEPT ![p] = "open_user"]
           /\ arg' = [arg EXCEPT ![p].h5 = hid[file[p]]]
           /\ UNCHANGED file
  BY <1>2 DEF CallInv, TypeOK, NotFound, MayMiss, Unseen, Broken
<1> QED
  BY <1>1, <1>2 DEF Fail

(* No descriptor that may write is on an inode with a sound hidden file,   *)
(* or on the walker's.                                                     *)
LEMMA Writable ==
  ASSUME StoreInv, NEW p \in Procs, NEW d \in Fds,
         fd[p][d] # Closed, fd[p][d].w
  PROVE  /\ fd[p][d].ino \in Inodes
         /\ \A f \in Files :
              hid[f] # Absent /\ user[f] = fd[p][d].ino => fd[p][d].ino \in Broken
         /\ wpc # "idle" => user[wfile] # fd[p][d].ino
<1>1. fd[p][d].ino \in Inodes /\ fd[p][d].ino # 0
  BY DEF StoreInv, TypeOK, Ofd, Inodes
<1> QED
  BY <1>1 DEF StoreInv, DiskInv, MapOpen, HiddenInv, WalkerInv

(* A client opens a file with open(2).                                     *)
LEMMA StepOpenRaw ==
  ASSUME StoreInv, NEW p \in Procs, open_raw(p)
  PROVE  CallInv' /\ DiskInv'
<1> DEFINE f == file[p]
           w == arg[p].flags # "r"
<1>1. f \in Files /\ f # wfile /\ hid[f] = Absent /\ w \in BOOLEAN
  BY DEF open_raw, StoreInv, TypeOK, CallInv, NotFound
<1>2. CallInv'
  BY CallMoves DEF open_raw, walker, ghosts
<1>3. UNCHANGED <<idata, itruth, hid, h5fdmap, walker, marks>>
  BY DEF open_raw, ghosts, marks
<1>4. ASSUME user[f] # 0, NEW d \in Free(p), Install(p, d, user[f], TRUE, w),
             UNCHANGED <<user, inodes>>
      PROVE  DiskInv'
  <2>1. user[f] \in Inodes /\ user' = [user EXCEPT ![f] = user[f]]
    BY <1>1, <1>4 DEF StoreInv, TypeOK
  <2> QED
    BY <1>1, <1>3, <1>4, <2>1, DiskOpened
<1>5. ASSUME user[f] = 0, NewInode <= MaxInodes, NEW d \in Free(p),
             Install(p, d, NewInode, TRUE, w),
             user' = [user EXCEPT ![f] = NewInode], inodes' = NewInode
      PROVE  DiskInv'
  <2>1. NewInode \in Inodes
    BY <1>5, StoreAssumption
    DEF StoreAssumption, StoreInv, TypeOK, NewInode, Inodes
  <2> QED
    BY <1>1, <1>3, <1>5, <2>1, DiskOpened
<1>6. CASE UNCHANGED <<user, fd, inodes>>
  BY <1>2, <1>3, <1>6, DiskSame DEF StoreInv, disk, proc, ghosts, marks
<1> QED
  BY <1>2, <1>4, <1>5, <1>6 DEF open_raw

(* dzfile_open creates a file.                                             *)
LEMMA StepCreat ==
  ASSUME StoreInv, NEW p \in Procs, creat(p)
  PROVE  CallInv' /\ DiskInv'
<1> DEFINE f == file[p]
           i == IF user[f] = 0 THEN NewInode ELSE user[f]
<1>1. f \in Files /\ f # wfile /\ hid[f] = Absent
  BY DEF creat, StoreInv, TypeOK, CallInv, NotFound
<1>2. CallInv'
  BY CallMoves DEF creat, walker, marks
<1>3. UNCHANGED <<hid, h5fdmap, walker, marks>>
  BY DEF creat
<1>4. ASSUME i <= MaxInodes, NEW d \in Free(p), Install(p, d, i, FALSE, TRUE),
             user' = [user EXCEPT ![f] = i],
             idata' = [idata EXCEPT ![i] = Empty],
             itruth' = [itruth EXCEPT ![i] = Empty],
             inodes' = IF user[f] = 0 THEN NewInode ELSE inodes
      PROVE  DiskInv'
  <2>1. i \in Inodes
    BY <1>1, <1>4, StoreAssumption
    DEF StoreAssumption, StoreInv, TypeOK, NewInode, Inodes
  <2>2. \/ user[f] = i /\ UNCHANGED inodes
        \/ user[f] = 0 /\ i = NewInode /\ inodes' = i
    BY <1>4
  <2> HIDE DEF i
  <2> QED
    BY <1>1, <1>3, <1>4, <2>1, <2>2, DiskOpened
<1>5. CASE UNCHANGED <<user, fd, idata, itruth, inodes>>
  BY <1>2, <1>3, <1>5, DiskSame DEF StoreInv, disk, proc, ghosts, marks
<1> QED
  BY <1>2, <1>4, <1>5 DEF creat

(* A process ends, and its descriptors with it.                            *)
LEMMA StepDie ==
  ASSUME StoreInv, NEW p \in Procs, Die(p), UNCHANGED <<disk, walker, ghosts>>
  PROVE  CallInv' /\ DiskInv'
<1>1. CallInv'
  BY CallMoves DEF Die, disk, walker, ghosts
<1>2. DiskInv'
  BY DiskClosed DEF Die, StoreInv, TypeOK
<1> QED
  BY <1>1, <1>2

(* dzfile_open opens the user file.                                        *)
LEMMA StepOpenUser ==
  ASSUME StoreInv, NEW p \in Procs, open_user(p)
  PROVE  CallInv' /\ DiskInv'
<1>1. CASE Die(p)
  BY <1>1, StepDie DEF open_user
<1>2. ASSUME user[file[p]] # 0, NEW d \in Free(p),
             Install(p, d, user[file[p]], TRUE, FALSE), add_dzfd(p, d, arg[p].h5),
             Return(p)
      PROVE  CallInv' /\ DiskInv'
  BY <1>2, CallMoves, DiskOpenUser DEF open_user, disk, walker, ghosts
<1> QED
  BY <1>1, <1>2 DEF open_user

(* The steps that change the content of a file.                            *)
LEMMA StepWrites ==
  ASSUME StoreInv, NEW p \in Procs,
         \/ truncate(p)
         \/ \E d \in Fds :
              \/ dzfile_ftruncate(p, d)
              \/ \E v \in Values, l \in {"write_add", "writev_add"} : Write(p, d, v, l)
  PROVE  CallInv' /\ DiskInv'
<1>1. CASE truncate(p)
  <2>1. /\ file[p] \in Files /\ file[p] # wfile /\ Unseen(file[p])
    BY <1>1 DEF truncate, StoreInv, TypeOK, CallInv, MayMiss
  <2>2. CallInv'
    BY <1>1, CallMoves DEF truncate, walker, marks
  <2>3. CASE UNCHANGED <<idata, itruth>>
    BY <1>1, <2>2, <2>3, DiskSame DEF truncate, disk, ghosts, marks, StoreInv
  <2>4. CASE /\ user[file[p]] # 0
             /\ idata' = [idata EXCEPT ![user[file[p]]] = Empty]
             /\ itruth' = [itruth EXCEPT ![user[file[p]]] = Empty]
    <3> DEFINE i == user[file[p]]
    <3>1. /\ i \in Inodes
          /\ \A g \in Files : user[g] = i => g = file[p]
      BY <2>1, <2>4 DEF StoreInv, TypeOK, DiskInv, InodeInv
    <3>2. wpc # "idle" => user[wfile] # i
      BY <2>1, <3>1 DEF StoreInv, DiskInv, WalkerInv, TypeOK
    <3>3. \A g \in Files : hid[g] # Absent /\ user[g] = i => i \in Broken
      BY <2>1, <2>4, <3>1 DEF StoreInv, DiskInv, HiddenInv, Unseen, Broken
    <3>4. /\ idata' = [idata EXCEPT ![i] = Empty]
          /\ itruth' = [itruth EXCEPT ![i] = Empty]
          /\ UNCHANGED <<user, hid, inodes, proc, walker, marks>>
      BY <1>1, <2>4 DEF truncate
    <3> HIDE DEF i
    <3> QED
      BY <2>2, <3>1, <3>2, <3>3, <3>4, DiskWritten
  <2> QED
    BY <1>1, <2>3, <2>4 DEF truncate
<1>2. ASSUME NEW d \in Fds, dzfile_ftruncate(p, d)
      PROVE  CallInv' /\ DiskInv'
  <2>1. CallInv'
    BY <1>2, CallSame DEF dzfile_ftruncate, StoreInv, call, walker
  <2>2. DiskInv'
    BY <1>2, Writable, DiskWritten DEF dzfile_ftruncate
  <2> QED
    BY <2>1, <2>2
<1>3. ASSUME NEW d \in Fds, NEW v \in Values,
             NEW l \in {"write_add", "writev_add"}, Write(p, d, v, l)
      PROVE  CallInv' /\ DiskInv'
  <2>1. Goto(p, l) /\ l \notin NotFound \cup MayMiss \cup {"open_user"}
    BY <1>3 DEF Write, Goto, NotFound, MayMiss
  <2>2. CallInv'
    BY <1>3, <2>1, CallMoves DEF Write, walker, marks
  <2>3. DiskInv'
    BY <1>3, Writable, DiskWritten DEF Write
  <2> QED
    BY <2>2, <2>3
<1> QED
  BY <1>1, <1>2, <1>3

(* The steps that only look, or only change the database.                  *)
LEMMA StepSame ==
  ASSUME StoreInv, NEW p \in Procs, UNCHANGED <<disk, proc, walker, ghosts>>,
         \/ open_find(p) \/ open_lstat(p) \/ fmt_entry_insert(p)
         \/ add_filenum(p) \/ creat_find(p) \/ write_add(p)
         \/ unlink_sub(p) \/ unlink_check(p)
  PROVE  CallInv' /\ DiskInv'
<1>1. DiskInv'
  BY DiskSame DEF StoreInv
<1>2. \/ Return(p)
      \/ \E l \in Labels \ (NotFound \cup MayMiss \cup {"open_user"}) : Goto(p, l)
      \/ hid[file[p]] = Absent /\ \E l \in NotFound \cup MayMiss : Goto(p, l)
  BY DEF open_find, open_lstat, fmt_entry_insert, add_filenum, creat_find,
         write_add, unlink_sub, unlink_check, findhiddenFile, After, NotFound,
         MayMiss, Labels, StoreInv, CallInv
<1>3. CallInv'
  BY <1>2, CallMoves DEF NotFound, MayMiss, disk, walker, ghosts
<1> QED
  BY <1>1, <1>3

(* The two functions that go on when they failed to look for the hidden    *)
(* file.                                                                   *)
LEMMA StepMiss ==
  ASSUME StoreInv, NEW p \in Procs, UNCHANGED <<disk, proc, walker, itruth, cut>>,
         unlink_find(p) \/ truncate_find(p)
  PROVE  CallInv' /\ DiskInv'
<1>1. /\ \A i \in missed : i \in missed'
      /\ \A i \in Broken : i \in Broken'
      /\ \A i \in Broken' : i \in Broken \/ i <= inodes
  <2>1. file[p] \in Files
    BY DEF unlink_find, truncate_find, StoreInv, TypeOK
  <2>2. hid[file[p]] # Absent => hid[file[p]].of <= inodes
    BY <2>1 DEF StoreInv, DiskInv, HiddenInv, InodeInv, Broken
  <2> QED
    BY <2>2 DEF unlink_find, truncate_find, Miss, Broken
<1>2. DiskInv'
  BY <1>1
  DEF StoreInv, DiskInv, InodeInv, HiddenInv, WalkerInv, DataInv, MapInv, disk,
      proc, walker
<1>3. \/ Return(p)
      \/ Goto(p, "unlink_hid")
      \/ Unseen(file[p])' /\ UNCHANGED file /\ \E l \in MayMiss : Goto(p, l)
  BY DEF unlink_find, truncate_find, findhiddenFile, Fail, Miss, Unseen, Goto,
         MayMiss, disk
<1>4. CallInv'
  BY <1>1, <1>3, CallMoves DEF NotFound, MayMiss, disk, walker
<1> QED
  BY <1>2, <1>4

(* A client calls the library with the name of a file.                     *)
LEMMA StepCall ==
  ASSUME StoreInv, Exclusive, NEW p \in Procs, NEW f \in Files,
         NEW l \in {"open_find", "creat_find", "unlink_find", "truncate_find"},
         NEW flags, Call(p, f, l, flags)
  PROVE  CallInv' /\ DiskInv'
<1>1. CallInv'
  BY DEF Call, Usable, StoreInv, CallInv, TypeOK, NotFound, MayMiss, Unseen,
         Broken, disk, walker, ghosts
<1> QED
  BY <1>1, DiskSame DEF Call, StoreInv

(* Every step keeps the invariant of the store.                            *)
LEMMA StoreNext ==
  ASSUME StoreInv, Exclusive, [Next]_vars
  PROVE  StoreInv'
<1>1. TypeOK' /\ MapOpen'
  BY TypeNext, MapNext DEF StoreInv
<1>2. ASSUME NEW p \in Procs, Client(p)
      PROVE  CallInv' /\ DiskInv'
  <2>1. ASSUME NEW f \in Files,
               \/ \E flags \in {"r", "wc"} : dzfile_open(p, f, flags)
               \/ dzfile_creat(p, f) \/ dzfile_unlink(p, f)
               \/ dzfile_truncate(p, f)
        PROVE  CallInv' /\ DiskInv'
    BY <2>1, StepCall
    DEF dzfile_open, dzfile_creat, dzfile_unlink, dzfile_truncate
  <2>2. ASSUME NEW d \in Fds, dzfile_close(p, d)
        PROVE  CallInv' /\ DiskInv'
    <3>1. CallInv'
      BY <2>2, CallSame
      DEF dzfile_close, StoreInv, call, disk, walker, ghosts, marks
    <3>2. DiskInv'
      BY <2>2, DiskClosed DEF dzfile_close, remove_dzfd, StoreInv, TypeOK
    <3> QED
      BY <3>1, <3>2
  <2>3. CASE \/ truncate(p)
             \/ \E d \in Fds :
                  \/ dzfile_ftruncate(p, d)
                  \/ \E v \in Values : dzfile_write(p, d, v) \/ dzfile_writev(p, d, v)
    BY <2>3, StepWrites DEF dzfile_write, dzfile_writev
  <2>4. CASE \/ open_find(p) \/ open_lstat(p) \/ fmt_entry_insert(p)
             \/ add_filenum(p) \/ creat_find(p) \/ write_add(p)
             \/ unlink_sub(p) \/ unlink_check(p)
    <3>1. UNCHANGED <<disk, proc, walker, ghosts>>
      BY <2>4
      DEF open_find, open_lstat, fmt_entry_insert, add_filenum, creat_find,
          write_add, unlink_sub, unlink_check
    <3> QED
      BY <2>4, <3>1, StepSame
  <2>5. CASE open_h5(p)
    BY <2>5, CallOpenH5, DiskSame DEF open_h5, StoreInv
  <2>6. CASE open_user(p)
    BY <2>6, StepOpenUser
  <2>7. CASE open_raw(p)
    BY <2>7, StepOpenRaw
  <2>8. CASE creat(p)
    BY <2>8, StepCreat
  <2>9. CASE unlink_hid(p)
    <3>1. CASE UNCHANGED <<hid, cut>> /\ Return(p)
      BY <2>9, <3>1, CallMoves, DiskSame
      DEF unlink_hid, StoreInv, disk, walker, ghosts
    <3> QED
      BY <2>9, <3>1, CallUnlinkHid, DiskUnlinkHid DEF unlink_hid
  <2>10. CASE unlink_user(p)
    <3>1. CallInv'
      BY <2>10, CallMoves DEF unlink_user, walker, ghosts, NotFound, MayMiss
    <3>2. CASE UNCHANGED user
      BY <2>10, <3>1, <3>2, DiskSame DEF unlink_user, StoreInv, disk
    <3> QED
      BY <2>10, <3>1, <3>2, DiskUnlinkUser DEF unlink_user
  <2>11. CASE Kill(p)
    BY <2>11, StepDie DEF Kill
  <2>12. CASE unlink_find(p) \/ truncate_find(p)
    BY <2>12, StepMiss DEF unlink_find, truncate_find
  <2> QED
    BY <1>2, <2>1, <2>2, <2>3, <2>4, <2>5, <2>6, <2>7, <2>8, <2>9, <2>10, <2>11,
       <2>12 DEF Client
<1>3. CASE Walker
  BY <1>1, <1>3, DiskWalkerRead, DiskWalkerRename, DiskWalkerTruncate,
     DiskWalkerClose DEF StoreInv, Walker
<1>4. CASE UNCHANGED vars
  BY <1>1, <1>4, CallSame, DiskSame
  DEF StoreInv, vars, disk, proc, walker, ghosts, marks
<1> QED
  BY <1>1, <1>2, <1>3, <1>4 DEF StoreInv, Next, Finished

(* It holds at the start.                                                  *)
LEMMA StoreInit == Init => StoreInv
<1> SUFFICES ASSUME Init PROVE StoreInv
  OBVIOUS
<1>1. TypeOK /\ MapOpen
  BY TypeInit, MapInit
<1>2. CallInv
  BY DEF Init, CallInv, NotFound, MayMiss
<1>3. InodeInv /\ HiddenInv /\ WalkerInv /\ DataInv /\ MapInv
  BY DEF Init, InodeInv, HiddenInv, WalkerInv, DataInv, MapInv, Broken
<1> QED
  BY <1>1, <1>2, <1>3 DEF StoreInv, DiskInv

(* It holds always, when the walker keeps off the files in use.            *)
LEMMA StoreInvariant == ASSUME Exclusive PROVE Spec => []StoreInv
<1>1. StoreInv /\ [Next]_vars => StoreInv'
  BY StoreNext
<1> QED
  BY <1>1, StoreInit, PTL DEF Spec

(* While the walker keeps off the files in use, a hidden file always has   *)
(* its user file, but for one that dzfile_unlink failed to look for, for   *)
(* any clients, files and calls, whichever system calls fail.              *)
THEOREM StoreHiddenHasFile == ASSUME Exclusive PROVE Spec => []HiddenHasFile
<1>1. StoreInv => HiddenHasFile
  BY DEF StoreInv, DiskInv, HiddenInv, HiddenHasFile
<1> QED
  BY <1>1, StoreInvariant, PTL

(* While the walker keeps off the files in use, dzfile_pread serves what   *)
(* was written, of every file whose hidden file has not been removed or    *)
(* missed, for any clients, files and calls, whichever system calls fail.  *)
THEOREM StorePreadOwn == ASSUME Exclusive PROVE Spec => []PreadOwn
<1>1. ASSUME StoreInv
      PROVE  PreadOwn
  <2> SUFFICES ASSUME NEW p \in Procs, NEW d \in Fds, fd[p][d] # Closed,
                      Source(p, d) \cap Broken = {}
               PROVE  dzfile_pread(p, d) = itruth[fd[p][d].ino]
    BY DEF PreadOwn, Readable
  <2> DEFINE i == fd[p][d].ino
  <2>1. i \in Inodes /\ i \notin Broken /\ i # 0
    BY <1>1 DEF StoreInv, TypeOK, Ofd, Source, Inodes
  <2>2. CASE h5fdmap[p][d] = Absent
    <3>1. \A f \in Files : hid[f] # Absent => user[f] # i
      BY <1>1, <2>1, <2>2 DEF StoreInv, DiskInv, HiddenInv
    <3> QED
      BY <1>1, <2>1, <2>2, <3>1
      DEF StoreInv, DiskInv, DataInv, dzfile_pread, find_dzfd
  <2>3. CASE h5fdmap[p][d] # Absent
    <3>1. h5fdmap[p][d].of \notin Broken
      BY <2>3 DEF Source, find_dzfd
    <3>2. PICK f \in Files : hid[f] = h5fdmap[p][d]
      BY <1>1, <2>3, <3>1 DEF StoreInv, DiskInv, MapInv
    <3>3. h5fdmap[p][d].of = i
      BY <1>1, <2>3, <3>1 DEF StoreInv, DiskInv, MapInv
    <3>4. user[f] = i
      BY <1>1, <2>1, <2>3, <3>2, <3>3 DEF StoreInv, DiskInv, HiddenInv, Broken
    <3> QED
      BY <1>1, <2>1, <2>3, <3>2, <3>3, <3>4
      DEF StoreInv, DiskInv, HiddenInv, dzfile_pread, find_dzfd
  <2> QED
    BY <2>2, <2>3
<1> QED
  BY <1>1, StoreInvariant, PTL
=============================================================================
