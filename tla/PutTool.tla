------------------------------ MODULE PutTool ------------------------------
(***************************************************************************)
(* The program dzfile-put around the copy of Put: main, the life cycle of  *)
(* the library (dzfile_init, dzfile_fini and the pointer priv between      *)
(* them), dzfile_open of the destination with the row it inserts, and the  *)
(* byte counter each dzfile_write updates.  The database is shared by all  *)
(* processes; any of its transactions may fail, and no failure of one is   *)
(* looked at.                                                              *)
(***************************************************************************)
EXTENDS Put, FiniteSets, FiniteSetsExt

CONSTANT MaxDbFaults   \* bound on failed transactions

ASSUME ToolAssumption ==
    /\ MaxDbFaults \in Nat
    /\ "open" \in Faults
    /\ <<>> \in Old
    /\ IsFiniteSet(Puts)

VARIABLES
    main,     \* where each process is in main
    priv,     \* whether its pointer priv is set
    ret,      \* what its dzfile_put returned
    name,     \* the destination's name: missing, or a plain or compressed file
    rows,     \* rows of table filemeta for the destination
    wrote,    \* what the last dzfile_write of each process has returned
    space,    \* filenum and writtenbytes of table space
    dbfails,
    unlooked  \* ghost: an lstat of the missing destination failed with an
              \* error that does not say so

procvars == <<main, priv, ret, wrote>>
dbvars   == <<rows, space, dbfails, unlooked>>
tvars    == <<vars, procvars, name, dbvars>>

(* Its exit status was 0, or -1; dzfile_fini or somebody ended it.         *)
Ended == {"exited", "failed", "crashed", "killed"}
Before == {"start", "mq", "db", "find", "insert", "add_filenum", "open"}
Mains == Before \cup {"copy", "count", "out"} \cup Ended

(* The variables are of their types, and the copy of Put is at the place   *)
(* that main says it is.                                                   *)
TTypeOK ==
    /\ main \in [Puts -> Mains]
    /\ priv \in [Puts -> BOOLEAN]
    /\ ret \in [Puts -> {0, -1}]
    /\ wrote \in [Puts -> 0 .. BUFLEN]
    /\ name \in {"missing", "plain", "compressed"}
    /\ rows \in Nat
    /\ space \in [filenum : Nat, written : Nat]
    /\ dbfails \in 0 .. MaxDbFaults
    /\ unlooked \in BOOLEAN
    /\ \A p \in Puts :
         /\ pc[p] = "open" <=> main[p] \in Before
         /\ pc[p] = "done" <=> main[p] \in {"out"} \cup Ended
         /\ main[p] = "count" => pc[p] = "read"

(* What is there already was put there by the library.                     *)
TInit ==
    /\ Init
    /\ main = [p \in Puts |-> "start"]
    /\ priv = [p \in Puts |-> FALSE]
    /\ ret = [p \in Puts |-> -1]
    /\ wrote = [p \in Puts |-> 0]
    /\ name \in {"missing", "plain", "compressed"}
    /\ name = "missing" => dst = <<>>
    /\ rows = IF name = "missing" THEN 0 ELSE 1
    /\ space = [filenum |-> rows, written |-> 0]
    /\ dbfails = 0
    /\ unlooked = FALSE

At(p, l) == main[p] = l
To(p, l) == main' = [main EXCEPT ![p] = l]
-----------------------------------------------------------------------------
(* A process that does not get its destination open: its dzfile_put        *)
(* returns r.                                                              *)
Fail(p, r) ==
    /\ put_open(p) /\ pc'[p] = "done"
    /\ To(p, "out")
    /\ ret' = [ret EXCEPT ![p] = r]

(* Mutant: main goes on after a dzfile_init that failed.                   *)
dz_openlog_again(p) ==
    /\ At(p, "start")
    /\ \/ /\ To(p, "mq")
          /\ priv' = [priv EXCEPT ![p] = TRUE]
          /\ UNCHANGED <<ret, vars>>
       \/ /\ put_open(p) /\ pc'[p] = "done"
          /\ To(p, "find")
          /\ UNCHANGED <<ret, priv>>
    /\ UNCHANGED <<wrote, name, dbvars>>

(* dzfile_put opens the source and calls dzfile_init, which opens the log  *)
(* and then sets priv.                                                     *)
dz_openlog(p) ==
    /\ At(p, "start")
    /\ \/ /\ To(p, "mq")
          /\ priv' = [priv EXCEPT ![p] = TRUE]
          /\ UNCHANGED <<ret, vars>>
       \/ Fail(p, -1) /\ UNCHANGED priv
    /\ UNCHANGED <<wrote, name, dbvars>>

(* The stat of data_path and the socket of the notifications.              *)
dz_openmq(p) ==
    /\ At(p, "mq")
    /\ \/ To(p, "db") /\ UNCHANGED <<ret, vars>>
       \/ Fail(p, -1)
    /\ UNCHANGED <<priv, wrote, name, dbvars>>

dz_opendb(p) ==
    /\ At(p, "db")
    /\ \/ To(p, "find") /\ UNCHANGED <<ret, vars>>
       \/ Fail(p, -1)
    /\ UNCHANGED <<priv, wrote, name, dbvars>>

dzfile_init(p) == dz_openlog(p) \/ dz_openmq(p) \/ dz_opendb(p)

(* Mutant: the file is created before its row is inserted.                 *)
open_find_creates(p) ==
    /\ At(p, "find")
    /\ \/ name = "compressed" /\ Fail(p, 0) /\ UNCHANGED name
       \/ /\ name = "missing" /\ To(p, "insert")
          /\ name' = "plain"
          /\ UNCHANGED <<ret, vars>>
       \/ /\ name = "plain" /\ To(p, "open")
          /\ UNCHANGED <<ret, name, vars>>
    /\ UNCHANGED <<priv, wrote, dbvars>>

(* dzfile_open: findhiddenFile, which may fail, then lstat, of whose       *)
(* failures only ENOENT inserts a row.  A compressed file is refused; a    *)
(* dzfile_open that fails is a dzfile_put that returns 0.                  *)
open_find(p) ==
    /\ At(p, "find")
    /\ \/ Fail(p, 0) /\ UNCHANGED unlooked
       \/ /\ name = "missing" /\ To(p, "insert")
          /\ UNCHANGED <<ret, unlooked, vars>>
       \/ /\ name = "missing" /\ To(p, "open") /\ "open" \in Faults
          /\ unlooked' = TRUE
          /\ UNCHANGED <<ret, vars>>
       \/ /\ name = "plain" /\ To(p, "open")
          /\ UNCHANGED <<ret, unlooked, vars>>
    /\ UNCHANGED <<priv, wrote, name, rows, space, dbfails>>

(* A transaction that fails leaves the tables as they are.                 *)
DbFail ==
    /\ dbfails < MaxDbFaults
    /\ dbfails' = dbfails + 1
    /\ UNCHANGED <<rows, space>>

(* fmt_entry_insert, and its second transaction.                           *)
fmt_entry_insert(p) ==
    /\ At(p, "insert")
    /\ \/ /\ rows' = rows + 1
          /\ To(p, "add_filenum")
          /\ UNCHANGED <<space, dbfails>>
       \/ DbFail /\ To(p, "open")
    /\ UNCHANGED <<vars, priv, ret, wrote, name, unlooked>>

space_update(field, n) ==
    \/ /\ space' = [space EXCEPT ![field] = @ + n]
       /\ UNCHANGED <<rows, dbfails>>
    \/ DbFail

add_filenum(p) ==
    /\ At(p, "add_filenum")
    /\ space_update("filenum", 1)
    /\ To(p, "open")
    /\ UNCHANGED <<vars, priv, ret, wrote, name, unlooked>>

(* Mutant: the destination is opened with O_TRUNC.                         *)
open_dst_trunc(p) ==
    /\ At(p, "open")
    /\ Goto(p, "read")
    /\ dst' = <<>>
    /\ To(p, "copy")
    /\ name' = "plain"
    /\ UNCHANGED <<source, total, pos, locks, kills, ret, priv, wrote, dbvars>>

(* open(dst_file, O_WRONLY | O_CREAT).                                     *)
open_dst(p) ==
    /\ At(p, "open")
    /\ \/ /\ put_open(p) /\ pc'[p] = "read"
          /\ To(p, "copy")
          /\ name' = "plain"
          /\ UNCHANGED ret
       \/ Fail(p, 0) /\ UNCHANGED name
    /\ UNCHANGED <<priv, wrote, dbvars>>

Loop(p) ==
    put_read(p) \/ lockw_getlk(p) \/ lockw_setlk(p) \/ put_write(p)

Wrote(p) == wrote' = [wrote EXCEPT ![p] = pos'[p] - pos[p]]

(* Mutant: dzfile_put returns the result of the call that failed.          *)
copy_status(p) ==
    /\ At(p, "copy")
    /\ \/ /\ Loop(p)
          /\ To(p, IF total' = total THEN "copy" ELSE "count")
          /\ UNCHANGED ret
       \/ /\ put_close(p)
          /\ To(p, "out")
          /\ ret' = [ret EXCEPT ![p] =
                       IF total[p] = Len(source[p]) THEN 0 ELSE -1]
    /\ Wrote(p)
    /\ UNCHANGED <<priv, name, dbvars>>

(* The loop of dzfile_put; whatever ended it, dzfile_put returns 0.        *)
copy(p) ==
    /\ At(p, "copy")
    /\ \/ /\ Loop(p)
          /\ To(p, IF total' = total THEN "copy" ELSE "count")
          /\ UNCHANGED ret
       \/ /\ put_close(p)
          /\ To(p, "out")
          /\ ret' = [ret EXCEPT ![p] = 0]
    /\ Wrote(p)
    /\ UNCHANGED <<priv, name, dbvars>>

copy_lockfail(p) ==
    /\ At(p, "copy") /\ lockw_getlk_fail(p)
    /\ UNCHANGED <<procvars, name, dbvars>>

(* Mutant: the counter is read and written back in two steps.              *)
add_writtenbytes_stale(p) ==
    /\ At(p, "count")
    /\ To(p, "copy")
    /\ \/ space' = [space EXCEPT !.written = pos[p]] /\ UNCHANGED <<rows, dbfails>>
       \/ DbFail
    /\ UNCHANGED <<vars, priv, ret, wrote, name, unlooked>>

(* dzfile_write has written; it counts what it has written.                *)
add_writtenbytes(p) ==
    /\ At(p, "count")
    /\ space_update("written", wrote[p])
    /\ To(p, "copy")
    /\ UNCHANGED <<vars, priv, ret, wrote, name, unlooked>>

(* dzfile_fini dereferences priv before it looks whether it is set.        *)
dzfile_fini(p, status) == To(p, IF priv[p] THEN status ELSE "crashed")

(* The end of main: dzfile_stat of the destination, if dzfile_put has not  *)
(* failed, and dzfile_fini.  Where the stat fails, on a name that is not   *)
(* there, or for an error, main returns -1, whatever has been copied.      *)
main_out(p) ==
    /\ At(p, "out")
    /\ \/ ret[p] = 0 /\ name # "missing" /\ dzfile_fini(p, "exited")
       \/ dzfile_fini(p, "failed")
    /\ UNCHANGED <<vars, priv, ret, wrote, name, dbvars>>

TKill(p) ==
    /\ Kill(p)
    /\ To(p, "killed")
    /\ UNCHANGED <<priv, ret, wrote, name, dbvars>>

main_put(p) ==
    \/ dzfile_init(p)
    \/ open_find(p) \/ fmt_entry_insert(p) \/ add_filenum(p) \/ open_dst(p)
    \/ copy(p) \/ add_writtenbytes(p)
    \/ main_out(p)

AllEnded == (\A p \in Puts : main[p] \in Ended) /\ UNCHANGED tvars

TNext ==
    \/ \E p \in Puts : main_put(p) \/ copy_lockfail(p) \/ TKill(p)
    \/ AllEnded

TSpec == TInit /\ [][TNext]_tvars

(* Every process runs on, and notices a lock that is free long enough; one *)
(* that waits is not promised that F_GETLK fails.                          *)
TFairSpec == TSpec /\ \A p \in Puts : WF_tvars(main_put(p))
-----------------------------------------------------------------------------
(* Every dzfile-put ends: nobody waits for a lock for ever, whoever failed,*)
(* crashed in dzfile_fini or was killed while it held one.                 *)
ToolEnds == \A p \in Puts : <>(main[p] \in Ended)

Counting  == {p \in Puts : main[p] = "count"}

(* writtenbytes is what all processes have written together, but for the   *)
(* writes that are being counted and those whose transaction failed or     *)
(* whose process was killed in between, each of at most one buffer:        *)
(* concurrent updates of the counter are not lost.                         *)
BytesCounted ==
    LET counted == space.written + MapThenSumSet(LAMBDA p : wrote[p], Counting)
        copied  == MapThenSumSet(LAMBDA p : pos[p], Puts) IN
    counted <= copied /\ copied <= counted + BUFLEN * (dbfails + kills)

(* A destination that exists has its row, and is counted in filenum, also  *)
(* when processes are killed half-way through dzfile_open: only a failed   *)
(* transaction, or an lstat that fails for another reason, leaves a file   *)
(* without them.                                                           *)
CreatedRow ==
    name # "missing" =>
      /\ rows > 0 \/ dbfails > 0 \/ unlooked
      /\ space.filenum > 0 \/ dbfails > 0 \/ unlooked

(* A process that reports that its dzfile_put failed, or left no file, or  *)
(* that crashes in dzfile_fini, has written nothing and holds no lock:     *)
(* what fails in the middle of a copy is reported as a success, unless the *)
(* dzfile_stat at the end fails, as it may after a whole copy too.         *)
FailureIsClean ==
    \A p \in Puts :
      \/ main[p] = "crashed"
      \/ main[p] = "failed" /\ (ret[p] = -1 \/ name = "missing")
      => total[p] = 0 /\ locks[p] = {}
=============================================================================
