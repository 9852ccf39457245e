-------------------------------- MODULE Put --------------------------------
(***************************************************************************)
(* dzfile-put: several processes copy local files to the same file of      *)
(* data_dir (dzfile_put), each one locking the region of every buffer with *)
(* dzfile_lockw before it writes it.  The locks are POSIX record locks:    *)
(* they are dropped together when the process closes the file or ends.     *)
(*                                                                         *)
(* A buffer has BUFLEN units; a write may write less than it was given.    *)
(***************************************************************************)
EXTENDS Integers, Sequences

CONSTANTS
    Puts,      \* the processes
    BUFLEN,    \* the units of a buffer
    Unit,      \* what a unit may hold
    Sources,   \* what a process may have to copy
    Old,       \* what the destination may hold before
    Faults,    \* what may fail: "open", "read", "lock", "write", and "short",
               \* a write of only a part
    MaxKills   \* bound on killed processes

ASSUME PutAssumption ==
    /\ BUFLEN \in Nat \ {0}
    /\ Sources \subseteq Seq(Unit)
    /\ Old \subseteq Seq(Unit)
    /\ Faults \subseteq {"open", "read", "lock", "write", "short"}
    /\ MaxKills \in Nat

VARIABLES
    source,  \* what each process copies
    dst,     \* the content of the destination
    pc,      \* where each process is
    total,   \* total_bytes of each process, also its position in the source
    pos,     \* the file position of each process in the destination
    locks,   \* the units each process has locked
    kills

vars == <<source, dst, pc, total, pos, locks, kills>>

Labels == {"open", "read", "getlk", "setlk", "write", "close", "done"}

(* The variables are of their types; a process is never behind the end of  *)
(* the destination, nor ahead of what it has read.                         *)
TypeOK ==
    /\ source \in [Puts -> Seq(Unit)]
    /\ dst \in Seq(Unit)
    /\ pc \in [Puts -> Labels]
    /\ total \in [Puts -> Nat]
    /\ pos \in [Puts -> Nat]
    /\ locks \in [Puts -> SUBSET Nat]
    /\ kills \in 0 .. MaxKills
    /\ \A p \in Puts : pos[p] <= Len(dst) /\ pos[p] <= total[p]

Init ==
    /\ source \in [Puts -> Sources]
    /\ dst \in Old
    /\ pc = [p \in Puts |-> "open"]
    /\ total = [p \in Puts |-> 0]
    /\ pos = [p \in Puts |-> 0]
    /\ locks = [p \in Puts |-> {}]
    /\ kills = 0

Goto(p, l) == pc' = [pc EXCEPT ![p] = l]
-----------------------------------------------------------------------------
(* open, dzfile_init and dzfile_open(dst_file, O_WRONLY | O_CREAT): what   *)
(* is in the file stays there.  Nothing is copied when one of them fails.  *)
put_open(p) ==
    /\ pc[p] = "open"
    /\ \/ Goto(p, "read")
       \/ "open" \in Faults /\ Goto(p, "done")
    /\ UNCHANGED <<source, dst, total, pos, locks, kills>>

put_read(p) ==
    /\ pc[p] = "read"
    /\ \/ total[p] < Len(source[p]) /\ Goto(p, "getlk")
       \/ total[p] = Len(source[p]) /\ Goto(p, "close")
       \/ "read" \in Faults /\ Goto(p, "close")
    /\ UNCHANGED <<source, dst, total, pos, locks, kills>>

(* The buffer that p has read: its length, and what dzfile_lockw locks.    *)
nbread(p) == IF Len(source[p]) - total[p] < BUFLEN THEN Len(source[p]) - total[p]
             ELSE BUFLEN
Region(p) == total[p] .. total[p] + BUFLEN - 1

Conflict(p) == \E q \in Puts \ {p} : Region(p) \cap locks[q] # {}

(* dzfile_lockw: F_GETLK every second until nobody has the region, ...     *)
lockw_getlk(p) ==
    /\ pc[p] = "getlk" /\ ~Conflict(p)
    /\ Goto(p, "setlk")
    /\ UNCHANGED <<source, dst, total, pos, locks, kills>>

(* ... or until F_GETLK itself fails, ...                                  *)
lockw_getlk_fail(p) ==
    /\ pc[p] = "getlk" /\ "lock" \in Faults
    /\ Goto(p, "close")
    /\ UNCHANGED <<source, dst, total, pos, locks, kills>>

(* Mutant: the region is locked for reading, F_RDLCK.                      *)
lockw_setlk_shared(p) ==
    /\ pc[p] = "setlk"
    /\ locks' = [locks EXCEPT ![p] = @ \cup Region(p)]
    /\ Goto(p, "write")
    /\ UNCHANGED <<source, dst, total, pos, kills>>

(* Mutant: the result of F_SETLK is not tested.                            *)
lockw_setlk_unchecked(p) ==
    /\ pc[p] = "setlk"
    /\ locks' = IF Conflict(p) THEN locks
                ELSE [locks EXCEPT ![p] = @ \cup Region(p)]
    /\ Goto(p, "write")
    /\ UNCHANGED <<source, dst, total, pos, kills>>

(* ... then F_SETLK, which fails if somebody was faster.                   *)
lockw_setlk(p) ==
    /\ pc[p] = "setlk"
    /\ \/ /\ ~Conflict(p)
          /\ locks' = [locks EXCEPT ![p] = @ \cup Region(p)]
          /\ Goto(p, "write")
       \/ Conflict(p) /\ Goto(p, "close") /\ UNCHANGED locks
    /\ UNCHANGED <<source, dst, total, pos, kills>>

(* What write(2) of the first n units of p's buffer at offset o leaves.    *)
Written(p, o, n) ==
    [i \in 1 .. (IF Len(dst) < o + n THEN o + n ELSE Len(dst)) |->
       IF i \in o + 1 .. o + n THEN source[p][total[p] + i - o] ELSE dst[i]]

(* Mutant: the destination is opened with O_APPEND.                        *)
put_write_append(p) ==
    /\ pc[p] = "write"
    /\ dst' = Written(p, Len(dst), nbread(p))
    /\ total' = [total EXCEPT ![p] = @ + nbread(p)]
    /\ pos' = [pos EXCEPT ![p] = @ + nbread(p)]
    /\ Goto(p, "read")
    /\ UNCHANGED <<source, locks, kills>>

(* Mutant: after a short write the process seeks to total_bytes.           *)
put_write_seek(p) ==
    /\ pc[p] = "write"
    /\ \E n \in 1 .. nbread(p) :
         /\ dst' = Written(p, pos[p], n)
         /\ total' = [total EXCEPT ![p] = @ + nbread(p)]
         /\ pos' = total'
         /\ Goto(p, "read")
    /\ UNCHANGED <<source, locks, kills>>

(* dzfile_write at the file position.  Whatever it has written, the whole  *)
(* buffer is added to total_bytes.                                         *)
put_write(p) ==
    /\ pc[p] = "write"
    /\ \/ \E n \in 1 .. nbread(p) :
            /\ n = nbread(p) \/ "short" \in Faults
            /\ dst' = Written(p, pos[p], n)
            /\ pos' = [pos EXCEPT ![p] = @ + n]
            /\ total' = [total EXCEPT ![p] = @ + nbread(p)]
            /\ Goto(p, "read")
       \/ "write" \in Faults /\ Goto(p, "close") /\ UNCHANGED <<dst, total, pos>>
    /\ UNCHANGED <<source, locks, kills>>

(* Mutant: a copy of the descriptor keeps the locks.                       *)
put_close_leak(p) ==
    /\ pc[p] = "close"
    /\ Goto(p, "done")
    /\ UNCHANGED <<source, dst, total, pos, locks, kills>>

put_close(p) ==
    /\ pc[p] = "close"
    /\ locks' = [locks EXCEPT ![p] = {}]
    /\ Goto(p, "done")
    /\ UNCHANGED <<source, dst, total, pos, kills>>

Kill(p) ==
    /\ pc[p] # "done" /\ kills < MaxKills
    /\ kills' = kills + 1
    /\ locks' = [locks EXCEPT ![p] = {}]
    /\ Goto(p, "done")
    /\ UNCHANGED <<source, dst, total, pos>>

dzfile_put(p) ==
    put_open(p) \/ put_read(p) \/ lockw_getlk(p) \/ lockw_getlk_fail(p)
    \/ lockw_setlk(p) \/ put_write(p) \/ put_close(p)

AllDone == (\A p \in Puts : pc[p] = "done") /\ UNCHANGED vars

Next == (\E p \in Puts : dzfile_put(p) \/ Kill(p)) \/ AllDone

Spec == Init /\ [][Next]_vars
-----------------------------------------------------------------------------
Writing(p) == total[p] > 0 /\ pc[p] # "done"

(* The locks of the regions serialise whole copies: two processes are      *)
(* never both between their first write and their close, in spite of the   *)
(* gap between F_GETLK and F_SETLK.                                        *)
OneWriter == \A p, q \in Puts : Writing(p) /\ Writing(q) => p = q

(* A process writes only where it holds a lock, also when a short write    *)
(* has left its file position behind the region it locked last.            *)
WriteLocked ==
    \A p \in Puts :
      pc[p] = "write" => pos[p] .. pos[p] + nbread(p) - 1 \subseteq locks[p]

(* A process that has copied its whole file, and no write of it was short, *)
(* has it in the destination when it closes it: nobody has written over a  *)
(* part of it.                                                             *)
PutCopied ==
    \A p \in Puts :
      pc[p] = "close" /\ total[p] = Len(source[p]) /\ pos[p] = total[p] =>
        SubSeq(dst, 1, total[p]) = source[p]
=============================================================================
