------------------------------- MODULE Walker -------------------------------
(***************************************************************************)
(* dzfile-walker: the scan of data_dir by the main thread, the queue of    *)
(* the thread pool, and the threads of Convert that serve it.              *)
(*                                                                         *)
(* The directory holds, for a user file x, the names x, .x.DZF and         *)
(* .x.DZF.tmp.  readdir(3) returns the names that were there at opendir    *)
(* from its buffer, in any order and also when they are gone by now.  The  *)
(* pool is its FIFO queue here; ThreadPool shows that it is one.           *)
(***************************************************************************)
EXTENDS Convert

CONSTANT MaxQueue   \* bound on the pool's queue, which has none in the code

ASSUME WalkerAssumption ==
    /\ MaxQueue \in Nat \ {0}
    /\ "exit" \in Faults

VARIABLES
    spc,     \* where the main thread is
    todo,    \* names that readdir has still to return in this pass
    queue,   \* the pool's queue of names
    aged     \* whether a file's mtime is more than mtime_period ago

scanvars == <<spc, todo, queue, aged>>
wvars    == <<vars, scanvars>>

Names == Files \X {"user", "DZF", "tmp"}

(* The names stat(2) finds.                                                *)
Present ==
    {n \in Names : \/ n[2] = "user"
                   \/ n[2] = "DZF" /\ (hid[n[1]] # Absent \/ n[1] \in HidDirs)
                   \/ n[2] = "tmp" /\ tmp[n[1]] # Absent}

(* The types of the scan's variables: it only ever handles names of the    *)
(* directory.                                                              *)
WTypeOK ==
    /\ spc \in {"opendir", "readdir", "exited"}
    /\ todo \subseteq Names
    /\ queue \in Seq(Names)
    /\ aged \in [Files -> BOOLEAN]

WInit ==
    /\ Init
    /\ spc = "opendir"
    /\ todo = {}
    /\ queue = <<>>
    /\ aged \in [Files -> BOOLEAN]
-----------------------------------------------------------------------------
(* The process is gone, and with it the queue.                             *)
Stop ==
    /\ spc' = "exited"
    /\ todo' = {}
    /\ queue' = <<>>
    /\ UNCHANGED aged

scan_exit == Stop /\ Exit

scan_opendir ==
    /\ spc = "opendir"
    /\ \/ /\ spc' = "readdir"
          /\ todo' = Present
          /\ UNCHANGED <<queue, aged, vars>>
       \/ "opendir" \in Faults /\ scan_exit

(* One turn of the readdir loop: the stat, which ends the process when the *)
(* name has gone or the call fails, the check of the mtime and             *)
(* pool.enqueue.  The age of a hidden file is arbitrary.                   *)
scan_entry(n) ==
    /\ spc = "readdir"
    /\ n \in todo
    /\ \/ /\ n \in Present
          /\ n[2] # "user" \/ aged[n[1]]
          /\ Len(queue) < MaxQueue
          /\ queue' = Append(queue, n)
          /\ todo' = todo \ {n}
          /\ UNCHANGED <<spc, aged, vars>>
       \/ /\ n \in Present
          /\ n[2] # "user" \/ ~aged[n[1]]
          /\ todo' = todo \ {n}
          /\ UNCHANGED <<spc, queue, aged, vars>>
       \/ (n \notin Present \/ "stat" \in Faults) /\ scan_exit

(* readdir has no more names; closedir, sleep(check_interval).             *)
scan_end ==
    /\ spc = "readdir"
    /\ todo \cap Present = {}
    /\ spc' = "opendir"
    /\ todo' = {}
    /\ UNCHANGED <<queue, aged, vars>>

Scan == scan_opendir \/ (\E n \in Names : scan_entry(n)) \/ scan_end

match_hiddenfile(n) == n[2] # "user"

(* A thread takes the oldest task; process_file leaves hidden files alone. *)
take(w) ==
    /\ pc[w] = "idle"
    /\ queue # <<>>
    /\ queue' = Tail(queue)
    /\ \/ ~match_hiddenfile(Head(queue)) /\ process_file(w, Head(queue)[1])
       \/ match_hiddenfile(Head(queue)) /\ UNCHANGED vars
    /\ UNCHANGED <<spc, todo, aged>>

(* A truncate that changes the file also makes it young again.             *)
work(w) ==
    /\ Step(w)
    /\ aged' = [f \in Files |-> aged[f] /\ src'[f] = src[f]]
    /\ UNCHANGED <<spc, todo, queue>>

Age(f) ==
    /\ ~aged[f]
    /\ aged' = [aged EXCEPT ![f] = TRUE]
    /\ UNCHANGED <<spc, todo, queue, vars>>

Kill == spc # "exited" /\ Stop /\ Crash

(* An operator starts the walker again.                                    *)
Start ==
    /\ spc = "exited"
    /\ spc' = "opendir"
    /\ UNCHANGED <<todo, queue, aged, vars>>

WNext ==
    \/ Scan \/ Kill \/ Start
    \/ \E w \in Workers : take(w) \/ work(w)
    \/ \E f \in Files : Age(f)

WSpec == WInit /\ [][WNext]_wvars

(* The kernel schedules every thread; time passes.                         *)
Fairness ==
    /\ WF_wvars(Scan)
    /\ \A w \in Workers : WF_wvars(take(w) \/ work(w))
    /\ \A f \in Files : WF_wvars(Age(f))

FairSpec == WSpec /\ Fairness

(* In addition, somebody restarts a walker that has ended.                 *)
RestartSpec == WSpec /\ Fairness /\ WF_wvars(Start)
-----------------------------------------------------------------------------
(* The policy lets the walker convert f.                                   *)
Eligible(f) ==
    Len(data[f]) >= LowSize /\ ~match_extension(f) /\ f \notin HidDirs

Freed(f) == \A i \in 1 .. Len(src[f]) : src[f][i] = Hole

(* When the scan ends the process because a name is gone, the name is a    *)
(* temporary one whose conversion has published the hidden file meanwhile: *)
(* no temporary file goes any other way, and no other name goes at all.    *)
ExitPublished ==
    [][spc = "readdir" /\ spc' = "exited" /\ UNCHANGED crashes =>
         \E f \in Files : <<f, "tmp">> \in todo /\ tmp[f] = Absent
                          /\ hid[f] # Absent]_wvars

(* Every file the policy allows is in the end compressed and its space     *)
(* given back, for good, however the passes of the scan, the ageing of the *)
(* files and the threads interleave, unless the main thread ends the       *)
(* process first.                                                          *)
CompressedOrExited ==
    \A f \in Files :
      Eligible(f) => \/ <>[](hid[f] # Absent /\ Freed(f))
                     \/ <>(spc = "exited")

(* Every file the policy allows is compressed in the end, when whoever     *)
(* runs the walker restarts it after it ends.                              *)
AllCompressed == \A f \in Files : Eligible(f) ~> (hid[f] # Absent)
=============================================================================
