----------------------------- MODULE ThreadPool -----------------------------
(***************************************************************************)
(* The ThreadPool class of threadPool.hh: the loop of its threads, enqueue *)
(* and the destructor, with the mutex queue_mutex and the condition        *)
(* variable they share.                                                    *)
(*                                                                         *)
(* A step is what one thread does between two points at which another one  *)
(* can observe it.  wait(lock, pred) tests pred with the mutex held, gives *)
(* the mutex up and blocks in one step, and must take the mutex again when *)
(* it is notified; it may also wake up without any notification.           *)
(*                                                                         *)
(* One thread, the owner, enqueues tasks 1, 2, ... and destroys the pool.  *)
(***************************************************************************)
EXTENDS Naturals, Sequences, FiniteSets

CONSTANTS
    Workers,      \* the threads of the pool
    Owner,        \* the thread that owns the pool
    Free,         \* the holder of a mutex that nobody holds
    MaxTasks,     \* bound on the tasks the owner enqueues
    MaxSpurious   \* bound on wakeups without a notification

ASSUME PoolAssumption ==
    /\ IsFiniteSet(Workers) /\ Workers # {}
    /\ Owner \notin Workers
    /\ Free \notin Workers \cup {Owner}
    /\ MaxTasks \in Nat
    /\ MaxSpurious \in Nat

VARIABLES
    tasks,      \* the queue
    stop,       \* the member stop
    mutex,      \* who holds queue_mutex
    pc,         \* where each thread of the pool is
    task,       \* the task a thread has taken, 0 if none
    opc,        \* where the owner is
    next,       \* tasks enqueued so far
    finished,   \* tasks that were run to their end
    spurious    \* spurious wakeups so far

vars == <<tasks, stop, mutex, pc, task, opc, next, finished, spurious>>

VarType ==
    /\ tasks \in Seq(1 .. MaxTasks)
    /\ stop \in BOOLEAN
    /\ mutex \in Workers \cup {Owner, Free}
    /\ pc \in [Workers -> {"lock", "test", "blocked", "relock", "pop", "run",
                           "returned"}]
    /\ task \in [Workers -> 0 .. MaxTasks]
    /\ opc \in {"idle", "push", "notify_one", "stop", "notify_all", "join",
                "destroyed"}
    /\ next \in 0 .. MaxTasks
    /\ finished \in SUBSET (1 .. MaxTasks)
    /\ spurious \in 0 .. MaxSpurious

(* queue_mutex is held exactly where the code is inside a unique_lock.     *)
MutexInv ==
    /\ \A w \in Workers : pc[w] \in {"test", "pop"} <=> mutex = w
    /\ opc \in {"push", "stop"} <=> mutex = Owner

(* The variables are of their types, and whoever reads or changes tasks    *)
(* and stop, a thread of the pool, enqueue or the destructor, holds        *)
(* queue_mutex while it does.                                              *)
TypeOK == VarType /\ MutexInv

Init ==
    /\ tasks = <<>>
    /\ stop = FALSE
    /\ mutex = Free
    /\ pc = [w \in Workers |-> "lock"]
    /\ task = [w \in Workers |-> 0]
    /\ opc = "idle"
    /\ next = 0
    /\ finished = {}
    /\ spurious = 0
-----------------------------------------------------------------------------
Goto(w, l) == pc' = [pc EXCEPT ![w] = l]

(* unique_lock of the loop, and its reacquisition inside wait.             *)
worker_lock(w) ==
    /\ pc[w] \in {"lock", "relock"}
    /\ mutex = Free
    /\ mutex' = w
    /\ Goto(w, "test")
    /\ UNCHANGED <<tasks, stop, task, opc, next, finished, spurious>>

(* The predicate of wait: go on, or give the mutex up and block.           *)
worker_test(w) ==
    /\ pc[w] = "test"
    /\ \/ /\ stop \/ tasks # <<>>
          /\ Goto(w, "pop")
          /\ UNCHANGED mutex
       \/ /\ ~stop /\ tasks = <<>>
          /\ Goto(w, "blocked")
          /\ mutex' = Free
    /\ UNCHANGED <<tasks, stop, task, opc, next, finished, spurious>>

(* Mutant: a stopped pool drops what is still queued.                      *)
worker_pop_drop(w) ==
    /\ pc[w] = "pop"
    /\ mutex' = Free
    /\ \/ /\ stop
          /\ Goto(w, "returned")
          /\ UNCHANGED <<tasks, task>>
       \/ /\ ~stop
          /\ task' = [task EXCEPT ![w] = Head(tasks)]
          /\ tasks' = Tail(tasks)
          /\ Goto(w, "run")
    /\ UNCHANGED <<stop, opc, next, finished, spurious>>

(* Mutant: the task is moved out of the queue but tasks.pop() is missing.  *)
worker_pop_front(w) ==
    /\ pc[w] = "pop"
    /\ mutex' = Free
    /\ \/ /\ stop /\ tasks = <<>>
          /\ Goto(w, "returned")
          /\ UNCHANGED task
       \/ /\ tasks # <<>>
          /\ task' = [task EXCEPT ![w] = Head(tasks)]
          /\ Goto(w, "run")
    /\ UNCHANGED <<tasks, stop, opc, next, finished, spurious>>

(* Mutant: continue instead of return when stopped and empty.              *)
worker_pop_continue(w) ==
    /\ pc[w] = "pop"
    /\ mutex' = Free
    /\ \/ /\ stop /\ tasks = <<>>
          /\ Goto(w, "lock")
          /\ UNCHANGED <<tasks, task>>
       \/ /\ tasks # <<>>
          /\ task' = [task EXCEPT ![w] = Head(tasks)]
          /\ tasks' = Tail(tasks)
          /\ Goto(w, "run")
    /\ UNCHANGED <<stop, opc, next, finished, spurious>>

(* Return when stopped and empty, else take the first task; the mutex is   *)
(* released at the end of the block either way.                            *)
worker_pop(w) ==
    /\ pc[w] = "pop"
    /\ mutex' = Free
    /\ \/ /\ stop /\ tasks = <<>>
          /\ Goto(w, "returned")
          /\ UNCHANGED <<tasks, task>>
       \/ /\ ~stop \/ tasks # <<>>
          /\ task' = [task EXCEPT ![w] = Head(tasks)]
          /\ tasks' = Tail(tasks)
          /\ Goto(w, "run")
    /\ UNCHANGED <<stop, opc, next, finished, spurious>>

worker_run(w) ==
    /\ pc[w] = "run"
    /\ finished' = finished \cup {task[w]}
    /\ task' = [task EXCEPT ![w] = 0]
    /\ Goto(w, "lock")
    /\ UNCHANGED <<tasks, stop, mutex, opc, next, spurious>>

Worker(w) == worker_lock(w) \/ worker_test(w) \/ worker_pop(w) \/ worker_run(w)

(* wait returns without a notification.                                    *)
Spurious(w) ==
    /\ pc[w] = "blocked"
    /\ spurious < MaxSpurious
    /\ spurious' = spurious + 1
    /\ Goto(w, "relock")
    /\ UNCHANGED <<tasks, stop, mutex, task, opc, next, finished>>
-----------------------------------------------------------------------------
(* Mutant: enqueue and the destructor work without the mutex.              *)
owner_nolock ==
    /\ opc = "idle"
    /\ \/ next < MaxTasks /\ opc' = "push"
       \/ opc' = "stop"
    /\ UNCHANGED <<tasks, stop, mutex, pc, task, next, finished, spurious>>

(* enqueue and the destructor each start by taking the mutex.              *)
owner_lock ==
    /\ opc = "idle"
    /\ mutex = Free
    /\ mutex' = Owner
    /\ \/ next < MaxTasks /\ opc' = "push"
       \/ opc' = "stop"
    /\ UNCHANGED <<tasks, stop, pc, task, next, finished, spurious>>

enqueue_push ==
    /\ opc = "push"
    /\ next' = next + 1
    /\ tasks' = Append(tasks, next + 1)
    /\ mutex' = Free
    /\ opc' = "notify_one"
    /\ UNCHANGED <<stop, pc, task, finished, spurious>>

(* Mutant: the notification is forgotten.                                  *)
notify_none ==
    /\ opc = "notify_one"
    /\ opc' = "idle"
    /\ UNCHANGED <<tasks, stop, mutex, pc, task, next, finished, spurious>>

(* notify_one, after the mutex was released.                               *)
enqueue_notify ==
    /\ opc = "notify_one"
    /\ \/ \E w \in Workers : pc[w] = "blocked" /\ Goto(w, "relock")
       \/ (\A w \in Workers : pc[w] # "blocked") /\ UNCHANGED pc
    /\ opc' = "idle"
    /\ UNCHANGED <<tasks, stop, mutex, task, next, finished, spurious>>

destroy_stop ==
    /\ opc = "stop"
    /\ stop' = TRUE
    /\ mutex' = Free
    /\ opc' = "notify_all"
    /\ UNCHANGED <<tasks, pc, task, next, finished, spurious>>

destroy_notify ==
    /\ opc = "notify_all"
    /\ pc' = [w \in Workers |-> IF pc[w] = "blocked" THEN "relock" ELSE pc[w]]
    /\ opc' = "join"
    /\ UNCHANGED <<tasks, stop, mutex, task, next, finished, spurious>>

destroy_join ==
    /\ opc = "join"
    /\ \A w \in Workers : pc[w] = "returned"
    /\ opc' = "destroyed"
    /\ UNCHANGED <<tasks, stop, mutex, pc, task, next, finished, spurious>>

OwnerStep ==
    owner_lock \/ enqueue_push \/ enqueue_notify \/ destroy_stop
    \/ destroy_notify \/ destroy_join

Terminated == opc = "destroyed" /\ UNCHANGED vars

Next ==
    \/ \E w \in Workers : Worker(w) \/ Spurious(w)
    \/ OwnerStep
    \/ Terminated

Spec == Init /\ [][Next]_vars

(* Every thread is scheduled.  The owner may enqueue for ever in the code; *)
(* here it runs out of tasks, and only then need it destroy the pool.      *)
FairSpec ==
    /\ Spec
    /\ \A w \in Workers : WF_vars(Worker(w))
    /\ WF_vars(OwnerStep)
-----------------------------------------------------------------------------
(* The pool is a FIFO queue that runs each task once and leaves none       *)
(* behind: a woken thread never pops what another one took meanwhile, and  *)
(* no thread leaves while tasks are queued.                                *)
Queue == INSTANCE TaskQueue WITH
           Tasks <- 1 .. MaxTasks, None <- 0, queue <- tasks,
           running <- task, done <- finished, closed <- stop,
           gone <- {w \in Workers : pc[w] = "returned"}

PoolIsQueue == Queue!QSpec

Asleep == {w \in Workers : pc[w] = "blocked"}
Awake  == {w \in Workers : pc[w] \in {"lock", "test", "relock", "pop"}}

(* No wakeup is lost: while a thread sleeps, every queued task has a       *)
(* thread of its own on its way to it, or the notification of the last one *)
(* is about to be sent.                                                    *)
WorkConserving ==
    Asleep # {} =>
      Len(tasks) <= Cardinality(Awake) + (IF opc = "notify_one" THEN 1 ELSE 0)

(* Every task that was enqueued is run in the end, also when the pool is   *)
(* destroyed right after.                                                  *)
AllRun == \A t \in 1 .. MaxTasks : next >= t ~> t \in finished

(* The destructor returns: notify_all reaches every thread and each one    *)
(* leaves.                                                                 *)
Joins == stop ~> opc = "destroyed"
=============================================================================
