-------------------------- MODULE ThreadPoolProofs --------------------------
(***************************************************************************)
(* The pool implements the queue, for every set of threads and any number  *)
(* of tasks and spurious wakeups.                                          *)
(***************************************************************************)
EXTENDS ThreadPool, FiniteSetTheorems, TLAPS

(* Past the predicate of wait there is something to do, and it is still    *)
(* there when the thread pops; a thread has a task while it runs it.       *)
TaskInv ==
    /\ \A w \in Workers : pc[w] = "pop" => stop \/ tasks # <<>>
    /\ \A w \in Workers : pc[w] = "run" <=> task[w] # 0

(* The tasks known to the pool were enqueued before.                       *)
NextInv ==
    /\ \A i \in 1 .. Len(tasks) : tasks[i] <= next
    /\ \A w \in Workers : task[w] <= next
    /\ \A t \in finished : t <= next
    /\ opc = "push" => next < MaxTasks
    /\ stop => opc \in {"notify_all", "join", "destroyed"}

PoolInv == VarType /\ MutexInv /\ TaskInv /\ NextInv

(* The invariant of the pool holds at the start.                           *)
LEMMA PoolInit == Init => PoolInv
<1> SUFFICES ASSUME Init PROVE PoolInv
  OBVIOUS
<1>1. VarType
  <2>1. stop \in BOOLEAN
    BY Zenon DEF Init
  <2>2. QED
    BY <2>1, PoolAssumption DEF Init, VarType
<1>2. MutexInv
  BY PoolAssumption DEF Init, MutexInv
<1>3. TaskInv
  BY DEF Init, TaskInv
<1>4. NextInv
  BY PoolAssumption DEF Init, NextInv
<1>5. QED
  BY <1>1, <1>2, <1>3, <1>4 DEF PoolInv

(* Tail and Head of a queue of tasks.                                      *)
LEMMA PopLemma ==
  ASSUME NEW S, NEW s \in Seq(S), s # <<>>
  PROVE  /\ Head(s) \in S /\ Head(s) = s[1] /\ Len(s) >= 1
         /\ Tail(s) \in Seq(S) /\ Len(Tail(s)) = Len(s) - 1
         /\ \A i \in 1 .. Len(Tail(s)) : Tail(s)[i] = s[i + 1]
OBVIOUS

(* Every step keeps it.                                                    *)
LEMMA PoolNext == PoolInv /\ [Next]_vars => PoolInv'
<1> SUFFICES ASSUME PoolInv, [Next]_vars PROVE PoolInv'
  OBVIOUS
<1> USE PoolAssumption DEF PoolInv
<1>1. ASSUME NEW w \in Workers, worker_lock(w)
      PROVE  PoolInv'
  BY <1>1 DEF worker_lock, Goto, VarType, MutexInv, TaskInv, NextInv
<1>2. ASSUME NEW w \in Workers, worker_test(w)
      PROVE  PoolInv'
  <2>1. UNCHANGED <<tasks, stop, task, opc, next, finished, spurious>>
    BY <1>2 DEF worker_test
  <2>2. VarType'
    BY <1>2, <2>1 DEF worker_test, Goto, VarType
  <2>3. MutexInv'
    BY <1>2, <2>1 DEF worker_test, Goto, VarType, MutexInv
  <2>4. TaskInv'
    BY <1>2, <2>1 DEF worker_test, Goto, VarType, TaskInv
  <2>5. NextInv'
    BY <2>1 DEF NextInv
  <2> QED
    BY <2>2, <2>3, <2>4, <2>5
<1>3. ASSUME NEW w \in Workers, worker_pop(w)
      PROVE  PoolInv'
  <2>1. CASE stop /\ tasks = <<>>
    BY <1>3, <2>1 DEF worker_pop, Goto, VarType, MutexInv, TaskInv, NextInv
  <2>2. CASE tasks # <<>>
    <3>1. /\ task' = [task EXCEPT ![w] = Head(tasks)]
          /\ tasks' = Tail(tasks)
          /\ Goto(w, "run")
          /\ mutex' = Free /\ mutex = w
          /\ UNCHANGED <<stop, opc, next, finished, spurious>>
      BY <1>3, <2>2 DEF worker_pop, MutexInv
    <3>2. /\ Head(tasks) \in 1 .. MaxTasks /\ Head(tasks) <= next
          /\ tasks' \in Seq(1 .. MaxTasks)
          /\ \A i \in 1 .. Len(tasks') : tasks'[i] <= next
      BY <2>2, <3>1, PopLemma DEF VarType, NextInv
    <3>3. VarType'
      BY <3>1, <3>2 DEF VarType, Goto
    <3>4. MutexInv'
      BY <1>3, <3>1 DEF MutexInv, Goto, VarType, worker_pop
    <3>5. TaskInv'
      BY <3>1, <3>2, <3>4 DEF TaskInv, MutexInv, Goto, VarType
    <3>6. NextInv'
      BY <3>1, <3>2 DEF NextInv, VarType
    <3>7. QED
      BY <3>3, <3>4, <3>5, <3>6
  <2>3. QED
    BY <1>3, <2>1, <2>2 DEF worker_pop, TaskInv
<1>4. ASSUME NEW w \in Workers, worker_run(w)
      PROVE  PoolInv'
  <2>1. VarType'
    <3>1. task[w] \in 1 .. MaxTasks /\ stop' \in BOOLEAN
      BY <1>4 DEF worker_run, VarType, TaskInv
    <3>2. finished' \in SUBSET (1 .. MaxTasks)
      BY <1>4, <3>1 DEF worker_run, VarType
    <3>3. task' \in [Workers -> 0 .. MaxTasks]
      BY <1>4 DEF worker_run, VarType
    <3>4. QED
      BY <1>4, <3>1, <3>2, <3>3 DEF worker_run, Goto, VarType
  <2>2. MutexInv'
    BY <1>4 DEF worker_run, Goto, MutexInv, VarType
  <2>3. TaskInv'
    BY <1>4 DEF worker_run, Goto, TaskInv, VarType
  <2>4. NextInv'
    BY <1>4 DEF worker_run, NextInv, VarType
  <2>5. QED
    BY <2>1, <2>2, <2>3, <2>4
<1>5. ASSUME NEW w \in Workers, Spurious(w)
      PROVE  PoolInv'
  BY <1>5 DEF Spurious, Goto, VarType, MutexInv, TaskInv, NextInv
<1>6. CASE owner_lock
  BY <1>6 DEF owner_lock, VarType, MutexInv, TaskInv, NextInv
<1>7. CASE enqueue_push
  <2>1. VarType'
    BY <1>7 DEF enqueue_push, VarType, NextInv
  <2>2. MutexInv'
    BY <1>7 DEF enqueue_push, MutexInv, VarType
  <2>3. TaskInv'
    BY <1>7 DEF enqueue_push, TaskInv, MutexInv, VarType
  <2>4. NextInv'
    BY <1>7 DEF enqueue_push, NextInv, VarType
  <2>5. QED
    BY <2>1, <2>2, <2>3, <2>4
<1>8. CASE enqueue_notify
  BY <1>8 DEF enqueue_notify, Goto, VarType, MutexInv, TaskInv, NextInv
<1>9. CASE destroy_stop
  BY <1>9 DEF destroy_stop, VarType, MutexInv, TaskInv, NextInv
<1>10. CASE destroy_notify
  BY <1>10 DEF destroy_notify, VarType, MutexInv, TaskInv, NextInv
<1>11. CASE destroy_join
  BY <1>11 DEF destroy_join, VarType, MutexInv, TaskInv, NextInv
<1>12. CASE UNCHANGED vars
  BY <1>12 DEF vars, VarType, MutexInv, TaskInv, NextInv
<1>13. QED
  BY <1>1, <1>2, <1>3, <1>4, <1>5, <1>6, <1>7, <1>8, <1>9, <1>10, <1>11,
     <1>12
  DEF Next, Worker, OwnerStep, Terminated

(* Type correctness of the pool, and mutual exclusion: tasks and stop are  *)
(* only touched by the holder of queue_mutex.                              *)
THEOREM PoolTypeCorrect == Spec => []TypeOK
<1>1. PoolInv => TypeOK
  BY DEF PoolInv, TypeOK
<1>2. QED
  BY <1>1, PoolInit, PoolNext, PTL DEF Spec
-----------------------------------------------------------------------------
Gone == {w \in Workers : pc[w] = "returned"}

(* Only a return changes which threads have left.                          *)
LEMMA GoneLemma ==
  ASSUME VarType, NEW w \in Workers, pc[w] # "returned",
         NEW l, pc' = [pc EXCEPT ![w] = l]
  PROVE  /\ w \notin Gone
         /\ l # "returned" => Gone' = Gone
         /\ l = "returned" => Gone' = Gone \cup {w}
<1>1. pc \in [Workers -> {"lock", "test", "blocked", "relock", "pop", "run",
                          "returned"}]
  BY DEF VarType
<1>2. QED
  BY <1>1 DEF Gone

(* The pool of threadPool.hh implements the abstract queue: FIFO, each     *)
(* task run once by one thread, no thread leaves while tasks are queued,   *)
(* under any interleaving of enqueue, notifications, spurious wakeups and  *)
(* the destructor.                                                         *)
THEOREM PoolImplementsQueue == Spec => PoolIsQueue
<1> USE PoolAssumption
<1>1. Init => Queue!QInit
  BY DEF Init, Queue!QInit
<1>2. ASSUME PoolInv, [Next]_vars
      PROVE  [Queue!QNext]_(Queue!qvars)
  <2>0. VarType /\ TaskInv /\ NextInv
    BY <1>2 DEF PoolInv
  <2>1. ASSUME UNCHANGED <<tasks, task, finished, stop>>, Gone' = Gone
        PROVE  [Queue!QNext]_(Queue!qvars)
    BY <2>1 DEF Queue!qvars, Gone
  <2>2. ASSUME NEW w \in Workers, worker_lock(w)
        PROVE  [Queue!QNext]_(Queue!qvars)
    <3>1. Gone' = Gone
      BY <2>0, <2>2, GoneLemma DEF worker_lock, Goto
    <3>2. QED
      BY <2>1, <2>2, <3>1 DEF worker_lock
  <2>3. ASSUME NEW w \in Workers, worker_test(w)
        PROVE  [Queue!QNext]_(Queue!qvars)
    <3>1. Gone' = Gone
      <4>1. PICK l \in {"pop", "blocked"} : Goto(w, l)
        BY <2>3 DEF worker_test
      <4>2. QED
        BY <2>0, <2>3, <4>1, GoneLemma DEF worker_test, Goto
    <3>2. QED
      BY <2>1, <2>3, <3>1 DEF worker_test
  <2>4. ASSUME NEW w \in Workers, worker_pop(w)
        PROVE  Queue!Leave(w) \/ Queue!Take(w)
    <3>0. pc[w] = "pop" /\ task[w] = 0
      BY <2>0, <2>4 DEF worker_pop, TaskInv
    <3>1. CASE stop /\ tasks = <<>>
      <4>1. Goto(w, "returned") /\ UNCHANGED <<tasks, task, stop, finished>>
        BY <2>4, <3>1 DEF worker_pop
      <4>2. Gone' = Gone \cup {w}
        BY <2>0, <3>0, <4>1, GoneLemma DEF Goto
      <4>3. QED
        BY <3>0, <3>1, <4>1, <4>2 DEF Queue!Leave, Gone
    <3>2. CASE tasks # <<>>
      <4>1. /\ task' = [task EXCEPT ![w] = Head(tasks)]
            /\ tasks' = Tail(tasks)
            /\ Goto(w, "run")
            /\ UNCHANGED <<stop, finished>>
        BY <2>4, <3>2 DEF worker_pop
      <4>2. Gone' = Gone /\ w \notin Gone
        BY <2>0, <3>0, <4>1, GoneLemma DEF Goto
      <4>3. QED
        BY <3>0, <3>2, <4>1, <4>2 DEF Queue!Take, Gone
    <3>3. stop \/ tasks # <<>>
      BY <2>0, <3>0 DEF TaskInv
    <3>4. QED
      BY <3>1, <3>2, <3>3
  <2>5. ASSUME NEW w \in Workers, worker_run(w)
        PROVE  Queue!Finish(w)
    <3>1. pc[w] = "run" /\ task[w] # 0
      BY <2>0, <2>5 DEF worker_run, TaskInv
    <3>2. Gone' = Gone
      BY <2>0, <2>5, <3>1, GoneLemma DEF worker_run, Goto
    <3>3. QED
      BY <2>5, <3>1, <3>2 DEF worker_run, Queue!Finish, Gone
  <2>6. ASSUME NEW w \in Workers, Spurious(w)
        PROVE  [Queue!QNext]_(Queue!qvars)
    <3>1. Gone' = Gone
      BY <2>0, <2>6, GoneLemma DEF Spurious, Goto
    <3>2. QED
      BY <2>1, <2>6, <3>1 DEF Spurious
  <2>7. CASE enqueue_push
    <3>1. /\ next \in Nat /\ MaxTasks \in Nat /\ next < MaxTasks
          /\ \A i \in 1 .. Len(tasks) : tasks[i] <= next
          /\ \A w \in Workers : task[w] <= next
          /\ \A t \in finished : t <= next
      BY <2>0, <2>7 DEF enqueue_push, VarType, NextInv
    <3>2. next + 1 \in 1 .. MaxTasks
      BY <3>1
    <3>3. ~stop
      BY <2>0, <2>7 DEF enqueue_push, NextInv
    <3>4. Queue!Fresh(next + 1)
      <4>1. ~(next + 1 <= next)
        BY <3>1
      <4>2. QED
        BY <3>1, <4>1 DEF Queue!Fresh
    <3>5. Queue!Put(next + 1)
      BY <2>7, <3>3, <3>4 DEF enqueue_push, Queue!Put, Gone
    <3>6. QED
      BY <3>2, <3>5 DEF Queue!QNext
  <2>8. CASE enqueue_notify
    <3>1. Gone' = Gone
      <4>1. CASE UNCHANGED pc
        BY <4>1 DEF Gone
      <4>2. ASSUME NEW w \in Workers, pc[w] = "blocked", Goto(w, "relock")
            PROVE  Gone' = Gone
        BY <2>0, <4>2, GoneLemma DEF Goto
      <4>3. QED
        BY <2>8, <4>1, <4>2 DEF enqueue_notify
    <3>2. QED
      BY <2>1, <2>8, <3>1 DEF enqueue_notify
  <2>9. CASE destroy_stop
    <3>1. Queue!Close
      BY <2>9 DEF destroy_stop, Queue!Close
    <3>2. QED
      BY <3>1 DEF Queue!QNext
  <2>10. CASE destroy_notify
    <3>1. Gone' = Gone
      BY <2>0, <2>10 DEF destroy_notify, VarType, Gone
    <3>2. QED
      BY <2>1, <2>10, <3>1 DEF destroy_notify
  <2>11. CASE owner_lock \/ destroy_join
    BY <2>1, <2>11 DEF owner_lock, destroy_join, Gone
  <2>12. CASE UNCHANGED vars
    BY <2>1, <2>12 DEF vars, Gone
  <2>13. ASSUME NEW w \in Workers, Worker(w) \/ Spurious(w)
         PROVE  [Queue!QNext]_(Queue!qvars)
    BY <2>2, <2>3, <2>4, <2>5, <2>6, <2>13 DEF Worker, Queue!QNext
  <2>14. QED
    BY <1>2, <2>7, <2>8, <2>9, <2>10, <2>11, <2>12, <2>13
    DEF Next, OwnerStep, Terminated
<1>3. QED
  BY <1>1, <1>2, PoolInit, PoolNext, PTL DEF Spec, PoolIsQueue, Queue!QSpec
-----------------------------------------------------------------------------
(* No lost wakeup.                                                         *)

Pending == IF opc = "notify_one" THEN 1 ELSE 0

(* The threads that are awake can be counted,                              *)
LEMMA AwakeFinite ==
  IsFiniteSet(Awake) /\ Cardinality(Awake) \in Nat
BY PoolAssumption, FS_Subset, FS_CardinalityType DEF Awake

(* before a step and after it.                                             *)
LEMMA AwakeFinitePrime ==
  IsFiniteSet(Awake') /\ Cardinality(Awake') \in Nat
BY PoolAssumption, FS_Subset, FS_CardinalityType DEF Awake

(* A thread that becomes awake, or stops being so, is one more or less.    *)
LEMMA AwakeLemma ==
  ASSUME VarType, NEW w \in Workers, NEW l, Goto(w, l)
  PROVE  LET up == {"lock", "test", "relock", "pop"} IN
         /\ pc[w] \in up /\ l \in up =>
              Cardinality(Awake') = Cardinality(Awake)
         /\ pc[w] \notin up /\ l \in up =>
              Cardinality(Awake') = Cardinality(Awake) + 1
         /\ pc[w] \in up /\ l \notin up =>
              Cardinality(Awake') = Cardinality(Awake) - 1
         /\ pc[w] # "blocked" /\ l # "blocked" => Asleep' = Asleep
         /\ Asleep' # {} /\ l # "blocked" => Asleep # {}
<1> DEFINE up == {"lock", "test", "relock", "pop"}
<1>1. pc \in [Workers -> {"lock", "test", "blocked", "relock", "pop", "run",
                          "returned"}]
  BY DEF VarType
<1>2. ASSUME pc[w] \in up, l \in up
      PROVE  Awake' = Awake
  BY <1>1, <1>2 DEF Awake, Goto
<1>3. ASSUME pc[w] \notin up, l \in up
      PROVE  Cardinality(Awake') = Cardinality(Awake) + 1
  <2>1. Awake' = Awake \cup {w} /\ w \notin Awake
    BY <1>1, <1>3 DEF Awake, Goto
  <2>2. QED
    BY <2>1, AwakeFinite, FS_AddElement
<1>4. ASSUME pc[w] \in up, l \notin up
      PROVE  Cardinality(Awake') = Cardinality(Awake) - 1
  <2>1. Awake' = Awake \ {w} /\ w \in Awake
    BY <1>1, <1>4 DEF Awake, Goto
  <2>2. QED
    BY <2>1, AwakeFinite, FS_RemoveElement
<1>5. pc[w] # "blocked" /\ l # "blocked" => Asleep' = Asleep
  BY <1>1 DEF Asleep, Goto
<1>6. Asleep' # {} /\ l # "blocked" => Asleep # {}
  BY <1>1 DEF Asleep, Goto
<1>7. QED
  BY <1>2, <1>3, <1>4, <1>5, <1>6

(* Every step keeps enough threads awake for the tasks in the queue.       *)
LEMMA ConservingNext ==
  ASSUME PoolInv, WorkConserving, [Next]_vars
  PROVE  WorkConserving'
<1> DEFINE n == Cardinality(Awake)
<1>0. VarType /\ TaskInv /\ n \in Nat /\ n' \in Nat
      /\ tasks \in Seq(1 .. MaxTasks) /\ Len(tasks) \in Nat
  BY AwakeFinite, AwakeFinitePrime DEF PoolInv, VarType
<1>1. Asleep # {} => Len(tasks) <= n + Pending
  BY DEF WorkConserving, Pending
<1>2. ASSUME Asleep' # {} => Len(tasks') <= n' + Pending'
      PROVE  WorkConserving'
  BY <1>2 DEF WorkConserving, Pending
<1> SUFFICES ASSUME Asleep' # {} PROVE Len(tasks') <= n' + Pending'
  BY <1>2
<1>3. Pending \in {0, 1} /\ Pending' \in {0, 1}
  BY DEF Pending
<1>z. 0 <= n' + Pending'
  <2>1. ASSUME NEW a \in Nat, NEW b \in {0, 1}
        PROVE  0 <= a + b
    OBVIOUS
  <2>2. QED
    BY <1>0, <1>3, <2>1
<1> HIDE DEF n
<1>4. ASSUME NEW w \in Workers, worker_lock(w)
      PROVE  Len(tasks') <= n' + Pending'
  <2>1. n' = n /\ Asleep # {}
    BY <1>0, <1>4, AwakeLemma DEF worker_lock, n
  <2>2. Len(tasks') = Len(tasks) /\ Pending' = Pending
    BY <1>4 DEF worker_lock, Pending
  <2>3. QED
    BY <1>0, <1>1, <2>1, <2>2
<1>5. ASSUME NEW w \in Workers, worker_test(w)
      PROVE  Len(tasks') <= n' + Pending'
  <2>0. Len(tasks') = Len(tasks) /\ Pending' = Pending /\ pc[w] = "test"
    BY <1>5 DEF worker_test, Pending
  <2>1. CASE tasks = <<>>
    <3>1. Len(tasks) = 0
      BY <2>1
    <3>2. QED
      BY <1>z, <2>0, <3>1
  <2>2. CASE tasks # <<>>
    <3>1. Goto(w, "pop")
      BY <1>5, <2>2 DEF worker_test
    <3>2. n' = n /\ Asleep # {}
      BY <1>0, <2>0, <3>1, AwakeLemma DEF n
    <3>3. QED
      BY <1>0, <1>1, <2>0, <3>2
  <2>3. QED
    BY <2>1, <2>2
<1>6. ASSUME NEW w \in Workers, worker_pop(w)
      PROVE  Len(tasks') <= n' + Pending'
  <2>0. Pending' = Pending /\ pc[w] = "pop" /\ (stop \/ tasks # <<>>)
    BY <1>0, <1>6 DEF worker_pop, Pending, TaskInv
  <2>1. CASE tasks = <<>>
    <3>1. Len(tasks') = 0
      <4>1. tasks' = <<>>
        BY <1>6, <2>0, <2>1 DEF worker_pop
      <4>2. QED
        BY <4>1
    <3>2. QED
      BY <1>z, <3>1
  <2>2. CASE tasks # <<>>
    <3>1. Goto(w, "run") /\ tasks' = Tail(tasks)
      BY <1>6, <2>2 DEF worker_pop
    <3>2. n' = n - 1 /\ Asleep # {}
      BY <1>0, <2>0, <3>1, AwakeLemma DEF n
    <3>3. Len(tasks') = Len(tasks) - 1
      BY <1>0, <2>2, <3>1, PopLemma
    <3>4. QED
      BY <1>0, <1>1, <1>3, <2>0, <3>2, <3>3
  <2>3. QED
    BY <2>1, <2>2
<1>7. ASSUME NEW w \in Workers, worker_run(w)
      PROVE  Len(tasks') <= n' + Pending'
  <2>1. n' = n + 1 /\ Asleep # {}
    BY <1>0, <1>7, AwakeLemma DEF worker_run, n
  <2>2. Len(tasks') = Len(tasks) /\ Pending' = Pending
    BY <1>7 DEF worker_run, Pending
  <2>3. QED
    BY <1>0, <1>1, <1>3, <2>1, <2>2
<1>8. ASSUME NEW w \in Workers, Spurious(w)
      PROVE  Len(tasks') <= n' + Pending'
  <2>1. n' = n + 1 /\ Asleep # {}
    BY <1>0, <1>8, AwakeLemma DEF Spurious, n
  <2>2. Len(tasks') = Len(tasks) /\ Pending' = Pending
    BY <1>8 DEF Spurious, Pending
  <2>3. QED
    BY <1>0, <1>1, <1>3, <2>1, <2>2
<1>9. ASSUME UNCHANGED pc
      PROVE  n' = n /\ Asleep # {}
  BY <1>9 DEF n, Awake, Asleep
<1>10. CASE enqueue_push
  <2>1. n' = n /\ Asleep # {}
    BY <1>9, <1>10 DEF enqueue_push
  <2>2. Len(tasks') = Len(tasks) + 1 /\ Pending' = 1 /\ Pending = 0
    BY <1>0, <1>10 DEF enqueue_push, Pending
  <2>3. QED
    BY <1>0, <1>1, <2>1, <2>2
<1>11. CASE enqueue_notify
  <2>1. Len(tasks') = Len(tasks) /\ Pending' = 0 /\ Pending = 1
    BY <1>11 DEF enqueue_notify, Pending
  <2>2. PICK w \in Workers : pc[w] = "blocked" /\ Goto(w, "relock")
    BY <1>11 DEF enqueue_notify, Asleep
  <2>3. n' = n + 1 /\ Asleep # {}
    BY <1>0, <2>2, AwakeLemma DEF n
  <2>4. QED
    BY <1>0, <1>1, <2>1, <2>3
<1>12. CASE destroy_notify
  BY <1>12 DEF destroy_notify, Asleep
<1>13. CASE owner_lock \/ destroy_stop \/ destroy_join
  <2>1. n' = n /\ Asleep # {}
    BY <1>9, <1>13 DEF owner_lock, destroy_stop, destroy_join
  <2>2. Len(tasks') = Len(tasks) /\ Pending' = Pending
    BY <1>13 DEF owner_lock, destroy_stop, destroy_join, Pending
  <2>3. QED
    BY <1>0, <1>1, <2>1, <2>2
<1>14. CASE UNCHANGED vars
  <2>1. n' = n /\ Asleep # {}
    BY <1>9, <1>14 DEF vars
  <2>2. Len(tasks') = Len(tasks) /\ Pending' = Pending
    BY <1>14 DEF vars, Pending
  <2>3. QED
    BY <1>0, <1>1, <2>1, <2>2
<1>15. QED
  BY <1>4, <1>5, <1>6, <1>7, <1>8, <1>10, <1>11, <1>12, <1>13, <1>14
  DEF Next, Worker, OwnerStep, Terminated

(* No wakeup is lost, for any number of threads, tasks and spurious        *)
(* wakeups: while a thread of the pool sleeps, each queued task has an     *)
(* awake thread of its own or its notification is about to be sent.        *)
THEOREM PoolConservesWork == Spec => []WorkConserving
<1>1. Init => WorkConserving
  BY AwakeFinite DEF Init, WorkConserving, Asleep
<1>2. PoolInv /\ WorkConserving /\ [Next]_vars => WorkConserving'
  BY ConservingNext
<1>3. QED
  BY <1>1, <1>2, PoolInit, PoolNext, PTL DEF Spec
=============================================================================
