----------------------------- MODULE TaskQueue -----------------------------
(***************************************************************************)
(* What the walker expects of its thread pool (threadPool.hh): a FIFO      *)
(* queue whose tasks are each run once, by one thread; after it is closed  *)
(* the threads leave only when nothing is queued.                          *)
(***************************************************************************)
EXTENDS Naturals, Sequences

CONSTANTS
    Workers,   \* the threads
    Tasks,     \* what is enqueued, each at most once
    None       \* no task

VARIABLES
    queue,     \* tasks that were enqueued and not yet taken
    running,   \* the task each thread runs
    done,      \* tasks that were run to their end
    closed,    \* nothing more is enqueued
    gone       \* threads that have left

qvars == <<queue, running, done, closed, gone>>

QInit ==
    /\ queue = <<>>
    /\ running = [w \in Workers |-> None]
    /\ done = {}
    /\ closed = FALSE
    /\ gone = {}

Fresh(t) ==
    /\ t \notin done
    /\ \A i \in 1 .. Len(queue) : queue[i] # t
    /\ \A w \in Workers : running[w] # t

Put(t) ==
    /\ ~closed
    /\ Fresh(t)
    /\ queue' = Append(queue, t)
    /\ UNCHANGED <<running, done, closed, gone>>

Take(w) ==
    /\ queue # <<>>
    /\ w \notin gone
    /\ running[w] = None
    /\ running' = [running EXCEPT ![w] = Head(queue)]
    /\ queue' = Tail(queue)
    /\ UNCHANGED <<done, closed, gone>>

Finish(w) ==
    /\ running[w] # None
    /\ done' = done \cup {running[w]}
    /\ running' = [running EXCEPT ![w] = None]
    /\ UNCHANGED <<queue, closed, gone>>

Close ==
    /\ closed' = TRUE
    /\ UNCHANGED <<queue, running, done, gone>>

Leave(w) ==
    /\ closed
    /\ queue = <<>>
    /\ running[w] = None
    /\ gone' = gone \cup {w}
    /\ UNCHANGED <<queue, running, done, closed>>

QNext ==
    \/ \E t \in Tasks : Put(t)
    \/ \E w \in Workers : Take(w) \/ Finish(w) \/ Leave(w)
    \/ Close

QSpec == QInit /\ [][QNext]_qvars
=============================================================================
