----------------------------- MODULE WorkerPool -----------------------------
(***************************************************************************)
(* worker_pool: a bounded queue in front of a thread pool.  Posters (the   *)
(* I/O threads, one per session) reserve a place by compare-and-exchange   *)
(* on queued_task_count_ and then hand their task to boost::asio; a thread *)
(* takes a task and gives the place back before it runs the task.          *)
(***************************************************************************)
EXTENDS Naturals, Sequences, FiniteSets

CONSTANTS
    Posters,     \* who posts tasks
    Workers,     \* the threads of thread_pool_
    Tasks,       \* the tasks posted
    QueueLimit,  \* queue_limit_opt_, or NoLimit
    NoLimit,     \* std::nullopt
    NoTask       \* a worker with nothing to do

VARIABLES
    queued_task_count,  \* the atomic counter
    waiting,            \* the tasks thread_pool_ has not begun
    post,               \* a poster's call of post
    running             \* a thread's task, and whether it gave its place back

workerPoolVars == <<queued_task_count, waiting, post, running>>

Idle == [step |-> "idle", task |-> NoTask, seen |-> 0]
Unoccupied == [task |-> NoTask, counted |-> FALSE]

\* The task of poster p has a place, but the thread pool does not have it yet.
Reserved(p) == post[p].step = "reserved"

Limited == QueueLimit # NoLimit

WorkerPoolInit ==
    /\ queued_task_count = 0
    /\ waiting = <<>>
    /\ post = [p \in Posters |-> Idle]
    /\ running = [w \in Workers |-> Unoccupied]

-----------------------------------------------------------------------------
(* post *)

\* Whether a post that saw `seen` tasks queued may try to reserve a place.
HasRoom(seen) == seen < QueueLimit

\* Whether compare_exchange_weak finds the counter as poster p saw it.
Unchanged(p) == post[p].seen = queued_task_count

\* The task is posted: with no limit it needs no place.
BeginPost(p, task) ==
    /\ post[p] = Idle
    /\ post' = [post EXCEPT ![p] =
           [step |-> IF Limited THEN "reserving" ELSE "unlimited",
            task |-> task, seen |-> queued_task_count]]
    /\ UNCHANGED <<queued_task_count, waiting, running>>

\* The exchange succeeds.
Reserve(p) ==
    /\ post[p].step = "reserving"
    /\ HasRoom(post[p].seen)
    /\ Unchanged(p)
    /\ queued_task_count' = post[p].seen + 1
    /\ post' = [post EXCEPT ![p].step = "reserved"]
    /\ UNCHANGED <<waiting, running>>

\* The exchange fails, and leaves what it found in queued_count.
ReserveAgain(p) ==
    /\ post[p].step = "reserving"
    /\ HasRoom(post[p].seen)
    /\ ~ Unchanged(p)
    /\ post' = [post EXCEPT ![p].seen = queued_task_count]
    /\ UNCHANGED <<queued_task_count, waiting, running>>

\* "worker pool queue is full"
Refuse(p) ==
    /\ post[p].step = "reserving"
    /\ ~ HasRoom(post[p].seen)
    /\ post' = [post EXCEPT ![p] = Idle]
    /\ UNCHANGED <<queued_task_count, waiting, running>>

\* boost::asio::post takes the task.
Enqueue(p) ==
    /\ post[p].step \in {"reserved", "unlimited"}
    /\ waiting' = Append(waiting, post[p].task)
    /\ post' = [post EXCEPT ![p] = Idle]
    /\ UNCHANGED <<queued_task_count, running>>

\* Mutant of CountAfterThrow: the place is not given back.
CountAfterThrowKept(p) == queued_task_count

\* What the counter is when boost::asio::post throws for poster p.
CountAfterThrow(p) ==
    IF Reserved(p) THEN queued_task_count - 1 ELSE queued_task_count

\* boost::asio::post throws: the place is given back.
EnqueueThrows(p) ==
    /\ post[p].step \in {"reserved", "unlimited"}
    /\ queued_task_count' = CountAfterThrow(p)
    /\ post' = [post EXCEPT ![p] = Idle]
    /\ UNCHANGED <<waiting, running>>

-----------------------------------------------------------------------------
(* The threads *)

\* Whether a task gives a place back.
IsCounted == Limited

Take(w) ==
    /\ running[w] = Unoccupied
    /\ waiting # <<>>
    /\ running' = [running EXCEPT ![w] = [task |-> Head(waiting), counted |-> IsCounted]]
    /\ waiting' = Tail(waiting)
    /\ UNCHANGED <<queued_task_count, post>>

\* The first thing a wrapped task does.
GivePlaceBack(w) ==
    /\ running[w].counted
    /\ queued_task_count' = queued_task_count - 1
    /\ running' = [running EXCEPT ![w].counted = FALSE]
    /\ UNCHANGED <<waiting, post>>

\* The task of w runs and returns.
Finish(w) ==
    /\ running[w].task # NoTask
    /\ ~ running[w].counted
    /\ running' = [running EXCEPT ![w] = Unoccupied]
    /\ UNCHANGED <<queued_task_count, waiting, post>>

WorkerPoolNext ==
    \/ \E p \in Posters :
        \/ \E task \in Tasks : BeginPost(p, task)
        \/ Reserve(p) \/ ReserveAgain(p) \/ Refuse(p)
        \/ Enqueue(p) \/ EnqueueThrows(p)
    \/ \E w \in Workers : Take(w) \/ GivePlaceBack(w) \/ Finish(w)

WorkerPoolSpec == WorkerPoolInit /\ [][WorkerPoolNext]_workerPoolVars

-----------------------------------------------------------------------------
(* Properties *)

WorkerPoolTypeOK ==
    /\ queued_task_count \in Nat
    /\ waiting \in Seq(Tasks)
    /\ post \in [Posters -> [step : {"idle", "reserving", "reserved", "unlimited"},
                             task : Tasks \union {NoTask}, seen : Nat]]
    /\ running \in [Workers -> [task : Tasks \union {NoTask}, counted : BOOLEAN]]

\* Every place is held by a poster that has not enqueued yet, by a waiting
\* task, or by a thread that has only just taken its task: no exception and no
\* lost exchange leaves the counter wrong, which would make the queue refuse
\* requests for good (post, worker_pool.hpp:28-79).
PlacesAreAccountedFor ==
    Limited => queued_task_count =
        Cardinality({p \in Posters : Reserved(p)}) + Len(waiting)
            + Cardinality({w \in Workers : running[w].counted})

\* However posts race, no more tasks wait than the limit (post,
\* worker_pool.hpp:30-53).
QueueIsBounded == Limited => Len(waiting) <= QueueLimit

\* The queue takes a task exactly while it has a place: never one too many, and no
\* place is lost for good (post, worker_pool.hpp:28-79).
QueueIsSound == PlacesAreAccountedFor /\ QueueIsBounded
=============================================================================
