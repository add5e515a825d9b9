----------------------------- MODULE ThreadPool -----------------------------
(***************************************************************************)
(* The job queue (concurrency/job_queue.c) and the thread pool that owns it *)
(* (concurrency/thread_pool.c).  Every critical section of the queue's      *)
(* mutex is one action; what a thread does between two critical sections    *)
(* is a program counter value.                                              *)
(***************************************************************************)
EXTENDS Integers, Sequences, FiniteSets

CONSTANTS N,          \* worker_count given to thread_pool_init
          Capacity,   \* queue_capacity given to thread_pool_init
          Jobs,       \* client descriptors; one is reused once it is closed
          NoJob       \* an unset ring slot or local variable

\* thread_pool_init rejects worker_count <= 0 and queue_capacity <= 0.
ASSUME NAssumption == N \in Nat \ {0}
ASSUME CapacityAssumption == Capacity \in Nat \ {0}
ASSUME NoJobAssumption == NoJob \notin Jobs

VARIABLES
  client_fds, head, tail, count, shutting_down,   \* JobQueue
  worker_count, active_worker_count,              \* ThreadPool
  pc,         \* per worker: where it is in thread_pool_worker_main
  client_fd,  \* per worker: its local client_fd
  owner,      \* where the thread that owns the pool is
  i,          \* the loop index of thread_pool_init and thread_pool_shutdown
  submitted   \* <<descriptor, status>> of the latest thread_pool_submit

queueVars == <<client_fds, head, tail, count, shutting_down>>
poolVars  == <<worker_count, active_worker_count>>
vars == <<client_fds, head, tail, count, shutting_down, worker_count,
          active_worker_count, pc, client_fd, owner, i, submitted>>

Workers == 1 .. N
Slots   == 0 .. Capacity - 1

\* "none": no thread; "popping": wants the mutex at the top of queue_pop or
\* after a wake-up; "waiting": inside pthread_cond_wait; "popped": queue_pop
\* returned a job; "handling": inside the handler; "exited": returned NULL.
WorkerPc == {"none", "popping", "waiting", "popped", "handling", "exited"}
OwnerPc  == {"init", "failed", "running", "joining", "destroyed"}

At(state) == {w \in Workers : pc[w] = state}

\* The jobs in the ring, oldest first.
Queued == [k \in 1 .. count |-> client_fds[(head + k - 1) % Capacity]]
Taken  == {client_fd[w] : w \in At("popped") \cup At("handling")}

TypeOK ==
  /\ client_fds \in [Slots -> Jobs \cup {NoJob}]
  /\ head \in Slots /\ tail \in Slots
  /\ count \in 0 .. Capacity
  /\ shutting_down \in BOOLEAN
  /\ worker_count \in 0 .. N
  /\ active_worker_count \in 0 .. N
  /\ pc \in [Workers -> WorkerPc]
  /\ client_fd \in [Workers -> Jobs \cup {NoJob}]
  /\ owner \in OwnerPc
  /\ i \in 1 .. N + 1
  /\ submitted \in {<<>>} \cup (Jobs \X BOOLEAN)

-----------------------------------------------------------------------------
\* queue_init zeroes the struct and allocates the ring; thread_pool_init has
\* then set worker_count and is about to start its first worker.
Init ==
  /\ client_fds = [s \in Slots |-> NoJob]
  /\ head = 0 /\ tail = 0 /\ count = 0
  /\ shutting_down = FALSE
  /\ worker_count = N
  /\ active_worker_count = 0
  /\ pc = [w \in Workers |-> "none"]
  /\ client_fd = [w \in Workers |-> NoJob]
  /\ owner = "init"
  /\ i = 1
  /\ submitted = <<>>

\* pthread_create succeeds; after the last worker thread_pool_init returns.
CreateWorker ==
  /\ owner = "init"
  /\ pc' = [pc EXCEPT ![i] = "popping"]
  /\ i' = i + 1
  /\ owner' = IF i = N THEN "running" ELSE "init"
  /\ UNCHANGED <<queueVars, poolVars, client_fd, submitted>>

\* pthread_create fails: only the i - 1 threads that exist are joined.
CreateFails ==
  /\ owner = "init"
  /\ worker_count' = i - 1
  /\ owner' = "failed"
  /\ UNCHANGED <<queueVars, active_worker_count, pc, client_fd, i, submitted>>

\* malloc of the worker's arguments fails: worker_count keeps its value.
ArgsAllocationFails ==
  /\ owner = "init"
  /\ owner' = "failed"
  /\ UNCHANGED <<queueVars, poolVars, pc, client_fd, i, submitted>>

-----------------------------------------------------------------------------
\* Deviation: signal only on the transition from empty to non-empty.
SignalWhenEmptyOnly ==
  IF At("waiting") = {} \/ count > 0
    THEN pc' = pc
    ELSE \E w \in At("waiting") : pc' = [pc EXCEPT ![w] = "popping"]

\* pthread_cond_signal: one waiter, if there is one, goes back for the mutex.
Signal ==
  IF At("waiting") = {}
    THEN pc' = pc
    ELSE \E w \in At("waiting") : pc' = [pc EXCEPT ![w] = "popping"]

\* Deviation: queue_shutdown wakes one worker instead of all of them.
BroadcastAsSignal ==
  IF At("waiting") = {}
    THEN pc' = pc
    ELSE \E w \in At("waiting") : pc' = [pc EXCEPT ![w] = "popping"]

\* pthread_cond_broadcast
Broadcast ==
  pc' = [w \in Workers |-> IF pc[w] = "waiting" THEN "popping" ELSE pc[w]]

\* pthread_cond_wait may return although nobody signalled.
SpuriousWakeup(w) ==
  /\ pc[w] = "waiting"
  /\ pc' = [pc EXCEPT ![w] = "popping"]
  /\ UNCHANGED <<queueVars, poolVars, client_fd, owner, i, submitted>>

\* Deviation: off by one at the capacity.
HasRoomOffByOne == ~shutting_down /\ count <= Capacity

\* The condition under which queue_push stores the job.
HasRoom == ~shutting_down /\ count < Capacity

\* A push accepted: store at the tail, advance it, count and signal.
PushJob(j) ==
  /\ HasRoom
  /\ client_fds' = [client_fds EXCEPT ![tail] = j]
  /\ tail' = (tail + 1) % Capacity
  /\ count' = count + 1
  /\ Signal
  /\ UNCHANGED <<head, shutting_down>>

\* thread_pool_submit = queue_push.  The descriptor comes from accept, so it
\* is not one the pool still holds.  The mutex lives until queue_destroy.
Submit(j) ==
  /\ owner \in {"running", "joining"}
  /\ j \notin {Queued[k] : k \in 1 .. count} \cup Taken
  /\ \/ PushJob(j)
     \/ ~HasRoom /\ UNCHANGED <<queueVars, pc>>
  /\ submitted' = <<j, HasRoom>>
  /\ UNCHANGED <<poolVars, client_fd, owner, i>>

\* queue_pop, first test: nothing to do and not shutting down, so wait.
PopWait(w) ==
  /\ pc[w] = "popping"
  /\ count = 0 /\ ~shutting_down
  /\ pc' = [pc EXCEPT ![w] = "waiting"]
  /\ UNCHANGED <<queueVars, poolVars, client_fd, owner, i, submitted>>

\* Deviation: a worker leaves on shutdown although jobs are queued.
PopExitUndrained(w) ==
  /\ pc[w] = "popping"
  /\ shutting_down
  /\ pc' = [pc EXCEPT ![w] = "exited"]
  /\ UNCHANGED <<queueVars, poolVars, client_fd, owner, i, submitted>>

\* queue_pop returns FAILURE and the worker's loop ends.
PopExit(w) ==
  /\ pc[w] = "popping"
  /\ count = 0 /\ shutting_down
  /\ pc' = [pc EXCEPT ![w] = "exited"]
  /\ UNCHANGED <<queueVars, poolVars, client_fd, owner, i, submitted>>

\* Deviation: the head is not advanced.
PopJobKeepsHead(w) ==
  /\ pc[w] = "popping"
  /\ count > 0
  /\ client_fd' = [client_fd EXCEPT ![w] = client_fds[head]]
  /\ count' = count - 1
  /\ pc' = [pc EXCEPT ![w] = "popped"]
  /\ UNCHANGED <<client_fds, head, tail, shutting_down, poolVars, owner, i,
                 submitted>>

\* queue_pop returns the job at the head.
PopJob(w) ==
  /\ pc[w] = "popping"
  /\ count > 0
  /\ client_fd' = [client_fd EXCEPT ![w] = client_fds[head]]
  /\ head' = (head + 1) % Capacity
  /\ count' = count - 1
  /\ pc' = [pc EXCEPT ![w] = "popped"]
  /\ UNCHANGED <<client_fds, tail, shutting_down, poolVars, owner, i, submitted>>

\* The worker's first critical section of its own: it counts itself busy.
BeginJob(w) ==
  /\ pc[w] = "popped"
  /\ active_worker_count' = active_worker_count + 1
  /\ pc' = [pc EXCEPT ![w] = "handling"]
  /\ UNCHANGED <<queueVars, worker_count, client_fd, owner, i, submitted>>

\* Deviation: the busy counter is not given back.
EndJobStaysBusy(w) ==
  /\ pc[w] = "handling"
  /\ pc' = [pc EXCEPT ![w] = "popping"]
  /\ UNCHANGED <<queueVars, poolVars, client_fd, owner, i, submitted>>

\* The handler has returned (and closed the descriptor).
EndJob(w) ==
  /\ pc[w] = "handling"
  /\ active_worker_count' = active_worker_count - 1
  /\ pc' = [pc EXCEPT ![w] = "popping"]
  /\ UNCHANGED <<queueVars, worker_count, client_fd, owner, i, submitted>>

-----------------------------------------------------------------------------
\* queue_shutdown, called first by thread_pool_shutdown.
QueueShutdown ==
  /\ owner \in {"running", "failed"}
  /\ shutting_down' = TRUE
  /\ Broadcast
  /\ owner' = "joining"
  /\ i' = 1
  /\ UNCHANGED <<client_fds, head, tail, count, poolVars, client_fd, submitted>>

\* The loop body: join workers[i] unless the slot is 0.
JoinWorker ==
  /\ owner = "joining"
  /\ i <= worker_count
  /\ pc[i] \in {"none", "exited"}
  /\ i' = i + 1
  /\ UNCHANGED <<queueVars, poolVars, pc, client_fd, owner, submitted>>

\* Deviation: the join loop stops one worker early.
DestroyPoolOneShort ==
  /\ owner = "joining"
  /\ i >= worker_count
  /\ worker_count' = 0
  /\ active_worker_count' = 0
  /\ count' = 0
  /\ owner' = "destroyed"
  /\ UNCHANGED <<client_fds, head, tail, shutting_down, pc, client_fd, i,
                 submitted>>

\* After the loop: forget the workers, destroy the queue.
DestroyPool ==
  /\ owner = "joining"
  /\ i > worker_count
  /\ worker_count' = 0
  /\ active_worker_count' = 0
  /\ count' = 0
  /\ owner' = "destroyed"
  /\ UNCHANGED <<client_fds, head, tail, shutting_down, pc, client_fd, i,
                 submitted>>

\* thread_pool_get_stats, computed under the mutex.
Stats == [worker_count          |-> worker_count,
          busy_worker_count     |-> active_worker_count,
          idle_worker_count     |-> worker_count - active_worker_count,
          queue_length          |-> count,
          available_queue_slots |-> Capacity - count]

WorkerStep(w) == \/ PopWait(w) \/ PopExit(w) \/ PopJob(w)
                 \/ BeginJob(w)

OwnerStep == \/ CreateWorker \/ CreateFails \/ ArgsAllocationFails
             \/ QueueShutdown \/ JoinWorker \/ DestroyPool

Next == \/ OwnerStep
        \/ \E j \in Jobs : Submit(j)
        \/ \E w \in Workers : WorkerStep(w) \/ EndJob(w) \/ SpuriousWakeup(w)

Spec == Init /\ [][Next]_vars

\* Workers that can enter the queue's mutex do so: its critical sections are
\* short and bounded.  Nothing is assumed of the handlers.
FairSpec == Spec /\ \A w \in Workers : WF_vars(WorkerStep(w))

\* What a shutdown depends on: the handlers return and the owner, once in
\* thread_pool_shutdown, runs to its end.
HandlersReturn == \A w \in Workers : WF_vars(EndJob(w))
OwnerRuns == /\ WF_vars(JoinWorker) /\ WF_vars(DestroyPool)
             /\ WF_vars(owner = "failed" /\ QueueShutdown)

-----------------------------------------------------------------------------
\* The ring of queue_push and queue_pop: the tail is always count slots after
\* the head, also across the wrap-around.
RingConsistent == tail = (head + count) % Capacity

\* A worker sleeps in pthread_cond_wait only while there is somebody awake for
\* every queued job, and nobody sleeps once queue_shutdown has broadcast: the
\* single pthread_cond_signal of queue_push and the while loop of queue_pop
\* lose no wake-up, whichever worker gets the mutex first.
NoLostWakeup ==
  At("waiting") # {} => ~shutting_down /\ count <= Cardinality(At("popping"))

\* active_worker_count, changed in two critical sections around the handler,
\* is the number of workers inside a handler, so that thread_pool_get_stats
\* never reports a negative or an excessive number of idle workers.
BusyCountExact ==
  owner # "destroyed" =>
    /\ active_worker_count = Cardinality(At("handling"))
    /\ At("popped") \cup At("handling") # {} => worker_count = N

\* thread_pool_shutdown frees the ring and destroys the mutex only when no
\* worker can touch them again, on the regular path and on both failure paths
\* of thread_pool_init.
NoWorkerOutlivesPool ==
  owner = "destroyed" => \A w \in Workers : pc[w] \in {"none", "exited"}

\* No descriptor is in the ring twice or with two workers: every accepted
\* client is answered and closed by one worker.
EachJobOnce ==
  /\ \A k, l \in 1 .. count : Queued[k] = Queued[l] => k = l
  /\ \A k \in 1 .. count : Queued[k] \in Jobs \ Taken
  /\ \A v, w \in At("popped") \cup At("handling") :
        client_fd[v] = client_fd[w] => v = w

\* The pool as a JobPool.
Pool == INSTANCE JobPool WITH MaxRunning <- N, pending <- Queued,
          running <- Taken, closed <- shutting_down, outcome <- submitted

\* Seen through its ring and its workers the pool is the bounded FIFO JobPool:
\* jobs are taken in the order of their acceptance, none is lost, also not by
\* a shutdown, a submission fails only if the queue is full or closed, and no
\* accepted job keeps waiting while a worker is free, although queue_push wakes
\* one worker only.
ImplementsFairJobPool == Pool!FairSpec

\* thread_pool_shutdown terminates once the handlers return: the broadcast
\* reaches every worker and every join succeeds, after a failed
\* thread_pool_init as well.
ShutdownTerminates ==
  HandlersReturn /\ OwnerRuns =>
    (owner \in {"failed", "joining"} ~> owner = "destroyed")

\* Every accepted job gets a worker once the handlers return, also when the
\* pool is shut down meanwhile.
AcceptedJobIsHandled ==
  HandlersReturn =>
    \A j \in Jobs : (\E k \in 1 .. count : Queued[k] = j) ~> j \in Taken
=============================================================================
