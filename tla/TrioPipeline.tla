----------------------------- MODULE TrioPipeline -----------------------------
(***************************************************************************)
(* The thread pipeline of SpecializedThreadEngine in TrioFuzz Unified mode *)
(* (src/src/core/specialized_thread_engine.cpp): one scheduler, workers    *)
(* with a task queue each and work stealing, explorers that make their own *)
(* tasks, double-buffered result queues back to the scheduler, and the     *)
(* start() / stop() of the control thread.                                 *)
(*                                                                         *)
(* A task is its id; what is executed and what is found are abstracted.    *)
(* Only the scheduler appends to a worker queue and the ids it draws grow, *)
(* so a deque of tasks is the set of its ids: its front is the least and   *)
(* its back the greatest.  The order of results within one batch is not    *)
(* kept: the scheduler books a swapped batch in any order.                 *)
(***************************************************************************)
EXTENDS Naturals, FiniteSets

CONSTANTS
    NumWorkers,           \* num_workers_
    NumExplorers,         \* num_explorers_
    QueueDepth,           \* max(1, worker_queue_target_depth)
    MicroBatchWorkers,    \* micro_batch_workers
    MicroBatchExplorers,  \* max(1, micro_batch_explorers)
    ResultQueueOf,        \* worker -> the result queue its thread id hashes to
    PendingLimit,         \* pending_tasks is swept above this size (10000)
    PendingAge,           \* ... of the ids older than this (100000)
    MaxTaskId,            \* bound: task ids a behaviour may draw
    MaxStarts             \* bound: how often start() is called

Workers      == 0 .. (NumWorkers - 1)
Explorers    == 0 .. (NumExplorers - 1)
ResultQueues == 0 .. (NumWorkers + NumExplorers - 1)
TaskIds      == 0 .. (MaxTaskId - 1)
NoTask       == MaxTaskId

ASSUME PipelineAssumption ==
    /\ NumWorkers \in Nat \ {0}
    /\ NumExplorers \in Nat
    /\ QueueDepth \in Nat \ {0}
    /\ MicroBatchWorkers \in Nat
    /\ MicroBatchExplorers \in Nat \ {0}
    /\ ResultQueueOf \in [Workers -> ResultQueues]
    /\ PendingLimit \in Nat
    /\ PendingAge \in Nat
    /\ MaxTaskId \in Nat
    /\ MaxStarts \in Nat

VARIABLES
    \* the control thread, in start() and stop()
    running,       \* running_
    ctl,           \* where the control thread is
    starts,        \* calls of start() so far
    \* the scheduler thread
    spc,           \* where the scheduler thread is
    drainAt,       \* the result queue it drains next
    results,       \* the results of the batch it has not booked yet
    filled,        \* the worker queues it has visited in this fill round
    nextFill,      \* next_worker_to_fill_
    fillTarget,    \* the worker queue being filled
    needed,        \* tasks_needed still to be made for that queue
    fresh,         \* the task made but not yet enqueued
    pending,       \* pending_tasks
    \* shared between the threads
    nextId,        \* task_id_counter_
    queue,         \* worker_queues_[w]->tasks
    signalled,     \* the workers whose condition variable was notified in their wait
    active,        \* result_queues_[q]->active_buffer
    processing,    \* result_queues_[q]->processing_buffer
    \* the workers
    wpc,           \* where each worker is
    task,          \* the task a worker holds
    scan,          \* how many victims a thief has looked at
    local,         \* local_results
    \* the explorers
    epc,           \* where each explorer is
    etask,         \* the task an explorer holds
    batch,         \* batch_results
    \* history: what happened to each task
    execs,         \* how often it was executed
    booked,        \* how often the scheduler processed its result
    credits,       \* how often the learner was given its outcome
    void,          \* ids drawn without a seed to run
    dropped        \* tasks cleared by stop()

ctlVars     == <<running, ctl, starts>>
schedVars   == <<spc, drainAt, results, filled, nextFill, fillTarget, needed, fresh, pending>>
bufferVars  == <<active, processing>>
workerVars  == <<wpc, task, scan, local>>
exploreVars == <<epc, etask, batch>>
historyVars == <<execs, booked, credits, void, dropped>>
vars == <<ctlVars, schedVars, nextId, queue, signalled, bufferVars, workerVars,
          exploreVars, historyVars>>

AllOf(f) == UNION {f[i] : i \in DOMAIN f}

Once(f, t) == [f EXCEPT ![t] = @ + 1]

Front(q) == CHOOSE t \in q : \A u \in q : t <= u
Back(q)  == CHOOSE t \in q : \A u \in q : u <= t

\* A worker that evaluated its wait predicate holds its queue's mutex until it blocks.
Locked(w) == wpc[w] = "deciding"

Init ==
    /\ running = FALSE /\ ctl = "idle" /\ starts = 0
    /\ spc = "stopped" /\ drainAt = 0 /\ results = {} /\ filled = 0 /\ nextFill = 0
    /\ fillTarget = 0 /\ needed = 0 /\ fresh = NoTask /\ pending = {}
    /\ nextId = 0
    /\ queue = [w \in Workers |-> {}]
    /\ signalled = {}
    /\ active = [q \in ResultQueues |-> {}]
    /\ processing = [q \in ResultQueues |-> {}]
    /\ wpc = [w \in Workers |-> "stopped"]
    /\ task = [w \in Workers |-> NoTask]
    /\ scan = [w \in Workers |-> 0]
    /\ local = [w \in Workers |-> {}]
    /\ epc = [e \in Explorers |-> "stopped"]
    /\ etask = [e \in Explorers |-> NoTask]
    /\ batch = [e \in Explorers |-> {}]
    /\ execs = [t \in TaskIds |-> 0]
    /\ booked = [t \in TaskIds |-> 0]
    /\ credits = [t \in TaskIds |-> 0]
    /\ void = {} /\ dropped = {}

-------------------------------------------------------------------------------
(* The control thread. *)

\* start(): threads are created; running_ was false, or start() returns at once.
Start ==
    /\ ctl = "idle" /\ starts < MaxStarts
    /\ starts' = starts + 1
    /\ running' = TRUE /\ ctl' = "up"
    /\ nextFill' = 0
    /\ spc' = "top"
    /\ wpc' = [w \in Workers |-> "top"]
    /\ epc' = [e \in Explorers |-> "top"]
    /\ UNCHANGED <<drainAt, results, filled, fillTarget, needed, fresh, pending, nextId,
                   queue, signalled, bufferVars, task, scan, local, etask, batch, historyVars>>

\* stop() clears running_ without holding any queue's mutex ...
Stop ==
    /\ ctl = "up"
    /\ running' = FALSE /\ ctl' = "notifying"
    /\ UNCHANGED <<starts, schedVars, nextId, queue, signalled, bufferVars, workerVars,
                   exploreVars, historyVars>>

\* ... then notifies every queue: only a worker already blocked is woken.
NotifyAll ==
    /\ ctl = "notifying"
    /\ ctl' = "joining"
    /\ signalled' = {w \in Workers : wpc[w] = "blocked"}
    /\ UNCHANGED <<running, starts, schedVars, nextId, queue, bufferVars, workerVars,
                   exploreVars, historyVars>>

\* mutant: the explorers are not joined
JoinedNoExplorers ==
    /\ spc = "stopped"
    /\ \A w \in Workers : wpc[w] = "stopped"

Joined ==
    /\ spc = "stopped"
    /\ \A w \in Workers : wpc[w] = "stopped"
    /\ \A e \in Explorers : epc[e] = "stopped"

\* mutant: the worker queues are not cleared
ClearKeepsQueues ==
    /\ ctl = "joining" /\ Joined
    /\ ctl' = "idle"
    /\ active' = [q \in ResultQueues |-> {}]
    /\ processing' = [q \in ResultQueues |-> {}]
    /\ nextFill' = 0
    /\ dropped' = dropped \cup AllOf(active)
    /\ UNCHANGED <<running, starts, spc, drainAt, results, filled, fillTarget, needed,
                   fresh, pending, nextId, queue, signalled, workerVars, exploreVars,
                   execs, booked, credits, void>>

\* After the joins, stop() clears the queues and the result buffers.
Clear ==
    /\ ctl = "joining" /\ Joined
    /\ ctl' = "idle"
    /\ queue' = [w \in Workers |-> {}]
    /\ active' = [q \in ResultQueues |-> {}]
    /\ processing' = [q \in ResultQueues |-> {}]
    /\ nextFill' = 0
    /\ dropped' = dropped \cup AllOf(queue) \cup AllOf(active)
    /\ UNCHANGED <<running, starts, spc, drainAt, results, filled, fillTarget, needed,
                   fresh, pending, nextId, signalled, workerVars, exploreVars,
                   execs, booked, credits, void>>

-------------------------------------------------------------------------------
(* The scheduler thread: drain the results, refill the queues, sweep, repeat. *)

\* The loop test; leaving the loop destroys the thread's pending_tasks.
SchedTop ==
    /\ spc = "top"
    /\ \/ running /\ spc' = "drain" /\ UNCHANGED pending
       \/ ~running /\ spc' = "stopped" /\ pending' = {}
    /\ UNCHANGED <<ctlVars, drainAt, results, filled, nextFill, fillTarget, needed, fresh,
                   nextId, queue, signalled, bufferVars, workerVars, exploreVars,
                   historyVars>>

\* mutant: the swapped-out buffer is not cleared
SwapAndGetNoClear(q) ==
    /\ results' = active[q]
    /\ processing' = [processing EXCEPT ![q] = active[q]]
    /\ active' = [active EXCEPT ![q] = processing[q]]

\* mutant: the buffer is copied before the swap
SwapAndGetEarly(q) ==
    /\ results' = processing[q]
    /\ processing' = [processing EXCEPT ![q] = active[q]]
    /\ active' = [active EXCEPT ![q] = {}]

\* swapAndGet(): swap the buffers, clear the new active one, copy the other.
SwapAndGet(q) ==
    /\ results' = active[q]
    /\ processing' = [processing EXCEPT ![q] = active[q]]
    /\ active' = [active EXCEPT ![q] = {}]

SchedDrain ==
    /\ spc = "drain" /\ results = {} /\ drainAt \in ResultQueues
    /\ SwapAndGet(drainAt)
    /\ drainAt' = drainAt + 1
    /\ UNCHANGED <<ctlVars, spc, filled, nextFill, fillTarget, needed, fresh, pending,
                   nextId, queue, signalled, workerVars, exploreVars, historyVars>>

\* mutant: the entry is not erased
CreditPendingKeeps(t) ==
    /\ credits' = IF t \in pending THEN Once(credits, t) ELSE credits
    /\ pending' = pending

\* A result feeds the learner only while its task is in pending_tasks.
CreditPending(t) ==
    /\ credits' = IF t \in pending THEN Once(credits, t) ELSE credits
    /\ pending' = pending \ {t}

SchedBook ==
    /\ spc = "drain"
    /\ \E t \in results :
         /\ results' = results \ {t}
         /\ booked' = Once(booked, t)
         /\ CreditPending(t)
    /\ UNCHANGED <<ctlVars, spc, drainAt, filled, nextFill, fillTarget, needed, fresh,
                   nextId, queue, signalled, bufferVars, workerVars, exploreVars,
                   execs, void, dropped>>

SchedDrained ==
    /\ spc = "drain" /\ results = {} /\ drainAt \notin ResultQueues
    /\ spc' = "fill" /\ drainAt' = 0
    /\ UNCHANGED <<ctlVars, results, filled, nextFill, fillTarget, needed, fresh, pending,
                   nextId, queue, signalled, bufferVars, workerVars, exploreVars,
                   historyVars>>

NextWorkerNoWrap(w) == w + 1                          \* mutant: no modulo
NextWorker(w) == (w + 1) % NumWorkers

TasksNeededOneMore(w) == QueueDepth + 1 - Cardinality(queue[w])   \* mutant: off by one
TasksNeeded(w) == QueueDepth - Cardinality(queue[w])

\* The fill loop visits each worker queue once, from next_worker_to_fill_ on.  Both
\* getQueueSize() calls are one read: the queue only shrinks in between.
SchedVisit ==
    /\ spc = "fill" /\ filled < NumWorkers /\ running
    /\ ~Locked(nextFill)
    /\ filled' = filled + 1
    /\ nextFill' = NextWorker(nextFill)
    /\ \/ /\ Cardinality(queue[nextFill]) >= QueueDepth
          /\ UNCHANGED <<spc, fillTarget, needed>>
       \/ /\ Cardinality(queue[nextFill]) < QueueDepth
          /\ needed' = TasksNeeded(nextFill)
          /\ fillTarget' = nextFill
          /\ spc' = "make"
    /\ UNCHANGED <<ctlVars, drainAt, results, fresh, pending, nextId, queue, signalled,
                   bufferVars, workerVars, exploreVars, historyVars>>

\* task_id_counter_.fetch_add(1).  At the bound no id is left and no task can be made.
DrawId(t) == t = nextId /\ t \in TaskIds /\ nextId' = nextId + 1

\* A task is recorded in pending_tasks before it is enqueued.
SchedMake ==
    /\ spc = "make" /\ needed > 0 /\ running
    /\ \E t \in TaskIds :
         /\ DrawId(t)
         /\ fresh' = t /\ pending' = pending \cup {t}
    /\ spc' = "enqueue"
    /\ UNCHANGED <<ctlVars, drainAt, results, filled, nextFill, fillTarget, needed, queue,
                   signalled, bufferVars, workerVars, exploreVars, historyVars>>

\* No seed for the schedule: the id is spent and the iteration is over.
SchedNoSeed ==
    /\ spc = "make" /\ needed > 0 /\ running
    /\ \/ \E t \in TaskIds : DrawId(t) /\ void' = void \cup {t}
       \/ nextId = MaxTaskId /\ UNCHANGED <<nextId, void>>
    /\ needed' = needed - 1
    /\ UNCHANGED <<ctlVars, spc, drainAt, results, filled, nextFill, fillTarget, fresh,
                   pending, queue, signalled, bufferVars, workerVars, exploreVars,
                   execs, booked, credits, dropped>>

SchedMade ==
    /\ spc = "make" /\ (needed = 0 \/ ~running)
    /\ spc' = "fill" /\ needed' = 0 /\ fillTarget' = 0
    /\ UNCHANGED <<ctlVars, drainAt, results, filled, nextFill, fresh, pending, nextId,
                   queue, signalled, bufferVars, workerVars, exploreVars, historyVars>>

\* enqueueTask(): push under the queue's mutex, then notify one waiter.
SchedEnqueue ==
    /\ spc = "enqueue" /\ ~Locked(fillTarget)
    /\ queue' = [queue EXCEPT ![fillTarget] = @ \cup {fresh}]
    /\ signalled' = IF wpc[fillTarget] = "blocked" THEN signalled \cup {fillTarget}
                                                   ELSE signalled
    /\ fresh' = NoTask
    /\ needed' = needed - 1
    /\ spc' = "make"
    /\ UNCHANGED <<ctlVars, drainAt, results, filled, nextFill, fillTarget, pending, nextId,
                   bufferVars, workerVars, exploreVars, historyVars>>

\* mutant: swept whatever the size
SweptPendingAlways == {t \in pending : nextId - t <= PendingAge}

\* "Cleanup old pending tasks": by the distance of the ids, once the map is large.
SweptPending ==
    IF Cardinality(pending) > PendingLimit
    THEN {t \in pending : nextId - t <= PendingAge}
    ELSE pending

SchedSweep ==
    /\ spc = "fill" /\ (filled = NumWorkers \/ ~running)
    /\ pending' = SweptPending
    /\ spc' = "top" /\ filled' = 0
    /\ UNCHANGED <<ctlVars, drainAt, results, nextFill, fillTarget, needed, fresh, nextId,
                   queue, signalled, bufferVars, workerVars, exploreVars, historyVars>>

Scheduler ==
    \/ SchedTop \/ SchedDrain \/ SchedBook \/ SchedDrained
    \/ SchedVisit \/ SchedMake \/ SchedNoSeed \/ SchedMade
    \/ SchedEnqueue \/ SchedSweep

-------------------------------------------------------------------------------
(* A worker thread: waitAndPopTask, executeTask, submitResultsBatch. *)

WorkerGoto(w, pc) == wpc' = [wpc EXCEPT ![w] = pc]

\* while (running_), of the thread and of waitAndPopTask.
WorkerLoop(w) ==
    /\ wpc[w] = "top"
    /\ WorkerGoto(w, IF running THEN "lock" ELSE "flush")
    /\ UNCHANGED <<ctlVars, schedVars, nextId, queue, signalled, bufferVars, task, scan,
                   local, exploreVars, historyVars>>

\* Under the mutex: the front task if there is one, else give up if the engine
\* stopped, else go on to `idle`.
PopOr(w, idle) ==
    /\ \/ /\ queue[w] # {}
          /\ task' = [task EXCEPT ![w] = Front(queue[w])]
          /\ queue' = [queue EXCEPT ![w] = @ \ {Front(@)}]
          /\ WorkerGoto(w, "execute")
       \/ /\ queue[w] = {}
          /\ WorkerGoto(w, IF running THEN idle ELSE "flush")
          /\ UNCHANGED <<task, queue>>
    /\ UNCHANGED <<ctlVars, schedVars, nextId, bufferVars, local, scan, exploreVars,
                   historyVars>>

\* cv.wait_for: the predicate is evaluated first; false, and the worker will block.
WorkerLock(w) ==
    /\ wpc[w] = "lock"
    /\ PopOr(w, "deciding")
    /\ UNCHANGED signalled

\* Between the two a notification finds nobody to wake: stop() takes no mutex.
WorkerBlock(w) ==
    /\ wpc[w] = "deciding"
    /\ WorkerGoto(w, "blocked")
    /\ UNCHANGED <<ctlVars, schedVars, nextId, queue, signalled, bufferVars, task, scan,
                   local, exploreVars, historyVars>>

WorkerNotified(w) ==
    /\ wpc[w] = "blocked" /\ w \in signalled
    /\ PopOr(w, "deciding")
    /\ signalled' = signalled \ {w}

WorkerWaitsForever(w) == FALSE          \* mutant: cv.wait in place of cv.wait_for

\* 5 ms without a notification: look once more, then try to steal.
WorkerTimeout(w) ==
    /\ wpc[w] = "blocked"
    /\ PopOr(w, "steal")
    /\ signalled' = signalled \ {w}

Victim(w) == (w + scan[w] + 1) % NumWorkers

\* mutant: the stolen task stays in the victim's queue
WorkerStealCopies(w) ==
    /\ wpc[w] = "steal" /\ scan[w] < NumWorkers - 1
    /\ LET v == Victim(w) IN
         /\ ~Locked(v) /\ queue[v] # {}
         /\ task' = [task EXCEPT ![w] = Back(queue[v])]
    /\ scan' = [scan EXCEPT ![w] = 0]
    /\ WorkerGoto(w, "execute")
    /\ UNCHANGED <<ctlVars, schedVars, nextId, queue, signalled, bufferVars, local,
                   exploreVars, historyVars>>

\* stealTask(): the back of the victim's queue ...
WorkerSteal(w) ==
    /\ wpc[w] = "steal" /\ scan[w] < NumWorkers - 1
    /\ LET v == Victim(w) IN
         /\ ~Locked(v) /\ queue[v] # {}
         /\ task' = [task EXCEPT ![w] = Back(queue[v])]
         /\ queue' = [queue EXCEPT ![v] = @ \ {Back(@)}]
    /\ scan' = [scan EXCEPT ![w] = 0]
    /\ WorkerGoto(w, "execute")
    /\ UNCHANGED <<ctlVars, schedVars, nextId, signalled, bufferVars, local, exploreVars,
                   historyVars>>

\* ... or the next victim: try_lock fails whenever some thread is at that queue.
WorkerSkipVictim(w) ==
    /\ wpc[w] = "steal"
    /\ \/ /\ scan[w] < NumWorkers - 1
          /\ scan' = [scan EXCEPT ![w] = @ + 1]
          /\ UNCHANGED wpc
       \/ /\ scan[w] = NumWorkers - 1
          /\ scan' = [scan EXCEPT ![w] = 0]
          /\ WorkerGoto(w, "top")
    /\ UNCHANGED <<ctlVars, schedVars, nextId, queue, signalled, bufferVars, task, local,
                   exploreVars, historyVars>>

\* submitResultsBatch(): into the queue the thread id hashes to.
SubmitLocal(w, batched) ==
    /\ active' = [active EXCEPT ![ResultQueueOf[w]] = @ \cup batched]
    /\ local' = [local EXCEPT ![w] = {}]

\* Execute, keep the result, submit the batch when it is full.
WorkerExecute(w) ==
    /\ wpc[w] = "execute"
    /\ execs' = Once(execs, task[w])
    /\ task' = [task EXCEPT ![w] = NoTask]
    /\ LET batched == local[w] \cup {task[w]} IN
         \/ Cardinality(batched) >= MicroBatchWorkers /\ SubmitLocal(w, batched)
         \/ /\ Cardinality(batched) < MicroBatchWorkers
            /\ local' = [local EXCEPT ![w] = batched]
            /\ UNCHANGED active
    /\ WorkerGoto(w, "top")
    /\ UNCHANGED <<ctlVars, schedVars, nextId, queue, signalled, processing, scan,
                   exploreVars, booked, credits, void, dropped>>

\* mutant: the last partial batch is not flushed
WorkerQuit(w) ==
    /\ wpc[w] = "flush"
    /\ WorkerGoto(w, "stopped")
    /\ UNCHANGED <<ctlVars, schedVars, nextId, queue, signalled, bufferVars, task, scan,
                   local, exploreVars, historyVars>>

\* "Flush remaining results" on the way out of the thread.
WorkerFlush(w) ==
    /\ wpc[w] = "flush"
    /\ SubmitLocal(w, local[w])
    /\ WorkerGoto(w, "stopped")
    /\ UNCHANGED <<ctlVars, schedVars, nextId, queue, signalled, processing, task, scan,
                   exploreVars, historyVars>>

Worker(w) ==
    \/ WorkerLoop(w) \/ WorkerLock(w) \/ WorkerBlock(w) \/ WorkerNotified(w)
    \/ WorkerTimeout(w) \/ WorkerSteal(w) \/ WorkerSkipVictim(w)
    \/ WorkerExecute(w) \/ WorkerFlush(w)

-------------------------------------------------------------------------------
(* An explorer thread: makes, executes and learns from its own tasks. *)

ExplorerGoto(e, pc) == epc' = [epc EXCEPT ![e] = pc]

ExplorerLoop(e) ==
    /\ epc[e] = "top"
    /\ ExplorerGoto(e, IF running THEN "make" ELSE "stopped")
    /\ UNCHANGED <<ctlVars, schedVars, nextId, queue, signalled, bufferVars, workerVars,
                   etask, batch, historyVars>>

MoreToExplore(e) == Cardinality(batch[e]) < MicroBatchExplorers /\ running

ExplorerMake(e) ==
    /\ epc[e] = "make" /\ MoreToExplore(e)
    /\ \E t \in TaskIds : DrawId(t) /\ etask' = [etask EXCEPT ![e] = t]
    /\ ExplorerGoto(e, "execute")
    /\ UNCHANGED <<ctlVars, schedVars, queue, signalled, bufferVars, workerVars, batch,
                   historyVars>>

\* No seed breaks off the batch.
ExplorerNoSeed(e) ==
    /\ epc[e] = "make" /\ MoreToExplore(e)
    /\ \/ \E t \in TaskIds : DrawId(t) /\ void' = void \cup {t}
       \/ nextId = MaxTaskId /\ UNCHANGED <<nextId, void>>
    /\ ExplorerGoto(e, "submit")
    /\ UNCHANGED <<ctlVars, schedVars, queue, signalled, bufferVars, workerVars, etask,
                   batch, execs, booked, credits, dropped>>

\* The explorer gives the outcome to the learner itself.
ExplorerExecute(e) ==
    /\ epc[e] = "execute"
    /\ execs' = Once(execs, etask[e])
    /\ credits' = Once(credits, etask[e])
    /\ batch' = [batch EXCEPT ![e] = @ \cup {etask[e]}]
    /\ etask' = [etask EXCEPT ![e] = NoTask]
    /\ ExplorerGoto(e, "make")
    /\ UNCHANGED <<ctlVars, schedVars, nextId, queue, signalled, bufferVars, workerVars,
                   booked, void, dropped>>

\* Explorer e has the result queue num_workers_ + e to itself, unless a worker's
\* thread id hashes there too.
ExplorerSubmit(e) ==
    /\ epc[e] = "submit" \/ (epc[e] = "make" /\ ~MoreToExplore(e))
    /\ active' = [active EXCEPT ![NumWorkers + e] = @ \cup batch[e]]
    /\ batch' = [batch EXCEPT ![e] = {}]
    /\ ExplorerGoto(e, "top")
    /\ UNCHANGED <<ctlVars, schedVars, nextId, queue, signalled, processing, workerVars,
                   etask, historyVars>>

Explorer(e) ==
    \/ ExplorerLoop(e) \/ ExplorerMake(e) \/ ExplorerNoSeed(e)
    \/ ExplorerExecute(e) \/ ExplorerSubmit(e)

-------------------------------------------------------------------------------
\* stop() has returned for the last time.
Finished ==
    /\ ctl = "idle" /\ starts = MaxStarts
    /\ UNCHANGED vars

Next ==
    \/ Start \/ Stop \/ NotifyAll \/ Clear
    \/ Scheduler
    \/ \E w \in Workers : Worker(w)
    \/ \E e \in Explorers : Explorer(e)
    \/ Finished

Spec == Init /\ [][Next]_vars

\* Every runnable thread is scheduled, every wait_for times out, every execution
\* returns; a mutex that is free again and again is obtained.
Fairness ==
    /\ WF_vars(NotifyAll) /\ WF_vars(Clear)
    /\ SF_vars(Scheduler)
    /\ \A w \in Workers : WF_vars(Worker(w))
    /\ \A e \in Explorers : WF_vars(Explorer(e))

FairSpec == Spec /\ Fairness
-------------------------------------------------------------------------------
(* What the pipeline must keep.                                             *)

TypeOK ==
    /\ running \in BOOLEAN
    /\ ctl \in {"idle", "up", "notifying", "joining"}
    /\ starts \in 0 .. MaxStarts
    /\ spc \in {"stopped", "top", "drain", "fill", "make", "enqueue"}
    /\ drainAt \in Nat /\ filled \in 0 .. NumWorkers /\ needed \in 0 .. QueueDepth
    /\ nextFill \in Workers /\ fillTarget \in Workers
    /\ fresh \in TaskIds \cup {NoTask}
    /\ results \subseteq TaskIds /\ pending \subseteq TaskIds
    /\ nextId \in 0 .. MaxTaskId
    /\ queue \in [Workers -> SUBSET TaskIds]
    /\ signalled \subseteq Workers
    /\ active \in [ResultQueues -> SUBSET TaskIds]
    /\ processing \in [ResultQueues -> SUBSET TaskIds]
    /\ wpc \in [Workers -> {"stopped", "top", "lock", "deciding", "blocked", "steal",
                            "execute", "flush"}]
    /\ task \in [Workers -> TaskIds \cup {NoTask}]
    /\ \A w \in Workers : wpc[w] = "execute" => task[w] \in TaskIds
    /\ scan \in [Workers -> Nat]
    /\ local \in [Workers -> SUBSET TaskIds]
    /\ epc \in [Explorers -> {"stopped", "top", "make", "execute", "submit"}]
    /\ etask \in [Explorers -> TaskIds \cup {NoTask}]
    /\ \A e \in Explorers : epc[e] = "execute" => etask[e] \in TaskIds
    /\ batch \in [Explorers -> SUBSET TaskIds]
    /\ execs \in [TaskIds -> Nat] /\ booked \in [TaskIds -> Nat]
    /\ credits \in [TaskIds -> Nat]
    /\ void \subseteq TaskIds /\ dropped \subseteq TaskIds

\* The places a task can be in; kind k of number i holds task t.
PlaceKinds == {"unborn", "void", "fresh", "queue", "worker", "local", "explorer",
               "batch", "active", "results", "booked", "dropped"}

Holds(k, i, t) ==
    \/ k = "unborn"   /\ i = 0 /\ nextId <= t
    \/ k = "void"     /\ i = 0 /\ t \in void
    \/ k = "fresh"    /\ i = 0 /\ t = fresh
    \/ k = "queue"    /\ i \in Workers /\ t \in queue[i]
    \/ k = "worker"   /\ i \in Workers /\ t = task[i]
    \/ k = "local"    /\ i \in Workers /\ t \in local[i]
    \/ k = "explorer" /\ i \in Explorers /\ t = etask[i]
    \/ k = "batch"    /\ i \in Explorers /\ t \in batch[i]
    \/ k = "active"   /\ i \in ResultQueues /\ t \in active[i]
    \/ k = "results"  /\ i = 0 /\ t \in results
    \/ k = "booked"   /\ i = 0 /\ booked[t] > 0
    \/ k = "dropped"  /\ i = 0 /\ t \in dropped

Somewhere(kinds, t) == \E k \in kinds : \E i \in ResultQueues : Holds(k, i, t)

\* No interleaving of enqueueing, popping, stealing, batching, swapping and stopping
\* duplicates a task or loses one: every id drawn from task_id_counter_ is in exactly
\* one place, and only stop() drops it.
Custody ==
    \A t \in TaskIds :
        \E k \in PlaceKinds, i \in ResultQueues :
            /\ Holds(k, i, t)
            /\ \A l \in PlaceKinds, j \in ResultQueues : Holds(l, j, t) => l = k /\ j = i

\* A task is executed at most once (a steal really takes it), its result is booked at
\* most once (a swapped buffer is not read again), and the learner is told at most
\* once, although scheduler and explorers both call processResult.
AtMostOnce ==
    \A t \in TaskIds :
        execs[t] <= 1 /\ booked[t] <= execs[t] /\ credits[t] <= execs[t]

\* Whatever the scheduler has booked, the learner has been told: an explorer did so
\* itself, and a worker's task is still in pending_tasks, never swept too early.
BookedIsLearned == \A t \in TaskIds : booked[t] > 0 => credits[t] > 0

\* pending_tasks stays as small as the queues and batches are: the sweep above
\* PendingLimit is out of reach unless the engine has thousands of workers.
PendingBound ==
    Cardinality(pending) <=
        NumWorkers * (2 * QueueDepth + (IF MicroBatchWorkers = 0 THEN 1 ELSE MicroBatchWorkers))

\* The depth is tested before the fill, without the mutex held through it, and still no
\* queue grows beyond worker_queue_target_depth.
QueueBound == \A w \in Workers : Cardinality(queue[w]) <= QueueDepth

\* When stop() has returned no thread holds a task or a result any more: partial
\* batches were flushed, and what is not booked is what stop() cleared.
StopLeavesNothing ==
    ctl = "idle" =>
        \A t \in TaskIds : Somewhere({"unborn", "void", "booked", "dropped"}, t)

\* Through all queues, batches and buffers the pipeline implements the ledger of tasks.

Ledger == INSTANCE TaskLedger WITH
    drawn     <- nextId,
    waiting   <- AllOf(queue) \cup ({fresh} \ {NoTask}),
    executing <- ({task[w] : w \in Workers} \cup {etask[e] : e \in Explorers}) \ {NoTask},
    executed  <- AllOf(local) \cup AllOf(batch) \cup AllOf(active) \cup results,
    booked    <- {t \in TaskIds : booked[t] > 0},
    learned   <- {t \in TaskIds : credits[t] > 0}

LedgerSpec == Ledger!Spec

-------------------------------------------------------------------------------
(* What must happen in the end. *)

\* stop() returns: every worker leaves its wait although the notification may find it
\* between its predicate and its wait, because the wait is timed.
StopReturns == ctl = "notifying" ~> ctl = "idle"

\* No task starves in a queue, whoever pops the front and steals the back.
QueuedIsTaken ==
    \A t \in TaskIds : Somewhere({"queue"}, t) ~> ~Somewhere({"queue"}, t)

\* A submitted result is booked, or dropped by stop().
SubmittedIsBooked ==
    \A t \in TaskIds : Somewhere({"active"}, t) ~> Somewhere({"booked", "dropped"}, t)
===============================================================================
