-------------------- MODULE TrioPipelineProofs --------------------
(***************************************************************************)
(* Proofs about the TrioFuzz pipeline: type correctness, custody of every  *)
(* task, execution at most once, a clean stop and bounded queues.  Each    *)
(* theorem has the shape Init => I, I /\ [Next]_vars => I', I => property, *)
(* with one lemma per thread for the middle part.                          *)
(***************************************************************************)
EXTENDS TrioPipeline, WellFoundedInduction, FiniteSetTheorems, TLAPS

\* The strict order of task ids, which handles count upwards, as a relation.
Below == OpToRel(<, Nat)

\* A non-empty set of ids has a least member: the order is well founded.
LEMMA LeastOf ==
  ASSUME NEW S \in SUBSET Nat, S # {}
  PROVE  \E t \in S : \A u \in S : t <= u
<1>1. \E t \in S : \A u \in S : ~ (<<u, t>> \in Below)
  BY NatLessThanWellFounded, WFMin DEF Below
<1>2. \A t, u \in Nat : u < t => <<u, t>> \in Below
  BY DEF Below, OpToRel
<1>3. PICK t \in S : \A u \in S : ~ (<<u, t>> \in Below)
  BY <1>1
<1>4. \A u \in S : t \in Nat /\ u \in Nat /\ ~(u < t)
  BY <1>2, <1>3
<1>5. \A u \in S : t <= u
  BY <1>4
<1> QED
  BY <1>5

\* The head of a non-empty worker queue is one of its tasks, so a pop removes a task
\* the queue really holds.
LEMMA FrontIsIn ==
  ASSUME NEW q \in SUBSET TaskIds, q # {}
  PROVE  Front(q) \in q
<1>1. q \in SUBSET Nat
  BY PipelineAssumption DEF TaskIds
<1>2. PICK t \in q : \A u \in q : t <= u
  BY <1>1, LeastOf
<1> QED
  BY <1>2 DEF Front

\* The tail of a non-empty worker queue is one of its tasks: what stealTask takes from
\* the back is queued.  The ids are bounded, so the mirror image has a least member.
LEMMA BackIsIn ==
  ASSUME NEW q \in SUBSET TaskIds, q # {}
  PROVE  Back(q) \in q
<1> DEFINE Mirror == {MaxTaskId - t : t \in q}
<1>0. \A t \in q : t \in Int /\ 0 <= t /\ t < MaxTaskId
  BY PipelineAssumption DEF TaskIds
<1>1. Mirror \in SUBSET Nat /\ Mirror # {}
  BY <1>0, PipelineAssumption
<1>2. PICK m \in Mirror : \A n \in Mirror : m <= n
  BY <1>1, LeastOf
<1>3. PICK t \in q : m = MaxTaskId - t
  BY <1>2
<1>4. \A u \in q : u <= t
  BY <1>0, <1>2, <1>3, PipelineAssumption
<1> QED
  BY <1>4 DEF Back

\* Every set of tasks is finite: ids are bounded by MaxTaskId.
LEMMA FiniteTasks ==
  ASSUME NEW S \in SUBSET TaskIds
  PROVE  Cardinality(S) \in Nat
<1>1. IsFiniteSet(TaskIds)
  BY FS_Interval, PipelineAssumption DEF TaskIds
<1> QED
  BY <1>1, FS_Subset, FS_CardinalityType

\* next_worker and the thief's victim are taken modulo the worker count, so both always
\* name a worker.
LEMMA Rotation == \A w \in Nat : w % NumWorkers \in Workers
  BY PipelineAssumption DEF Workers

\* The index sets are what the constructor lays out: result queues numbered from 0,
\* workers first and explorers behind them; NoTask is no task id.
LEMMA Ids ==
  /\ TaskIds \subseteq Nat /\ NoTask \notin TaskIds
  /\ 0 \in Workers /\ Workers \subseteq Nat
  /\ 0 \in ResultQueues /\ Workers \subseteq ResultQueues
  /\ \A e \in Explorers : NumWorkers + e \in ResultQueues
BY PipelineAssumption DEF TaskIds, NoTask, Workers, Explorers, ResultQueues

\* task_id_counter_.fetch_add hands out an id inside the bound and moves past it.
LEMMA Drawing ==
  ASSUME nextId \in 0 .. MaxTaskId, NEW t, DrawId(t)
  PROVE  t \in TaskIds /\ nextId' \in 0 .. MaxTaskId
BY PipelineAssumption DEF DrawId, TaskIds

\* Counting one more execution, booking or credit keeps the ghost counters natural.
LEMMA OnceType ==
  ASSUME NEW f \in [TaskIds -> Nat], NEW t \in TaskIds
  PROVE  Once(f, t) \in [TaskIds -> Nat]
BY DEF Once

\* The union of a family of task sets is a task set.
LEMMA AllOfType ==
  ASSUME NEW D, NEW S, NEW f \in [D -> SUBSET S]
  PROVE  AllOf(f) \subseteq S
BY DEF AllOf

\* What a thread holds in its hands agrees with where it stands: the scheduler holds a
\* fresh task exactly while enqueueTask runs, a worker or explorer holds a task only
\* inside executeTask, and the engine is idle only when every thread was joined.  TypeOK
\* alone is not inductive: that an executed task is a task id needs these facts.
Hands ==
    /\ fresh = NoTask \/ spc = "enqueue"
    /\ spc = "enqueue" => fresh \in TaskIds /\ needed > 0
    /\ \A w \in Workers : task[w] = NoTask \/ wpc[w] = "execute"
    /\ \A e \in Explorers : etask[e] = NoTask \/ epc[e] = "execute"
    /\ ctl = "idle" => Joined

\* The type invariant and the facts it rests on: the base of every later proof.
TypeInv == TypeOK /\ Hands

\* The constructed, not yet started engine satisfies TypeInv.
LEMMA TypeInit == Init => TypeInv
<1> SUFFICES ASSUME Init PROVE TypeInv
  OBVIOUS
<1>1. TypeOK
  <2>1. /\ queue \in [Workers -> SUBSET TaskIds]
        /\ active \in [ResultQueues -> SUBSET TaskIds]
        /\ processing \in [ResultQueues -> SUBSET TaskIds]
        /\ local \in [Workers -> SUBSET TaskIds]
        /\ batch \in [Explorers -> SUBSET TaskIds]
    BY DEF Init
  <2>2. /\ execs \in [TaskIds -> Nat] /\ booked \in [TaskIds -> Nat]
        /\ credits \in [TaskIds -> Nat] /\ scan \in [Workers -> Nat]
    BY DEF Init
  <2>3. /\ wpc \in [Workers -> {"stopped", "top", "lock", "deciding", "blocked", "steal",
                               "execute", "flush"}]
        /\ task \in [Workers -> TaskIds \cup {NoTask}]
        /\ \A w \in Workers : wpc[w] = "execute" => task[w] \in TaskIds
    BY DEF Init
  <2>4. /\ epc \in [Explorers -> {"stopped", "top", "make", "execute", "submit"}]
        /\ etask \in [Explorers -> TaskIds \cup {NoTask}]
        /\ \A e \in Explorers : epc[e] = "execute" => etask[e] \in TaskIds
    BY DEF Init
  <2>5. /\ drainAt \in Nat /\ filled \in 0 .. NumWorkers /\ needed \in 0 .. QueueDepth
        /\ starts \in 0 .. MaxStarts /\ nextId \in 0 .. MaxTaskId
    BY PipelineAssumption DEF Init
  <2> QED
    BY <2>1, <2>2, <2>3, <2>4, <2>5, Ids DEF Init, TypeOK
<1>2. Hands
  BY DEF Init, Hands, Joined
<1> QED
  BY <1>1, <1>2 DEF TypeInv

\* start() and the phases of stop() preserve TypeInv.
LEMMA TypeCtl ==
  ASSUME TypeInv, Start \/ Stop \/ NotifyAll \/ Clear
  PROVE  TypeInv'
<1> USE PipelineAssumption DEF TypeInv, TypeOK, Hands, Joined
<1>1. CASE Start
  <2>1. /\ nextFill' \in Workers /\ starts' \in 0 .. MaxStarts
        /\ wpc' = [w \in Workers |-> "top"]
        /\ epc' = [e \in Explorers |-> "top"]
        /\ spc' = "top" /\ running' = TRUE /\ ctl' = "up"
    BY <1>1, Ids DEF Start
  <2> QED
    BY <1>1, <2>1 DEF Start, bufferVars, historyVars
<1>2. CASE Stop
  BY <1>2 DEF Stop, schedVars, bufferVars, workerVars, exploreVars, historyVars
<1>3. CASE NotifyAll
  BY <1>3 DEF NotifyAll, schedVars, bufferVars, workerVars, exploreVars, historyVars
<1>4. CASE Clear
  BY <1>4, Ids, AllOfType DEF Clear, workerVars, exploreVars
<1> QED
  BY <1>1, <1>2, <1>3, <1>4

\* Every step of schedulerThreadTrioFuzz preserves TypeInv.
LEMMA TypeSched ==
  ASSUME TypeInv, Scheduler
  PROVE  TypeInv'
<1> USE PipelineAssumption DEF TypeInv, TypeOK, Hands, Joined, ctlVars, bufferVars,
        workerVars, exploreVars, historyVars
<1>1. CASE SchedTop
  BY <1>1 DEF SchedTop
<1>2. CASE SchedDrain
  BY <1>2 DEF SchedDrain, SwapAndGet
<1>3. CASE SchedBook
  BY <1>3 DEF SchedBook, CreditPending, Once
<1>4. CASE SchedDrained
  BY <1>4 DEF SchedDrained
<1>5. CASE SchedVisit
<2>1. nextFill' \in Workers
    <3>1. nextFill + 1 \in Nat
      BY Ids
    <3> QED
      BY <1>5, <3>1, Rotation DEF SchedVisit, NextWorker
  <2>2. filled' \in 0 .. NumWorkers
    BY <1>5 DEF SchedVisit
  <2>3. Cardinality(queue[nextFill]) \in Nat
    BY FiniteTasks
  <2>4. needed' \in 0 .. QueueDepth /\ fillTarget' \in Workers
    BY <1>5, <2>3 DEF SchedVisit, TasksNeeded
  <2> QED
    BY <1>5, <2>1, <2>2, <2>4 DEF SchedVisit
<1>6. CASE SchedMake
  BY <1>6, Drawing DEF SchedMake
<1>7. CASE SchedNoSeed
  BY <1>7, Drawing DEF SchedNoSeed
<1>8. CASE SchedMade
  BY <1>8, Ids DEF SchedMade
<1>9. CASE SchedEnqueue
  BY <1>9, Ids DEF SchedEnqueue
<1>10. CASE SchedSweep
  BY <1>10 DEF SchedSweep, SweptPending
<1> QED
  BY <1>1, <1>2, <1>3, <1>4, <1>5, <1>6, <1>7, <1>8, <1>9, <1>10 DEF Scheduler

\* Every step of workerThreadTrioFuzz, with the pops and steals it calls, preserves
\* TypeInv.
LEMMA TypeWorker ==
  ASSUME TypeInv, NEW w \in Workers, Worker(w)
  PROVE  TypeInv'
<1> USE PipelineAssumption DEF TypeInv, TypeOK, Hands, Joined, ctlVars, schedVars,
        bufferVars, exploreVars, historyVars, WorkerGoto
<1>1. CASE WorkerLoop(w)
  BY <1>1 DEF WorkerLoop
<1>2. ASSUME NEW idle \in {"deciding", "steal"}, PopOr(w, idle),
             wpc[w] \in {"lock", "blocked"}, UNCHANGED signalled \/ signalled' = signalled \ {w}
      PROVE  TypeInv'
<2>1. CASE queue[w] = {}
    <3>1. wpc' \in [Workers -> {"stopped", "top", "lock", "deciding", "blocked", "steal",
                              "execute", "flush"}]
      BY <1>2, <2>1 DEF PopOr
    <3>2. wpc'[w] # "execute"
      BY <1>2, <2>1 DEF PopOr
    <3>3. wpc[w] # "execute" /\ wpc[w] # "stopped"
      BY <1>2
    <3> QED
      BY <1>2, <2>1, <3>1, <3>2, <3>3 DEF PopOr
  <2>2. CASE queue[w] # {}
    <3>1. Front(queue[w]) \in TaskIds
      BY <2>2, FrontIsIn
    <3>2. /\ task' = [task EXCEPT ![w] = Front(queue[w])]
          /\ queue' = [queue EXCEPT ![w] = @ \ {Front(@)}]
          /\ wpc' = [wpc EXCEPT ![w] = "execute"]
      BY <1>2, <2>2 DEF PopOr
    <3>3. task' \in [Workers -> TaskIds \cup {NoTask}] /\ queue' \in [Workers -> SUBSET TaskIds]
      BY <3>1, <3>2
    <3> QED
      BY <1>2, <3>1, <3>2, <3>3 DEF PopOr
  <2> QED
    BY <2>1, <2>2
<1>3. CASE WorkerLock(w)
  BY <1>2, <1>3 DEF WorkerLock
<1>4. CASE WorkerBlock(w)
  BY <1>4 DEF WorkerBlock
<1>5. CASE WorkerNotified(w)
  BY <1>2, <1>5 DEF WorkerNotified
<1>6. CASE WorkerTimeout(w)
  BY <1>2, <1>6 DEF WorkerTimeout
<1>7. CASE WorkerSteal(w)
<2> DEFINE v == Victim(w)
  <2>1. v \in Workers /\ queue[v] \in SUBSET TaskIds /\ queue[v] # {}
    BY <1>7, Ids, Rotation DEF WorkerSteal, Victim
  <2>2. Back(queue[v]) \in TaskIds
    BY <2>1, BackIsIn
  <2>3. /\ task' = [task EXCEPT ![w] = Back(queue[v])]
        /\ queue' = [queue EXCEPT ![v] = @ \ {Back(@)}]
    BY <1>7 DEF WorkerSteal
  <2>4. task' \in [Workers -> TaskIds \cup {NoTask}] /\ queue' \in [Workers -> SUBSET TaskIds]
    BY <2>1, <2>2, <2>3
  <2> QED
    BY <1>7, <2>2, <2>3, <2>4 DEF WorkerSteal
<1>8. CASE WorkerSkipVictim(w)
  BY <1>8 DEF WorkerSkipVictim
<1>9. CASE WorkerExecute(w)
  <2> DEFINE batched == local[w] \cup {task[w]}
  <2>1. task[w] \in TaskIds /\ batched \in SUBSET TaskIds
    BY <1>9 DEF WorkerExecute
  <2>2. execs' \in [TaskIds -> Nat]
    BY <1>9, <2>1, OnceType DEF WorkerExecute
  <2>3. active' \in [ResultQueues -> SUBSET TaskIds] /\ local' \in [Workers -> SUBSET TaskIds]
    BY <1>9, <2>1 DEF WorkerExecute, SubmitLocal
  <2> QED
    BY <1>9, <2>2, <2>3 DEF WorkerExecute
<1>10. CASE WorkerFlush(w)
  BY <1>10 DEF WorkerFlush, SubmitLocal
<1> QED
  BY <1>1, <1>3, <1>4, <1>5, <1>6, <1>7, <1>8, <1>9, <1>10 DEF Worker

\* Every step of explorerThreadTrioFuzz preserves TypeInv.
LEMMA TypeExplorer ==
  ASSUME TypeInv, NEW e \in Explorers, Explorer(e)
  PROVE  TypeInv'
<1> USE PipelineAssumption DEF TypeInv, TypeOK, Hands, Joined, ctlVars, schedVars,
        bufferVars, workerVars, historyVars, ExplorerGoto
<1>1. CASE ExplorerLoop(e)
  BY <1>1 DEF ExplorerLoop
<1>2. CASE ExplorerMake(e)
  BY <1>2, Drawing DEF ExplorerMake
<1>3. CASE ExplorerNoSeed(e)
  BY <1>3, Drawing DEF ExplorerNoSeed
<1>4. CASE ExplorerExecute(e)
  <2>1. etask[e] \in TaskIds
    BY <1>4 DEF ExplorerExecute
  <2>2. execs' \in [TaskIds -> Nat] /\ credits' \in [TaskIds -> Nat]
    BY <1>4, <2>1, OnceType DEF ExplorerExecute
  <2> QED
    BY <1>4, <2>1, <2>2 DEF ExplorerExecute
<1>5. CASE ExplorerSubmit(e)
  BY <1>5, Ids DEF ExplorerSubmit
<1> QED
  BY <1>1, <1>2, <1>3, <1>4, <1>5 DEF Explorer

\* A steal moves exactly one queued task into the thief's hands, as a pop does: the proofs
\* below treat the two alike.
LEMMA StealIsPop ==
  ASSUME TypeInv, NEW w \in Workers, WorkerSteal(w)
  PROVE  \E v \in Workers : \E u \in queue[v] :
            /\ task' = [task EXCEPT ![w] = u]
            /\ queue' = [queue EXCEPT ![v] = @ \ {u}]
            /\ wpc[w] # "execute"
            /\ UNCHANGED <<schedVars, nextId, bufferVars, local, exploreVars, historyVars>>
<1> DEFINE v == Victim(w)
<1>1. v \in Workers /\ queue[v] \in SUBSET TaskIds /\ queue[v] # {}
  <2>1. w + scan[w] + 1 \in Nat
    BY Ids DEF TypeInv, TypeOK
  <2>2. v \in Workers
    BY <2>1, Rotation DEF Victim
  <2> QED
    BY <2>2 DEF WorkerSteal, TypeInv, TypeOK
<1>2. Back(queue[v]) \in queue[v]
  BY <1>1, BackIsIn
<1>3. /\ task' = [task EXCEPT ![w] = Back(queue[v])]
      /\ queue' = [queue EXCEPT ![v] = @ \ {Back(queue[v])}]
      /\ wpc[w] # "execute"
      /\ UNCHANGED <<schedVars, nextId, bufferVars, local, exploreVars, historyVars>>
  BY <1>1 DEF WorkerSteal, TypeInv, TypeOK
<1> QED
  BY <1>1, <1>2, <1>3

\* A step leaves task t in every place it was and brings it to none.
Unmoved(t) == \A k \in PlaceKinds, i \in ResultQueues : Holds(k, i, t)' <=> Holds(k, i, t)

\* After a step task t is at place (k, i) and nowhere else.
NowOnlyAt(t, k, i) ==
    /\ k \in PlaceKinds /\ i \in ResultQueues
    /\ \A l \in PlaceKinds, j \in ResultQueues : Holds(l, j, t)' <=> (l = k /\ j = i)

\* A step that leaves each task alone or moves it to exactly one place preserves Custody:
\* the shape every queue, buffer and hand-over in the pipeline has.
LEMMA Moved ==
  ASSUME Custody,
         \A t \in TaskIds : Unmoved(t) \/ \E k \in PlaceKinds, i \in ResultQueues : NowOnlyAt(t, k, i)
  PROVE  Custody'
<1> SUFFICES ASSUME NEW t \in TaskIds
             PROVE  \E k \in PlaceKinds, i \in ResultQueues :
                      /\ Holds(k, i, t)'
                      /\ \A l \in PlaceKinds, j \in ResultQueues :
                            Holds(l, j, t)' => l = k /\ j = i
  BY DEF Custody
<1>1. CASE Unmoved(t)
  BY <1>1 DEF Custody, Unmoved
<1>2. CASE \E k \in PlaceKinds, i \in ResultQueues : NowOnlyAt(t, k, i)
  BY <1>2 DEF NowOnlyAt
<1> QED
  BY <1>1, <1>2

\* Under Custody the place a task is found at is its only one.
LEMMA Sole ==
  ASSUME Custody, NEW t \in TaskIds, NEW k \in PlaceKinds, NEW i \in ResultQueues,
         Holds(k, i, t)
  PROVE  \A l \in PlaceKinds, j \in ResultQueues : Holds(l, j, t) <=> (l = k /\ j = i)
BY DEF Custody

\* The steps that move no task, among them start and the flag and notify of stop(),
\* preserve Custody.
LEMMA CustodyStill ==
  ASSUME TypeInv, Custody,
         \/ Start \/ Stop \/ NotifyAll
         \/ SchedTop \/ SchedDrained \/ SchedVisit \/ SchedMade \/ SchedSweep
         \/ \E w \in Workers : WorkerLoop(w) \/ WorkerBlock(w) \/ WorkerSkipVictim(w)
         \/ \E e \in Explorers : ExplorerLoop(e)
  PROVE  Custody'
<1> USE DEF ctlVars, schedVars, bufferVars, workerVars, exploreVars, historyVars, Unmoved, Holds
<1>1. CASE Start \/ Stop \/ NotifyAll
  BY <1>1, Moved DEF Start, Stop, NotifyAll
<1>2. CASE SchedTop \/ SchedDrained \/ SchedVisit
  BY <1>2, Moved DEF SchedTop, SchedDrained, SchedVisit
<1>3. CASE SchedMade \/ SchedSweep
  BY <1>3, Moved DEF SchedMade, SchedSweep
<1>4. CASE \E w \in Workers : WorkerLoop(w) \/ WorkerBlock(w) \/ WorkerSkipVictim(w)
  BY <1>4, Moved DEF WorkerLoop, WorkerBlock, WorkerSkipVictim
<1>5. CASE \E e \in Explorers : ExplorerLoop(e)
  BY <1>5, Moved DEF ExplorerLoop
<1> QED
  BY <1>1, <1>2, <1>3, <1>4, <1>5

\* The clear of stop() moves every queued task and buffered result to the dropped set.
LEMMA CustodyClear ==
  ASSUME TypeInv, Custody, Clear
  PROVE  Custody'
<1> USE Ids DEF TypeInv, TypeOK, Hands, workerVars, exploreVars, Clear, AllOf, Holds, PlaceKinds
<1> DEFINE gone == AllOf(queue) \cup AllOf(active)
<1>1. ASSUME NEW t \in TaskIds, t \notin gone
      PROVE  Unmoved(t)
  BY <1>1 DEF Unmoved
<1>2. ASSUME NEW t \in TaskIds, t \in gone
      PROVE  NowOnlyAt(t, "dropped", 0)
  <2>1. PICK k \in {"queue", "active"}, i \in ResultQueues : Holds(k, i, t)
    BY <1>2
  <2>2. \A l \in PlaceKinds, j \in ResultQueues : Holds(l, j, t) => l = k /\ j = i
    BY <2>1, Sole
  <2> QED
    BY <1>2, <2>1, <2>2 DEF NowOnlyAt
<1> QED
  BY <1>1, <1>2, Moved

\* The scheduler's steps hand each task on exactly once: from draw to queue, from a result
\* buffer through swapAndGet to the books.
LEMMA CustodySched ==
  ASSUME TypeInv, Custody,
         SchedDrain \/ SchedBook \/ SchedMake \/ SchedNoSeed \/ SchedEnqueue
  PROVE  Custody'
<1> USE Ids DEF TypeInv, TypeOK, Hands, ctlVars, bufferVars, workerVars, exploreVars,
                historyVars, Holds, PlaceKinds
<1>1. CASE SchedDrain
  <2>1. ASSUME NEW t \in TaskIds, t \notin active[drainAt]
        PROVE  Unmoved(t)
    BY <1>1, <2>1 DEF SchedDrain, SwapAndGet, Unmoved
  <2>2. ASSUME NEW t \in TaskIds, t \in active[drainAt]
        PROVE  NowOnlyAt(t, "results", 0)
    <3>1. \A l \in PlaceKinds, j \in ResultQueues :
             Holds(l, j, t) <=> (l = "active" /\ j = drainAt)
      BY <1>1, <2>2, Sole DEF SchedDrain
    <3> QED
      BY <1>1, <2>2, <3>1 DEF SchedDrain, SwapAndGet, NowOnlyAt
  <2> QED
    BY <2>1, <2>2, Moved
<1>2. CASE SchedBook
  <2>1. PICK u \in results : results' = results \ {u} /\ booked' = Once(booked, u)
    BY <1>2 DEF SchedBook
  <2>2. ASSUME NEW t \in TaskIds, t # u
        PROVE  Unmoved(t)
    BY <1>2, <2>1, <2>2 DEF SchedBook, Once, Unmoved
  <2>3. \A l \in PlaceKinds, j \in ResultQueues : Holds(l, j, u) <=> (l = "results" /\ j = 0)
    BY <2>1, Sole
  <2>4. NowOnlyAt(u, "booked", 0)
    BY <1>2, <2>1, <2>3 DEF SchedBook, Once, NowOnlyAt
  <2> QED
    BY <2>2, <2>4, Moved
<1>3. CASE SchedMake \/ SchedNoSeed
  <2>1. ASSUME NEW t \in TaskIds, DrawId(t)
        PROVE  \A l \in PlaceKinds, j \in ResultQueues :
                  Holds(l, j, t) <=> (l = "unborn" /\ j = 0)
    BY <2>1, Sole DEF DrawId
  <2>2. CASE SchedMake
    <3>1. PICK u \in TaskIds : DrawId(u) /\ fresh' = u
      BY <2>2 DEF SchedMake
    <3>2. NowOnlyAt(u, "fresh", 0)
      BY <2>1, <2>2, <3>1 DEF SchedMake, DrawId, NowOnlyAt
    <3>3. ASSUME NEW t \in TaskIds, t # u
          PROVE  Unmoved(t)
      BY <2>2, <3>1, <3>3 DEF SchedMake, DrawId, Unmoved
    <3> QED
      BY <3>2, <3>3, Moved
  <2>3. CASE SchedNoSeed
    <3>1. CASE UNCHANGED <<nextId, void>>
      BY <2>3, <3>1, Moved DEF SchedNoSeed, Unmoved
    <3>2. CASE \E t \in TaskIds : DrawId(t) /\ void' = void \cup {t}
      <4>1. PICK u \in TaskIds : DrawId(u) /\ void' = void \cup {u}
        BY <3>2
      <4>2. NowOnlyAt(u, "void", 0)
        BY <2>1, <2>3, <4>1 DEF SchedNoSeed, DrawId, NowOnlyAt
      <4>3. \A t \in TaskIds : t # u => Unmoved(t)
        BY <2>3, <4>1 DEF SchedNoSeed, DrawId, Unmoved
      <4> QED
        BY <4>2, <4>3, Moved
    <3> QED
      BY <2>3, <3>1, <3>2 DEF SchedNoSeed
  <2> QED
    BY <1>3, <2>2, <2>3
<1>4. CASE SchedEnqueue
  <2>1. ASSUME NEW t \in TaskIds, t # fresh
        PROVE  Unmoved(t)
    BY <1>4, <2>1 DEF SchedEnqueue, Unmoved
  <2>2. ASSUME NEW t \in TaskIds, t = fresh
        PROVE  NowOnlyAt(t, "queue", fillTarget)
    <3>1. \A l \in PlaceKinds, j \in ResultQueues :
             Holds(l, j, t) <=> (l = "fresh" /\ j = 0)
      BY <2>2, Sole
    <3> QED
      BY <1>4, <2>2, <3>1 DEF SchedEnqueue, NowOnlyAt
  <2>3. "queue" \in PlaceKinds /\ fillTarget \in ResultQueues
    OBVIOUS
  <2> HIDE DEF TypeInv, TypeOK, Hands, PlaceKinds, Holds
  <2> QED
    BY <2>1, <2>2, <2>3, Moved
<1> QED
  BY <1>1, <1>2, <1>3, <1>4

\* The worker's steps hand each task on exactly once: from a queue, its own or a victim's,
\* through its hands and its local batch to its result buffer.
LEMMA CustodyWorker ==
  ASSUME TypeInv, Custody, NEW w \in Workers,
         \/ WorkerLock(w) \/ WorkerNotified(w) \/ WorkerTimeout(w)
         \/ WorkerSteal(w) \/ WorkerExecute(w) \/ WorkerFlush(w)
  PROVE  Custody'
<1> USE Ids DEF TypeInv, TypeOK, Hands, ctlVars, schedVars, bufferVars, exploreVars,
                historyVars, Holds, PlaceKinds
<1>1. ASSUME NEW v \in Workers, NEW u \in queue[v], wpc[w] # "execute",
             task' = [task EXCEPT ![w] = u],
             queue' = [queue EXCEPT ![v] = @ \ {u}],
             UNCHANGED <<schedVars, nextId, bufferVars, local, exploreVars, historyVars>>
      PROVE  Custody'
  <2>1. u \in TaskIds
    OBVIOUS
  <2>2. ASSUME NEW t \in TaskIds, t # u
        PROVE  Unmoved(t)
    BY <1>1, <2>2 DEF Unmoved
  <2>3. \A l \in PlaceKinds, j \in ResultQueues : Holds(l, j, u) <=> (l = "queue" /\ j = v)
    BY <2>1, Sole
  <2>4. NowOnlyAt(u, "worker", w)
    BY <1>1, <2>1, <2>3 DEF NowOnlyAt
  <2>5. "worker" \in PlaceKinds /\ w \in ResultQueues
    OBVIOUS
  <2> HIDE DEF TypeInv, TypeOK, Hands, PlaceKinds, Holds
  <2> QED
    BY <2>2, <2>4, <2>5, Moved
<1>2. ASSUME NEW idle, PopOr(w, idle), wpc[w] # "execute"
      PROVE  Custody'
  <2>1. CASE queue[w] = {}
    BY <1>2, <2>1, Moved DEF PopOr, Unmoved
  <2>2. CASE queue[w] # {}
    BY <1>1, <1>2, <2>2, FrontIsIn DEF PopOr
  <2> QED
    BY <2>1, <2>2
<1>3. CASE WorkerLock(w) \/ WorkerNotified(w) \/ WorkerTimeout(w)
  BY <1>2, <1>3 DEF WorkerLock, WorkerNotified, WorkerTimeout
<1>4. CASE WorkerSteal(w)
  BY <1>1, <1>4, StealIsPop
<1>5. ASSUME NEW batched \in SUBSET TaskIds,
             \A t \in batched : Holds("local", w, t) \/ Holds("worker", w, t),
             local[w] \subseteq batched,
             SubmitLocal(w, batched),
             task[w] \in TaskIds => task[w] \in batched,
             task' = [task EXCEPT ![w] = NoTask],
             UNCHANGED <<schedVars, nextId, queue, exploreVars, booked, void, dropped>>
      PROVE  Custody'
  <2> DEFINE q == ResultQueueOf[w]
  <2>1. q \in ResultQueues /\ "active" \in PlaceKinds
    BY PipelineAssumption
  <2>2. ASSUME NEW t \in TaskIds, t \notin batched
        PROVE  Unmoved(t)
    BY <1>5, <2>1, <2>2 DEF SubmitLocal, Unmoved
  <2>3. ASSUME NEW t \in batched
        PROVE  NowOnlyAt(t, "active", q)
    <3>1. PICK k \in {"local", "worker"} : Holds(k, w, t)
      BY <1>5
    <3>2. \A l \in PlaceKinds, j \in ResultQueues : Holds(l, j, t) <=> (l = k /\ j = w)
      BY <3>1, Sole
    <3> QED
      BY <1>5, <2>1, <3>1, <3>2 DEF SubmitLocal, NowOnlyAt
  <2> HIDE DEF TypeInv, TypeOK, Hands, PlaceKinds, Holds, q
  <2> QED
    BY <2>1, <2>2, <2>3, Moved
<1>6. CASE WorkerFlush(w)
  BY <1>5, <1>6 DEF WorkerFlush
<1>7. CASE WorkerExecute(w)
  <2> DEFINE batched == local[w] \cup {task[w]}
  <2>1. task[w] \in TaskIds
    BY <1>7 DEF WorkerExecute
  <2>2. CASE SubmitLocal(w, batched)
    BY <1>5, <1>7, <2>1, <2>2 DEF WorkerExecute
  <2>3. CASE local' = [local EXCEPT ![w] = batched] /\ UNCHANGED active
    <3>1. ASSUME NEW t \in TaskIds, t # task[w]
          PROVE  Unmoved(t)
      BY <1>7, <2>3, <3>1 DEF WorkerExecute, Unmoved
    <3>2. ASSUME NEW t \in TaskIds, t = task[w]
          PROVE  NowOnlyAt(t, "local", w)
      <4>1. \A l \in PlaceKinds, j \in ResultQueues :
               Holds(l, j, t) <=> (l = "worker" /\ j = w)
        BY <3>2, Sole
      <4> QED
        BY <1>7, <2>3, <3>2, <4>1 DEF WorkerExecute, NowOnlyAt
    <3>3. "local" \in PlaceKinds /\ w \in ResultQueues
      OBVIOUS
    <3> HIDE DEF TypeInv, TypeOK, Hands, PlaceKinds, Holds
    <3> QED
      BY <3>1, <3>2, <3>3, Moved
  <2> QED
    BY <1>7, <2>2, <2>3 DEF WorkerExecute
<1> QED
  BY <1>3, <1>4, <1>6, <1>7

\* The explorer's steps hand each task on exactly once: from its hands to its batch, from
\* there to its result buffer; a failed creation voids the id.
LEMMA CustodyExplorer ==
  ASSUME TypeInv, Custody, NEW e \in Explorers,
         ExplorerMake(e) \/ ExplorerNoSeed(e) \/ ExplorerExecute(e) \/ ExplorerSubmit(e)
  PROVE  Custody'
<1> USE Ids DEF TypeInv, TypeOK, Hands, ctlVars, schedVars, bufferVars, workerVars,
                historyVars, Holds, PlaceKinds
<1>0. {"explorer", "batch", "active", "void"} \subseteq PlaceKinds
      /\ e \in ResultQueues /\ NumWorkers + e \in ResultQueues
  BY PipelineAssumption DEF Explorers, ResultQueues
<1>1. ASSUME NEW t \in TaskIds, DrawId(t)
      PROVE  \A l \in PlaceKinds, j \in ResultQueues :
                Holds(l, j, t) <=> (l = "unborn" /\ j = 0)
  BY <1>1, Sole DEF DrawId
<1>2. CASE ExplorerMake(e)
  <2>1. PICK u \in TaskIds : DrawId(u) /\ etask' = [etask EXCEPT ![e] = u]
    BY <1>2 DEF ExplorerMake
  <2>2. NowOnlyAt(u, "explorer", e)
    <3>1. \A l \in PlaceKinds, j \in ResultQueues :
             Holds(l, j, u) <=> (l = "unborn" /\ j = 0)
      BY <1>1, <2>1
    <3>2. nextId' = u + 1 /\ u \in Nat
      BY <2>1 DEF DrawId
    <3> QED
      BY <1>0, <1>2, <2>1, <3>1, <3>2 DEF ExplorerMake, NowOnlyAt
  <2>3. ASSUME NEW t \in TaskIds, t # u
        PROVE  Unmoved(t)
    BY <1>2, <2>1, <2>3 DEF ExplorerMake, DrawId, Unmoved
  <2> HIDE DEF TypeInv, TypeOK, Hands, PlaceKinds, Holds
  <2> QED
    BY <1>0, <2>2, <2>3, Moved
<1>3. CASE ExplorerNoSeed(e)
  <2>1. CASE UNCHANGED <<nextId, void>>
    BY <1>3, <2>1, Moved DEF ExplorerNoSeed, Unmoved
  <2>2. CASE \E t \in TaskIds : DrawId(t) /\ void' = void \cup {t}
    <3>1. PICK u \in TaskIds : DrawId(u) /\ void' = void \cup {u}
      BY <2>2
    <3>2. NowOnlyAt(u, "void", 0)
      BY <1>1, <1>3, <3>1 DEF ExplorerNoSeed, DrawId, NowOnlyAt
    <3>3. ASSUME NEW t \in TaskIds, t # u
          PROVE  Unmoved(t)
      BY <1>3, <3>1, <3>3 DEF ExplorerNoSeed, DrawId, Unmoved
    <3> HIDE DEF TypeInv, TypeOK, Hands, PlaceKinds, Holds
    <3> QED
      BY <1>0, <3>2, <3>3, Moved
  <2> QED
    BY <1>3, <2>1, <2>2 DEF ExplorerNoSeed
<1>4. CASE ExplorerExecute(e)
  <2>1. ASSUME NEW t \in TaskIds, t # etask[e]
        PROVE  Unmoved(t)
    BY <1>4, <2>1 DEF ExplorerExecute, Unmoved
  <2>2. ASSUME NEW t \in TaskIds, t = etask[e]
        PROVE  NowOnlyAt(t, "batch", e)
    <3>1. \A l \in PlaceKinds, j \in ResultQueues :
             Holds(l, j, t) <=> (l = "explorer" /\ j = e)
      BY <1>0, <2>2, Sole
    <3> QED
      BY <1>0, <1>4, <2>2, <3>1 DEF ExplorerExecute, NowOnlyAt
  <2> HIDE DEF TypeInv, TypeOK, Hands, PlaceKinds, Holds
  <2> QED
    BY <1>0, <2>1, <2>2, Moved
<1>5. CASE ExplorerSubmit(e)
  <2> DEFINE q == NumWorkers + e
  <2>1. ASSUME NEW t \in TaskIds, t \notin batch[e]
        PROVE  Unmoved(t)
    BY <1>0, <1>5, <2>1 DEF ExplorerSubmit, Unmoved
  <2>2. ASSUME NEW t \in batch[e]
        PROVE  NowOnlyAt(t, "active", q)
    <3>1. \A l \in PlaceKinds, j \in ResultQueues :
             Holds(l, j, t) <=> (l = "batch" /\ j = e)
      BY <1>0, Sole
    <3> QED
      BY <1>0, <1>5, <3>1 DEF ExplorerSubmit, NowOnlyAt
  <2> HIDE DEF TypeInv, TypeOK, Hands, PlaceKinds, Holds
  <2> QED
    BY <1>0, <2>1, <2>2, Moved
<1> QED
  BY <1>2, <1>3, <1>4, <1>5

\* TypeInv holds in every reachable state.
LEMMA TypeInvHolds == Spec => []TypeInv
<1>1. TypeInv /\ [Next]_vars => TypeInv'
  <2>1. CASE UNCHANGED vars
    BY <2>1 DEF vars, ctlVars, schedVars, bufferVars, workerVars, exploreVars, historyVars,
                TypeInv, TypeOK, Hands, Joined
  <2> QED
    BY <2>1, TypeCtl, TypeSched, TypeWorker, TypeExplorer DEF Next, Finished
<1> QED
  BY <1>1, TypeInit, PTL DEF Spec

\* Type correctness of the TrioFuzz pipeline, for any number of workers and explorers.
THEOREM TypeCorrect == Spec => []TypeOK
<1>1. TypeInv => TypeOK
  BY DEF TypeInv
<1> QED
  BY <1>1, TypeInvHolds, PTL

\* No task is lost or duplicated between the queues, the threads and the result buffers:
\* whatever pops, steals, flushes, swaps and stops interleave, every id ever drawn is in
\* exactly one place.
THEOREM CustodyHolds == Spec => []Custody
<1>1. Init => Custody
  BY Ids DEF Init, Custody, Holds, PlaceKinds
<1>2. TypeInv /\ Custody /\ [Next]_vars => Custody'
  <2>1. CASE UNCHANGED vars
    BY <2>1, Moved DEF vars, ctlVars, schedVars, bufferVars, workerVars, exploreVars, historyVars,
                Unmoved, Holds
  <2> QED
    BY <2>1, CustodyStill, CustodyClear, CustodySched, CustodyWorker, CustodyExplorer
       DEF Next, Finished, Scheduler, Worker, Explorer
<1> QED
  BY <1>1, <1>2, TypeInvHolds, PTL DEF Spec

\* The places of a task that has not been executed.
NotRun == {"unborn", "void", "fresh", "queue", "worker", "explorer"}
\* The places of a task whose execution is over.
HasRun == {"local", "batch", "active", "results", "booked"}

\* A task the scheduler may still be waiting for: it was drawn, its seed was made, no
\* explorer is running it, and the learner has not heard of it.
Uncredited(t) ==
    /\ credits[t] = 0 /\ t < nextId /\ t \notin void
    /\ \A e \in Explorers : t # etask[e]

\* The ledger of one task: its execution count follows from the place it is at, it was
\* booked at most once, and the learner heard of it at most as often as it ran.
Account(t) ==
    /\ \A k \in NotRun, i \in ResultQueues : Holds(k, i, t) => execs[t] = 0
    /\ \A k \in HasRun, i \in ResultQueues : Holds(k, i, t) => execs[t] = 1
    /\ execs[t] <= 1 /\ booked[t] <= 1 /\ credits[t] <= execs[t]
    /\ t \in pending => Uncredited(t)

\* Every task's ledger is in order.  AtMostOnce is not inductive without it: that a task
\* about to run has not run before follows only from where it has been.
Tally == \A t \in TaskIds : Account(t)

\* start() and stop() keep every ledger in order; dropped tasks keep their counts.
LEMMA TallyCtl ==
  ASSUME TypeInv, Tally, Start \/ Stop \/ NotifyAll \/ Clear
  PROVE  Tally'
<1> USE DEF schedVars, bufferVars, workerVars, exploreVars, historyVars, Holds, NotRun,
        HasRun, Account, Uncredited
<1>1. CASE Start \/ Stop \/ NotifyAll
  BY <1>1 DEF Start, Stop, NotifyAll, Tally
<1>2. CASE Clear
  BY <1>2, Ids DEF Clear, Tally, TypeInv, TypeOK
<1> QED
  BY <1>1, <1>2

\* The scheduler keeps every ledger in order: it books a result only after taking it out
\* of the buffers, and credits it only when it was still pending.
LEMMA TallySched ==
  ASSUME TypeInv, Custody, Tally, Scheduler
  PROVE  Tally'
<1> USE Ids DEF TypeInv, TypeOK, ctlVars, bufferVars, workerVars, exploreVars,
                historyVars, Holds, NotRun, HasRun, Account, Uncredited
<1>1. CASE SchedTop
  BY <1>1 DEF SchedTop, Tally
<1>2. CASE SchedDrain
  BY <1>2 DEF SchedDrain, SwapAndGet, Tally
<1>3. CASE SchedBook
  <2>1. PICK u \in results : /\ results' = results \ {u} /\ booked' = Once(booked, u)
                             /\ CreditPending(u)
    BY <1>3 DEF SchedBook
  <2>2. u \in TaskIds /\ execs[u] = 1 /\ booked[u] = 0
    <3>1. u \in TaskIds /\ Holds("results", 0, u) /\ "results" \in PlaceKinds /\ "booked" \in PlaceKinds
      BY <2>1 DEF PlaceKinds
    <3>2. ~ Holds("booked", 0, u)
      BY <3>1, Sole
    <3> QED
      BY <3>1, <3>2 DEF Tally
  <2>3. ASSUME NEW t \in TaskIds, t # u
        PROVE  Account(t)'
    <3>1. booked'[t] = booked[t] /\ credits'[t] = credits[t] /\ (t \in pending' <=> t \in pending)
      BY <2>1, <2>3 DEF Once, CreditPending
    <3> QED
      BY <1>3, <2>1, <2>3, <3>1 DEF SchedBook, Tally
  <2>4. Account(u)'
    <3>1. booked'[u] = 1 /\ credits'[u] <= 1 /\ u \notin pending'
      BY <2>1, <2>2 DEF Once, CreditPending, Tally
    <3>2. ASSUME NEW k \in NotRun, NEW i \in ResultQueues
          PROVE  ~ Holds(k, i, u)
      BY <2>2, <3>2 DEF Tally
    <3> QED
      BY <1>3, <2>1, <2>2, <3>1, <3>2 DEF SchedBook
  <2> HIDE DEF Account
  <2> QED
    BY <2>3, <2>4 DEF Tally
<1>4. CASE SchedDrained \/ SchedVisit \/ SchedMade
  BY <1>4 DEF SchedDrained, SchedVisit, SchedMade, Tally
<1>5. CASE SchedMake
  <2>1. PICK u \in TaskIds : DrawId(u) /\ fresh' = u /\ pending' = pending \cup {u}
    BY <1>5 DEF SchedMake
  <2>2. /\ Holds("unborn", 0, u)
        /\ {"unborn", "void", "explorer"} \subseteq PlaceKinds
    BY <2>1 DEF DrawId, PlaceKinds
  <2>3. u \notin void /\ execs[u] = 0 /\ \A e \in Explorers : u # etask[e]
    <3>1. ~ Holds("void", 0, u) /\ \A e \in Explorers : ~ Holds("explorer", e, u)
      BY <2>2, Sole, PipelineAssumption DEF Explorers, ResultQueues
    <3> QED
      BY <2>2, <3>1 DEF Tally
  <2>4. nextId' = nextId + 1 /\ u = nextId
    BY <2>1 DEF DrawId
  <2>5. ASSUME NEW t \in TaskIds, t # u
        PROVE  Account(t)'
    BY <1>5, <2>1, <2>4, <2>5 DEF SchedMake, Tally
  <2>6. Account(u)'
    <3>1. \A l \in PlaceKinds, j \in ResultQueues : Holds(l, j, u) <=> (l = "unborn" /\ j = 0)
      BY <2>2, Sole
    <3>2. credits[u] = 0
      BY <2>3 DEF Tally
    <3> QED
      BY <1>5, <2>1, <2>3, <2>4, <3>1, <3>2 DEF SchedMake, Tally, PlaceKinds
  <2> HIDE DEF Account
  <2> QED
    BY <2>5, <2>6 DEF Tally
<1>6. CASE SchedNoSeed
  BY <1>6 DEF SchedNoSeed, DrawId, Tally
<1>7. CASE SchedEnqueue
  BY <1>7 DEF SchedEnqueue, Tally, Hands
<1>8. CASE SchedSweep
  BY <1>8 DEF SchedSweep, SweptPending, Tally
<1> QED
  BY <1>1, <1>2, <1>3, <1>4, <1>5, <1>6, <1>7, <1>8 DEF Scheduler

\* The worker keeps every ledger in order: it executes only a task it holds alone.
LEMMA TallyWorker ==
  ASSUME TypeInv, Custody, Tally, NEW w \in Workers, Worker(w)
  PROVE  Tally'
<1> USE Ids DEF TypeInv, TypeOK, Hands, ctlVars, schedVars, bufferVars, exploreVars,
                historyVars, Holds, NotRun, HasRun, Account, Uncredited
<1>1. CASE WorkerLoop(w) \/ WorkerBlock(w) \/ WorkerSkipVictim(w)
  BY <1>1 DEF WorkerLoop, WorkerBlock, WorkerSkipVictim, Tally
<1>2. ASSUME NEW v \in Workers, NEW u \in queue[v],
             task' = [task EXCEPT ![w] = u],
             queue' = [queue EXCEPT ![v] = @ \ {u}],
             UNCHANGED <<schedVars, nextId, bufferVars, local, exploreVars, historyVars>>
      PROVE  Tally'
  BY <1>2 DEF Tally
<1>3. ASSUME NEW idle, PopOr(w, idle)
      PROVE  Tally'
  <2>1. CASE queue[w] = {}
    BY <1>3, <2>1 DEF PopOr, Tally
  <2>2. CASE queue[w] # {}
    BY <1>2, <1>3, <2>2, FrontIsIn DEF PopOr
  <2> QED
    BY <2>1, <2>2
<1>4. CASE WorkerLock(w) \/ WorkerNotified(w) \/ WorkerTimeout(w)
  BY <1>3, <1>4 DEF WorkerLock, WorkerNotified, WorkerTimeout
<1>5. CASE WorkerSteal(w)
  BY <1>2, <1>5, StealIsPop
<1>6. CASE WorkerFlush(w)
  BY <1>6, PipelineAssumption DEF WorkerFlush, SubmitLocal, Tally
<1>7. CASE WorkerExecute(w)
  <2>0. PICK u \in TaskIds : u = task[w]
    BY <1>7 DEF WorkerExecute
  <2>1. Holds("worker", w, u) /\ "worker" \in PlaceKinds /\ w \in ResultQueues
    BY <1>7, <2>0 DEF WorkerExecute, PlaceKinds
  <2>2. \A l \in PlaceKinds, j \in ResultQueues : Holds(l, j, u) <=> (l = "worker" /\ j = w)
    BY <2>1, Sole
  <2>3. execs[u] = 0 /\ execs'[u] = 1
    BY <1>7, <2>0, <2>1 DEF WorkerExecute, Once, Tally
  <2>4. Account(u)'
    <3>1. ASSUME NEW k \in NotRun, NEW i \in ResultQueues
          PROVE  ~ Holds(k, i, u)'
      BY <1>7, <2>0, <2>1, <2>2 DEF WorkerExecute, PlaceKinds
    <3>2. booked[u] <= 1 /\ credits[u] <= 1 /\ (u \in pending => Uncredited(u))
      BY <2>1, <2>3 DEF Tally
    <3> QED
      BY <1>7, <2>0, <2>3, <3>1, <3>2 DEF WorkerExecute
  <2>5. ASSUME NEW t \in TaskIds, t # u
        PROVE  Account(t)'
    <3>1. execs'[t] = execs[t]
      BY <1>7, <2>0, <2>1, <2>5 DEF WorkerExecute, Once
    <3>2. ASSUME NEW k \in NotRun, NEW i \in ResultQueues, Holds(k, i, t)'
          PROVE  Holds(k, i, t)
      BY <1>7, <2>0, <2>1, <2>5, <3>2 DEF WorkerExecute
    <3>3. ASSUME NEW k \in HasRun, NEW i \in ResultQueues, Holds(k, i, t)'
          PROVE  \E l \in HasRun, j \in ResultQueues : Holds(l, j, t)
      BY <1>7, <2>0, <2>1, <2>5, <3>3 DEF WorkerExecute, SubmitLocal
    <3> QED
      BY <1>7, <2>0, <3>1, <3>2, <3>3 DEF WorkerExecute, Tally
  <2> HIDE DEF Account
  <2> QED
    BY <2>4, <2>5 DEF Tally
<1> QED
  BY <1>1, <1>4, <1>5, <1>6, <1>7 DEF Worker

\* The explorer keeps every ledger in order: it credits its own task once, right after the
\* execution, and that task was never in the scheduler's pending map.
LEMMA TallyExplorer ==
  ASSUME TypeInv, Custody, Tally, NEW e \in Explorers, Explorer(e)
  PROVE  Tally'
<1> USE Ids DEF TypeInv, TypeOK, Hands, ctlVars, schedVars, bufferVars, workerVars,
                historyVars, Holds, NotRun, HasRun, Account, Uncredited
<1>1. CASE ExplorerLoop(e)
  BY <1>1 DEF ExplorerLoop, Tally
<1>2. CASE ExplorerMake(e)
  <2>1. PICK u \in TaskIds : DrawId(u) /\ etask' = [etask EXCEPT ![e] = u]
    BY <1>2 DEF ExplorerMake
  <2>2. nextId' = nextId + 1 /\ u = nextId /\ u \notin pending /\ execs[u] = 0
    BY <2>1 DEF DrawId, Tally
  <2>3. ASSUME NEW t \in TaskIds, t # u
        PROVE  Account(t)'
    BY <1>2, <2>1, <2>2, <2>3 DEF ExplorerMake, Tally
  <2>4. Account(u)'
    <3>1. ASSUME NEW k \in HasRun, NEW i \in ResultQueues
          PROVE  ~ Holds(k, i, u)
      BY <2>2, <3>1 DEF Tally
    <3>2. booked[u] <= 1 /\ credits[u] <= execs[u]
      BY DEF Tally
    <3> QED
      BY <1>2, <2>1, <2>2, <3>1, <3>2 DEF ExplorerMake
  <2> HIDE DEF Account
  <2> QED
    BY <2>3, <2>4 DEF Tally
<1>3. CASE ExplorerNoSeed(e)
  BY <1>3 DEF ExplorerNoSeed, DrawId, Tally
<1>4. CASE ExplorerExecute(e)
  <2>0. PICK u \in TaskIds : u = etask[e]
    BY <1>4 DEF ExplorerExecute
  <2>1. /\ Holds("explorer", e, u) /\ "explorer" \in PlaceKinds
        /\ e \in ResultQueues
    BY <1>4, <2>0, PipelineAssumption DEF ExplorerExecute, PlaceKinds, Explorers, ResultQueues
  <2>2. \A l \in PlaceKinds, j \in ResultQueues : Holds(l, j, u) <=> (l = "explorer" /\ j = e)
    BY <2>1, Sole
  <2>3. execs[u] = 0 /\ u \notin pending /\ credits[u] = 0 /\ booked[u] <= 1
    BY <2>1 DEF Tally
  <2>4. execs' = Once(execs, u) /\ credits' = Once(credits, u)
    BY <1>4, <2>0 DEF ExplorerExecute
  <2>5. Account(u)'
    <3>1. execs'[u] = 1 /\ credits'[u] = 1
      BY <2>1, <2>3, <2>4 DEF Once
    <3>2. ASSUME NEW k \in NotRun, NEW i \in ResultQueues
          PROVE  ~ Holds(k, i, u)'
      BY <1>4, <2>0, <2>1, <2>2 DEF ExplorerExecute, PlaceKinds
    <3> QED
      BY <1>4, <2>0, <2>3, <3>1, <3>2 DEF ExplorerExecute
  <2>6. ASSUME NEW t \in TaskIds, t # u
        PROVE  Account(t)'
    <3>1. execs'[t] = execs[t] /\ credits'[t] = credits[t]
      BY <2>4, <2>6 DEF Once
    <3> QED
      BY <1>4, <2>0, <2>6, <3>1 DEF ExplorerExecute, Tally
  <2> HIDE DEF Account
  <2> QED
    BY <2>5, <2>6 DEF Tally
<1>5. CASE ExplorerSubmit(e)
  <2>1. ASSUME NEW t \in TaskIds, NEW k \in HasRun, NEW i \in ResultQueues, Holds(k, i, t)'
        PROVE  \E l \in HasRun, j \in ResultQueues : Holds(l, j, t)
    BY <1>5, <2>1, PipelineAssumption DEF ExplorerSubmit, Explorers, ResultQueues
  <2> QED
    BY <1>5, <2>1 DEF ExplorerSubmit, Tally
<1> QED
  BY <1>1, <1>2, <1>3, <1>4, <1>5 DEF Explorer

\* Every task's ledger is in order in every reachable state.
LEMMA TallyHolds == Spec => []Tally
<1>1. Init => Tally
  BY Ids DEF Init, Tally, Holds, NotRun, HasRun, Account, Uncredited
<1>2. TypeInv /\ Custody /\ Tally /\ [Next]_vars => Tally'
  <2>1. CASE UNCHANGED vars
    BY <2>1 DEF vars, ctlVars, schedVars, bufferVars, workerVars, exploreVars, historyVars,
                Tally, Holds, NotRun, HasRun, Account, Uncredited
  <2> QED
    BY <2>1, TallyCtl, TallySched, TallyWorker, TallyExplorer DEF Next, Finished
<1> QED
  BY <1>1, <1>2, TypeInvHolds, CustodyHolds, PTL DEF Spec

\* No test case is executed twice, booked twice or taught to the learner twice, although
\* queues are shared by thieves and results are double-buffered.
THEOREM ExecutedAtMostOnce == Spec => []AtMostOnce
<1>1. TypeInv /\ Tally => AtMostOnce
  <2> SUFFICES ASSUME TypeInv, Tally, NEW t \in TaskIds
               PROVE  execs[t] <= 1 /\ booked[t] <= execs[t] /\ credits[t] <= execs[t]
    BY DEF AtMostOnce
  <2>1. booked[t] \in Nat /\ execs[t] \in Nat /\ booked[t] <= 1
    BY DEF TypeInv, TypeOK, Tally, Account
  <2>2. booked[t] > 0 => execs[t] = 1
    BY Ids DEF Tally, Account, HasRun, Holds
  <2> QED
    BY <2>1, <2>2 DEF Tally, Account
<1> QED
  BY <1>1, TallyHolds, TypeInvHolds, PTL

\* What each thread has put down when it stops: the scheduler's result list is empty
\* outside its drain loop, a stopped worker flushed its batch, an explorer submitted its
\* own, and the idle engine's queues and buffers were cleared.
Quiet ==
    /\ results = {} \/ spc = "drain"
    /\ \A w \in Workers : wpc[w] = "stopped" => local[w] = {}
    /\ \A e \in Explorers : epc[e] \in {"stopped", "top"} => batch[e] = {}
    /\ ctl = "idle" => /\ \A w \in Workers : queue[w] = {}
                       /\ \A q \in ResultQueues : active[q] = {}

\* Every step preserves Quiet.
LEMMA QuietStep ==
  ASSUME TypeInv, Quiet, [Next]_vars
  PROVE  Quiet'
<1> USE Ids DEF TypeInv, TypeOK, Hands, Joined, Quiet, ctlVars, schedVars, bufferVars,
                workerVars, exploreVars, historyVars
<1>1. CASE Start
  BY <1>1 DEF Start
<1>2. CASE Stop \/ NotifyAll \/ Clear
  BY <1>2 DEF Stop, NotifyAll, Clear
<1>3. CASE SchedTop \/ SchedDrained \/ SchedVisit \/ SchedMake \/ SchedNoSeed
  BY <1>3 DEF SchedTop, SchedDrained, SchedVisit, SchedMake, SchedNoSeed
<1>4. CASE SchedMade \/ SchedSweep
  BY <1>4 DEF SchedMade, SchedSweep
<1>5. CASE SchedDrain \/ SchedBook
  BY <1>5 DEF SchedDrain, SwapAndGet, SchedBook
<1>6. CASE SchedEnqueue
  BY <1>6 DEF SchedEnqueue
<1>7. ASSUME NEW w \in Workers, Worker(w)
      PROVE  Quiet'
  <2> USE <1>7 DEF WorkerGoto
  <2>1. CASE WorkerLoop(w) \/ WorkerBlock(w) \/ WorkerSkipVictim(w)
    BY <2>1 DEF WorkerLoop, WorkerBlock, WorkerSkipVictim
  <2>2. CASE WorkerLock(w) \/ WorkerNotified(w) \/ WorkerTimeout(w)
    BY <2>2 DEF WorkerLock, WorkerNotified, WorkerTimeout, PopOr
  <2>3. CASE WorkerSteal(w)
    BY <2>3 DEF WorkerSteal
  <2>4. CASE WorkerExecute(w)
    BY <2>4 DEF WorkerExecute, SubmitLocal
  <2>5. CASE WorkerFlush(w)
    BY <2>5 DEF WorkerFlush, SubmitLocal
  <2> QED
    BY <2>1, <2>2, <2>3, <2>4, <2>5 DEF Worker
<1>8. ASSUME NEW e \in Explorers, Explorer(e)
      PROVE  Quiet'
  <2> USE <1>8 DEF ExplorerGoto
  <2>1. CASE ExplorerLoop(e) \/ ExplorerMake(e) \/ ExplorerNoSeed(e)
    BY <2>1 DEF ExplorerLoop, ExplorerMake, ExplorerNoSeed
  <2>2. CASE ExplorerExecute(e) \/ ExplorerSubmit(e)
    BY <2>2 DEF ExplorerExecute, ExplorerSubmit
  <2> QED
    BY <2>1, <2>2 DEF Explorer
<1>9. CASE UNCHANGED vars
  BY <1>9 DEF vars
<1> QED
  BY <1>1, <1>2, <1>3, <1>4, <1>5, <1>6, <1>7, <1>8, <1>9 DEF Next, Scheduler, Finished

\* Quiet holds in every reachable state.
LEMMA QuietHolds == Spec => []Quiet
<1>1. Init => Quiet
  BY DEF Init, Quiet
<1> QED
  BY <1>1, QuietStep, TypeInvHolds, PTL DEF Spec

\* After stop() returned nothing is left in a queue, a hand, a batch or a buffer that a
\* later start() would find: every task was booked, dropped or voided.
THEOREM NothingLeftAfterStop == Spec => []StopLeavesNothing
<1>1. TypeInv /\ Custody /\ Quiet => StopLeavesNothing
  <2> SUFFICES ASSUME TypeInv, Custody, Quiet, ctl = "idle", NEW t \in TaskIds
               PROVE  Somewhere({"unborn", "void", "booked", "dropped"}, t)
    BY DEF StopLeavesNothing
  <2>1. PICK k \in PlaceKinds, i \in ResultQueues : Holds(k, i, t)
    BY DEF Custody
  <2>2. k \notin {"fresh", "queue", "worker", "local", "explorer", "batch", "active", "results"}
    BY <2>1, Ids DEF TypeInv, TypeOK, Hands, Joined, Quiet, Holds
  <2> QED
    BY <2>1, <2>2 DEF PlaceKinds, Somewhere
<1> QED
  BY <1>1, QuietHolds, TypeInvHolds, CustodyHolds, PTL

\* The queue depth bound with the promise that makes it inductive: while the scheduler
\* fills a queue, the tasks in it and those still to make fit the target depth, since
\* only pops and steals can change the size in between.
Filling ==
    /\ QueueBound
    /\ spc \in {"make", "enqueue"} => Cardinality(queue[fillTarget]) + needed <= QueueDepth

\* How the cardinality of a set of tasks changes when it shrinks or gains a member.
LEMMA Sizes ==
  ASSUME NEW S \in SUBSET TaskIds
  PROVE  /\ Cardinality(S) \in Nat
         /\ \A T \in SUBSET S : Cardinality(T) \in Nat /\ Cardinality(T) <= Cardinality(S)
         /\ \A t : Cardinality(S \cup {t}) \in Nat /\ Cardinality(S \cup {t}) <= Cardinality(S) + 1
         /\ Cardinality({}) = 0
<1>1. IsFiniteSet(TaskIds)
  BY FS_Interval, PipelineAssumption DEF TaskIds
<1>2. IsFiniteSet(S)
  BY <1>1, FS_Subset
<1>3. Cardinality(S) \in Nat
  BY <1>2, FS_CardinalityType
<1>4. ASSUME NEW T \in SUBSET S
      PROVE  Cardinality(T) \in Nat /\ Cardinality(T) <= Cardinality(S)
  BY <1>2, FS_Subset, FS_CardinalityType
<1>5. ASSUME NEW t
      PROVE  Cardinality(S \cup {t}) \in Nat /\ Cardinality(S \cup {t}) <= Cardinality(S) + 1
  BY <1>2, <1>3, FS_AddElement
<1> QED
  BY <1>3, <1>4, <1>5, FS_EmptySet

\* Every step preserves Filling; a thief or the owner only makes room.
LEMMA FillingStep ==
  ASSUME TypeInv, Filling, [Next]_vars
  PROVE  Filling'
<1> USE Ids, PipelineAssumption DEF TypeInv, TypeOK, Hands, Joined, Filling, QueueBound,
        ctlVars, schedVars, bufferVars, workerVars, exploreVars, historyVars
<1>1. ASSUME \A w \in Workers : queue'[w] \subseteq queue[w],
             spc' \in {"make", "enqueue"} =>
                 spc \in {"make", "enqueue"} /\ fillTarget' = fillTarget /\ needed' <= needed,
             needed' \in Nat, fillTarget' \in Workers
      PROVE  Filling'
  BY <1>1, Sizes
<1>2. CASE Start \/ Stop \/ NotifyAll
  BY <1>1, <1>2 DEF Start, Stop, NotifyAll
<1>3. CASE Clear
  BY <1>1, <1>3 DEF Clear
<1>4. CASE SchedTop \/ SchedDrain \/ SchedBook \/ SchedDrained \/ SchedMake
  BY <1>1, <1>4 DEF SchedTop, SchedDrain, SchedBook, SchedDrained, SchedMake
<1>5. CASE SchedNoSeed \/ SchedMade \/ SchedSweep
  BY <1>1, <1>5 DEF SchedNoSeed, SchedMade, SchedSweep
<1>6. CASE SchedVisit
  BY <1>6, Sizes DEF SchedVisit, TasksNeeded
<1>7. CASE SchedEnqueue
  <2>1. Cardinality(queue[fillTarget] \cup {fresh}) <= Cardinality(queue[fillTarget]) + 1
        /\ Cardinality(queue[fillTarget] \cup {fresh}) \in Nat
        /\ Cardinality(queue[fillTarget]) \in Nat
    BY Sizes
  <2>2. /\ queue'[fillTarget] = queue[fillTarget] \cup {fresh}
        /\ \A w \in Workers : w # fillTarget => queue'[w] = queue[w]
        /\ needed' = needed - 1 /\ fillTarget' = fillTarget /\ needed > 0
    BY <1>7 DEF SchedEnqueue
  <2> QED
    BY <1>7, <2>1, <2>2 DEF SchedEnqueue
<1>8. ASSUME NEW w \in Workers, Worker(w)
      PROVE  Filling'
  <2>1. /\ \A v \in Workers : queue'[v] \subseteq queue[v]
        /\ UNCHANGED <<spc, needed, fillTarget>>
    BY <1>8 DEF Worker, WorkerLoop, WorkerLock, WorkerBlock, WorkerNotified, WorkerTimeout,
       PopOr, WorkerSteal, WorkerSkipVictim, WorkerExecute, WorkerFlush
  <2> QED
    BY <1>1, <2>1
<1>9. ASSUME NEW e \in Explorers, Explorer(e)
      PROVE  Filling'
  BY <1>1, <1>9 DEF Explorer, ExplorerLoop, ExplorerMake, ExplorerNoSeed, ExplorerExecute,
     ExplorerSubmit
<1>10. CASE UNCHANGED vars
  BY <1>1, <1>10 DEF vars
<1> QED
  BY <1>2, <1>3, <1>4, <1>5, <1>6, <1>7, <1>8, <1>9, <1>10 DEF Next, Scheduler, Finished

\* No worker queue ever exceeds worker_queue_target_depth, however long the result drain
\* or the size read is delayed.
THEOREM QueuesBounded == Spec => []QueueBound
<1>1. Init => Filling
  BY Sizes, Ids, PipelineAssumption DEF Init, Filling, QueueBound
<1>2. Filling => QueueBound
  BY DEF Filling
<1> QED
  BY <1>1, <1>2, FillingStep, TypeInvHolds, PTL DEF Spec
======================================================================
