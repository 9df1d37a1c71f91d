-------------------- MODULE TrioPipelineLedgerProofs --------------------
(***************************************************************************)
(* Proofs about the scheduler's books: the bound on pending_tasks, that    *)
(* what is booked is learned, and that the pipeline implements TaskLedger. *)
(***************************************************************************)
EXTENDS TrioPipelineProofs, FunctionTheorems

\* The library's set of injections, spelled out.
LEMMA InjectionIs ==
  ASSUME NEW S, NEW T, NEW g
  PROVE  g \in Injection(S, T) <=>
            /\ g \in [S -> T]
            /\ \A a, b \in S : g[a] = g[b] => a = b
BY DEF Injection, IsInjective

\* Tasks spread over the workers, at most B to each, are at most NumWorkers * B: tasks are
\* numbered within their worker, which injects them into NumWorkers * B slots.
LEMMA UnionOfSmall ==
  ASSUME NEW f \in [Workers -> SUBSET TaskIds], NEW B \in Nat,
         \A w \in Workers : Cardinality(f[w]) <= B
  PROVE  Cardinality(AllOf(f)) <= NumWorkers * B
<1> DEFINE Slots == Workers \X (1 .. B)
           owner == [t \in AllOf(f) |-> CHOOSE w \in Workers : t \in f[w]]
           number == [w \in Workers |-> CHOOSE g : g \in Injection(f[w], 1 .. B)]
           h == [t \in AllOf(f) |-> <<owner[t], number[owner[t]][t]>>]
<1>1. ASSUME NEW w \in Workers
      PROVE  number[w] \in Injection(f[w], 1 .. B)
  <2>1. IsFiniteSet(f[w])
    <3>1. IsFiniteSet(TaskIds)
      BY FS_Interval, PipelineAssumption DEF TaskIds
    <3> QED
      BY <3>1, FS_Subset
  <2>2. Cardinality(f[w]) \in Nat /\ ExistsBijection(1 .. Cardinality(f[w]), f[w])
    BY <2>1, FS_CardinalityType
  <2>3. ExistsBijection(f[w], 1 .. Cardinality(f[w]))
    BY <2>2, Fun_ExistsBijSymmetric
  <2>4. PICK g : g \in Bijection(f[w], 1 .. Cardinality(f[w]))
    BY <2>3 DEF ExistsBijection
  <2>5. g \in Injection(f[w], 1 .. B)
    <3>1. 1 .. Cardinality(f[w]) \subseteq 1 .. B
      BY <2>2
    <3> QED
      BY <2>4, <3>1 DEF Bijection, Injection
  <2> QED
    BY <2>5
<1>2. \A t \in AllOf(f) : owner[t] \in Workers /\ t \in f[owner[t]]
  BY DEF AllOf
<1>3. h \in Injection(AllOf(f), Slots)
  <2>1. ASSUME NEW t \in AllOf(f)
        PROVE  h[t] = <<owner[t], number[owner[t]][t]>>
    OBVIOUS
  <2> HIDE DEF owner, number, h
  <2>2. ASSUME NEW t \in AllOf(f)
        PROVE  h[t] \in Slots
    <3>1. owner[t] \in Workers /\ t \in f[owner[t]]
      BY <1>2
    <3>2. number[owner[t]] \in [f[owner[t]] -> 1 .. B]
      BY <1>1, <3>1, InjectionIs
    <3>3. number[owner[t]][t] \in 1 .. B
      BY <3>1, <3>2
    <3> QED
      BY <2>1, <3>1, <3>3
  <2>3. ASSUME NEW s \in AllOf(f), NEW t \in AllOf(f), h[s] = h[t]
        PROVE  s = t
    <3>1. owner[s] = owner[t] /\ number[owner[s]][s] = number[owner[s]][t]
      BY <2>1, <2>3
    <3>2. s \in f[owner[s]] /\ t \in f[owner[s]] /\ owner[s] \in Workers
      BY <1>2, <3>1
    <3>3. number[owner[s]] \in Injection(f[owner[s]], 1 .. B)
      BY <1>1, <3>2
    <3>4. \A a, b \in f[owner[s]] : number[owner[s]][a] = number[owner[s]][b] => a = b
      BY <3>3, InjectionIs
    <3> QED
      BY <3>1, <3>2, <3>4
  <2>4. h \in [AllOf(f) -> Slots]
    BY <2>2 DEF h
  <2> HIDE DEF Slots
  <2> QED
    BY <2>3, <2>4, InjectionIs
<1>4. IsFiniteSet(Slots) /\ Cardinality(Slots) = NumWorkers * B
  <2>1. /\ IsFiniteSet(Workers) /\ Cardinality(Workers) = NumWorkers
        /\ IsFiniteSet(1 .. B) /\ Cardinality(1 .. B) = B
    BY FS_Interval, PipelineAssumption DEF Workers
  <2> QED
    BY <2>1, FS_Product
<1> HIDE DEF h, Slots
<1> QED
  BY <1>3, <1>4, FS_Injection

\* Two sets of tasks together have at most as many members as the sum of both.
LEMMA UnionOfTwo ==
  ASSUME NEW S \in SUBSET TaskIds, NEW T \in SUBSET TaskIds
  PROVE  /\ Cardinality(S \cup T) \in Nat
         /\ Cardinality(S \cup T) <= Cardinality(S) + Cardinality(T)
<1>1. IsFiniteSet(S) /\ IsFiniteSet(T)
  <2>1. IsFiniteSet(TaskIds)
    BY FS_Interval, PipelineAssumption DEF TaskIds
  <2> QED
    BY <2>1, FS_Subset
<1>2. Cardinality(S \cap T) \in Nat /\ Cardinality(S) \in Nat /\ Cardinality(T) \in Nat
  BY Sizes
<1>3. Cardinality(S \cup T) = Cardinality(S) + Cardinality(T) - Cardinality(S \cap T)
  BY <1>1, FS_Union
<1>4. Cardinality(S \cup T) \in Nat
  BY Sizes
<1> QED
  BY <1>2, <1>3, <1>4

\* The size at which a worker's local batch is flushed; 0 and 1 both flush at once.
LocalLimit == IF MicroBatchWorkers = 0 THEN 1 ELSE MicroBatchWorkers

\* The tasks worker w accounts for: its queue, its batch and the one in its hands.
Own(w) == queue[w] \cup local[w] \cup ({task[w]} \ {NoTask})

\* The tasks all workers account for.
Outstanding == UNION {Own(w) : w \in Workers}

\* The results of the queues the drain loop has passed already: they have arrived too late
\* for this round of the scheduler.
Drained == UNION {active[q] : q \in {r \in ResultQueues : r < drainAt}}

\* A worker's local batch is below the flush size between two executions.
LocalsSmall == \A w \in Workers : Cardinality(local[w]) < LocalLimit

\* Where a pending task cannot be: not dropped, not booked, not an explorer's.
Tracked ==
    /\ spc = "stopped" => pending = {}
    /\ \A t \in pending :
          /\ t \notin dropped /\ booked[t] = 0
          /\ \A e \in Explorers : t \notin batch[e]

\* The number of tasks the scheduler can be waiting for: per worker, a filled queue, a
\* batch below its flush limit and a task in hand, plus a queue refilled while the results
\* of one full round were on their way.
Room == NumWorkers * (2 * QueueDepth + LocalLimit)

\* The bound on pending_tasks with what makes it inductive: after the drain loop only tasks
\* still with the workers, or flushed behind the loop's back, are pending, and every queue
\* still to fill has QueueDepth tasks of room left.
Backlog ==
    /\ spc # "drain" => drainAt = 0
    /\ spc \in {"stopped", "top", "drain"} => filled = 0
    /\ Cardinality(pending) <= Room
    /\ spc = "drain" =>
          Cardinality(pending \cap (Outstanding \cup Drained))
             <= NumWorkers * (QueueDepth + LocalLimit)
    /\ spc = "fill" =>
          Cardinality(pending) + (NumWorkers - filled) * QueueDepth <= Room
    /\ spc = "make" =>
          Cardinality(pending) + (NumWorkers - filled) * QueueDepth + needed <= Room
    /\ spc = "enqueue" =>
          Cardinality(pending) + (NumWorkers - filled) * QueueDepth + needed - 1 <= Room

\* Every step keeps the local batches below their flush size.
LEMMA LocalsSmallStep ==
  ASSUME TypeInv, LocalsSmall, [Next]_vars
  PROVE  LocalsSmall'
<1> USE DEF LocalsSmall
<1>1. CASE UNCHANGED local
  BY <1>1 DEF LocalLimit
<1>2. ASSUME NEW w \in Workers, Worker(w)
      PROVE  LocalsSmall'
  <2>1. Cardinality({}) = 0 /\ 0 < LocalLimit
    BY Sizes, PipelineAssumption DEF LocalLimit
  <2>2. ASSUME NEW b, SubmitLocal(w, b)
        PROVE  LocalsSmall'
    BY <2>1, <2>2 DEF SubmitLocal, TypeInv, TypeOK, LocalLimit
  <2>3. CASE WorkerExecute(w)
    <3> DEFINE b == local[w] \cup {task[w]}
    <3>1. CASE SubmitLocal(w, b)
      BY <2>2, <3>1
    <3>2. CASE Cardinality(b) < MicroBatchWorkers /\ local' = [local EXCEPT ![w] = b]
      <4>1. Cardinality(b) < LocalLimit
        <5>1. Cardinality(b) \in Nat
          BY <2>3, FiniteTasks DEF TypeInv, TypeOK, WorkerExecute
        <5> QED
          BY <3>2, <5>1, PipelineAssumption DEF LocalLimit
      <4> QED
        BY <3>2, <4>1 DEF TypeInv, TypeOK, LocalLimit
    <3> QED
      BY <2>3, <3>1, <3>2 DEF WorkerExecute
  <2>4. CASE WorkerFlush(w)
    BY <2>2, <2>4 DEF WorkerFlush
  <2>5. CASE ~ WorkerExecute(w) /\ ~ WorkerFlush(w)
    BY <1>1, <1>2, <2>5 DEF Worker, WorkerLoop, WorkerLock, WorkerBlock, WorkerNotified,
       WorkerTimeout, PopOr, WorkerSteal, WorkerSkipVictim
  <2> QED
    BY <2>3, <2>4, <2>5
<1>3. CASE ~ \E w \in Workers : Worker(w)
  BY <1>1, <1>3 DEF Next, Start, Stop, NotifyAll, Clear, Scheduler, SchedTop, SchedDrain,
     SchedBook, SchedDrained, SchedVisit, SchedMake, SchedNoSeed, SchedMade, SchedEnqueue,
     SchedSweep, Explorer, ExplorerLoop, ExplorerMake, ExplorerNoSeed, ExplorerExecute,
     ExplorerSubmit, Finished, vars, workerVars
<1> QED
  BY <1>2, <1>3

\* The workers together account for at most QueueDepth + LocalLimit tasks each.
LEMMA OutstandingSmall ==
  ASSUME TypeInv, QueueBound, LocalsSmall
  PROVE  Cardinality(Outstanding) <= NumWorkers * (QueueDepth + LocalLimit)
<1> DEFINE f == [w \in Workers |-> Own(w)]
<1>1. f \in [Workers -> SUBSET TaskIds]
  BY DEF TypeInv, TypeOK, Own
<1>2. QueueDepth + LocalLimit \in Nat
  BY PipelineAssumption DEF LocalLimit
<1>3. ASSUME NEW w \in Workers
      PROVE  Cardinality(f[w]) <= QueueDepth + LocalLimit
  <2>1. queue[w] \in SUBSET TaskIds /\ local[w] \in SUBSET TaskIds
        /\ ({task[w]} \ {NoTask}) \in SUBSET TaskIds
    BY DEF TypeInv, TypeOK
  <2>2. Cardinality(queue[w]) <= QueueDepth /\ Cardinality(local[w]) < LocalLimit
    BY DEF QueueBound, LocalsSmall
  <2>3. Cardinality({task[w]} \ {NoTask}) \in 0 .. 1
    <3>1. Cardinality({task[w]}) = 1 /\ Cardinality({}) = 0
      BY FS_Singleton, FS_EmptySet
    <3>2. ({task[w]} \ {NoTask}) = {} \/ ({task[w]} \ {NoTask}) = {task[w]}
      OBVIOUS
    <3> QED
      BY <3>1, <3>2
  <2>4. Cardinality(Own(w)) <= QueueDepth + LocalLimit
    <3> DEFINE A == queue[w]
               L == local[w]
               T == {task[w]} \ {NoTask}
    <3>1. A \in SUBSET TaskIds /\ L \in SUBSET TaskIds /\ T \in SUBSET TaskIds
      BY <2>1
    <3>2. Cardinality(A) <= QueueDepth /\ Cardinality(L) < LocalLimit /\ Cardinality(T) <= 1
      BY <2>2, <2>3
    <3>3. Own(w) = (A \cup L) \cup T
      BY DEF Own
    <3> HIDE DEF A, L, T
    <3>4. Cardinality(A \cup L) <= Cardinality(A) + Cardinality(L)
          /\ Cardinality(A \cup L) \in Nat /\ A \cup L \in SUBSET TaskIds
      BY <3>1, UnionOfTwo
    <3>5. Cardinality(Own(w)) <= Cardinality(A \cup L) + Cardinality(T)
      BY <3>1, <3>3, <3>4, UnionOfTwo
    <3>6. Cardinality(A) \in Nat /\ Cardinality(L) \in Nat /\ Cardinality(T) \in Nat
          /\ Cardinality(Own(w)) \in Nat
      BY <3>1, <3>3, Sizes
    <3> QED
      BY <3>2, <3>4, <3>5, <3>6, PipelineAssumption DEF LocalLimit
  <2> QED
    BY <2>4
<1>4. AllOf(f) = Outstanding
  BY DEF AllOf, Outstanding
<1> HIDE DEF f
<1> QED
  BY <1>1, <1>2, <1>3, <1>4, UnionOfSmall

\* Every step preserves Tracked.
LEMMA TrackedStep ==
  ASSUME TypeInv, Custody, Tally, Tracked, [Next]_vars
  PROVE  Tracked'
<1> USE Ids DEF TypeInv, TypeOK, Hands, Joined, Tracked, ctlVars, schedVars, bufferVars,
                workerVars, exploreVars, historyVars
<1>1. CASE Start \/ Stop \/ NotifyAll \/ Clear
  BY <1>1 DEF Start, Stop, NotifyAll, Clear
<1>2. CASE SchedTop \/ SchedDrain \/ SchedDrained \/ SchedVisit \/ SchedMade
  BY <1>2 DEF SchedTop, SchedDrain, SwapAndGet, SchedDrained, SchedVisit, SchedMade
<1>3. CASE SchedBook
  BY <1>3 DEF SchedBook, CreditPending, Once
<1>4. CASE SchedMake
  <2>1. PICK u \in TaskIds : DrawId(u) /\ pending' = pending \cup {u}
    BY <1>4 DEF SchedMake
  <2>2. \A l \in PlaceKinds, j \in ResultQueues : Holds(l, j, u) <=> (l = "unborn" /\ j = 0)
    BY <2>1, Sole DEF DrawId, Holds, PlaceKinds
  <2>3. u \notin dropped /\ booked[u] = 0 /\ \A e \in Explorers : u \notin batch[e]
    BY <2>2, PipelineAssumption DEF Holds, PlaceKinds, Explorers, ResultQueues
  <2> QED
    BY <1>4, <2>1, <2>3 DEF SchedMake
<1>5. CASE SchedNoSeed \/ SchedEnqueue \/ SchedSweep
  BY <1>5 DEF SchedNoSeed, SchedEnqueue, SchedSweep, SweptPending
<1>6. ASSUME NEW w \in Workers, Worker(w)
      PROVE  Tracked'
  BY <1>6 DEF Worker, WorkerLoop, WorkerLock, WorkerBlock, WorkerNotified, WorkerTimeout,
     PopOr, WorkerSteal, WorkerSkipVictim, WorkerExecute, WorkerFlush
<1>7. ASSUME NEW e \in Explorers, Explorer(e)
      PROVE  Tracked'
  <2>1. CASE ExplorerExecute(e)
    <3>1. \A t \in pending : t # etask[e]
      BY DEF Tally, Account, Uncredited
    <3> QED
      BY <2>1, <3>1 DEF ExplorerExecute
  <2>2. CASE ~ ExplorerExecute(e)
    BY <1>7, <2>2 DEF Explorer, ExplorerLoop, ExplorerMake, ExplorerNoSeed, ExplorerSubmit
  <2> QED
    BY <2>1, <2>2
<1>8. CASE UNCHANGED vars
  BY <1>8 DEF vars
<1> QED
  BY <1>1, <1>2, <1>3, <1>4, <1>5, <1>6, <1>7, <1>8 DEF Next, Scheduler, Finished

\* A pending task is on its way: fresh, with a worker, in a buffer or in the list being
\* drained.  So what survives a drain is with the workers or arrived behind it.
LEMMA PendingIsHeld ==
  ASSUME TypeInv, Custody, Tally, Tracked, NEW t \in pending
  PROVE  t = fresh \/ t \in Outstanding \/ t \in AllOf(active) \/ t \in results
<1>1. t \in TaskIds
  BY DEF TypeInv, TypeOK
<1>2. PICK k \in PlaceKinds, i \in ResultQueues : Holds(k, i, t)
  BY <1>1 DEF Custody
<1>3. Uncredited(t)
  BY <1>1 DEF Tally, Account
<1>4. k \notin {"unborn", "void", "explorer", "batch", "booked", "dropped"}
  BY <1>1, <1>2, <1>3, Ids DEF Holds, Uncredited, Tracked, TypeInv, TypeOK
<1> QED
  BY <1>1, <1>2, <1>4, Ids DEF Holds, PlaceKinds, Outstanding, Own, AllOf, TypeInv, TypeOK

\* The products of the backlog bound; multiplication is beyond the SMT backend unless each
\* fact is stated by itself.
LEMMA Arithmetic ==
  /\ Room \in Nat /\ QueueDepth \in Nat /\ NumWorkers \in Nat
  /\ NumWorkers * (QueueDepth + LocalLimit) + NumWorkers * QueueDepth = Room
  /\ \A f \in 0 .. NumWorkers - 1 :
        (NumWorkers - (f + 1)) * QueueDepth + QueueDepth = (NumWorkers - f) * QueueDepth
  /\ \A f \in 0 .. NumWorkers : (NumWorkers - f) * QueueDepth \in Nat
  /\ NumWorkers * (QueueDepth + LocalLimit) \in Nat
BY PipelineAssumption DEF Room, LocalLimit

\* A subset of a set of tasks is no larger.
LEMMA Shrinks ==
  ASSUME NEW S \in SUBSET TaskIds, NEW T, T \subseteq S
  PROVE  Cardinality(T) \in Nat /\ Cardinality(T) <= Cardinality(S)
BY Sizes

\* The scheduler's steps preserve Backlog: it refills only after it drained.
LEMMA BacklogSched ==
  ASSUME TypeInv, Custody, Tally, Tracked, QueueBound, LocalsSmall, Backlog, Scheduler
  PROVE  Backlog'
<1> DEFINE held == pending \cap (Outstanding \cup Drained)
<1> USE DEF Backlog, Room, LocalLimit
<1>0. /\ Cardinality(pending) \in Nat /\ Cardinality(held) \in Nat
      /\ needed \in Nat /\ filled \in Nat /\ NumWorkers \in Nat
  BY Sizes, PipelineAssumption DEF TypeInv, TypeOK
<1>1. CASE SchedTop
  <2>1. CASE running
    <3>1. /\ spc = "top" /\ spc' = "drain" /\ drainAt' = 0 /\ filled' = 0
          /\ pending' = pending /\ Outstanding' = Outstanding
      BY <1>1, <2>1 DEF SchedTop, workerVars, Outstanding, Own
    <3>2. Drained' = {}
      BY <3>1, PipelineAssumption DEF Drained, ResultQueues
    <3>3. (pending \cap (Outstanding \cup Drained))' \subseteq Outstanding
      BY <3>1, <3>2
    <3>4. Outstanding \in SUBSET TaskIds
      BY DEF Outstanding, Own, TypeInv, TypeOK
    <3> QED
      BY <3>1, <3>3, <3>4, Shrinks, OutstandingSmall, Arithmetic
  <2>2. CASE ~ running
    BY <1>1, <2>2, Sizes, Arithmetic DEF SchedTop
  <2> QED
    BY <2>1, <2>2
<1>2. CASE SchedDrain
  <2>1. /\ spc = "drain" /\ spc' = "drain" /\ filled' = filled /\ pending' = pending
        /\ Outstanding' = Outstanding
    BY <1>2 DEF SchedDrain, workerVars, Outstanding, Own
  <2>2. Drained' \subseteq Drained
    BY <1>2 DEF SchedDrain, SwapAndGet, Drained, TypeInv, TypeOK, ResultQueues
  <2>3. (pending \cap (Outstanding \cup Drained))' \subseteq held
    BY <2>1, <2>2
  <2>4. Cardinality((pending \cap (Outstanding \cup Drained))') <= Cardinality(held)
    BY <2>3, Shrinks DEF TypeInv, TypeOK
  <2> QED
    BY <1>0, <2>1, <2>3, <2>4, Shrinks, Arithmetic DEF TypeInv, TypeOK
<1>3. CASE SchedBook
  <2>1. /\ spc = "drain" /\ spc' = "drain" /\ filled' = filled /\ pending' \subseteq pending
        /\ Outstanding' = Outstanding /\ Drained' = Drained
    BY <1>3 DEF SchedBook, CreditPending, workerVars, bufferVars, Outstanding, Own, Drained
  <2>2. (pending \cap (Outstanding \cup Drained))' \subseteq held
    BY <2>1
  <2>3. /\ Cardinality((pending \cap (Outstanding \cup Drained))') <= Cardinality(held)
        /\ Cardinality(pending') <= Cardinality(pending)
        /\ Cardinality(pending') \in Nat
    BY <2>1, <2>2, Shrinks DEF TypeInv, TypeOK
  <2> QED
    BY <1>0, <2>1, <2>2, <2>3, Shrinks, Arithmetic DEF TypeInv, TypeOK
<1>4. CASE SchedDrained
  <2>1. /\ results = {} /\ \A q \in ResultQueues : q < drainAt
        /\ spc = "drain" /\ spc' = "fill" /\ filled' = 0 /\ pending' = pending /\ drainAt' = 0
    <3>1. drainAt \in Nat /\ drainAt \notin 0 .. (NumWorkers + NumExplorers - 1)
      BY <1>4 DEF SchedDrained, TypeInv, TypeOK, ResultQueues
    <3>2. \A q \in ResultQueues : q < drainAt
      BY <3>1, PipelineAssumption DEF ResultQueues
    <3> QED
      BY <1>4, <3>2 DEF SchedDrained
  <2>2. AllOf(active) \subseteq Drained
    BY <2>1 DEF AllOf, Drained, TypeInv, TypeOK
  <2>3. \A t \in pending : t # fresh
    BY <2>1, Ids DEF TypeInv, TypeOK, Hands
  <2>4. held = pending
    BY <2>1, <2>2, <2>3, PendingIsHeld
  <2>5. Cardinality(pending) <= NumWorkers * (QueueDepth + LocalLimit)
    BY <2>1, <2>4
  <2>6. (NumWorkers - filled') * QueueDepth = NumWorkers * QueueDepth
    BY <2>1, Arithmetic
  <2>7. Cardinality(pending) + NumWorkers * QueueDepth <= Room
    <3> HIDE DEF Room, LocalLimit
    <3> QED
      BY <1>0, <2>5, Arithmetic
  <2> QED
    BY <1>0, <2>1, <2>6, <2>7
<1>5. CASE SchedVisit
  <2>1. /\ spc = "fill" /\ filled \in 0 .. NumWorkers - 1 /\ filled' = filled + 1
        /\ pending' = pending /\ drainAt' = drainAt
        /\ spc' = "fill" \/ (spc' = "make" /\ needed' = TasksNeeded(nextFill))
    <3>1. filled \in 0 .. NumWorkers /\ filled < NumWorkers
      BY <1>5 DEF SchedVisit, TypeInv, TypeOK
    <3> QED
      BY <1>5, <3>1, PipelineAssumption DEF SchedVisit
  <2>2. TasksNeeded(nextFill) <= QueueDepth /\ TasksNeeded(nextFill) \in Int
    BY FiniteTasks, PipelineAssumption DEF TasksNeeded, TypeInv, TypeOK
  <2>3. (NumWorkers - filled') * QueueDepth + QueueDepth = (NumWorkers - filled) * QueueDepth
        /\ (NumWorkers - filled') * QueueDepth \in Nat
        /\ (NumWorkers - filled) * QueueDepth \in Nat
    BY <1>0, <2>1, Arithmetic
  <2> HIDE DEF Room
  <2> QED
    BY <1>0, <2>1, <2>2, <2>3, Arithmetic
<1>6. CASE SchedMake
  <2>1. PICK u \in TaskIds : pending' = pending \cup {u}
    BY <1>6 DEF SchedMake
  <2>2. Cardinality(pending') \in Nat /\ Cardinality(pending') <= Cardinality(pending) + 1
    BY <2>1, Sizes DEF TypeInv, TypeOK
  <2>3. /\ spc = "make" /\ spc' = "enqueue" /\ needed' = needed /\ needed > 0
        /\ filled' = filled /\ drainAt' = drainAt /\ filled \in 0 .. NumWorkers
    BY <1>6 DEF SchedMake, TypeInv, TypeOK
  <2>4. (NumWorkers - filled) * QueueDepth \in Nat
    BY <2>3, Arithmetic
  <2> HIDE DEF Room
  <2> QED
    BY <1>0, <2>2, <2>3, <2>4, Arithmetic
<1>7. CASE SchedNoSeed \/ SchedMade \/ SchedEnqueue
  <2>1. /\ pending' = pending /\ filled' = filled /\ drainAt' = drainAt
        /\ \/ spc = "make" /\ spc' = "make" /\ needed' = needed - 1
           \/ spc = "make" /\ spc' = "fill" /\ needed' = 0
           \/ spc = "enqueue" /\ spc' = "make" /\ needed' = needed - 1
    BY <1>7 DEF SchedNoSeed, SchedMade, SchedEnqueue
  <2>2. (NumWorkers - filled) * QueueDepth \in Nat
    BY Arithmetic DEF TypeInv, TypeOK
  <2> HIDE DEF Room
  <2> QED
    BY <1>0, <2>1, <2>2, Arithmetic
<1>8. CASE SchedSweep
  <2>1. /\ pending' \subseteq pending /\ filled' = 0 /\ drainAt' = drainAt
        /\ spc = "fill" /\ spc' = "top"
    BY <1>8 DEF SchedSweep, SweptPending
  <2>2. Cardinality(pending') \in Nat /\ Cardinality(pending') <= Cardinality(pending)
    BY <2>1, Shrinks DEF TypeInv, TypeOK
  <2> HIDE DEF Room
  <2> QED
    BY <1>0, <2>1, <2>2, Arithmetic
<1> QED
  BY <1>1, <1>2, <1>3, <1>4, <1>5, <1>6, <1>7, <1>8 DEF Scheduler

\* A step that leaves the scheduler alone preserves Backlog when, during the drain, it
\* brings no pending task back to the workers.
LEMMA BacklogOthers ==
  ASSUME TypeInv, Tracked, Backlog, UNCHANGED <<spc, drainAt, filled, needed, pending>>,
         spc = "drain" => (pending \cap (Outstanding \cup Drained))'
                              \subseteq pending \cap (Outstanding \cup Drained)
  PROVE  Backlog'
<1> DEFINE held == pending \cap (Outstanding \cup Drained)
<1>1. CASE spc = "drain"
  <2>1. Cardinality(held') <= Cardinality(held) /\ Cardinality(held') \in Nat
        /\ Cardinality(held) \in Nat
    BY <1>1, Shrinks, Sizes DEF TypeInv, TypeOK
  <2> QED
    BY <1>1, <2>1, Arithmetic DEF Backlog, Room, LocalLimit
<1>2. CASE spc # "drain"
  BY <1>2 DEF Backlog, Room, LocalLimit
<1> QED
  BY <1>1, <1>2

\* Every step preserves Backlog: the other threads only pass tasks on.
LEMMA BacklogStep ==
  ASSUME TypeInv, Custody, Tally, Tracked, QueueBound, LocalsSmall, Backlog, [Next]_vars
  PROVE  Backlog'
<1> USE DEF ctlVars, schedVars, bufferVars, workerVars, exploreVars, historyVars
<1>1. CASE Start
  BY <1>1, Sizes, Arithmetic DEF Start, Backlog, Tracked, TypeInv, Hands, Joined, Room, LocalLimit
<1>2. CASE Stop \/ NotifyAll \/ UNCHANGED vars
  BY <1>2, BacklogOthers DEF Stop, NotifyAll, vars, Outstanding, Own, Drained
<1>3. CASE Clear
  BY <1>3, BacklogOthers DEF Clear, Joined
<1>4. ASSUME NEW w \in Workers, Worker(w)
      PROVE  Backlog'
  <2>1. UNCHANGED <<spc, drainAt, filled, needed, pending>>
    BY <1>4 DEF Worker, WorkerLoop, WorkerLock, WorkerBlock, WorkerNotified, WorkerTimeout,
       PopOr, WorkerSteal, WorkerSkipVictim, WorkerExecute, WorkerFlush
  <2>2. ASSUME NEW t \in TaskIds, t \in (Outstanding \cup Drained)'
        PROVE  t \in Outstanding \cup Drained
    <3> USE Ids DEF TypeInv, TypeOK, Outstanding, Own, Drained
    <3>1. CASE WorkerLoop(w) \/ WorkerBlock(w) \/ WorkerSkipVictim(w)
      BY <2>2, <3>1 DEF WorkerLoop, WorkerBlock, WorkerSkipVictim
    <3>2. ASSUME NEW v \in Workers, NEW u \in queue[v],
                 task' = [task EXCEPT ![w] = u],
                 queue' = [queue EXCEPT ![v] = @ \ {u}],
                 UNCHANGED <<schedVars, nextId, bufferVars, local, exploreVars, historyVars>>
          PROVE  t \in Outstanding \cup Drained
      BY <2>2, <3>2
    <3>3. ASSUME NEW idle, PopOr(w, idle)
          PROVE  t \in Outstanding \cup Drained
      <4>1. CASE queue[w] = {}
        BY <2>2, <3>3, <4>1 DEF PopOr
      <4>2. CASE queue[w] # {}
        BY <3>2, <3>3, <4>2, FrontIsIn DEF PopOr
      <4> QED
        BY <4>1, <4>2
    <3>4. CASE WorkerLock(w) \/ WorkerNotified(w) \/ WorkerTimeout(w)
      BY <3>3, <3>4 DEF WorkerLock, WorkerNotified, WorkerTimeout
    <3>5. CASE WorkerSteal(w)
      BY <3>2, <3>5, StealIsPop
    <3>6. CASE WorkerFlush(w) \/ WorkerExecute(w)
      <4>1. \A q \in ResultQueues : active'[q] \subseteq active[q] \cup local[w] \cup {task[w]}
        BY <3>6, PipelineAssumption DEF WorkerFlush, WorkerExecute, SubmitLocal
      <4>2. \A v \in Workers : v # w => local'[v] = local[v] /\ task'[v] = task[v]
        BY <3>6 DEF WorkerFlush, WorkerExecute, SubmitLocal
      <4>3. local'[w] \subseteq local[w] \cup {task[w]} /\ task'[w] \in {NoTask, task[w]}
        BY <3>6 DEF WorkerFlush, WorkerExecute, SubmitLocal
      <4>4. queue' = queue /\ drainAt' = drainAt
        BY <3>6 DEF WorkerFlush, WorkerExecute
      <4>5. (local[w] \cup {task[w]}) \cap TaskIds \subseteq Own(w)
        OBVIOUS
      <4>6. CASE \E v \in Workers : t \in Own(v)'
        <5>1. PICK v \in Workers : t \in queue'[v] \/ t \in local'[v] \/ t = task'[v]
          BY <4>6
        <5>2. CASE v = w
          <6>1. t \in queue[w] \/ t \in local[w] \cup {task[w]} \/ t = NoTask
            BY <4>3, <4>4, <5>1, <5>2
          <6>2. t \in Own(w)
            BY <2>2, <4>5, <6>1, Ids
          <6> QED
            BY <2>2, <6>2
        <5>3. CASE v # w
          <6>1. local'[v] = local[v] /\ task'[v] = task[v]
            BY <4>2, <5>1, <5>3
          <6>2. t \in Own(v)
            BY <2>2, <4>4, <5>1, <6>1
          <6> QED
            BY <6>2
        <5> QED
          BY <5>2, <5>3
      <4>7. CASE \E q \in ResultQueues : q < drainAt /\ t \in active'[q]
        BY <2>2, <4>1, <4>5, <4>7
      <4>8. \/ \E v \in Workers : t \in Own(v)'
            \/ \E q \in ResultQueues : q < drainAt /\ t \in active'[q]
        BY <2>2, <4>4
      <4> QED
        BY <4>6, <4>7, <4>8
    <3> QED
      BY <1>4, <3>1, <3>4, <3>5, <3>6 DEF Worker
  <2> QED
    BY <2>1, <2>2, BacklogOthers DEF TypeInv, TypeOK
<1>5. ASSUME NEW e \in Explorers, Explorer(e)
      PROVE  Backlog'
  <2>1. UNCHANGED <<spc, drainAt, filled, needed, pending>> /\ Outstanding' = Outstanding
    BY <1>5 DEF Explorer, ExplorerLoop, ExplorerMake, ExplorerNoSeed, ExplorerExecute,
       ExplorerSubmit, Outstanding, Own
  <2>2. (pending \cap Drained)' \subseteq Drained
    BY <1>5 DEF Explorer, ExplorerLoop, ExplorerMake, ExplorerNoSeed, ExplorerExecute,
       ExplorerSubmit, Drained, Tracked, TypeInv, TypeOK
  <2> QED
    BY <2>1, <2>2, BacklogOthers
<1> QED
  BY <1>1, <1>2, <1>3, <1>4, <1>5, BacklogSched DEF Next, Finished

\* pending_tasks never exceeds the room of the pipeline: the map of tasks in flight does not
\* grow with the length of the campaign, whether or not the cleanup ever discards one.
THEOREM PendingBounded == Spec => []PendingBound
<1> DEFINE Inv == LocalsSmall /\ Tracked /\ Backlog
<1>1. Init => Inv
  BY Sizes, Ids, PipelineAssumption, Arithmetic
     DEF Init, LocalsSmall, LocalLimit, Tracked, Backlog, Room
<1>2. TypeInv /\ Custody /\ Tally /\ QueueBound /\ Inv /\ [Next]_vars => Inv'
  BY LocalsSmallStep, TrackedStep, BacklogStep
<1>3. Inv => PendingBound
  BY DEF Backlog, Room, LocalLimit, PendingBound
<1> HIDE DEF Inv
<1> QED
  BY <1>1, <1>2, <1>3, TypeInvHolds, CustodyHolds, TallyHolds, QueuesBounded, PTL DEF Spec

\* The cleanup of old pending tasks has nothing to do.
SweepIdle == Cardinality(pending) <= PendingLimit

\* What is owed for one task: a worker's task is in pending_tasks until it is booked, an
\* explorer's task was credited by the explorer itself before it was submitted.
Owed(t) ==
    /\ \A i \in ResultQueues : Holds("batch", i, t) => credits[t] > 0
    /\ booked[t] > 0 => credits[t] > 0
    /\ spc # "stopped" =>
          /\ \A k \in {"fresh", "queue", "worker", "local"}, i \in ResultQueues :
                Holds(k, i, t) => t \in pending
          /\ \A k \in {"active", "results"}, i \in ResultQueues :
                Holds(k, i, t) => t \in pending \/ credits[t] > 0

\* Every task's debt is recorded.  BookedIsLearned needs it: at the moment of booking the
\* map must still hold the task's scheduling decision.
AllOwed == \A t \in TaskIds : Owed(t)

\* start() and stop() preserve AllOwed; a new scheduler thread starts with an empty map,
\* which is sound because Quiet leaves it no task of the previous run.
LEMMA OwedCtl ==
  ASSUME TypeInv, Quiet, AllOwed, Start \/ Stop \/ NotifyAll \/ Clear
  PROVE  AllOwed'
<1> USE Ids DEF TypeInv, TypeOK, Hands, Joined, AllOwed, Owed, Holds, schedVars, bufferVars,
                workerVars, exploreVars, historyVars
<1>1. CASE Start
  BY <1>1 DEF Start, Quiet
<1>2. CASE Stop \/ NotifyAll
  BY <1>2 DEF Stop, NotifyAll
<1>3. CASE Clear
  BY <1>3 DEF Clear
<1> QED
  BY <1>1, <1>2, <1>3

\* The scheduler's steps preserve AllOwed as long as the cleanup does not discard a task.
LEMMA OwedSched ==
  ASSUME TypeInv, Custody, Tally, AllOwed, SweepIdle, Scheduler
  PROVE  AllOwed'
<1> USE Ids DEF TypeInv, TypeOK, Hands, AllOwed, Owed, Holds, ctlVars, bufferVars, workerVars,
                exploreVars, historyVars
<1>1. CASE SchedTop
  BY <1>1 DEF SchedTop
<1>2. CASE SchedDrain
  BY <1>2 DEF SchedDrain, SwapAndGet
<1>3. CASE SchedBook
  <2>1. PICK u \in results : /\ results' = results \ {u} /\ booked' = Once(booked, u)
                             /\ CreditPending(u)
    BY <1>3 DEF SchedBook
  <2>2. \A l \in PlaceKinds, j \in ResultQueues : Holds(l, j, u) <=> (l = "results" /\ j = 0)
    BY <2>1, Sole DEF PlaceKinds
  <2>3. Owed(u)'
    <3>1. credits'[u] > 0
      BY <1>3, <2>1 DEF SchedBook, CreditPending, Once
    <3> QED
      BY <1>3, <2>1, <2>2, <3>1 DEF SchedBook, PlaceKinds
  <2>4. ASSUME NEW t \in TaskIds, t # u
        PROVE  Owed(t)'
    <3>1. booked'[t] = booked[t] /\ credits'[t] = credits[t] /\ (t \in pending' <=> t \in pending)
      BY <2>1, <2>4 DEF Once, CreditPending
    <3> QED
      BY <1>3, <2>1, <2>4, <3>1 DEF SchedBook
  <2> HIDE DEF Owed
  <2> QED
    BY <2>3, <2>4
<1>4. CASE SchedDrained \/ SchedVisit \/ SchedMade
  BY <1>4 DEF SchedDrained, SchedVisit, SchedMade
<1>5. CASE SchedMake
  <2>1. pending \subseteq pending' /\ fresh' \in pending' /\ spc # "stopped"
    BY <1>5 DEF SchedMake
  <2>2. ASSUME NEW t \in TaskIds
        PROVE  Owed(t)'
    BY <1>5, <2>1 DEF SchedMake
  <2> HIDE DEF Owed
  <2> QED
    BY <2>2
<1>6. CASE SchedNoSeed
  BY <1>6 DEF SchedNoSeed
<1>7. CASE SchedEnqueue
  BY <1>7 DEF SchedEnqueue
<1>8. CASE SchedSweep
  <2>1. Cardinality(pending) \in Nat
    BY FiniteTasks
  <2>2. pending' = pending /\ spc # "stopped"
    BY <1>8, <2>1, PipelineAssumption DEF SchedSweep, SweptPending, SweepIdle
  <2> QED
    BY <1>8, <2>2 DEF SchedSweep
<1> QED
  BY <1>1, <1>2, <1>3, <1>4, <1>5, <1>6, <1>7, <1>8 DEF Scheduler

\* The worker's steps preserve AllOwed: handing on a task does not touch the map.
LEMMA OwedWorker ==
  ASSUME TypeInv, AllOwed, NEW w \in Workers, Worker(w)
  PROVE  AllOwed'
<1> USE Ids DEF TypeInv, TypeOK, Hands, AllOwed, Owed, Holds, ctlVars, schedVars, bufferVars,
                exploreVars, historyVars
<1>1. CASE WorkerLoop(w) \/ WorkerBlock(w) \/ WorkerSkipVictim(w)
  BY <1>1 DEF WorkerLoop, WorkerBlock, WorkerSkipVictim
<1>2. ASSUME NEW v \in Workers, NEW u \in queue[v],
             task' = [task EXCEPT ![w] = u],
             queue' = [queue EXCEPT ![v] = @ \ {u}],
             UNCHANGED <<schedVars, nextId, bufferVars, local, exploreVars, historyVars>>
      PROVE  AllOwed'
  BY <1>2
<1>3. ASSUME NEW idle, PopOr(w, idle)
      PROVE  AllOwed'
  <2>1. CASE queue[w] = {}
    BY <1>3, <2>1 DEF PopOr
  <2>2. CASE queue[w] # {}
    BY <1>2, <1>3, <2>2, FrontIsIn DEF PopOr
  <2> QED
    BY <2>1, <2>2
<1>4. CASE WorkerLock(w) \/ WorkerNotified(w) \/ WorkerTimeout(w)
  BY <1>3, <1>4 DEF WorkerLock, WorkerNotified, WorkerTimeout
<1>5. CASE WorkerSteal(w)
  BY <1>2, <1>5, StealIsPop
<1>6. CASE WorkerFlush(w)
  BY <1>6, PipelineAssumption DEF WorkerFlush, SubmitLocal
<1>7. CASE WorkerExecute(w)
  BY <1>7, PipelineAssumption DEF WorkerExecute, SubmitLocal
<1> QED
  BY <1>1, <1>4, <1>5, <1>6, <1>7 DEF Worker

\* The explorer's steps preserve AllOwed: it credits before it submits.
LEMMA OwedExplorer ==
  ASSUME TypeInv, AllOwed, NEW e \in Explorers, Explorer(e)
  PROVE  AllOwed'
<1> USE Ids DEF TypeInv, TypeOK, Hands, AllOwed, Owed, Holds, ctlVars, schedVars, bufferVars,
                workerVars, historyVars
<1>1. CASE ExplorerLoop(e) \/ ExplorerMake(e) \/ ExplorerNoSeed(e)
  BY <1>1 DEF ExplorerLoop, ExplorerMake, ExplorerNoSeed
<1>2. CASE ExplorerExecute(e)
  <2>1. PICK u \in TaskIds : u = etask[e]
    BY <1>2 DEF ExplorerExecute
  <2>2. credits' = Once(credits, u)
    BY <1>2, <2>1 DEF ExplorerExecute
  <2>3. credits'[u] > 0 /\ \A t \in TaskIds : credits[t] > 0 => credits'[t] > 0
    BY <2>2 DEF Once
  <2> QED
    BY <1>2, <2>1, <2>3 DEF ExplorerExecute
<1>3. CASE ExplorerSubmit(e)
  BY <1>3, PipelineAssumption DEF ExplorerSubmit, Explorers, ResultQueues
<1> QED
  BY <1>1, <1>2, <1>3 DEF Explorer

\* With room for every task in flight below the cleanup threshold, as in the default
\* configuration (9 tasks per worker against 10000), no debt is ever forgotten.
LEMMA AllOwedHolds ==
  ASSUME Room <= PendingLimit
  PROVE  Spec => []AllOwed
<1>1. Init => AllOwed
  BY Ids DEF Init, AllOwed, Owed, Holds
<1>2. TypeInv /\ PendingBound => SweepIdle
  <2> SUFFICES ASSUME TypeInv, PendingBound PROVE SweepIdle
    OBVIOUS
  <2>1. Cardinality(pending) <= Room
    BY DEF PendingBound, Room, LocalLimit
  <2>2. Room \in Nat
    BY Arithmetic
  <2>3. Cardinality(pending) \in Nat
    BY FiniteTasks DEF TypeInv, TypeOK
  <2> QED
    BY <2>1, <2>2, <2>3, PipelineAssumption DEF SweepIdle
<1>3. TypeInv /\ Custody /\ Tally /\ Quiet /\ SweepIdle /\ AllOwed /\ [Next]_vars => AllOwed'
  <2>1. CASE UNCHANGED vars
    BY <2>1 DEF vars, ctlVars, schedVars, bufferVars, workerVars, exploreVars, historyVars,
                AllOwed, Owed, Holds
  <2> QED
    BY <2>1, OwedCtl, OwedSched, OwedWorker, OwedExplorer DEF Next, Finished
<1> QED
  BY <1>1, <1>2, <1>3, QuietHolds, TallyHolds, PendingBounded, TypeInvHolds, CustodyHolds, PTL
     DEF Spec

\* With that room, every result the scheduler books has taught the learner: no sample is
\* lost between the worker that ran it and the statistics that should learn from it.
THEOREM BookingTeaches ==
  ASSUME Room <= PendingLimit
  PROVE  Spec => []BookedIsLearned
<1>1. AllOwed => BookedIsLearned
  BY DEF AllOwed, Owed, BookedIsLearned
<1> QED
  BY <1>1, AllOwedHolds, PTL

\* The tasks waiting for a thread, as the abstract ledger names them.
Waiting   == AllOf(queue) \cup ({fresh} \ {NoTask})
\* The tasks being executed, as the abstract ledger names them.
Executing == ({task[w] : w \in Workers} \cup {etask[e] : e \in Explorers}) \ {NoTask}
\* The executed tasks on their way back.
Executed  == AllOf(local) \cup AllOf(batch) \cup AllOf(active) \cup results
\* The tasks whose result was counted.
Booked    == {t \in TaskIds : booked[t] > 0}
\* The tasks the learner heard of.
Told      == {t \in TaskIds : credits[t] > 0}

\* A step that changes none of the abstract places is a stutter of the ledger.
LEMMA LedgerStutters ==
  ASSUME UNCHANGED <<nextId, Waiting, Executing, Executed, Booked, Told>>
  PROVE  UNCHANGED Ledger!ledgerVars
BY DEF Ledger!ledgerVars, Waiting, Executing, Executed, Booked, Told

\* Flushing a batch moves results between a thread and its buffer and loses none.
LEMMA SubmitKeepsAll ==
  ASSUME TypeInv, NEW w \in Workers, NEW b \in SUBSET TaskIds, local[w] \subseteq b,
         SubmitLocal(w, b)
  PROVE  AllOf(local)' \cup AllOf(active)' = AllOf(local) \cup AllOf(active) \cup b
<1> DEFINE q == ResultQueueOf[w]
<1>1. /\ local \in [Workers -> SUBSET TaskIds] /\ active \in [ResultQueues -> SUBSET TaskIds]
      /\ local' \in [Workers -> SUBSET TaskIds] /\ active' \in [ResultQueues -> SUBSET TaskIds]
      /\ q \in ResultQueues
  BY PipelineAssumption DEF TypeInv, TypeOK, SubmitLocal
<1>2. /\ local'[w] = {} /\ \A i \in Workers \ {w} : local'[i] = local[i]
      /\ active'[q] = active[q] \cup b /\ \A i \in ResultQueues \ {q} : active'[i] = active[i]
  BY <1>1 DEF SubmitLocal
<1>3. /\ \A x : x \in AllOf(local) <=> \E i \in Workers : x \in local[i]
      /\ \A x : x \in AllOf(local)' <=> \E i \in Workers : x \in local'[i]
      /\ \A x : x \in AllOf(active) <=> \E i \in ResultQueues : x \in active[i]
      /\ \A x : x \in AllOf(active)' <=> \E i \in ResultQueues : x \in active'[i]
  BY <1>1 DEF AllOf
<1> HIDE DEF q
<1>4. ASSUME NEW x
      PROVE  x \in AllOf(local)' \/ x \in AllOf(active)'
                <=> x \in AllOf(local) \/ x \in AllOf(active) \/ x \in b
  BY <1>1, <1>2, <1>3
<1> QED
  BY <1>4

\* start() is a stutter of the ledger, the clear of stop() drops what was underway.
LEMMA LedgerCtl ==
  ASSUME TypeInv, Quiet, Start \/ Stop \/ NotifyAll \/ Clear
  PROVE  [Ledger!Next]_(Ledger!ledgerVars)
<1> USE DEF schedVars, bufferVars, workerVars, exploreVars, historyVars
<1>1. CASE Start \/ Stop \/ NotifyAll
  BY <1>1, LedgerStutters
     DEF Start, Stop, NotifyAll, Waiting, Executing, Executed, Booked, Told
<1>2. CASE Clear
  <2>1. UNCHANGED <<nextId, Executing, Booked, Told>>
    BY <1>2 DEF Clear, Executing, Booked, Told
  <2>2. Executing = {}
    BY <1>2, Ids DEF Clear, Joined, Executing, TypeInv, TypeOK, Hands
  <2>3. Waiting' = {} /\ Executed' = {}
    <3>1. /\ fresh' = NoTask /\ results' = {}
          /\ \A w \in Workers : queue'[w] = {} /\ local'[w] = {}
          /\ \A e \in Explorers : batch'[e] = {}
          /\ \A q \in ResultQueues : active'[q] = {}
      BY <1>2, Ids DEF Clear, Joined, Quiet, TypeInv, TypeOK, Hands
    <3>2. /\ DOMAIN queue' = Workers /\ DOMAIN local' = Workers /\ DOMAIN batch' = Explorers
          /\ DOMAIN active' = ResultQueues
      BY <1>2 DEF Clear, TypeInv, TypeOK
    <3> QED
      BY <3>1, <3>2 DEF Waiting, Executed, AllOf
  <2> QED
    BY <2>1, <2>2, <2>3
       DEF Ledger!Next, Ledger!Drop, Waiting, Executing, Executed, Booked, Told
<1> QED
  BY <1>1, <1>2

\* The scheduler's steps issue a task, book a result, or are invisible.
LEMMA LedgerSched ==
  ASSUME TypeInv, TypeInv', Custody, AllOwed, Scheduler
  PROVE  [Ledger!Next]_(Ledger!ledgerVars)
<1> USE Ids DEF ctlVars, bufferVars, workerVars, exploreVars, historyVars
<1>1. CASE SchedTop \/ SchedDrained \/ SchedVisit \/ SchedMade \/ SchedSweep
  BY <1>1, LedgerStutters DEF SchedTop, SchedDrained, SchedVisit, SchedMade, SchedSweep,
     Waiting, Executing, Executed, Booked, Told
<1>2. CASE SchedDrain
  <2>1. UNCHANGED <<nextId, Waiting, Executing, Booked, Told>>
    BY <1>2 DEF SchedDrain, Waiting, Executing, Booked, Told
  <2>2. AllOf(active)' \cup results' = AllOf(active) \cup results
    BY <1>2 DEF SchedDrain, SwapAndGet, AllOf, TypeInv, TypeOK
  <2>3. Executed' = Executed
    BY <1>2, <2>2 DEF SchedDrain, Executed
  <2> QED
    BY <2>1, <2>3, LedgerStutters
<1>3. CASE SchedBook
  <2>1. PICK u \in results : /\ results' = results \ {u} /\ booked' = Once(booked, u)
                             /\ CreditPending(u)
    BY <1>3 DEF SchedBook
  <2>2. u \in TaskIds /\ Holds("results", 0, u) /\ "results" \in PlaceKinds
    BY <2>1 DEF TypeInv, TypeOK, Holds, PlaceKinds
  <2>3. \A l \in PlaceKinds, j \in ResultQueues : Holds(l, j, u) <=> (l = "results" /\ j = 0)
    BY <2>2, Sole
  <2>4. u \notin AllOf(local) /\ u \notin AllOf(batch) /\ u \notin AllOf(active)
    <3>1. \A w \in Workers : ~ Holds("local", w, u)
      BY <2>3 DEF PlaceKinds
    <3>2. \A e \in Explorers : ~ Holds("batch", e, u)
      BY <2>3, PipelineAssumption DEF PlaceKinds, Explorers, ResultQueues
    <3>3. \A q \in ResultQueues : ~ Holds("active", q, u)
      BY <2>3 DEF PlaceKinds
    <3> QED
      BY <3>1, <3>2, <3>3 DEF AllOf, Holds, TypeInv, TypeOK
  <2>5. u \in Executed /\ Executed' = Executed \ {u}
    BY <1>3, <2>1, <2>4 DEF SchedBook, Executed
  <2>6. Booked' = Booked \cup {u}
    BY <2>1, <2>2 DEF Booked, Once, TypeInv, TypeOK
  <2>7. Told' = Told \cup {u}
    <3>1. credits'[u] > 0
      <4>1. u \in pending \/ credits[u] > 0
        BY <1>3, <2>2 DEF SchedBook, AllOwed, Owed
      <4> QED
        BY <2>1, <2>2, <4>1 DEF CreditPending, Once, TypeInv, TypeOK
    <3>2. \A t \in TaskIds : t # u => credits'[t] = credits[t]
      BY <2>1 DEF CreditPending, Once
    <3> QED
      BY <2>2, <3>1, <3>2 DEF Told
  <2>8. UNCHANGED <<nextId, Waiting, Executing>>
    BY <1>3 DEF SchedBook, Waiting, Executing
  <2>9. Ledger!Book(u)
    BY <2>5, <2>6, <2>7, <2>8
       DEF Ledger!Book, Waiting, Executing, Executed, Booked, Told
  <2> QED
    BY <2>5, <2>9 DEF Ledger!Next, Executed
<1>4. CASE SchedMake
  <2>1. PICK u \in TaskIds : DrawId(u) /\ fresh' = u
    BY <1>4 DEF SchedMake
  <2>2. u = nextId /\ nextId' = nextId + 1 /\ nextId < MaxTaskId
    BY <2>1, PipelineAssumption DEF DrawId, TaskIds
  <2>3. UNCHANGED <<Executing, Executed, Booked, Told>>
    BY <1>4 DEF SchedMake, Executing, Executed, Booked, Told
  <2>4. fresh = NoTask
    BY <1>4 DEF SchedMake, TypeInv, Hands
  <2>5. Waiting' = Waiting \cup {u}
    BY <1>4, <2>1, <2>4 DEF SchedMake, Waiting
  <2> QED
    BY <2>2, <2>3, <2>5
       DEF Ledger!Next, Ledger!Draw, Waiting, Executing, Executed, Booked, Told
<1>5. CASE SchedNoSeed
  <2>1. UNCHANGED <<Waiting, Executing, Executed, Booked, Told>>
    BY <1>5 DEF SchedNoSeed, Waiting, Executing, Executed, Booked, Told
  <2>2. UNCHANGED nextId \/ (nextId' = nextId + 1 /\ nextId < MaxTaskId)
    BY <1>5, PipelineAssumption DEF SchedNoSeed, DrawId, TaskIds
  <2> QED
    BY <2>1, <2>2, LedgerStutters
       DEF Ledger!Next, Ledger!Draw, Waiting, Executing, Executed, Booked, Told
<1>6. CASE SchedEnqueue
  <2>1. UNCHANGED <<nextId, Executing, Executed, Booked, Told>>
    BY <1>6 DEF SchedEnqueue, Executing, Executed, Booked, Told
  <2>2. AllOf(queue)' = AllOf(queue) \cup {fresh}
    BY <1>6 DEF SchedEnqueue, AllOf, TypeInv, TypeOK
  <2>3. Waiting' = Waiting
    BY <1>6, <2>2 DEF SchedEnqueue, Waiting, TypeInv, TypeOK, Hands
  <2> QED
    BY <2>1, <2>3, LedgerStutters
<1> QED
  BY <1>1, <1>2, <1>3, <1>4, <1>5, <1>6 DEF Scheduler

\* The worker's steps claim a task, execute it, or are invisible.
LEMMA LedgerWorker ==
  ASSUME TypeInv, Custody, NEW w \in Workers, Worker(w)
  PROVE  [Ledger!Next]_(Ledger!ledgerVars)
<1> USE Ids DEF TypeInv, TypeOK, Hands, ctlVars, schedVars, bufferVars, exploreVars, historyVars
<1>1. CASE WorkerLoop(w) \/ WorkerBlock(w) \/ WorkerSkipVictim(w)
  BY <1>1, LedgerStutters DEF WorkerLoop, WorkerBlock, WorkerSkipVictim,
     Waiting, Executing, Executed, Booked, Told
<1>2. ASSUME NEW v \in Workers, NEW u \in queue[v], task[w] = NoTask,
             task' = [task EXCEPT ![w] = u],
             queue' = [queue EXCEPT ![v] = @ \ {u}],
             UNCHANGED <<schedVars, nextId, bufferVars, local, exploreVars, historyVars>>
      PROVE  Ledger!Next
  <2>1. UNCHANGED <<nextId, Executed, Booked, Told>>
    BY <1>2 DEF Executed, Booked, Told
  <2>2. \A l \in PlaceKinds, j \in ResultQueues : Holds(l, j, u) <=> (l = "queue" /\ j = v)
    <3>1. u \in TaskIds /\ Holds("queue", v, u) /\ "queue" \in PlaceKinds /\ v \in ResultQueues
      BY DEF Holds, PlaceKinds
    <3> QED
      BY <3>1, Sole
  <2>3. u # fresh /\ \A x \in Workers : x # v => u \notin queue[x]
    BY <2>2 DEF Holds, PlaceKinds
  <2>4. AllOf(queue)' = AllOf(queue) \ {u}
    BY <1>2, <2>3 DEF AllOf
  <2>5. u \in Waiting /\ Waiting' = Waiting \ {u}
    BY <1>2, <2>3, <2>4 DEF Waiting, AllOf
  <2>6. Executing' = Executing \cup {u}
    <3>1. {task'[x] : x \in Workers} \ {NoTask} = ({task[x] : x \in Workers} \ {NoTask}) \cup {u}
      BY <1>2
    <3> QED
      BY <1>2, <3>1 DEF Executing
  <2>7. Ledger!Begin(u)
    BY <2>1, <2>5, <2>6 DEF Ledger!Begin, Waiting, Executing, Executed, Booked, Told
  <2> QED
    BY <2>5, <2>7 DEF Ledger!Next, Waiting
<1>3. ASSUME NEW idle, PopOr(w, idle), task[w] = NoTask
      PROVE  [Ledger!Next]_(Ledger!ledgerVars)
  <2>1. CASE queue[w] = {}
    BY <1>3, <2>1, LedgerStutters DEF PopOr, Waiting, Executing, Executed, Booked, Told
  <2>2. CASE queue[w] # {}
    BY <1>2, <1>3, <2>2, FrontIsIn DEF PopOr
  <2> QED
    BY <2>1, <2>2
<1>4. CASE WorkerLock(w) \/ WorkerNotified(w) \/ WorkerTimeout(w)
  BY <1>3, <1>4 DEF WorkerLock, WorkerNotified, WorkerTimeout
<1>5. CASE WorkerSteal(w)
  BY <1>2, <1>5, StealIsPop
<1>6. CASE WorkerFlush(w)
  <2>1. UNCHANGED <<nextId, Waiting, Executing, Booked, Told>>
    BY <1>6 DEF WorkerFlush, Waiting, Executing, Booked, Told
  <2>2. AllOf(local)' \cup AllOf(active)' = AllOf(local) \cup AllOf(active)
    <3>1. SubmitLocal(w, local[w])
      BY <1>6 DEF WorkerFlush
    <3>2. local[w] \subseteq AllOf(local)
      BY DEF AllOf
    <3>3. local[w] \in SUBSET TaskIds
      OBVIOUS
    <3> HIDE DEF TypeInv, TypeOK, Hands
    <3>4. AllOf(local)' \cup AllOf(active)' = AllOf(local) \cup AllOf(active) \cup local[w]
      BY <3>1, <3>3, SubmitKeepsAll
    <3> QED
      BY <3>2, <3>4
  <2>3. Executed' = Executed
    BY <1>6, <2>2 DEF WorkerFlush, Executed
  <2> QED
    BY <2>1, <2>3, LedgerStutters
<1>7. CASE WorkerExecute(w)
  <2>0. PICK u \in TaskIds : u = task[w]
    BY <1>7 DEF WorkerExecute
  <2>1. UNCHANGED <<nextId, Waiting, Booked, Told>>
    BY <1>7 DEF WorkerExecute, Waiting, Booked, Told
  <2>2. \A l \in PlaceKinds, j \in ResultQueues : Holds(l, j, u) <=> (l = "worker" /\ j = w)
    <3>1. Holds("worker", w, u) /\ "worker" \in PlaceKinds /\ w \in ResultQueues
      BY <2>0 DEF Holds, PlaceKinds
    <3> QED
      BY <3>1, Sole
  <2>3. /\ \A x \in Workers : x # w => u # task[x]
        /\ \A e \in Explorers : u # etask[e]
    BY <2>2, PipelineAssumption DEF Holds, PlaceKinds, Explorers, ResultQueues
  <2>4. u \in Executing /\ Executing' = Executing \ {u}
    <3>1. {task'[x] : x \in Workers} \ {NoTask} = ({task[x] : x \in Workers} \ {NoTask}) \ {u}
      BY <1>7, <2>0, <2>3 DEF WorkerExecute
    <3>2. {etask'[e] : e \in Explorers} = {etask[e] : e \in Explorers}
      BY <1>7 DEF WorkerExecute
    <3>3. u \notin {etask[e] : e \in Explorers} /\ u \in {task[x] : x \in Workers}
      BY <2>0, <2>3
    <3> HIDE DEF TypeInv, TypeOK, Hands
    <3>4. u # NoTask
      BY Ids
    <3> DEFINE A == {task[x] : x \in Workers}
               A2 == {task'[x] : x \in Workers}
               B == {etask[x] : x \in Explorers}
    <3>5. Executing = (A \cup B) \ {NoTask} /\ Executing' = (A2 \cup B) \ {NoTask}
      BY <3>2 DEF Executing
    <3>6. u \notin B /\ u \in A /\ A2 \ {NoTask} = (A \ {NoTask}) \ {u}
      BY <3>1, <3>3
    <3> HIDE DEF A, A2, B
    <3> QED
      BY <3>4, <3>5, <3>6
  <2>5. AllOf(local)' \cup AllOf(active)' = AllOf(local) \cup AllOf(active) \cup {u}
    <3> DEFINE b == local[w] \cup {u}
    <3>1. local[w] \subseteq AllOf(local)
      BY DEF AllOf
    <3>2. CASE SubmitLocal(w, b)
      BY <3>1, <3>2, SubmitKeepsAll
    <3>3. CASE local' = [local EXCEPT ![w] = b] /\ UNCHANGED active
      <4>1. /\ local' \in [Workers -> SUBSET TaskIds]
            /\ local'[w] = b /\ \A i \in Workers \ {w} : local'[i] = local[i]
        BY <3>3
      <4>2. AllOf(local)' = AllOf(local) \cup {u} /\ AllOf(active)' = AllOf(active)
        BY <3>3, <4>1 DEF AllOf
      <4> QED
        BY <4>2
    <3> QED
      BY <1>7, <2>0, <3>2, <3>3 DEF WorkerExecute
  <2>6. Executed' = Executed \cup {u}
    BY <1>7, <2>5 DEF WorkerExecute, Executed
  <2>7. Ledger!Execute(u)
    BY <2>1, <2>4, <2>6 DEF Ledger!Execute, Waiting, Executing, Executed, Booked, Told
  <2> QED
    BY <2>4, <2>7 DEF Ledger!Next, Executing
<1> QED
  BY <1>1, <1>4, <1>5, <1>6, <1>7 DEF Worker

\* The explorer's steps issue and claim its task, execute and teach it, or are invisible.
LEMMA LedgerExplorer ==
  ASSUME TypeInv, Custody, NEW e \in Explorers, Explorer(e)
  PROVE  [Ledger!Next]_(Ledger!ledgerVars)
<1> USE Ids DEF TypeInv, TypeOK, Hands, ctlVars, schedVars, bufferVars, workerVars, historyVars
<1>0. e \in ResultQueues
  BY PipelineAssumption DEF Explorers, ResultQueues
<1>1. CASE ExplorerLoop(e)
  BY <1>1, LedgerStutters DEF ExplorerLoop, Waiting, Executing, Executed, Booked, Told
<1>2. CASE ExplorerMake(e)
  <2>1. PICK u \in TaskIds : DrawId(u) /\ etask' = [etask EXCEPT ![e] = u]
    BY <1>2 DEF ExplorerMake
  <2>2. u = nextId /\ nextId' = nextId + 1 /\ nextId < MaxTaskId
    BY <2>1, PipelineAssumption DEF DrawId, TaskIds
  <2>3. UNCHANGED <<Waiting, Executed, Booked, Told>>
    BY <1>2 DEF ExplorerMake, Waiting, Executed, Booked, Told
  <2>4. etask[e] = NoTask
    BY <1>2 DEF ExplorerMake
  <2>5. {etask'[x] : x \in Explorers} \ {NoTask}
           = ({etask[x] : x \in Explorers} \ {NoTask}) \cup {u}
    BY <2>1, <2>4
  <2>6. {task'[x] : x \in Workers} = {task[x] : x \in Workers}
    BY <1>2 DEF ExplorerMake
  <2>7. Executing' = Executing \cup {u}
    BY <2>5, <2>6 DEF Executing
  <2> QED
    BY <2>2, <2>3, <2>7
       DEF Ledger!Next, Ledger!Draw, Waiting, Executing, Executed, Booked, Told
<1>3. CASE ExplorerNoSeed(e)
  <2>1. UNCHANGED <<Waiting, Executing, Executed, Booked, Told>>
    BY <1>3 DEF ExplorerNoSeed, Waiting, Executing, Executed, Booked, Told
  <2>2. UNCHANGED nextId \/ (nextId' = nextId + 1 /\ nextId < MaxTaskId)
    BY <1>3, PipelineAssumption DEF ExplorerNoSeed, DrawId, TaskIds
  <2> QED
    BY <2>1, <2>2, LedgerStutters
       DEF Ledger!Next, Ledger!Draw, Waiting, Executing, Executed, Booked, Told
<1>4. CASE ExplorerExecute(e)
  <2>0. PICK u \in TaskIds : u = etask[e]
    BY <1>4 DEF ExplorerExecute
  <2>1. UNCHANGED <<nextId, Waiting, Booked>>
    BY <1>4 DEF ExplorerExecute, Waiting, Booked
  <2>2. \A l \in PlaceKinds, j \in ResultQueues : Holds(l, j, u) <=> (l = "explorer" /\ j = e)
    <3>1. Holds("explorer", e, u) /\ "explorer" \in PlaceKinds
      BY <2>0 DEF Holds, PlaceKinds
    <3> QED
      BY <1>0, <3>1, Sole
  <2>3. /\ \A x \in Explorers : x # e => u # etask[x]
        /\ \A w \in Workers : u # task[w]
    BY <2>2, PipelineAssumption DEF Holds, PlaceKinds, Explorers, ResultQueues
  <2>4. u \in Executing /\ Executing' = Executing \ {u}
    <3>1. {etask'[x] : x \in Explorers} \ {NoTask}
             = ({etask[x] : x \in Explorers} \ {NoTask}) \ {u}
      BY <1>4, <2>0, <2>3 DEF ExplorerExecute
    <3>2. {task'[w] : w \in Workers} = {task[w] : w \in Workers}
      BY <1>4 DEF ExplorerExecute
    <3>3. u \notin {task[w] : w \in Workers} /\ u \in {etask[x] : x \in Explorers}
      BY <2>0, <2>3
    <3> HIDE DEF TypeInv, TypeOK, Hands
    <3>4. u # NoTask
      BY Ids
    <3> DEFINE A == {etask[x] : x \in Explorers}
               A2 == {etask'[x] : x \in Explorers}
               B == {task[x] : x \in Workers}
    <3>5. Executing = (B \cup A) \ {NoTask} /\ Executing' = (B \cup A2) \ {NoTask}
      BY <3>2 DEF Executing
    <3>6. u \notin B /\ u \in A /\ A2 \ {NoTask} = (A \ {NoTask}) \ {u}
      BY <3>1, <3>3
    <3> HIDE DEF A, A2, B
    <3> QED
      BY <3>4, <3>5, <3>6
  <2>5. AllOf(batch)' = AllOf(batch) \cup {u}
    <3>1. /\ batch' \in [Explorers -> SUBSET TaskIds]
          /\ batch'[e] = batch[e] \cup {u} /\ \A i \in Explorers \ {e} : batch'[i] = batch[i]
      BY <1>4, <2>0 DEF ExplorerExecute
    <3> QED
      BY <3>1 DEF AllOf
  <2>6. Executed' = Executed \cup {u}
    BY <1>4, <2>5 DEF ExplorerExecute, Executed, AllOf
  <2>7. Told' = Told \cup {u}
    BY <1>4, <2>0 DEF ExplorerExecute, Once, Told
  <2>8. Ledger!Execute(u)
    BY <2>1, <2>4, <2>6, <2>7 DEF Ledger!Execute, Waiting, Executing, Executed, Booked, Told
  <2> QED
    BY <2>4, <2>8 DEF Ledger!Next, Executing
<1>5. CASE ExplorerSubmit(e)
  <2> DEFINE q == NumWorkers + e
  <2>1. UNCHANGED <<nextId, Waiting, Executing, Booked, Told>>
    BY <1>5 DEF ExplorerSubmit, Waiting, Executing, Booked, Told
  <2>2. /\ batch' \in [Explorers -> SUBSET TaskIds] /\ active' \in [ResultQueues -> SUBSET TaskIds]
        /\ batch'[e] = {} /\ \A i \in Explorers \ {e} : batch'[i] = batch[i]
        /\ active'[q] = active[q] \cup batch[e]
        /\ \A i \in ResultQueues \ {q} : active'[i] = active[i]
        /\ q \in ResultQueues
    BY <1>5 DEF ExplorerSubmit
  <2> HIDE DEF q
  <2>3a. \A x : x \in AllOf(batch) <=> \E i \in Explorers : x \in batch[i]
    BY DEF AllOf
  <2>3b. \A x : x \in AllOf(batch)' <=> \E i \in Explorers : x \in batch'[i]
    BY <2>2 DEF AllOf
  <2>3c. \A x : x \in AllOf(active) <=> \E i \in ResultQueues : x \in active[i]
    BY DEF AllOf
  <2>3d. \A x : x \in AllOf(active)' <=> \E i \in ResultQueues : x \in active'[i]
    BY <2>2 DEF AllOf
  <2>3. /\ \A x : x \in AllOf(batch) <=> \E i \in Explorers : x \in batch[i]
        /\ \A x : x \in AllOf(batch)' <=> \E i \in Explorers : x \in batch'[i]
        /\ \A x : x \in AllOf(active) <=> \E i \in ResultQueues : x \in active[i]
        /\ \A x : x \in AllOf(active)' <=> \E i \in ResultQueues : x \in active'[i]
    BY <2>3a, <2>3b, <2>3c, <2>3d
  <2>4. ASSUME NEW x
        PROVE  x \in AllOf(batch)' \/ x \in AllOf(active)'
                  <=> x \in AllOf(batch) \/ x \in AllOf(active)
    BY <2>2, <2>3
  <2>5. AllOf(batch)' \cup AllOf(active)' = AllOf(batch) \cup AllOf(active)
    BY <2>4
  <2>6. AllOf(local)' = AllOf(local) /\ results' = results
    BY <1>5 DEF ExplorerSubmit, AllOf
  <2>7. Executed' = Executed
    BY <2>5, <2>6 DEF Executed
  <2> QED
    BY <2>1, <2>7, LedgerStutters
<1> QED
  BY <1>1, <1>2, <1>3, <1>4, <1>5 DEF Explorer

\* Refinement: with room below the cleanup threshold the pipeline of queues, batches,
\* buffers and threads implements the ledger in which every task is issued, claimed,
\* executed and booked once, in that order.
THEOREM ImplementsLedger ==
  ASSUME Room <= PendingLimit
  PROVE  Spec => LedgerSpec
<1>1. Init => Ledger!Init
  BY Ids DEF Init, Ledger!Init, AllOf
<1>2. /\ TypeInv /\ TypeInv' /\ Custody /\ Quiet /\ AllOwed /\ [Next]_vars
      => [Ledger!Next]_(Ledger!ledgerVars)
  <2>1. CASE UNCHANGED vars
    BY <2>1, LedgerStutters DEF vars, ctlVars, schedVars, bufferVars, workerVars, exploreVars,
       historyVars, Waiting, Executing, Executed, Booked, Told
  <2> QED
    BY <2>1, LedgerCtl, LedgerSched, LedgerWorker, LedgerExplorer DEF Next, Finished
<1> QED
  BY <1>1, <1>2, TypeInvHolds, CustodyHolds, QuietHolds, AllOwedHolds, PTL
     DEF Spec, LedgerSpec, Ledger!Spec
======================================================================
