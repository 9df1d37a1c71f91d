--------------------------- MODULE CrashArbiterProofs ---------------------------
(***************************************************************************)
(* Safety of the crash arbiter for every number of threads, every set of   *)
(* inputs and every setting of its knobs.                                  *)
(*                                                                         *)
(* One base invariant (types, and where the two processes are relative to  *)
(* each other) carries five others, one per property: Capture for the      *)
(* input that is arbitrated, Reproducible for what is saved, Rechecked for *)
(* the verdict cache, Serialized for the races, Artifacts for what may     *)
(* serialize the target.  With Conduct, what a round knows of its worker,  *)
(* they show that the arbiter implements Campaign.                         *)
(***************************************************************************)
EXTENDS CrashArbiter, TLAPS

\* Where things are once the worker is gone, and what an armed slot holds.
Where ==
    /\ ~Alive => loc = AllOut /\ input = Unarmed /\ inside = {}
    /\ status # "none" <=> wstate = "dead"
    /\ slot.armed => slot.data \in Inputs

\* What the supervisor's place in a round says of the worker.
Round ==
    /\ sp = "loop" => wstate = "none"
    /\ sp \in {"judge", "judged"} => wstate = "dead"
    /\ sp = "done" => ~Alive

\* The invariant every other one is proved under.
Base == TypeOK /\ Where /\ Round

\* The coarse clocks and the counters the supervisor caps stay in range (steady-clock
\* differences and consecutive_fast_artifacts in run_supervisor()).
LEMMA AgeingIsNat ==
  ASSUME NEW age \in Nat, NEW cap \in Nat
  PROVE  /\ Older(age, cap) \in Nat
         /\ age <= cap => Older(age, cap) \in 0 .. cap
BY DEF Older

\* The last deadline the poll loop tests is a natural number.
LEMMA CapIsNat == AgeCap \in Nat
<1> DEFINE S == {HangLimit, GraceLimit, FastCrash}
<1>1. HangLimit \in Nat /\ GraceLimit \in Nat /\ FastCrash \in Nat
  BY ArbiterAssumption
<1>2. \E m \in S : \A n \in S : n <= m
  BY <1>1
<1> QED
  BY <1>1, <1>2 DEF AgeCap

\* run_supervisor() starts, before the first fork, in a state of the base invariant.
LEMMA BaseInit == Init => Base
<1> SUFFICES ASSUME Init PROVE Base
  OBVIOUS
<1>1. WorkerTypeOK
  BY WorkerAssumption DEF Init, WorkerInit, WorkerTypeOK, EmptySlot, NoFault, AllOut, Unarmed
<1>2. SupervisorTypeOK
  <2>1. /\ 0 \in 0 .. ReverifyEvery - 1 /\ 0 \in 0 .. ReverifyEvery
        /\ 0 \in 0 .. MaxRestarts + 1 /\ 0 \in 0 .. EscalateAfter
    BY ArbiterAssumption
  <2> QED
    BY <2>1 DEF Init, SupervisorTypeOK
<1>3. Where /\ Round
  BY DEF Init, WorkerInit, Where, Round, Alive, EmptySlot
<1> QED
  BY <1>1, <1>2, <1>3 DEF Base, TypeOK

\* An engine thread's step in execute() or in the capture handler keeps the worker's
\* types, and publishes an armed slot only with an input in it.
LEMMA ThreadTypes ==
  ASSUME WorkerTypeOK, Where, NEW t \in Threads, ThreadStep(t)
  PROVE  WorkerTypeOK' /\ Where'
<1> USE DEF WorkerTypeOK, processVars, threadVars, slotVars, ageVars, Goto
<1>1. CASE Arm(t) \/ Enter(t) \/ Leave(t) \/ Disarm(t)
  <2>1. WorkerTypeOK'
    BY <1>1, WorkerAssumption DEF Arm, Enter, Leave, Disarm
  <2>2. Where'
    BY <1>1 DEF Arm, Enter, Leave, Disarm, Where, Alive
  <2> QED
    BY <2>1, <2>2
<1>2. CASE TargetFaults(t) \/ EngineFaults(t)
  <2>1. WorkerTypeOK'
    BY <1>2 DEF TargetFaults, EngineFaults, Faulted
  <2>2. Where'
    BY <1>2 DEF TargetFaults, EngineFaults, Where, Alive
  <2> QED
    BY <2>1, <2>2
<1>3. CASE Publish(t)
  <2>1. input[t] \in Inputs \cup {NoInput}
    OBVIOUS
  <2>2. slot' \in [magic : BOOLEAN, armed : BOOLEAN, data : Inputs \cup {NoInput}]
    BY <1>3, <2>1 DEF Publish
  <2>3. WorkerTypeOK'
    BY <1>3, <2>2 DEF Publish
  <2>4. Where'
    BY <1>3, <2>1 DEF Publish, Where, Alive
  <2> QED
    BY <2>3, <2>4
<1>4. CASE Raise(t) \/ SecondaryFault(t)
  <2>1. DiesOf(t) /\ UNCHANGED <<slotVars, ageVars, serialize>>
    BY <1>4 DEF Raise, SecondaryFault
  <2>2. fatal' \in [data : Inputs \cup {NoInput}, inTarget : BOOLEAN]
    BY <2>1 DEF DiesOf
  <2>3. WorkerTypeOK'
    BY <2>1, <2>2 DEF DiesOf, Dies, AllOut, Unarmed
  <2>4. Where'
    BY <2>1 DEF DiesOf, Dies, Where, Alive, AllOut, Unarmed
  <2> QED
    BY <2>3, <2>4
<1> QED
  BY <1>1, <1>2, <1>3, <1>4 DEF ThreadStep

\* However the worker dies, its threads are gone and waitpid() has a status to return.
LEMMA DeathTypes ==
  ASSUME WorkerTypeOK, Where, NEW s \in {"exit0", "exit1", "crash", "kill"}, Dies(s),
         UNCHANGED <<slotVars, ageVars, serialize, fatal>>
  PROVE  WorkerTypeOK' /\ Where'
<1> USE DEF WorkerTypeOK, slotVars, ageVars
<1>1. WorkerTypeOK'
  BY DEF Dies, AllOut, Unarmed
<1>2. Where'
  BY DEF Dies, Where, Alive, AllOut, Unarmed
<1> QED
  BY <1>1, <1>2

\* The steps of run_fuzzing_engine_child() keep the worker's types.
LEMMA ProcessTypes ==
  ASSUME WorkerTypeOK, Where,
         EngineStarted \/ EnterLoop \/ StopEngine \/ ExitCleanly \/ ExitWithError \/ OomKilled
  PROVE  WorkerTypeOK' /\ Where'
<1>1. CASE EngineStarted \/ EnterLoop \/ StopEngine
  <2> USE DEF WorkerTypeOK, Where, Alive, processVars, threadVars, slotVars, ageVars
  <2>1. WorkerTypeOK'
    BY <1>1 DEF EngineStarted, EnterLoop, StopEngine
  <2>2. Where'
    BY <1>1 DEF EngineStarted, EnterLoop, StopEngine
  <2> QED
    BY <2>1, <2>2
<1>2. CASE ExitCleanly \/ ExitWithError \/ OomKilled
  BY <1>2, DeathTypes DEF ExitCleanly, ExitWithError, OomKilled
<1> QED
  BY <1>1, <1>2

\* No step of the worker process leaves the base invariant: it takes none at all once it
\* is dead, so the supervisor's place stays true of it.
LEMMA WorkerKeepsBase ==
  ASSUME Base, Worker
  PROVE  Base'
<1>1. WorkerTypeOK' /\ Where'
  BY ThreadTypes, ProcessTypes DEF Base, TypeOK, Worker, WorkerStep
<1>2. SupervisorTypeOK'
  BY DEF Base, TypeOK, SupervisorTypeOK, Worker, superVars, bookVars
<1>3. wstate \notin {"none", "dead"} /\ Alive
  BY DEF Worker, WorkerStep, ThreadStep, Arm, Enter, Leave, Disarm, TargetFaults,
         EngineFaults, Publish, Raise, SecondaryFault, EngineStarted, EnterLoop, StopEngine,
         ExitCleanly, ExitWithError, OomKilled, Alive
<1>4. Round'
  BY <1>3 DEF Base, Round, Worker, superVars, Alive
<1> QED
  BY <1>1, <1>2, <1>4 DEF Base, TypeOK

\* Time passing and a SIGTERM at any moment keep the base invariant.
LEMMA SignalsKeepBase ==
  ASSUME Base, Tick \/ Terminate
  PROVE  Base'
<1> USE ArbiterAssumption DEF processVars, threadVars, slotVars, ageVars, bookVars
<1>1. WorkerTypeOK'
  <2>1. hbAge \in Nat /\ fuzzAge \in Nat
    BY DEF Base, TypeOK, WorkerTypeOK
  <2>2. Older(hbAge, AgeCap) \in Nat /\ Older(fuzzAge, AgeCap) \in Nat
    BY <2>1, AgeingIsNat, CapIsNat
  <2>3. hbAge' \in Nat /\ fuzzAge' \in Nat
    BY <2>1, <2>2 DEF Tick, Terminate
  <2> QED
    BY <2>3 DEF Base, TypeOK, WorkerTypeOK, Tick, Terminate, Sigterm
<1>2. SupervisorTypeOK'
  <2>1. elapsed' \in Nat
    BY AgeingIsNat DEF Base, TypeOK, SupervisorTypeOK, Tick, Terminate
  <2>2. UNCHANGED <<sp, active, hung, budgetHit, restarts, streak, fastDeath, bookVars>>
        /\ terminating' \in BOOLEAN
    BY DEF Base, TypeOK, SupervisorTypeOK, Tick, Terminate
  <2> QED
    BY <2>1, <2>2 DEF Base, TypeOK, SupervisorTypeOK
<1>3. Where' /\ Round'
  BY DEF Base, Where, Round, Alive, Tick, Terminate
<1> QED
  BY <1>1, <1>2, <1>3 DEF Base, TypeOK

\* The head of the campaign loop, fork() or its failure, and the store to g_active_child
\* keep the base invariant.
LEMMA RoundStartsTypes ==
  ASSUME Base, CampaignOver \/ ForkWorker \/ ForkFails \/ WatchWorker
  PROVE  Base'
<1> USE ArbiterAssumption DEF Base, processVars, threadVars, slotVars, ageVars, workerVars,
        bookVars
<1>1. WorkerTypeOK'
  <2>1. /\ SlotReset \in [magic : BOOLEAN, armed : BOOLEAN, data : Inputs \cup {NoInput}]
        /\ NoFault \in [data : Inputs \cup {NoInput}, inTarget : BOOLEAN]
    BY DEF SlotReset, EmptySlot, NoFault
  <2>2. CASE CampaignOver \/ WatchWorker
    BY <2>2 DEF TypeOK, WorkerTypeOK, CampaignOver, WatchWorker
  <2>3. CASE ForkWorker
    BY <2>1, <2>3 DEF TypeOK, WorkerTypeOK, ForkWorker
  <2>4. CASE ForkFails
    BY <2>1, <2>4 DEF TypeOK, WorkerTypeOK, ForkFails
  <2> QED
    BY <2>2, <2>3, <2>4
<1>2. SupervisorTypeOK'
  <2>1. restarts \in 0 .. MaxRestarts + 1
    BY DEF TypeOK, SupervisorTypeOK
  <2>2. Older(restarts, MaxRestarts + 1) \in 0 .. MaxRestarts + 1
    BY <2>1, AgeingIsNat
  <2>3. restarts' \in 0 .. MaxRestarts + 1
    BY <2>1, <2>2 DEF CampaignOver, ForkWorker, ForkFails, WatchWorker
  <2> QED
    BY <2>3 DEF TypeOK, SupervisorTypeOK, CampaignOver, ForkWorker, ForkFails, WatchWorker
<1>3. Where'
  BY DEF Where, Round, CampaignOver, ForkWorker, ForkFails, WatchWorker, Alive, SlotReset,
         EmptySlot
<1>4. Round'
  BY DEF Round, CampaignOver, ForkWorker, ForkFails, WatchWorker, Alive
<1> QED
  BY <1>1, <1>2, <1>3, <1>4 DEF TypeOK

\* The wait for the worker's death, from the poll to the reaping, keeps it.
LEMMA WaitTypes ==
  ASSUME Base, PollStops \/ GraceKills \/ Reap
  PROVE  Base'
<1>1. CASE PollStops
  <2> USE <1>1 DEF Base, PollStops, threadVars, slotVars, ageVars, bookVars
  <2>1. WorkerTypeOK'
    BY DEF TypeOK, WorkerTypeOK, Sigterm
  <2>2. SupervisorTypeOK'
    BY DEF TypeOK, SupervisorTypeOK
  <2>3. Where' /\ Round'
    BY DEF Where, Round, Alive
  <2> QED
    BY <2>1, <2>2, <2>3 DEF TypeOK
<1>2. CASE GraceKills
  <2>1. WorkerTypeOK' /\ Where'
    BY <1>2, DeathTypes DEF GraceKills, Base, TypeOK
  <2>2. SupervisorTypeOK'
    BY <1>2 DEF GraceKills, Base, TypeOK, SupervisorTypeOK, superVars, bookVars
  <2>3. Round'
    BY <1>2 DEF GraceKills, Dies, Base, Round, Alive, superVars
  <2> QED
    BY <2>1, <2>2, <2>3 DEF Base, TypeOK
<1>3. CASE Reap
  <2> USE <1>3 DEF Base, Reap, processVars, threadVars, slotVars, ageVars, workerVars, bookVars
  <2>1. WorkerTypeOK'
    BY DEF TypeOK, WorkerTypeOK
  <2>2. SupervisorTypeOK'
    BY DEF TypeOK, SupervisorTypeOK
  <2>3. Where' /\ Round'
    BY DEF Where, Round, Alive
  <2> QED
    BY <2>1, <2>2, <2>3 DEF TypeOK
<1> QED
  BY <1>1, <1>2, <1>3

\* Judging a death touches the books only, and an input that is looked up in verdicts is
\* one the target was run on.
LEMMA JudgementTypes ==
  ASSUME Base, NothingToJudge \/ JudgeNew \/ JudgeReal \/ JudgeNegative
  PROVE  Base'
<1> USE DEF Base
<1>1. /\ UNCHANGED workerVars
      /\ UNCHANGED <<active, terminating, hung, budgetHit, elapsed, restarts, streak, fastDeath>>
      /\ sp = "judge" /\ sp' = "judged"
  BY DEF NothingToJudge, JudgeNew, JudgeReal, JudgeNegative, Judged
<1>2. WorkerTypeOK'
  BY <1>1 DEF TypeOK, WorkerTypeOK, workerVars, processVars, threadVars, slotVars, ageVars
<1>3. Where' /\ Round'
  BY <1>1 DEF Where, Round, Alive, workerVars, processVars, threadVars, slotVars
<1>4. HaveCandidate => slot.data \in Inputs
  BY DEF HaveCandidate, Where
<1>5. /\ outcome' \in {"none", "nothing", "confirmed", "artifact"}
      /\ saved' \subseteq Inputs
  BY <1>4 DEF TypeOK, SupervisorTypeOK, NothingToJudge, JudgeNew, JudgeReal, JudgeNegative,
              Judged
<1>6. verdict' \in [Inputs -> {"none", "real", "not"}]
  BY <1>4 DEF TypeOK, SupervisorTypeOK, NothingToJudge, JudgeNew, JudgeReal, JudgeNegative,
              Recorded
<1>7. hits' \in [Inputs -> 0 .. ReverifyEvery - 1]
  <2>1. \A n \in Nat : n % ReverifyEvery \in 0 .. ReverifyEvery - 1
    BY ArbiterAssumption
  <2>2. hits \in [Inputs -> 0 .. ReverifyEvery - 1]
    BY DEF TypeOK, SupervisorTypeOK
  <2>3. 1 % ReverifyEvery \in 0 .. ReverifyEvery - 1
    BY <2>1
  <2>4. \A i \in Inputs : (hits[i] + 1) % ReverifyEvery \in 0 .. ReverifyEvery - 1
    BY <2>1, <2>2, ArbiterAssumption
  <2>5. CASE NothingToJudge
    BY <2>2, <2>5 DEF NothingToJudge
  <2>6. CASE JudgeNew
    BY <2>2, <2>3, <2>6 DEF JudgeNew, Recorded
  <2>7. CASE JudgeReal \/ JudgeNegative
    BY <1>4, <2>2, <2>4, <2>7 DEF JudgeReal, JudgeNegative
  <2> QED
    BY <2>5, <2>6, <2>7
<1>8. unchecked' \in [Inputs -> 0 .. ReverifyEvery]
  <2>1. unchecked \in [Inputs -> 0 .. ReverifyEvery]
    BY DEF TypeOK, SupervisorTypeOK
  <2>2. /\ 0 \in 0 .. ReverifyEvery
        /\ \A i \in Inputs : Older(unchecked[i], ReverifyEvery) \in 0 .. ReverifyEvery
    BY <2>1, AgeingIsNat, ArbiterAssumption
  <2> QED
    BY <1>4, <2>1, <2>2 DEF NothingToJudge, JudgeNew, JudgeReal, JudgeNegative
<1> QED
  BY <1>1, <1>2, <1>3, <1>5, <1>6, <1>7, <1>8 DEF TypeOK, SupervisorTypeOK

\* The end of a round, with its counters, keeps the base invariant.
LEMMA RestartTypes ==
  ASSUME Base, Restart
  PROVE  Base'
<1> USE DEF Base, Restart, processVars, threadVars, slotVars, ageVars, bookVars
<1>1. WorkerTypeOK'
  BY DEF TypeOK, WorkerTypeOK
<1>2. SupervisorTypeOK'
  <2>1. restarts' \in 0 .. MaxRestarts + 1 /\ streak' \in 0 .. EscalateAfter
    BY AgeingIsNat, ArbiterAssumption DEF TypeOK, SupervisorTypeOK
  <2> QED
    BY <2>1 DEF TypeOK, SupervisorTypeOK
<1>3. Where' /\ Round'
  BY DEF Where, Round, Alive
<1> QED
  BY <1>1, <1>2, <1>3 DEF TypeOK

\* Every step of the arbiter keeps the base invariant.
LEMMA BaseStep ==
  ASSUME Base, [Next]_vars
  PROVE  Base'
<1>1. CASE Supervisor
  BY <1>1, RoundStartsTypes, WaitTypes, JudgementTypes, RestartTypes DEF Supervisor
<1>2. CASE UNCHANGED vars
  BY <1>2 DEF Base, TypeOK, WorkerTypeOK, SupervisorTypeOK, Where, Round, Alive, vars,
              workerVars, superVars, bookVars, processVars, threadVars, slotVars, ageVars
<1> QED
  BY <1>1, <1>2, WorkerKeepsBase, SignalsKeepBase DEF Next, Finished

\* The base invariant holds of run_supervisor() and its worker in every reachable state.
THEOREM BaseHolds == Spec => []Base
<1>1. Init => Base
  BY BaseInit
<1>2. Base /\ [Next]_vars => Base'
  BY BaseStep
<1> QED
  BY <1>1, <1>2, PTL DEF Spec

\* Type correctness of the supervisor and the worker for every number of threads, set of
\* inputs and setting of the TRIOFUZZ_ARBITER_* knobs.
THEOREM TypeCorrect == Spec => []TypeOK
<1>1. Base => TypeOK
  BY DEF Base
<1> QED
  BY <1>1, BaseHolds, PTL

-------------------------------------------------------------------------------
\* The thread is in worker_capture_handler and was the first to get there.
Faulting(t) == loc[t] \in {"capture", "raise"}

\* one_shot lets a single thread capture.
OneFaults == \A s, t \in Threads : Faulting(s) /\ Faulting(t) => s = t

\* A filled slot belongs to the one thread about to raise again, and then to the thread
\* whose signal killed the worker.
Published ==
    /\ Alive /\ slot.magic => \E t \in Threads : loc[t] = "raise" /\ slot.data = input[t]
    /\ wstate = "dead" /\ status = "crash" /\ slot.magic => slot.data = fatal.data

\* The invariant behind CandidateIsFatal: neither half is inductive without the other.
Capture == OneFaults /\ Published

\* A second fault finds one_shot set and parks, so nobody overwrites the slot between its
\* publication and the signal raised again in worker_capture_handler.
LEMMA ThreadKeepsCapture ==
  ASSUME Base, Capture, NEW t \in Threads, ThreadStep(t)
  PROVE  Capture'
<1> USE DEF Goto, processVars, threadVars, slotVars, ageVars
<1>0. /\ loc \in [Threads -> {"out", "armed", "in", "after", "capture", "raise", "parked"}]
      /\ input \in [Threads -> Inputs \cup {NoInput}]
  BY DEF Base, TypeOK, WorkerTypeOK
<1>1. CASE Arm(t) \/ Enter(t) \/ Leave(t) \/ Disarm(t)
  <2>1. /\ loc[t] \notin {"capture", "raise"} /\ loc'[t] \notin {"capture", "raise"}
        /\ Alive /\ Alive'
        /\ UNCHANGED <<wstate, status, slot, fatal>>
        /\ \A s \in Threads \ {t} : loc'[s] = loc[s] /\ input'[s] = input[s]
    BY <1>0, <1>1 DEF Arm, Enter, Leave, Disarm, Alive
  <2>2. OneFaults'
    BY <2>1 DEF Capture, OneFaults, Faulting
  <2>3. Published'
    BY <2>1 DEF Capture, Published, Alive
  <2> QED
    BY <2>2, <2>3 DEF Capture
<1>2. CASE TargetFaults(t) \/ EngineFaults(t)
  <2>1. /\ loc[t] \notin {"capture", "raise"}
        /\ loc' = [loc EXCEPT ![t] = IF Captured THEN "parked" ELSE "capture"]
        /\ Alive /\ UNCHANGED <<wstate, status, slot, fatal, input>>
    BY <1>2 DEF TargetFaults, EngineFaults, Faulted
  <2>2. OneFaults'
    BY <1>0, <2>1 DEF Capture, OneFaults, Faulting, Captured
  <2>3. Published'
    BY <1>0, <2>1 DEF Capture, Published, Alive
  <2> QED
    BY <2>2, <2>3 DEF Capture
<1>3. CASE Publish(t)
  <2>1. /\ loc[t] = "capture" /\ loc' = [loc EXCEPT ![t] = "raise"]
        /\ slot' = [magic |-> TRUE, armed |-> input[t] # NoInput, data |-> input[t]]
        /\ Alive /\ UNCHANGED <<wstate, input>>
    BY <1>3 DEF Publish
  <2>2. OneFaults'
    BY <1>0, <2>1 DEF Capture, OneFaults, Faulting
  <2>3. loc'[t] = "raise" /\ slot'.data = input'[t] /\ wstate' # "dead"
    BY <1>0, <2>1 DEF Alive
  <2>4. Published'
    BY <2>3 DEF Published
  <2> QED
    BY <2>2, <2>4 DEF Capture
<1>4. CASE Raise(t) \/ SecondaryFault(t)
  <2>1. /\ Alive /\ Faulting(t) /\ DiesOf(t) /\ slot' = slot
    BY <1>4 DEF Raise, SecondaryFault, Faulting
  <2>2. slot.magic => slot.data = input[t]
    BY <2>1 DEF Capture, OneFaults, Published, Faulting
  <2>3. Published'
    BY <2>1, <2>2 DEF DiesOf, Dies, Published, Alive
  <2>4. OneFaults'
    BY <2>1 DEF DiesOf, Dies, OneFaults, Faulting, AllOut
  <2> QED
    BY <2>3, <2>4 DEF Capture
<1> QED
  BY <1>1, <1>2, <1>3, <1>4 DEF ThreadStep

\* A death that is no crash (exit, OOM kill, the supervisor's SIGKILL) leaves nothing that
\* could pass for a candidate.
LEMMA DeathKeepsCapture ==
  ASSUME Capture, NEW s \in {"exit0", "exit1", "kill"}, Dies(s)
  PROVE  Capture'
BY DEF Dies, Capture, OneFaults, Published, Faulting, Alive, AllOut

\* Every step keeps the capture invariant; that the slot is reset before the next fork
\* matters here.
LEMMA CaptureStep ==
  ASSUME Base, Capture, [Next]_vars
  PROVE  Capture'
<1>1. CASE Worker
  <2>1. ASSUME NEW t \in Threads, ThreadStep(t)
        PROVE  Capture'
    BY <2>1, ThreadKeepsCapture
  <2>2. CASE EngineStarted \/ EnterLoop \/ StopEngine
    BY <2>2 DEF EngineStarted, EnterLoop, StopEngine, threadVars, slotVars, Capture,
                OneFaults, Published, Faulting, Alive
  <2>3. CASE ExitCleanly \/ ExitWithError \/ OomKilled
    BY <2>3, DeathKeepsCapture DEF ExitCleanly, ExitWithError, OomKilled
  <2> QED
    BY <1>1, <2>1, <2>2, <2>3 DEF Worker, WorkerStep
<1>2. CASE GraceKills
  BY <1>2, DeathKeepsCapture DEF GraceKills
<1>3. CASE ForkWorker \/ ForkFails
  <2>1. loc = AllOut /\ loc' = loc /\ wstate' # "dead" /\ slot' = EmptySlot
    BY <1>3 DEF ForkWorker, ForkFails, Base, Round, Where, Alive, threadVars, processVars,
                SlotReset
  <2> QED
    BY <2>1 DEF Capture, OneFaults, Published, Faulting, AllOut, EmptySlot
<1>4. CASE Restart
  BY <1>4 DEF Restart, threadVars, Capture, OneFaults, Published, Faulting, Alive
<1>5. CASE \/ CampaignOver \/ WatchWorker \/ PollStops \/ Reap \/ NothingToJudge \/ JudgeNew
           \/ JudgeReal \/ JudgeNegative \/ Tick \/ Terminate \/ Finished \/ UNCHANGED vars
  <2>1. UNCHANGED <<wstate, status, loc, input, slot, fatal>>
    BY <1>5 DEF CampaignOver, WatchWorker, PollStops, Reap, NothingToJudge, JudgeNew,
                JudgeReal, JudgeNegative, Tick, Terminate, Finished, vars, workerVars,
                processVars, threadVars, slotVars
  <2> QED
    BY <2>1 DEF Capture, OneFaults, Published, Faulting, Alive
<1> QED
  BY <1>1, <1>2, <1>3, <1>4, <1>5 DEF Next, Supervisor

\* Capturing and publishing stay consistent in every reachable state.
THEOREM CaptureHolds == Spec => [](Base /\ Capture)
<1>1. Init => Base /\ Capture
  BY BaseInit DEF Init, WorkerInit, Capture, OneFaults, Published, Faulting, AllOut, Alive
<1>2. Base /\ Capture /\ [Next]_vars => (Base /\ Capture)'
  BY BaseStep, CaptureStep
<1> QED
  BY <1>1, <1>2, PTL DEF Spec

\* What run_supervisor() arbitrates is the input of the very thread that killed this
\* worker, whatever the other threads did and whatever workers came before.
THEOREM ArbitratesTheFatalInput == Spec => []CandidateIsFatal
<1>1. Base /\ Capture => CandidateIsFatal
  BY DEF Base, Round, Capture, Published, CandidateIsFatal, HaveCandidate
<1> QED
  BY <1>1, CaptureHolds, PTL

-------------------------------------------------------------------------------
\* A positive verdict is one that some replay gave: it is what saved files rest on.
Reproducible ==
    /\ \A i \in Inputs : verdict[i] = "real" => i \in Crashing \cup Flaky
    /\ saved \subseteq Crashing \cup Flaky

\* The first replay, the second chance and the re-verification of an old negative
\* verdict (replay_reproduces()) are the only ways to a positive one.
LEMMA ReproducibleStep ==
  ASSUME Base, Reproducible, [Next]_vars
  PROVE  Reproducible'
<1>1. HaveCandidate => slot.data \in Inputs
  BY DEF HaveCandidate, Base, Where
<1>2. verdict \in [Inputs -> {"none", "real", "not"}]
  BY DEF Base, TypeOK, SupervisorTypeOK
<1>3. CASE NothingToJudge
  BY <1>3 DEF NothingToJudge, Judged, Reproducible
<1>4. CASE JudgeNew
  <2>1. PICK first \in Replays(slot.data), second \in Replays(slot.data) :
          /\ Judged(IF first \/ second THEN "confirmed" ELSE "artifact")
          /\ Recorded(first \/ second)
    BY <1>4 DEF JudgeNew
  <2>2. first \/ second => slot.data \in Crashing \cup Flaky
    BY DEF Replays
  <2>3. saved' \subseteq Crashing \cup Flaky
    BY <2>1, <2>2 DEF Judged, Reproducible
  <2>4. \A i \in Inputs : verdict'[i] = "real" => i \in Crashing \cup Flaky
    BY <1>1, <1>2, <1>4, <2>1, <2>2 DEF JudgeNew, Recorded, Reproducible
  <2> QED
    BY <2>3, <2>4 DEF Reproducible
<1>5. CASE JudgeReal
  BY <1>1, <1>5 DEF JudgeReal, Judged, Reproducible
<1>6. CASE JudgeNegative
  <2>1. CASE ~Due(hits[slot.data])
    BY <1>6, <2>1 DEF JudgeNegative, Judged, Reproducible
  <2>2. CASE Due(hits[slot.data])
    <3>1. PICK reproduced \in Replays(slot.data) :
            /\ Judged(IF reproduced THEN "confirmed" ELSE "artifact")
            /\ verdict' = [verdict EXCEPT ![slot.data] = IF reproduced THEN "real" ELSE @]
      BY <1>6, <2>2 DEF JudgeNegative
    <3>2. reproduced => slot.data \in Crashing \cup Flaky
      BY DEF Replays
    <3> QED
      BY <1>1, <1>2, <1>6, <3>1, <3>2 DEF JudgeNegative, Judged, Reproducible
  <2> QED
    BY <2>1, <2>2
<1>7. CASE \/ CampaignOver \/ ForkWorker \/ ForkFails \/ WatchWorker \/ PollStops
           \/ GraceKills \/ Reap \/ Restart \/ Worker \/ Tick \/ Terminate \/ Finished
           \/ UNCHANGED vars
  <2>1. UNCHANGED <<verdict, saved>>
    BY <1>7 DEF CampaignOver, ForkWorker, ForkFails, WatchWorker, PollStops, GraceKills, Reap,
                Restart, Worker, Tick, Terminate, Finished, vars, bookVars
  <2> QED
    BY <2>1 DEF Reproducible
<1> QED
  BY <1>3, <1>4, <1>5, <1>6, <1>7 DEF Next, Supervisor

\* save_confirmed_crash() is never reached for an input that crashes only while a second
\* thread is inside the target, on whichever hit and after whatever verdict.
THEOREM OnlyReproducibleCrashesSaved == Spec => []SavedReproduces
<1>1. Init => Base /\ Reproducible
  BY BaseInit DEF Init, Reproducible
<1>2. Base /\ Reproducible /\ [Next]_vars => (Base /\ Reproducible)'
  BY BaseStep, ReproducibleStep
<1>3. Reproducible => SavedReproduces
  BY DEF Reproducible, SavedReproduces
<1> QED
  BY <1>1, <1>2, <1>3, PTL DEF Spec

-------------------------------------------------------------------------------
\* The deaths a negative verdict was used for are among the hits counted since its last
\* replay; an input with any other verdict, or none, has no such deaths.
Rechecked ==
    \A i \in Inputs : unchecked[i] = 0 \/ (verdict[i] = "not" /\ unchecked[i] <= hits[i])

\* A hit that is not due leaves the modular count unwrapped (hits % 8 in the verdict
\* cache).
LEMMA NextHit ==
  ASSUME NEW h \in 0 .. ReverifyEvery - 1, ~Due(h)
  PROVE  h + 1 \in 0 .. ReverifyEvery - 1 /\ (h + 1) % ReverifyEvery = h + 1
<1>1. h + 1 = ReverifyEvery => (h + 1) % ReverifyEvery = 0
  BY ArbiterAssumption
<1>2. h + 1 # ReverifyEvery
  BY <1>1 DEF Due
<1> QED
  BY <1>2, ArbiterAssumption

\* Judging keeps the two counts together: both move, or the recheck resets them.
LEMMA RecheckedStep ==
  ASSUME Base, Rechecked, [Next]_vars
  PROVE  Rechecked'
<1>1. HaveCandidate => slot.data \in Inputs
  BY DEF HaveCandidate, Base, Where
<1>2. /\ verdict \in [Inputs -> {"none", "real", "not"}]
      /\ hits \in [Inputs -> 0 .. ReverifyEvery - 1]
      /\ unchecked \in [Inputs -> 0 .. ReverifyEvery]
  BY DEF Base, TypeOK, SupervisorTypeOK
<1>3. CASE JudgeNew \/ JudgeReal
  <2>1. /\ slot.data \in Inputs /\ verdict[slot.data] # "not" /\ unchecked' = unchecked
        /\ \A i \in Inputs \ {slot.data} : verdict'[i] = verdict[i] /\ hits'[i] = hits[i]
    BY <1>1, <1>2, <1>3 DEF JudgeNew, JudgeReal, Recorded
  <2> QED
    BY <2>1 DEF Rechecked
<1>4. CASE JudgeNegative
  <2>1. /\ slot.data \in Inputs /\ verdict[slot.data] = "not"
        /\ hits' = [hits EXCEPT ![slot.data] = (@ + 1) % ReverifyEvery]
    BY <1>1, <1>4 DEF JudgeNegative
  <2>2. CASE Due(hits[slot.data])
    <3>1. /\ unchecked' = [unchecked EXCEPT ![slot.data] = 0]
          /\ \A i \in Inputs \ {slot.data} : verdict'[i] = verdict[i]
      BY <1>2, <1>4, <2>1, <2>2 DEF JudgeNegative
    <3> QED
      BY <1>2, <2>1, <3>1 DEF Rechecked
  <2>3. CASE ~Due(hits[slot.data])
    <3>1. /\ unchecked' = [unchecked EXCEPT ![slot.data] = Older(@, ReverifyEvery)]
          /\ verdict' = verdict
      BY <1>4, <2>3 DEF JudgeNegative
    <3>2. hits'[slot.data] = hits[slot.data] + 1
      BY <1>2, <2>1, <2>3, NextHit
    <3>3. unchecked[slot.data] <= hits[slot.data]
      BY <1>2, <2>1, ArbiterAssumption DEF Rechecked
    <3>4. unchecked'[slot.data] <= hits'[slot.data]
      BY <1>2, <2>1, <3>1, <3>2, <3>3, ArbiterAssumption DEF Older
    <3> QED
      BY <1>2, <2>1, <3>1, <3>4 DEF Rechecked
  <2> QED
    BY <2>2, <2>3
<1>5. CASE \/ CampaignOver \/ ForkWorker \/ ForkFails \/ WatchWorker \/ PollStops
           \/ GraceKills \/ Reap \/ NothingToJudge \/ Restart \/ Worker \/ Tick \/ Terminate
           \/ Finished \/ UNCHANGED vars
  <2>1. UNCHANGED <<verdict, hits, unchecked>>
    BY <1>5 DEF CampaignOver, ForkWorker, ForkFails, WatchWorker, PollStops, GraceKills, Reap,
                NothingToJudge, Restart, Worker, Tick, Terminate, Finished, vars, bookVars
  <2> QED
    BY <2>1 DEF Rechecked
<1> QED
  BY <1>3, <1>4, <1>5 DEF Next, Supervisor

\* A negative verdict is used for fewer than ReverifyEvery deaths in a row without a new
\* replay (every 8th hit in the verdict cache), for every ReverifyEvery.
THEOREM NegativeVerdictsExpire == Spec => []NegativesAreRechecked
<1>1. Init => Base /\ Rechecked
  BY BaseInit DEF Init, Rechecked
<1>2. Base /\ Rechecked /\ [Next]_vars => (Base /\ Rechecked)'
  BY BaseStep, RecheckedStep
<1>3. Base /\ Rechecked => NegativesAreRechecked
  BY ArbiterAssumption DEF Base, TypeOK, SupervisorTypeOK, Rechecked, NegativesAreRechecked
<1> QED
  BY <1>1, <1>2, <1>3, PTL DEF Spec

-------------------------------------------------------------------------------
\* budget_hit needs a budget.
Stopped == budgetHit => Budget > 0

\* The places that leave the campaign loop are the over-cap, the budget, the termination
\* and the worker's own end, and nothing changes the last status after the end.
LEMMA EndStep ==
  ASSUME Base, Stopped, EndsOnlyWhenAsked, [Next]_vars
  PROVE  Stopped' /\ EndsOnlyWhenAsked'
<1> USE DEF Stopped, EndsOnlyWhenAsked, Base, TypeOK, SupervisorTypeOK
<1>1. CASE PollStops
  BY <1>1 DEF PollStops, Reason, BudgetOver
<1>2. CASE Reap
  BY <1>2 DEF Reap, FinishedItself, workerVars, processVars
<1>3. CASE ForkFails \/ Restart
  BY <1>3 DEF ForkFails, Restart, OverCap
<1>4. CASE CampaignOver \/ ForkWorker
  BY <1>4 DEF CampaignOver, ForkWorker, BudgetSpent
<1>5. CASE Worker
  <2>1. sp # "done"
    BY <1>5 DEF Worker, WorkerStep, ThreadStep, Arm, Enter, Leave, Disarm, TargetFaults,
           EngineFaults, Publish, Raise, SecondaryFault, EngineStarted, EnterLoop, StopEngine,
           ExitCleanly, ExitWithError, OomKilled, Alive, Round
  <2> QED
    BY <1>5, <2>1 DEF Worker, superVars
<1>6. CASE \/ WatchWorker \/ GraceKills \/ NothingToJudge \/ JudgeNew \/ JudgeReal
           \/ JudgeNegative
  BY <1>6 DEF WatchWorker, GraceKills, NothingToJudge, JudgeNew, JudgeReal, JudgeNegative,
              Judged, superVars
<1>7. CASE Tick \/ Terminate \/ Finished \/ UNCHANGED vars
  BY <1>7 DEF Tick, Terminate, Finished, vars, workerVars, processVars, superVars
<1> QED
  BY <1>1, <1>2, <1>3, <1>4, <1>5, <1>6, <1>7 DEF Next, Supervisor

\* Without a budget, run_supervisor() returns only after SIGTERM or after a worker that
\* finished on its own: no number of crashes, hangs or failed forks ends it.
THEOREM CampaignEndsOnlyWhenAsked == Spec => []EndsOnlyWhenAsked
<1>1. Init => Base /\ Stopped /\ EndsOnlyWhenAsked
  BY BaseInit DEF Init, Stopped, EndsOnlyWhenAsked
<1>2. Base /\ Stopped /\ EndsOnlyWhenAsked /\ [Next]_vars
        => (Base /\ Stopped /\ EndsOnlyWhenAsked)'
  BY BaseStep, EndStep
<1> QED
  BY <1>1, <1>2, PTL DEF Spec

-------------------------------------------------------------------------------
\* How a thread's place relates to whether it is inside the target.
InsideIs ==
    /\ \A t \in Threads : loc[t] = "in" => t \in inside
    /\ \A t \in Threads : loc[t] \in {"out", "armed", "after"} => t \notin inside

\* What g_target_exec_mutex gives a serialized worker.
Exclusive == serialize => \A s, t \in inside : s = t

\* A serialized worker has no thread down with a race, and has died of none.
NoRacing ==
    /\ serialize => \A t \in Threads : Faulting(t) /\ t \in inside => input[t] \notin Racy
    /\ SerializedHasNoRaces

\* The invariant behind SerializedHasNoRaces: mutual exclusion, place by place.
Serialized == InsideIs /\ Exclusive /\ NoRacing

\* The mutex is taken before the target call and released when it returns, so alone
\* inside, no thread meets a race; a fault of the engine comes after the release.
LEMMA ThreadKeepsSerialized ==
  ASSUME Base, Serialized, NEW t \in Threads, ThreadStep(t)
  PROVE  Serialized'
<1> USE DEF Goto, processVars, threadVars
<1>0. /\ loc \in [Threads -> {"out", "armed", "in", "after", "capture", "raise", "parked"}]
      /\ input \in [Threads -> Inputs \cup {NoInput}]
      /\ inside \subseteq Threads
  BY DEF Base, TypeOK, WorkerTypeOK
<1>1. CASE Arm(t) \/ Enter(t) \/ Leave(t) \/ Disarm(t)
  <2>1. InsideIs'
    BY <1>0, <1>1 DEF Arm, Enter, Leave, Disarm, Serialized, InsideIs
  <2>2. Exclusive'
    BY <1>1 DEF Arm, Enter, Leave, Disarm, Serialized, Exclusive, MutexFree
  <2>3. /\ serialize' = serialize /\ wstate' # "dead"
        /\ loc'[t] \notin {"capture", "raise"}
        /\ \A s \in Threads \ {t} :
             loc'[s] = loc[s] /\ input'[s] = input[s] /\ (s \in inside' <=> s \in inside)
    BY <1>0, <1>1 DEF Arm, Enter, Leave, Disarm, Alive
  <2>4. NoRacing'
    BY <2>3 DEF Serialized, NoRacing, SerializedHasNoRaces, Faulting
  <2> QED
    BY <2>1, <2>2, <2>4 DEF Serialized
<1>2. CASE TargetFaults(t) \/ EngineFaults(t)
  <2>1. /\ UNCHANGED <<inside, input, serialize, wstate>> /\ wstate # "dead"
        /\ loc' = [loc EXCEPT ![t] = IF Captured THEN "parked" ELSE "capture"]
    BY <1>2 DEF TargetFaults, EngineFaults, Faulted, Alive
  <2>2. InsideIs'
    BY <1>0, <2>1 DEF Serialized, InsideIs
  <2>3. Exclusive'
    BY <2>1 DEF Serialized, Exclusive
  <2>4. serialize /\ t \in inside => input[t] \notin Racy
    <3>1. CASE TargetFaults(t)
      <4>1. serialize /\ t \in inside => inside = {t}
        BY <1>0 DEF Serialized, Exclusive
      <4> QED
        BY <3>1, <4>1, WorkerAssumption DEF TargetFaults
    <3>2. CASE EngineFaults(t)
      BY <3>2 DEF EngineFaults, Serialized, InsideIs
    <3> QED
      BY <1>2, <3>1, <3>2
  <2>5. NoRacing'
    BY <1>0, <2>1, <2>4 DEF Serialized, NoRacing, SerializedHasNoRaces, Faulting
  <2> QED
    BY <2>2, <2>3, <2>5 DEF Serialized
<1>3. CASE Publish(t)
  <2>1. /\ UNCHANGED <<inside, input, serialize, wstate>> /\ wstate # "dead"
        /\ loc[t] = "capture" /\ loc' = [loc EXCEPT ![t] = "raise"]
    BY <1>3 DEF Publish, Alive
  <2>2. InsideIs'
    BY <1>0, <2>1 DEF Serialized, InsideIs
  <2>3. Exclusive'
    BY <2>1 DEF Serialized, Exclusive
  <2>4. NoRacing'
    BY <1>0, <2>1 DEF Serialized, NoRacing, SerializedHasNoRaces, Faulting
  <2> QED
    BY <2>2, <2>3, <2>4 DEF Serialized
<1>4. CASE Raise(t) \/ SecondaryFault(t)
  <2>1. Faulting(t) /\ DiesOf(t) /\ serialize' = serialize
    BY <1>4 DEF Raise, SecondaryFault, Faulting
  <2>2. serialize' /\ fatal'.inTarget => fatal'.data \notin Racy
    BY <2>1 DEF DiesOf, Serialized, NoRacing
  <2> QED
    BY <2>1, <2>2 DEF DiesOf, Dies, Serialized, InsideIs, Exclusive, NoRacing,
                      SerializedHasNoRaces, Faulting, AllOut
<1> QED
  BY <1>1, <1>2, <1>3, <1>4 DEF ThreadStep

\* A worker that does not crash leaves nothing to say about races.
LEMMA DeathKeepsSerialized ==
  ASSUME NEW s \in {"exit0", "exit1", "kill"}, Dies(s)
  PROVE  Serialized'
BY DEF Dies, Serialized, InsideIs, Exclusive, NoRacing, SerializedHasNoRaces, Faulting, AllOut

\* g_serialize_target is set between two workers only, so no thread is inside when the
\* mutual exclusion starts to matter.
LEMMA SerializedStep ==
  ASSUME Base, Serialized, [Next]_vars
  PROVE  Serialized'
<1> USE DEF Serialized, InsideIs, Exclusive, NoRacing, SerializedHasNoRaces, Faulting
<1>1. CASE Worker
  <2>1. ASSUME NEW t \in Threads, ThreadStep(t)
        PROVE  Serialized'
    BY <2>1, ThreadKeepsSerialized
  <2>2. CASE EngineStarted \/ EnterLoop \/ StopEngine
    BY <2>2 DEF EngineStarted, EnterLoop, StopEngine, threadVars
  <2>3. CASE ExitCleanly \/ ExitWithError \/ OomKilled
    BY <2>3, DeathKeepsSerialized DEF ExitCleanly, ExitWithError, OomKilled
  <2> QED
    BY <1>1, <2>1, <2>2, <2>3 DEF Worker, WorkerStep
<1>2. CASE GraceKills
  BY <1>2, DeathKeepsSerialized DEF GraceKills
<1>3. CASE ForkWorker \/ ForkFails
  BY <1>3 DEF ForkWorker, ForkFails, threadVars, processVars
<1>4. CASE Restart
  <2>1. loc = AllOut /\ inside = {} /\ loc' = loc /\ inside' = inside /\ wstate' = "none"
    BY <1>4 DEF Restart, threadVars, Base, Round, Where, Alive
  <2> QED
    BY <2>1 DEF AllOut
<1>5. CASE \/ CampaignOver \/ WatchWorker \/ PollStops \/ Reap \/ NothingToJudge \/ JudgeNew
           \/ JudgeReal \/ JudgeNegative \/ Tick \/ Terminate \/ Finished \/ UNCHANGED vars
  <2>1. UNCHANGED <<wstate, status, loc, input, inside, serialize, fatal>>
    BY <1>5 DEF CampaignOver, WatchWorker, PollStops, Reap, NothingToJudge, JudgeNew,
                JudgeReal, JudgeNegative, Tick, Terminate, Finished, vars, workerVars,
                processVars, threadVars
  <2> QED
    BY <2>1
<1> QED
  BY <1>1, <1>2, <1>3, <1>4, <1>5 DEF Next, Supervisor

\* Once the supervisor serializes the target, no later worker dies of a race in it.
THEOREM SerializationEndsRaces == Spec => []SerializedHasNoRaces
<1>1. Init => Base /\ Serialized
  BY BaseInit DEF Init, WorkerInit, Serialized, InsideIs, Exclusive, NoRacing,
                  SerializedHasNoRaces, Faulting, AllOut
<1>2. Base /\ Serialized /\ [Next]_vars => (Base /\ Serialized)'
  BY BaseStep, SerializedStep
<1>3. Serialized => SerializedHasNoRaces
  BY DEF Serialized, NoRacing
<1> QED
  BY <1>1, <1>2, <1>3, PTL DEF Spec

-------------------------------------------------------------------------------
\* With fork() reliable, a reproducible crash never gets a negative verdict, nor passes for
\* an artifact.
Artifacts ==
    /\ \A i \in Inputs : verdict[i] = "not" => i \notin Crashing
    /\ sp = "judged" /\ outcome = "artifact" => fatal.data \notin Crashing

\* A replay of a crashing input that was forked says so, in every judgement.
LEMMA ArtifactsStep ==
  ASSUME ForkMayFail = FALSE, Base, Capture, Artifacts, [Next]_vars
  PROVE  Artifacts'
<1>1. HaveCandidate => slot.data \in Inputs
  BY DEF HaveCandidate, Base, Where
<1>2. verdict \in [Inputs -> {"none", "real", "not"}]
  BY DEF Base, TypeOK, SupervisorTypeOK
<1>3. sp = "judge" /\ HaveCandidate => slot.data = fatal.data
  BY DEF Base, Round, Capture, Published, HaveCandidate
<1>4. \A reproduced \in Replays(slot.data) : ~reproduced => slot.data \notin Crashing
  BY DEF Replays
<1>5. CASE NothingToJudge
  BY <1>5 DEF NothingToJudge, Judged, Artifacts
<1>6. CASE JudgeNew
  <2>1. PICK first \in Replays(slot.data), second \in Replays(slot.data) :
          /\ Judged(IF first \/ second THEN "confirmed" ELSE "artifact")
          /\ Recorded(first \/ second)
    BY <1>6 DEF JudgeNew
  <2>2. ~(first \/ second) => slot.data \notin Crashing
    BY <1>4
  <2>3. outcome' = "artifact" => fatal'.data \notin Crashing
    BY <1>3, <1>6, <2>1, <2>2 DEF JudgeNew, Judged, workerVars
  <2>4. \A i \in Inputs : verdict'[i] = "not" => i \notin Crashing
    BY <1>1, <1>2, <1>6, <2>1, <2>2 DEF JudgeNew, Recorded, Artifacts
  <2> QED
    BY <2>3, <2>4 DEF Artifacts
<1>7. CASE JudgeReal
  BY <1>7 DEF JudgeReal, Judged, Artifacts
<1>8. CASE JudgeNegative
  <2>1. slot.data \notin Crashing /\ slot.data = fatal.data /\ fatal' = fatal
    BY <1>1, <1>3, <1>8 DEF JudgeNegative, Artifacts, workerVars
  <2>2. \A i \in Inputs : verdict'[i] = "not" => verdict[i] = "not"
    BY <1>2, <1>8 DEF JudgeNegative
  <2> QED
    BY <2>1, <2>2 DEF Artifacts
<1>9. CASE Worker
  <2>1. sp # "judged"
    BY <1>9 DEF Worker, WorkerStep, ThreadStep, Arm, Enter, Leave, Disarm, TargetFaults,
           EngineFaults, Publish, Raise, SecondaryFault, EngineStarted, EnterLoop, StopEngine,
           ExitCleanly, ExitWithError, OomKilled, Alive, Base, Round
  <2> QED
    BY <1>9, <2>1 DEF Worker, superVars, bookVars, Artifacts
<1>10. CASE \/ CampaignOver \/ ForkWorker \/ ForkFails \/ WatchWorker \/ PollStops
            \/ Reap \/ Restart
  <2>1. verdict' = verdict /\ sp' # "judged"
    BY <1>10 DEF CampaignOver, ForkWorker, ForkFails, WatchWorker, PollStops, Reap, Restart,
                 bookVars
  <2> QED
    BY <2>1 DEF Artifacts
<1>11. CASE GraceKills
  BY <1>11 DEF GraceKills, superVars, bookVars, Artifacts
<1>12. CASE Tick \/ Terminate \/ Finished \/ UNCHANGED vars
  BY <1>12 DEF Tick, Terminate, Finished, vars, workerVars, superVars, bookVars, Artifacts
<1> QED
  BY <1>5, <1>6, <1>7, <1>8, <1>9, <1>10, <1>11, <1>12 DEF Next, Supervisor

\* "A fast death from a genuine reproducible bug must not trip serialization": it does not,
\* as long as the replay's fork() works (a failed one reads as "did not reproduce").
THEOREM RealBugsNeverSerialize ==
  ASSUME ForkMayFail = FALSE
  PROVE  Spec => BugsNeverSerialize
<1>1. Init => Base /\ Capture /\ Artifacts
  BY BaseInit
     DEF Init, WorkerInit, Capture, OneFaults, Published, Faulting, AllOut, Alive, Artifacts
<1>2. Base /\ Capture /\ Artifacts /\ [Next]_vars => (Base /\ Capture /\ Artifacts)'
  BY BaseStep, CaptureStep, ArtifactsStep
<1>3. Artifacts /\ [Next]_vars => [~serialize /\ serialize' => fatal.data \notin Crashing]_vars
  <2> SUFFICES ASSUME Artifacts, Next, ~serialize, serialize'
               PROVE  fatal.data \notin Crashing
    OBVIOUS
  <2>1. Restart
    BY DEF Next, Supervisor, Worker, WorkerStep, ThreadStep, Arm, Enter, Leave, Disarm,
           TargetFaults, EngineFaults, Publish, Raise, SecondaryFault, EngineStarted, EnterLoop,
           StopEngine, ExitCleanly, ExitWithError, OomKilled, CampaignOver, ForkWorker,
           ForkFails, WatchWorker, PollStops, GraceKills, Reap, NothingToJudge, JudgeNew,
           JudgeReal, JudgeNegative, Tick, Terminate, Finished, vars, workerVars
  <2>2. EscalateAfter > 0 /\ streak' >= EscalateAfter
    BY <2>1 DEF Restart
  <2>3. streak' # 0
    BY <2>2, ArbiterAssumption
  <2>4. FastArtifact
    BY <2>1, <2>3 DEF Restart
  <2> QED
    BY <2>1, <2>4 DEF Restart, FastArtifact, Artifacts
<1> QED
  BY <1>1, <1>2, <1>3, PTL DEF Spec, BugsNeverSerialize
-------------------------------------------------------------------------------
\* What one round knows of the worker it forked and of the judgement it has come to: none
\* yet before "judged", none to come for a worker that finished.
Conduct ==
    /\ sp \in {"forked", "poll", "grace"} => wstate # "none"
    /\ sp \in {"forked", "poll", "grace", "judge"} => outcome = "none"
    /\ sp \in {"judge", "judged"} => ~FinishedItself
    /\ sp = "judged" /\ outcome = "artifact" => status = "crash"
    /\ Stopped

\* Every step of run_supervisor(), its worker and the orchestrator keeps that.
LEMMA ConductStep ==
  ASSUME Base, Conduct, [Next]_vars
  PROVE  Conduct'
<1> USE DEF Conduct, Stopped, FinishedItself
<1>1. CASE ForkWorker \/ ForkFails \/ CampaignOver \/ WatchWorker
  BY <1>1 DEF ForkWorker, ForkFails, CampaignOver, WatchWorker, workerVars, processVars, bookVars
<1>2. CASE PollStops
  BY <1>2 DEF PollStops, Reason, BudgetOver, bookVars
<1>3. CASE GraceKills
  BY <1>3 DEF GraceKills, Dies, superVars, bookVars
<1>4. CASE Reap
  BY <1>4 DEF Reap, workerVars, processVars, bookVars
<1>5. CASE NothingToJudge \/ JudgeNew \/ JudgeReal \/ JudgeNegative
  <2>1. /\ sp = "judge" /\ sp' = "judged" /\ UNCHANGED <<wstate, status, hung, budgetHit>>
        /\ outcome' = "artifact" => status = "crash"
    BY <1>5 DEF NothingToJudge, JudgeNew, JudgeReal, JudgeNegative, Judged, HaveCandidate,
                workerVars, processVars
  <2> QED
    BY <2>1
<1>6. CASE Restart
  BY <1>6 DEF Restart
<1>7. CASE Worker
  <2>1. Alive /\ wstate' # "none"
    BY <1>7 DEF Worker, WorkerStep, ThreadStep, Arm, Enter, Leave, Disarm, TargetFaults,
           EngineFaults, Publish, Raise, SecondaryFault, EngineStarted, EnterLoop, StopEngine,
           ExitCleanly, ExitWithError, OomKilled, Dies, DiesOf, Alive, processVars
  <2>2. sp \notin {"judge", "judged"} /\ UNCHANGED <<sp, outcome, budgetHit>>
    BY <1>7, <2>1 DEF Worker, Base, Round, Alive, superVars, bookVars
  <2> QED
    BY <2>1, <2>2
<1>8. CASE Tick \/ Terminate \/ Finished \/ UNCHANGED vars
  BY <1>8 DEF Tick, Terminate, Finished, vars, workerVars, processVars, superVars, bookVars
<1> QED
  BY <1>1, <1>2, <1>3, <1>4, <1>5, <1>6, <1>7, <1>8 DEF Next, Supervisor

\* Before the first fork the campaign is idle.
LEMMA CampaignInit == Init => Camp!Init
BY DEF Init, WorkerInit, Camp!Init, Stage, Cause, Culprit, Alive, NoFault

\* What a worker does is nothing to the campaign, until it dies.
LEMMA WorkerIsCampaign ==
  ASSUME Base, Conduct, Worker
  PROVE  [Camp!Next]_(Camp!campaignVars)
<1>1. /\ sp \in {"forked", "poll", "grace"} /\ Alive
      /\ UNCHANGED <<sp, hung, outcome, saved, terminating>>
  BY DEF Worker, WorkerStep, ThreadStep, Arm, Enter, Leave, Disarm, TargetFaults,
         EngineFaults, Publish, Raise, SecondaryFault, EngineStarted, EnterLoop, StopEngine,
         ExitCleanly, ExitWithError, OomKilled, Alive, Base, TypeOK, SupervisorTypeOK, Round,
         superVars, bookVars
<1>2. Stage = "alive" /\ Cause = "none" /\ Culprit = NoInput
  BY <1>1 DEF Stage, Cause, Culprit, Alive
<1>3. CASE Alive'
  <2>1. serialize' = serialize
    BY DEF Worker, WorkerStep, ThreadStep, Arm, Enter, Leave, Disarm, TargetFaults,
         EngineFaults, Publish, Raise, SecondaryFault, EngineStarted, EnterLoop, StopEngine,
         ExitCleanly, ExitWithError, OomKilled
  <2>2. Stage' = "alive" /\ Cause' = "none" /\ Culprit' = NoInput
    BY <1>1, <1>3 DEF Stage, Cause, Culprit, Alive
  <2> QED
    BY <1>1, <1>2, <2>1, <2>2 DEF Camp!campaignVars
<1>4. CASE \E t \in Threads : Raise(t) \/ SecondaryFault(t)
  <2>1. PICK t \in Threads : Raise(t) \/ SecondaryFault(t)
    BY <1>4
  <2>2. /\ wstate' = "dead" /\ status' = "crash" /\ fatal'.data = input[t]
        /\ serialize' = serialize
    BY <2>1 DEF Raise, SecondaryFault, DiesOf, Dies
  <2>3. input[t] \in Inputs \cup {NoInput}
    BY DEF Base, TypeOK, WorkerTypeOK
  <2>4. Stage' = "dead" /\ Cause' = "crash" /\ Culprit' = input[t]
    BY <1>1, <2>2 DEF Stage, Cause, Culprit, Alive
  <2>5. Camp!Crash(input[t])
    BY <1>1, <1>2, <2>2, <2>4 DEF Camp!Crash
  <2> QED
    BY <2>3, <2>5 DEF Camp!Next
<1>5. CASE ExitCleanly \/ ExitWithError \/ OomKilled
  <2>1. /\ wstate' = "dead" /\ status' \in {"exit0", "exit1", "kill"}
        /\ serialize' = serialize
    BY <1>5 DEF ExitCleanly, ExitWithError, OomKilled, Dies
  <2>2. Stage' = "dead" /\ Cause' \in {"finished", "lost"} /\ Culprit' = NoInput
    BY <1>1, <2>1 DEF Stage, Cause, Culprit, Alive
  <2> QED
    BY <1>1, <1>2, <2>1, <2>2 DEF Camp!Next, Camp!Depart
<1>6. \/ Alive' \/ (\E t \in Threads : Raise(t) \/ SecondaryFault(t))
      \/ ExitCleanly \/ ExitWithError \/ OomKilled
  BY DEF Worker, WorkerStep, ThreadStep, Arm, Enter, Leave, Disarm, TargetFaults,
         EngineFaults, Publish, EngineStarted, EnterLoop, StopEngine, Alive, processVars
<1> QED
  BY <1>3, <1>4, <1>5, <1>6

\* Between two workers: the fork, the failed fork, the end, and the restart, which may
\* serialize the target only after an artifact.
LEMMA RestartIsCampaign ==
  ASSUME Base, Conduct, CampaignOver \/ ForkWorker \/ ForkFails \/ Restart
  PROVE  [Camp!Next]_(Camp!campaignVars)
<1>1. CASE CampaignOver \/ ForkWorker \/ ForkFails
  <2>1. sp = "loop" /\ wstate = "none"
    BY <1>1 DEF CampaignOver, ForkWorker, ForkFails, Base, Round
  <2>2. Stage = "idle" /\ Cause = "none" /\ Culprit = NoInput
    BY <2>1 DEF Stage, Cause, Culprit, Alive
  <2>3. CASE CampaignOver
    <3>1. /\ wstate' = "none" /\ sp' = "done" /\ (terminating \/ Budget > 0)
          /\ UNCHANGED <<outcome, saved, serialize, terminating>>
      BY <2>1, <2>3 DEF CampaignOver, BudgetSpent, workerVars, processVars, bookVars
    <3>2. Stage' = "over" /\ Cause' = "none" /\ Culprit' = NoInput
      BY <3>1 DEF Stage, Cause, Culprit
    <3> QED
      BY <2>2, <3>1, <3>2 DEF Camp!Next, Camp!StopBetween
  <2>4. CASE ForkWorker
    <3>1. /\ wstate' = "init" /\ sp' = "forked" /\ outcome' = "none" /\ ~terminating
          /\ UNCHANGED <<saved, serialize, terminating>>
      BY <2>4 DEF ForkWorker
    <3>2. Stage' = "alive" /\ Cause' = "none" /\ Culprit' = NoInput
      BY <3>1 DEF Stage, Cause, Culprit, Alive
    <3> QED
      BY <2>2, <3>1, <3>2 DEF Camp!Next, Camp!Start
  <2>5. CASE ForkFails
    <3>1. /\ wstate' = "none" /\ sp' \in {"loop", "done"} /\ (sp' = "done" => Budget > 0)
          /\ UNCHANGED <<outcome, saved, serialize, terminating>>
      BY <2>1, <2>5 DEF ForkFails, OverCap, processVars, bookVars
    <3>2. /\ Stage' = IF sp' = "done" THEN "over" ELSE "idle"
          /\ Cause' = "none" /\ Culprit' = NoInput
      BY <3>1 DEF Stage, Cause, Culprit, Alive
    <3>3. CASE sp' = "done"
      BY <2>2, <3>1, <3>2, <3>3 DEF Camp!Next, Camp!StopBetween
    <3>4. CASE sp' = "loop"
      BY <2>2, <3>1, <3>2, <3>4 DEF Camp!campaignVars
    <3> QED
      BY <3>1, <3>3, <3>4
  <2> QED
    BY <1>1, <2>3, <2>4, <2>5
<1>2. CASE Restart
  <2>1. sp = "judged" /\ wstate = "dead" /\ wstate' = "none"
        /\ UNCHANGED <<outcome, saved, terminating>>
    BY <1>2 DEF Restart, Base, Round, bookVars
  <2>2. Stage = "judged"
    BY <2>1 DEF Stage, Alive
  <2>3. Cause' = "none" /\ Culprit' = NoInput
    BY <2>1 DEF Cause, Culprit
  <2>4. CASE sp' = "done"
    <3>1. Budget > 0 /\ serialize' = serialize
      BY <1>2, <2>4 DEF Restart, OverCap
    <3> QED
      BY <2>1, <2>2, <2>3, <2>4, <3>1 DEF Camp!Next, Camp!StopBetween, Stage
  <2>5. CASE sp' = "loop"
    <3>1. serialize' = (serialize \/ (EscalateAfter > 0 /\ streak' >= EscalateAfter))
      BY <1>2, <2>5 DEF Restart
    <3>2. EscalateAfter > 0 /\ streak' >= EscalateAfter => streak' # 0
      BY ArbiterAssumption
    <3>3. streak' # 0 => outcome = "artifact"
      BY <1>2 DEF Restart, FastArtifact
    <3>4. outcome = "artifact" => Cause = "crash"
      BY <2>1 DEF Conduct, Cause
    <3>5. serialize' \in {serialize, serialize \/ (Cause = "crash" /\ ~(outcome = "confirmed"))}
      <4>1. CASE EscalateAfter > 0 /\ streak' >= EscalateAfter
        BY <3>1, <3>2, <3>3, <3>4, <4>1
      <4>2. CASE ~(EscalateAfter > 0 /\ streak' >= EscalateAfter)
        BY <3>1, <4>2 DEF Base, TypeOK, WorkerTypeOK
      <4> QED
        BY <4>1, <4>2
    <3>6. Stage' = "idle"
      BY <2>1, <2>5 DEF Stage, Alive
    <3> QED
      BY <2>1, <2>2, <2>3, <3>5, <3>6 DEF Camp!Next, Camp!Continue
  <2> QED
    BY <1>2, <2>4, <2>5 DEF Restart
<1> QED
  BY <1>1, <1>2

\* While it waits for a death, the supervisor only kills; when it reaps one, the campaign
\* is over or the death is to be judged.
LEMMA WaitIsCampaign ==
  ASSUME Base, Conduct, WatchWorker \/ PollStops \/ GraceKills \/ Reap
  PROVE  [Camp!Next]_(Camp!campaignVars)
<1>1. UNCHANGED <<outcome, saved, serialize, terminating>>
  BY DEF WatchWorker, PollStops, GraceKills, Reap, workerVars, superVars, bookVars
<1>2. CASE WatchWorker
  <2>1. sp = "forked" /\ sp' = "poll" /\ UNCHANGED <<wstate, status, hung, fatal>>
    BY <1>2 DEF WatchWorker, workerVars, processVars
  <2>2. UNCHANGED <<Stage, Cause, Culprit>>
    BY <2>1 DEF Stage, Cause, Culprit, Alive
  <2> QED
    BY <1>1, <2>2 DEF Camp!campaignVars
<1>3. CASE PollStops
  <2>1. sp = "poll" /\ sp' = "grace" /\ wstate # "dead" /\ wstate' = wstate
    BY <1>3 DEF PollStops
  <2>2. Stage' = Stage /\ Cause = "none" /\ Cause' = "none" /\ Culprit' = Culprit
    BY <2>1 DEF Stage, Cause, Culprit, Alive
  <2> QED
    BY <1>1, <2>2 DEF Camp!campaignVars
<1>4. CASE GraceKills
  <2>1. /\ sp = "grace" /\ sp' = sp /\ wstate # "dead" /\ wstate' = "dead" /\ status' = "kill"
    BY <1>4 DEF GraceKills, Dies, superVars
  <2>2. Alive
    BY <2>1 DEF Conduct, Base, TypeOK, WorkerTypeOK, Alive
  <2>3. Stage = "alive" /\ Cause = "none" /\ Culprit = NoInput
    BY <2>1, <2>2 DEF Stage, Cause, Culprit
  <2>4. Stage' = "dead" /\ Cause' = "lost" /\ Culprit' = NoInput
    BY <2>1 DEF Stage, Cause, Culprit, Alive
  <2> QED
    BY <1>1, <2>3, <2>4 DEF Camp!Next, Camp!Depart
<1>5. CASE Reap
  <2>1. /\ sp \in {"poll", "grace"} /\ wstate = "dead"
        /\ UNCHANGED <<wstate, status, hung, fatal>>
        /\ sp' = IF budgetHit \/ terminating \/ FinishedItself THEN "done" ELSE "judge"
    BY <1>5 DEF Reap, workerVars, processVars
  <2>2. Stage = "dead" /\ UNCHANGED <<Cause, Culprit>>
    BY <2>1 DEF Stage, Cause, Culprit, Alive
  <2>3. CASE budgetHit \/ terminating \/ FinishedItself
    <3>1. Stage' = "over"
      BY <2>1, <2>3 DEF Stage
    <3>2. terminating \/ Budget > 0 \/ Cause = "finished"
      BY <2>1, <2>3 DEF Conduct, Stopped, Cause, FinishedItself
    <3> QED
      BY <1>1, <2>2, <3>1, <3>2 DEF Camp!Next, Camp!Stop
  <2>4. CASE ~(budgetHit \/ terminating \/ FinishedItself)
    <3>1. Stage' = "dead"
      BY <2>1, <2>4 DEF Stage, Alive
    <3> QED
      BY <1>1, <2>2, <3>1 DEF Camp!campaignVars
  <2> QED
    BY <2>3, <2>4
<1> QED
  BY <1>2, <1>3, <1>4, <1>5

\* A judgement confirms the crash of this death and saves its input, which reproduces, or
\* it dismisses the death; the verdict cache decides between them, but adds nothing else.
LEMMA JudgementIsCampaign ==
  ASSUME Base, Capture, Reproducible, Conduct,
         NothingToJudge \/ JudgeNew \/ JudgeReal \/ JudgeNegative
  PROVE  [Camp!Next]_(Camp!campaignVars)
<1>1. /\ sp = "judge" /\ sp' = "judged" /\ wstate = "dead" /\ outcome = "none"
      /\ UNCHANGED <<wstate, status, hung, fatal, serialize, terminating>>
  BY DEF NothingToJudge, JudgeNew, JudgeReal, JudgeNegative, Judged, workerVars, processVars,
         Base, Round, Conduct
<1>2. Stage = "dead" /\ Stage' = "judged" /\ UNCHANGED <<Cause, Culprit>>
  BY <1>1 DEF Stage, Cause, Culprit, Alive
<1>3. HaveCandidate => /\ Cause = "crash" /\ Culprit = slot.data
                       /\ slot.data \in Inputs
  BY <1>1 DEF HaveCandidate, Cause, Culprit, Capture, Published, Base, Where
<1>4. \A reproduced \in Replays(slot.data) : reproduced => slot.data \in Crashing \cup Flaky
  BY DEF Replays
<1>5. \/ Judged("nothing") \/ Judged("artifact")
      \/ Judged("confirmed") /\ HaveCandidate /\ slot.data \in Crashing \cup Flaky
  <2>1. CASE NothingToJudge
    BY <2>1 DEF NothingToJudge
  <2>2. CASE JudgeNew
    BY <1>4, <2>2 DEF JudgeNew
  <2>3. CASE JudgeReal
    BY <1>3, <2>3 DEF JudgeReal, Reproducible
  <2>4. CASE JudgeNegative
    BY <1>4, <2>4 DEF JudgeNegative
  <2> QED
    BY <2>1, <2>2, <2>3, <2>4
<1>6. CASE Judged("nothing") \/ Judged("artifact")
  <2>1. outcome' # "confirmed" /\ saved' = saved
    BY <1>6 DEF Judged
  <2>2. Cause # "finished"
    BY <1>1 DEF Conduct, Cause, FinishedItself
  <2> QED
    BY <1>1, <1>2, <2>1, <2>2 DEF Camp!Next, Camp!Dismiss
<1>7. CASE Judged("confirmed") /\ HaveCandidate /\ slot.data \in Crashing \cup Flaky
  <2>1. outcome' = "confirmed" /\ saved' = saved \cup {Culprit}
    BY <1>3, <1>7 DEF Judged
  <2> QED
    BY <1>1, <1>2, <1>3, <1>7, <2>1 DEF Camp!Next, Camp!Confirm
<1> QED
  BY <1>5, <1>6, <1>7

\* Clocks are not the campaign's, and SIGTERM is the request to end it.
LEMMA RestIsCampaign ==
  ASSUME Tick \/ Terminate \/ Finished \/ UNCHANGED vars
  PROVE  [Camp!Next]_(Camp!campaignVars)
<1>1. UNCHANGED <<sp, wstate, status, hung, fatal, outcome, saved, serialize>>
  BY DEF Tick, Terminate, Finished, vars, workerVars, processVars, superVars, bookVars
<1>2. UNCHANGED <<Stage, Cause, Culprit>>
  BY <1>1 DEF Stage, Cause, Culprit, Alive
<1>3. CASE terminating' = terminating
  BY <1>1, <1>2, <1>3 DEF Camp!campaignVars
<1>4. CASE terminating' # terminating
  <2>1. Terminate
    BY <1>4 DEF Tick, Finished, vars, superVars
  <2>2. terminating' = TRUE /\ ~terminating /\ Stage # "over"
    BY <2>1 DEF Terminate, Stage
  <2> QED
    BY <1>1, <1>2, <2>2 DEF Camp!Next, Camp!Ask
<1> QED
  BY <1>3, <1>4

\* run_supervisor() conducts the campaign Campaign describes, whatever its workers, its
\* replays, the clocks and the orchestrator do: every death is judged once and before the
\* next worker is forked, only its own input is saved and only if it reproduces, the target
\* is serialized between two workers after a crash that did not reproduce, and nothing but
\* a request, a limit or a worker that finished ends it.
THEOREM ImplementsCampaign == Spec => CampaignSpec
<1>1. Init => Base /\ Capture /\ Reproducible /\ Conduct
  BY BaseInit DEF Init, WorkerInit, Capture, OneFaults, Published, Faulting, AllOut, Alive,
                  Reproducible, Conduct, Stopped
<1>2. Base /\ Capture /\ Reproducible /\ Conduct /\ [Next]_vars
        => (Base /\ Capture /\ Reproducible /\ Conduct)'
  BY BaseStep, CaptureStep, ReproducibleStep, ConductStep
<1>3. Base /\ Capture /\ Reproducible /\ Conduct /\ [Next]_vars
        => [Camp!Next]_(Camp!campaignVars)
  BY WorkerIsCampaign, RestartIsCampaign, WaitIsCampaign, JudgementIsCampaign, RestIsCampaign
     DEF Next, Supervisor
<1> QED
  BY <1>1, <1>2, <1>3, CampaignInit, PTL DEF Spec, CampaignSpec, Camp!Spec
===============================================================================
