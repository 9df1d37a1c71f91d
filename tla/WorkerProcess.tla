---------------------------- MODULE WorkerProcess ----------------------------
(***************************************************************************)
(* The fuzzing worker of the crash arbiter, as the supervisor sees it      *)
(* (src/src/interface/triofuzz_main.cpp): the life of the forked engine    *)
(* process, its threads entering and leaving the target in-process, the    *)
(* signal handler that publishes the faulting thread's input in the shared *)
(* crash slot, and the ways the process can die.                           *)
(*                                                                         *)
(* An input is a value and what the target does with it is a set it is in. *)
(* The ages are coarse clocks that stop at the last deadline anyone tests. *)
(***************************************************************************)
EXTENDS Naturals, FiniteSets

CONSTANTS
    Threads,         \* engine threads that run the target
    Inputs,          \* inputs they may choose
    Crashing,        \* inputs on which the target always crashes
    Flaky,           \* ... on which it crashes at times, also single-threaded
    Racy,            \* ... on which it crashes at times when another thread is inside it
    Hanging,         \* ... on which it does not return
    EngineMayFault,  \* may the engine's own code fault?
    CanFinish,       \* has the worker a limit of its own (max_executions)?
    NoInput

ASSUME WorkerAssumption ==
    /\ Crashing \cup Flaky \cup Racy \cup Hanging \subseteq Inputs
    /\ Racy \cap (Crashing \cup Flaky) = {}
    /\ NoInput \notin Inputs
    /\ EngineMayFault \in BOOLEAN /\ CanFinish \in BOOLEAN

VARIABLES
    wstate,      \* none, init, started, run, stop, dead
    status,      \* what waitpid() will say of a dead worker
    mustStop,    \* its stop flag, set by SIGTERM
    loc,         \* where each thread is
    input,       \* g_tls_input_data of each thread; NoInput while it is not armed
    inside,      \* threads whose target call has not returned
    slot,        \* CrashSlot: magic, armed, data
    phase,       \* CrashSlot.phase
    hbAge,       \* time since CrashSlot.heartbeat_ns
    fuzzAge,     \* time since CrashSlot.fuzz_start_ns
    serialize,   \* g_serialize_target, inherited at fork
    fatal        \* history: the fault whose signal killed the worker

processVars == <<wstate, status, mustStop>>
threadVars  == <<loc, input, inside>>
slotVars    == <<slot, phase>>
ageVars     == <<hbAge, fuzzAge>>
workerVars  == <<processVars, threadVars, slotVars, ageVars, serialize, fatal>>

EmptySlot == [magic |-> FALSE, armed |-> FALSE, data |-> NoInput]
NoFault   == [data |-> NoInput, inTarget |-> FALSE]

AllOut == [t \in Threads |-> "out"]
Unarmed == [t \in Threads |-> NoInput]

WorkerInit ==
    /\ wstate = "none" /\ status = "none" /\ mustStop = FALSE
    /\ loc = AllOut /\ input = Unarmed /\ inside = {}
    /\ slot = EmptySlot /\ phase = 0 /\ hbAge = 0 /\ fuzzAge = 0
    /\ serialize = FALSE /\ fatal = NoFault

Alive == wstate \in {"init", "started", "run", "stop"}

Goto(t, l) == loc' = [loc EXCEPT ![t] = l]

-------------------------------------------------------------------------------
(* InProcessExecutor::execute(): seeds are calibrated before engine.start(), *)
(* so threads may run the target from the beginning.                         *)

\* Remember the input, arm the thread, store the heartbeat.
Arm(t) ==
    /\ wstate \in {"init", "started", "run"} /\ loc[t] = "out"
    /\ \E i \in Inputs : input' = [input EXCEPT ![t] = i]
    /\ Goto(t, "armed")
    /\ hbAge' = 0
    /\ UNCHANGED <<processVars, inside, slotVars, fuzzAge, serialize, fatal>>

MutexFreeAlways == TRUE                               \* mutant: the mutex is not taken

\* Under serialization g_target_exec_mutex is held for the whole target call.
MutexFree == serialize => inside = {}

Enter(t) ==
    /\ Alive /\ loc[t] = "armed" /\ MutexFree
    /\ Goto(t, "in")
    /\ inside' = inside \cup {t}
    /\ UNCHANGED <<processVars, input, slotVars, ageVars, serialize, fatal>>

\* The target returns, or its exception is caught.
Leave(t) ==
    /\ Alive /\ loc[t] = "in" /\ input[t] \notin Crashing \cup Hanging
    /\ Goto(t, "after")
    /\ inside' = inside \ {t}
    /\ UNCHANGED <<processVars, input, slotVars, ageVars, serialize, fatal>>

\* After the coverage was collected, TlsInputDisarm runs.
Disarm(t) ==
    /\ Alive /\ loc[t] = "after"
    /\ Goto(t, "out")
    /\ input' = [input EXCEPT ![t] = NoInput]
    /\ UNCHANGED <<processVars, inside, slotVars, ageVars, serialize, fatal>>

-------------------------------------------------------------------------------
(* Faults, and worker_capture_handler. *)

Captured == \E t \in Threads : loc[t] \in {"capture", "raise"}

FaultedEveryoneCaptures(t) == Goto(t, "capture")      \* mutant: no one_shot

\* The first thread to fault captures; another one that faults is parked for good.
Faulted(t) == Goto(t, IF Captured THEN "parked" ELSE "capture")

TargetFaults(t) ==
    /\ Alive /\ loc[t] = "in"
    /\ input[t] \in Crashing \cup Flaky \/ (input[t] \in Racy /\ inside # {t})
    /\ Faulted(t)
    /\ UNCHANGED <<processVars, input, inside, slotVars, ageVars, serialize, fatal>>

\* A fault of the engine's own code: between executions, or while it collects the
\* coverage of a call that has returned.
EngineFaults(t) ==
    /\ EngineMayFault
    /\ Alive /\ loc[t] \in {"out", "after"}
    /\ Faulted(t)
    /\ UNCHANGED <<processVars, input, inside, slotVars, ageVars, serialize, fatal>>

Publish(t) ==
    /\ Alive /\ loc[t] = "capture"
    /\ slot' = [magic |-> TRUE, armed |-> input[t] # NoInput, data |-> input[t]]
    /\ Goto(t, "raise")
    /\ UNCHANGED <<processVars, input, inside, phase, ageVars, serialize, fatal>>

\* The process is gone, with every thread it had.
Dies(s) ==
    /\ wstate' = "dead" /\ status' = s /\ mustStop' = FALSE
    /\ loc' = AllOut /\ input' = Unarmed /\ inside' = {}

DiesOf(t) ==
    /\ Dies("crash")
    /\ fatal' = [data |-> input[t], inTarget |-> t \in inside]

\* The default action of the signal raised again.
Raise(t) ==
    /\ Alive /\ loc[t] = "raise"
    /\ DiesOf(t)
    /\ UNCHANGED <<slotVars, ageVars, serialize>>

\* A second fault while the input is copied: crash signals are masked, the kernel kills.
SecondaryFault(t) ==
    /\ Alive /\ loc[t] = "capture" /\ input[t] # NoInput
    /\ DiesOf(t)
    /\ UNCHANGED <<slotVars, ageVars, serialize>>

-------------------------------------------------------------------------------
(* run_fuzzing_engine_child(): the life of the process. *)

\* Right after engine.start(): the "fast crash" clock starts and the phase is 1.
EngineStarted ==
    /\ wstate = "init"
    /\ wstate' = "started"
    /\ phase' = 1 /\ fuzzAge' = 0
    /\ UNCHANGED <<status, mustStop, threadVars, slot, hbAge, serialize, fatal>>

\* From here on SIGTERM finds the stop flag.
EnterLoop ==
    /\ wstate = "started"
    /\ wstate' = "run"
    /\ UNCHANGED <<status, mustStop, threadVars, slotVars, ageVars, serialize, fatal>>

\* A limit of its own is reached, or the stop flag is seen: engine.stop().
StopEngine ==
    /\ wstate = "run"
    /\ mustStop \/ CanFinish
    /\ wstate' = "stop"
    /\ UNCHANGED <<status, mustStop, threadVars, slotVars, ageVars, serialize, fatal>>

\* engine.stop() joins every thread, then main returns 0.
ExitCleanly ==
    /\ wstate = "stop" /\ loc = AllOut
    /\ Dies("exit0")
    /\ UNCHANGED <<slotVars, ageVars, serialize, fatal>>

\* An exception while starting up: status 1.
ExitWithError ==
    /\ wstate = "init"
    /\ Dies("exit1")
    /\ UNCHANGED <<slotVars, ageVars, serialize, fatal>>

OomKilled ==
    /\ Alive
    /\ Dies("kill")
    /\ UNCHANGED <<slotVars, ageVars, serialize, fatal>>

\* SIGTERM: before the main loop there is no flag to set, and it is lost.
Sigterm == mustStop' = (mustStop \/ wstate = "run")

ThreadStep(t) ==
    \/ Arm(t) \/ Enter(t) \/ Leave(t) \/ Disarm(t)
    \/ TargetFaults(t) \/ EngineFaults(t) \/ Publish(t) \/ Raise(t) \/ SecondaryFault(t)

WorkerStep ==
    \/ \E t \in Threads : ThreadStep(t)
    \/ EngineStarted \/ EnterLoop \/ StopEngine \/ ExitCleanly \/ ExitWithError \/ OomKilled

WorkerTypeOK ==
    /\ wstate \in {"none", "init", "started", "run", "stop", "dead"}
    /\ status \in {"none", "exit0", "exit1", "crash", "kill"}
    /\ mustStop \in BOOLEAN
    /\ loc \in [Threads -> {"out", "armed", "in", "after", "capture", "raise", "parked"}]
    /\ input \in [Threads -> Inputs \cup {NoInput}]
    /\ inside \subseteq Threads
    /\ slot \in [magic : BOOLEAN, armed : BOOLEAN, data : Inputs \cup {NoInput}]
    /\ phase \in {0, 1} /\ hbAge \in Nat /\ fuzzAge \in Nat
    /\ serialize \in BOOLEAN
    /\ fatal \in [data : Inputs \cup {NoInput}, inTarget : BOOLEAN]
===============================================================================
