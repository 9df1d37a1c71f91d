----------------------------- MODULE CrashArbiter -----------------------------
(***************************************************************************)
(* run_supervisor() of src/src/interface/triofuzz_main.cpp: the supervisor *)
(* forks the worker, waits for its death with two deadlines, arbitrates a  *)
(* crash by replaying the captured input single-threaded, and restarts the *)
(* worker until the campaign is over.  It runs against WorkerProcess and   *)
(* the signals an orchestrator may send it at any time.                    *)
(*                                                                         *)
(* Left out: the backoff sleep after fast deaths, which only takes time,   *)
(* and a waitpid() that fails.                                             *)
(***************************************************************************)
EXTENDS WorkerProcess

CONSTANTS
    Budget,         \* max_total_time; 0: unbounded
    HangLimit,      \* TRIOFUZZ_ARBITER_WORKER_HANG_SEC; 0 disables
    GraceLimit,     \* TRIOFUZZ_ARBITER_STARTUP_GRACE_SEC; 0 disables
    FastCrash,      \* TRIOFUZZ_ARBITER_FAST_CRASH_SEC
    EscalateAfter,  \* TRIOFUZZ_ARBITER_ESCALATE_AFTER; 0: never
    MaxRestarts,    \* TRIOFUZZ_ARBITER_MAX_RESTARTS
    ReverifyEvery,  \* a negative verdict is checked again on every so many hits (8)
    ForkMayFail,    \* may fork() fail?
    VerdictLimit,   \* verdicts are recorded up to this many (200000)
    Terminable      \* may SIGTERM reach the supervisor?

ASSUME ArbiterAssumption ==
    /\ Budget \in Nat /\ HangLimit \in Nat /\ GraceLimit \in Nat /\ FastCrash \in Nat
    /\ EscalateAfter \in Nat /\ MaxRestarts \in Nat
    /\ ReverifyEvery \in Nat \ {0} /\ VerdictLimit \in Nat
    /\ ForkMayFail \in BOOLEAN /\ Terminable \in BOOLEAN

VARIABLES
    sp,           \* where the supervisor is
    active,       \* g_active_child holds the worker
    terminating,  \* g_supervisor_terminating
    hung,         \* this worker was stopped for its heartbeat
    budgetHit,    \* ... for the campaign's budget
    elapsed,      \* time since t0
    restarts,     \* counted to the cap
    streak,       \* consecutive_fast_artifacts, counted to EscalateAfter
    fastDeath,    \* fast_fuzzing_death of the worker being judged
    verdict,      \* verdicts: input -> no entry, reproduced, or not
    hits,         \* Verdict.hits modulo ReverifyEvery
    outcome,      \* what judging this death came to
    saved,        \* the inputs save_confirmed_crash() has written
    unchecked     \* history: deaths an input's negative verdict was used for since a replay

superVars  == <<sp, active, terminating, hung, budgetHit, elapsed, restarts, streak, fastDeath>>
bookVars   == <<verdict, hits, outcome, saved, unchecked>>
vars == <<workerVars, superVars, bookVars>>

AgeCap == CHOOSE m \in {HangLimit, GraceLimit, FastCrash} :
              \A n \in {HangLimit, GraceLimit, FastCrash} : n <= m

Older(age, cap) == IF age < cap THEN age + 1 ELSE age

Init ==
    /\ WorkerInit
    /\ sp = "loop" /\ active = FALSE /\ terminating = FALSE
    /\ hung = FALSE /\ budgetHit = FALSE /\ elapsed = 0 /\ restarts = 0 /\ streak = 0
    /\ fastDeath = FALSE
    /\ verdict = [i \in Inputs |-> "none"] /\ hits = [i \in Inputs |-> 0]
    /\ outcome = "none" /\ saved = {} /\ unchecked = [i \in Inputs |-> 0]

\* Time passes, for the deadlines that are running.
Tick ==
    /\ hbAge' = Older(hbAge, AgeCap)
    /\ fuzzAge' = Older(fuzzAge, AgeCap)
    /\ elapsed' = Older(elapsed, Budget)
    /\ <<hbAge, fuzzAge, elapsed>>' # <<hbAge, fuzzAge, elapsed>>
    /\ UNCHANGED <<processVars, threadVars, slotVars, serialize, fatal, sp, active,
                   terminating, hung, budgetHit, restarts, streak, fastDeath, bookVars>>

\* supervisor_term_handler: forwarded to the active child, if there is one.
Terminate ==
    /\ Terminable /\ ~terminating /\ sp # "done"
    /\ terminating' = TRUE
    /\ IF active THEN Sigterm ELSE UNCHANGED mustStop
    /\ UNCHANGED <<wstate, status, threadVars, slotVars, ageVars, serialize, fatal, sp, active,
                   hung, budgetHit, elapsed, restarts, streak, fastDeath, bookVars>>

-------------------------------------------------------------------------------
(* One round of the campaign loop: fork ... *)

OverCapAlways(n) == n > MaxRestarts                   \* mutant: unbounded runs as well
OverCap(n) == Budget > 0 /\ n > MaxRestarts

\* remaining_s <= 1
BudgetSpent == Budget > 0 /\ elapsed + 1 >= Budget

CampaignOver ==
    /\ sp = "loop"
    /\ terminating \/ BudgetSpent
    /\ sp' = "done"
    /\ UNCHANGED <<workerVars, active, terminating, hung, budgetHit, elapsed, restarts,
                   streak, fastDeath, bookVars>>

SlotReset == EmptySlot

ForkWorker ==
    /\ sp = "loop" /\ ~terminating /\ ~BudgetSpent
    /\ wstate' = "init" /\ status' = "none" /\ mustStop' = FALSE
    /\ slot' = SlotReset /\ phase' = 0 /\ hbAge' = 0 /\ fuzzAge' = 0
    /\ fatal' = NoFault
    /\ sp' = "forked" /\ hung' = FALSE /\ budgetHit' = FALSE /\ outcome' = "none"
    /\ UNCHANGED <<threadVars, serialize, active, terminating, elapsed, restarts, streak,
                   fastDeath, verdict, hits, saved, unchecked>>

\* fork() failed: one second later the next try, which also counts as a restart.
ForkFails ==
    /\ ForkMayFail
    /\ sp = "loop" /\ ~terminating /\ ~BudgetSpent
    /\ restarts' = Older(restarts, MaxRestarts + 1)
    /\ sp' = IF OverCap(restarts + 1) THEN "done" ELSE "loop"
    /\ slot' = SlotReset /\ phase' = 0 /\ hbAge' = 0 /\ fuzzAge' = 0
    /\ UNCHANGED <<processVars, threadVars, serialize, fatal, active, terminating, hung,
                   budgetHit, elapsed, streak, fastDeath, bookVars>>

\* g_active_child.store(pid): a SIGTERM before it was not forwarded.
WatchWorker ==
    /\ sp = "forked"
    /\ active' = TRUE /\ sp' = "poll"
    /\ UNCHANGED <<workerVars, terminating, hung, budgetHit, elapsed, restarts, streak,
                   fastDeath, bookVars>>

-------------------------------------------------------------------------------
(* ... wait for its death ... *)

Deadline == IF phase = 1 THEN HangLimit ELSE GraceLimit

Stale == Deadline > 0 /\ hbAge >= Deadline

BudgetNotWatched == FALSE                             \* mutant: left to the worker
BudgetOver == Budget > 0 /\ elapsed >= Budget

\* mutant: the forwarded signal is trusted to end the worker
ReasonForwarded == IF Stale THEN "hung" ELSE IF BudgetOver THEN "budget" ELSE "none"

\* The heartbeat comes before the budget, and the budget before the orchestrator.
Reason ==
    IF Stale THEN "hung"
    ELSE IF BudgetOver THEN "budget"
    ELSE IF terminating THEN "terminating" ELSE "none"

PollStops ==
    /\ sp = "poll" /\ wstate # "dead" /\ Reason # "none"
    /\ hung' = (Reason = "hung") /\ budgetHit' = (Reason = "budget")
    /\ Sigterm
    /\ sp' = "grace"
    /\ UNCHANGED <<wstate, status, threadVars, slotVars, ageVars, serialize, fatal, active,
                   terminating, elapsed, restarts, streak, fastDeath, bookVars>>

GraceWaits == FALSE                                   \* mutant: no SIGKILL after SIGTERM

\* Five seconds after SIGTERM the worker is killed, unless it is reaped before.
GraceKills ==
    /\ sp = "grace" /\ wstate # "dead"
    /\ Dies("kill")
    /\ UNCHANGED <<slotVars, ageVars, serialize, fatal, superVars, bookVars>>

\* mutant: a clean exit ends the campaign even if the worker was told to go
FinishedEvenHung == status = "exit0"

\* Exit 0 is the end only of a worker that stopped on its own.
FinishedItself == status = "exit0" /\ ~hung

\* waitpid() returned the worker: the campaign ends here, or its death is judged.
Reap ==
    /\ sp \in {"poll", "grace"} /\ wstate = "dead"
    /\ active' = FALSE
    /\ sp' = IF budgetHit \/ terminating \/ FinishedItself THEN "done" ELSE "judge"
    /\ fastDeath' = (phase = 1 /\ fuzzAge < FastCrash)
    /\ UNCHANGED <<workerVars, terminating, hung, budgetHit, elapsed, restarts, streak,
                   bookVars>>

-------------------------------------------------------------------------------
(* ... judge it ... *)

HaveCandidate == status = "crash" /\ slot.magic /\ slot.armed

\* What a single-threaded replay may say; one that cannot be forked says no.
Replays(i) ==
    IF i \in Crashing THEN IF ForkMayFail THEN BOOLEAN ELSE {TRUE}
    ELSE IF i \in Flaky THEN BOOLEAN
    ELSE {FALSE}

\* mutant: whatever is in the slot is saved
JudgedSavesAll(result) ==
    /\ outcome' = result
    /\ sp' = "judged"
    /\ saved' = saved \cup {slot.data}

Judged(result) ==
    /\ outcome' = result
    /\ sp' = "judged"
    /\ saved' = IF result = "confirmed" THEN saved \cup {slot.data} ELSE saved

\* No crash, an engine-side fault, or a capture that failed: nothing to verify.
NothingToJudge ==
    /\ sp = "judge" /\ ~HaveCandidate
    /\ Judged("nothing")
    /\ UNCHANGED <<workerVars, active, terminating, hung, budgetHit, elapsed, restarts,
                   streak, fastDeath, verdict, hits, unchecked>>

Recorded(reproduced) ==
    IF Cardinality({i \in Inputs : verdict[i] # "none"}) < VerdictLimit
    THEN /\ verdict' = [verdict EXCEPT ![slot.data] = IF reproduced THEN "real" ELSE "not"]
         /\ hits' = [hits EXCEPT ![slot.data] = 1 % ReverifyEvery]
    ELSE UNCHANGED <<verdict, hits>>

\* An input without a verdict is replayed, and once more if it did not crash.
JudgeNew ==
    /\ sp = "judge" /\ HaveCandidate /\ verdict[slot.data] = "none"
    /\ \E first \in Replays(slot.data) : \E second \in Replays(slot.data) :
         /\ Judged(IF first \/ second THEN "confirmed" ELSE "artifact")
         /\ Recorded(first \/ second)
    /\ UNCHANGED <<workerVars, active, terminating, hung, budgetHit, elapsed, restarts,
                   streak, fastDeath, unchecked>>

\* mutant: any verdict on record counts as a reproduction
JudgeRealOrKnown ==
    /\ sp = "judge" /\ HaveCandidate /\ verdict[slot.data] # "none"
    /\ Judged("confirmed")
    /\ hits' = [hits EXCEPT ![slot.data] = (@ + 1) % ReverifyEvery]
    /\ UNCHANGED <<workerVars, active, terminating, hung, budgetHit, elapsed, restarts,
                   streak, fastDeath, verdict, unchecked>>

\* A real bug stays real.
JudgeReal ==
    /\ sp = "judge" /\ HaveCandidate /\ verdict[slot.data] = "real"
    /\ Judged("confirmed")
    /\ hits' = [hits EXCEPT ![slot.data] = (@ + 1) % ReverifyEvery]
    /\ UNCHANGED <<workerVars, active, terminating, hung, budgetHit, elapsed, restarts,
                   streak, fastDeath, verdict, unchecked>>

DueNever(h) == h = ReverifyEvery                      \* mutant: the count wraps before
Due(h) == (h + 1) % ReverifyEvery = 0

\* A negative verdict holds, but every ReverifyEvery-th hit is replayed again.
JudgeNegative ==
    /\ sp = "judge" /\ HaveCandidate /\ verdict[slot.data] = "not"
    /\ hits' = [hits EXCEPT ![slot.data] = (@ + 1) % ReverifyEvery]
    /\ \/ /\ Due(hits[slot.data])
          /\ \E reproduced \in Replays(slot.data) :
               /\ Judged(IF reproduced THEN "confirmed" ELSE "artifact")
               /\ verdict' = [verdict EXCEPT ![slot.data] = IF reproduced THEN "real" ELSE @]
          /\ unchecked' = [unchecked EXCEPT ![slot.data] = 0]
       \/ /\ ~Due(hits[slot.data])
          /\ Judged("artifact")
          /\ unchecked' = [unchecked EXCEPT ![slot.data] = Older(@, ReverifyEvery)]
          /\ UNCHANGED verdict
    /\ UNCHANGED <<workerVars, active, terminating, hung, budgetHit, elapsed, restarts,
                   streak, fastDeath>>

FastDeath == fastDeath                                \* mutant: confirmed bugs count as well
FastArtifact == outcome = "artifact" /\ fastDeath

\* ... and restart: the cap stops bounded runs only; EscalateAfter fast artifacts in a
\* row serialize the target for the workers to come.
Restart ==
    /\ sp = "judged"
    /\ streak' = IF FastArtifact THEN Older(streak, EscalateAfter) ELSE 0
    /\ restarts' = Older(restarts, MaxRestarts + 1)
    /\ IF OverCap(restarts + 1)
       THEN sp' = "done" /\ UNCHANGED serialize
       ELSE /\ sp' = "loop"
            /\ serialize' = (serialize \/ (EscalateAfter > 0 /\ streak' >= EscalateAfter))
    /\ wstate' = "none" /\ status' = "none"
    /\ UNCHANGED <<mustStop, threadVars, slotVars, ageVars, fatal, active, terminating, hung,
                   budgetHit, elapsed, fastDeath, bookVars>>

-------------------------------------------------------------------------------
Supervisor ==
    \/ CampaignOver \/ ForkWorker \/ ForkFails \/ WatchWorker
    \/ PollStops \/ GraceKills \/ Reap
    \/ NothingToJudge \/ JudgeNew \/ JudgeReal \/ JudgeNegative \/ Restart

Worker == WorkerStep /\ UNCHANGED <<superVars, bookVars>>

Finished == sp = "done" /\ UNCHANGED vars

Next == Supervisor \/ Worker \/ Tick \/ Terminate \/ Finished

Spec == Init /\ [][Next]_vars
-------------------------------------------------------------------------------
(* What arbitration must keep.                                              *)

SupervisorTypeOK ==
    /\ sp \in {"loop", "forked", "poll", "grace", "judge", "judged", "done"}
    /\ active \in BOOLEAN /\ terminating \in BOOLEAN /\ hung \in BOOLEAN
    /\ budgetHit \in BOOLEAN /\ fastDeath \in BOOLEAN
    /\ elapsed \in Nat /\ restarts \in 0 .. MaxRestarts + 1 /\ streak \in 0 .. EscalateAfter
    /\ verdict \in [Inputs -> {"none", "real", "not"}]
    /\ hits \in [Inputs -> 0 .. ReverifyEvery - 1]
    /\ outcome \in {"none", "nothing", "confirmed", "artifact"}
    /\ saved \subseteq Inputs
    /\ unchecked \in [Inputs -> 0 .. ReverifyEvery]

TypeOK == WorkerTypeOK /\ SupervisorTypeOK

\* What is arbitrated is the input of the very thread whose signal killed this worker:
\* not of one that faulted beside it, nor of a worker before.
CandidateIsFatal == sp = "judge" /\ HaveCandidate => slot.data = fatal.data

\* "Only crashes that reproduce single-threaded are treated as real": a crash that needs
\* a second thread is never saved, on whichever hit and after whatever verdict.
SavedReproduces == saved \subseteq Crashing \cup Flaky

\* A negative verdict is used for fewer than ReverifyEvery deaths in a row without a new
\* replay, so a flaky bug that keeps crashing workers is not discarded for good.
NegativesAreRechecked == \A i \in Inputs : unchecked[i] < ReverifyEvery

\* Serialization ends the races it is there for: no later worker dies of one.
SerializedHasNoRaces ==
    serialize /\ wstate = "dead" /\ status = "crash" /\ fatal.inTarget => fatal.data \notin Racy

\* A reproducible bug, however fast and often it kills the worker, never serializes the
\* target.
BugsNeverSerialize == [][~serialize /\ serialize' => fatal.data \notin Crashing]_vars

\* "The ONLY conditions that stop the campaign": without a budget it ends only when the
\* orchestrator asks for it or the worker finished on its own.
EndsOnlyWhenAsked ==
    sp = "done" /\ Budget = 0 => terminating \/ (status = "exit0" /\ ~hung)

\* The campaign as Campaign tells it.  A worker that is dead is judged at "judge"; until
\* then its death has not been seen.
Stage ==
    IF sp = "done" THEN "over"
    ELSE IF Alive THEN "alive"
    ELSE IF sp = "loop" THEN "idle"
    ELSE IF sp = "judged" THEN "judged" ELSE "dead"

Cause ==
    IF wstate # "dead" THEN "none"
    ELSE IF status = "crash" THEN "crash"
    ELSE IF status = "exit0" /\ ~hung THEN "finished" ELSE "lost"

Culprit == IF Cause = "crash" THEN fatal.data ELSE NoInput

Camp == INSTANCE Campaign WITH
    Reproducible <- Crashing \cup Flaky,
    Limited      <- Budget > 0,
    stage        <- Stage,
    cause        <- Cause,
    culprit      <- Culprit,
    confirmed    <- outcome = "confirmed",
    serialized   <- serialize,
    asked        <- terminating

\* However deaths, signals, deadlines and replays interleave, the supervisor conducts the
\* campaign Campaign describes: each death judged once and before the next worker, only
\* its own input saved, serialization only after a crash that did not reproduce, and no
\* end but by request, limit or success.
CampaignSpec == Camp!Spec

\* "An engine fault must not trip serialization" (violated: the thread stays armed while
\* the engine collects the coverage of the call, so a fault there passes for an artifact).
EngineFaultsNeverSerialize == [][~serialize /\ serialize' => fatal.inTarget]_vars

-------------------------------------------------------------------------------
(* What must happen in the end. *)

\* The supervisor is scheduled and time passes; the worker owes nothing.
FairSpec == Spec /\ WF_vars(Supervisor) /\ WF_vars(Tick)

\* A SIGTERM at any moment, also between fork and g_active_child, ends the campaign and
\* leaves no worker behind.
TerminationObeyed == terminating ~> (sp = "done" /\ ~Alive)

\* A worker none of whose threads can go on is replaced, although nothing in it bounds a
\* target call.
Wedged ==
    /\ Alive
    /\ \E t \in inside : loc[t] = "in"
    /\ \A t \in Threads : \/ loc[t] = "in" /\ input[t] \in Hanging
                          \/ loc[t] = "armed" /\ ~MutexFree

WedgedIsReplaced == Wedged ~> ~Alive

\* Without a budget a worker's death, of whatever kind and however often, is followed by
\* a new worker.
CampaignGoesOn ==
    Budget = 0 /\ wstate = "dead" /\ (status = "exit0" => hung) ~> Alive \/ terminating

\* A campaign with a budget ends.
BudgetIsKept == Budget > 0 => <>(sp = "done")
===============================================================================
