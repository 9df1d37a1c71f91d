------------------------------- MODULE Campaign -------------------------------
(***************************************************************************)
(* What the crash arbiter promises about a fuzzing campaign, said without  *)
(* signals, clocks, threads or a verdict cache.  Workers follow one        *)
(* another.  Each death is judged exactly once, before the next worker     *)
(* starts; only the input that caused it can be saved, and only if it      *)
(* crashes the target on its own.  The target is serialized between two    *)
(* workers, after a crash that did not reproduce, and for good.  Nothing   *)
(* but a request, a limit or the worker's own success ends the campaign.   *)
(*                                                                         *)
(* CrashArbiter implements this specification.                             *)
(***************************************************************************)
CONSTANTS
    Inputs,        \* what a worker may die of
    NoInput,
    Reproducible,  \* the inputs that may crash the target single-threaded
    Limited        \* has the campaign a time or restart limit?

VARIABLES
    stage,       \* idle, alive, dead, judged, over
    cause,       \* of the last death: none, crash, finished, lost
    culprit,     \* the input that crashed the worker, if an input did
    confirmed,   \* did that crash reproduce?
    saved,       \* the crashes reported
    serialized,  \* may one thread only be inside the target?
    asked        \* was the campaign told to end?

campaignVars == <<stage, cause, culprit, confirmed, saved, serialized, asked>>

Init ==
    /\ stage = "idle" /\ cause = "none" /\ culprit = NoInput
    /\ confirmed = FALSE /\ saved = {} /\ serialized = FALSE /\ asked = FALSE

Ask ==
    /\ stage # "over" /\ ~asked
    /\ asked' = TRUE
    /\ UNCHANGED <<stage, cause, culprit, confirmed, saved, serialized>>

Start ==
    /\ stage = "idle" /\ ~asked
    /\ stage' = "alive" /\ confirmed' = FALSE
    /\ UNCHANGED <<cause, culprit, saved, serialized, asked>>

Crash(i) ==
    /\ stage = "alive"
    /\ stage' = "dead" /\ cause' = "crash" /\ culprit' = i
    /\ UNCHANGED <<confirmed, saved, serialized, asked>>

\* The worker reached a limit of its own, or was stopped, killed or failed to start.
Depart ==
    /\ stage = "alive"
    /\ stage' = "dead" /\ cause' \in {"finished", "lost"}
    /\ UNCHANGED <<culprit, confirmed, saved, serialized, asked>>

Confirm ==
    /\ stage = "dead" /\ cause = "crash" /\ culprit \in Reproducible
    /\ stage' = "judged" /\ confirmed' = TRUE
    /\ saved' = saved \cup {culprit}
    /\ UNCHANGED <<cause, culprit, serialized, asked>>

\* A worker that finished is not followed by another, so there is nothing to judge.
Dismiss ==
    /\ stage = "dead" /\ cause # "finished"
    /\ stage' = "judged"
    /\ UNCHANGED <<cause, culprit, confirmed, saved, serialized, asked>>

Continue ==
    /\ stage = "judged"
    /\ stage' = "idle" /\ cause' = "none" /\ culprit' = NoInput
    /\ serialized' \in {serialized, serialized \/ (cause = "crash" /\ ~confirmed)}
    /\ UNCHANGED <<confirmed, saved, asked>>

\* The end: a worker's death, or the moment between two workers.
Stop ==
    /\ stage = "dead" /\ (asked \/ Limited \/ cause = "finished")
    /\ stage' = "over"
    /\ UNCHANGED <<cause, culprit, confirmed, saved, serialized, asked>>

StopBetween ==
    /\ stage \in {"idle", "judged"}
    /\ Limited \/ (asked /\ stage = "idle")
    /\ stage' = "over" /\ cause' = "none" /\ culprit' = NoInput
    /\ UNCHANGED <<confirmed, saved, serialized, asked>>

Next ==
    \/ Ask \/ Start \/ Depart \/ Confirm \/ Dismiss \/ Continue \/ Stop \/ StopBetween
    \/ \E i \in Inputs \cup {NoInput} : Crash(i)

Spec == Init /\ [][Next]_campaignVars
===============================================================================
