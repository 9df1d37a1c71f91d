------------------------------ MODULE TaskLedger ------------------------------
(***************************************************************************)
(* What the TrioFuzz task pipeline promises about a fuzzing task, said     *)
(* without threads, queues or buffers.  A task id is drawn once; its task  *)
(* is executed at most once, its result is booked by the scheduler at most *)
(* once, and the learner is told about it at most once.  Only stopping the *)
(* engine loses a task, and never one that is executing.                   *)
(*                                                                         *)
(* TrioPipeline implements this specification.                             *)
(***************************************************************************)
EXTENDS Naturals

CONSTANT MaxTaskId      \* how many task ids a behaviour may draw (bound)

VARIABLES
    drawn,      \* how many ids have been drawn
    waiting,    \* tasks for the workers that nobody executes yet
    executing,  \* tasks in the hands of a worker or an explorer
    executed,   \* tasks whose result the scheduler has still to book
    booked,     \* tasks whose result the scheduler has booked
    learned     \* tasks whose outcome the learner has been given

ledgerVars == <<drawn, waiting, executing, executed, booked, learned>>

LedgerTypeOK ==
    /\ drawn \in 0 .. MaxTaskId
    /\ \A S \in {waiting, executing, executed, booked, learned} : S \subseteq 0 .. (drawn - 1)

Init ==
    /\ drawn = 0
    /\ waiting = {} /\ executing = {} /\ executed = {} /\ booked = {} /\ learned = {}

\* A new id is for a worker, for the explorer that drew it, or for nothing: the
\* corpus had no seed.
Draw ==
    /\ drawn < MaxTaskId
    /\ drawn' = drawn + 1
    /\ \/ waiting' = waiting \cup {drawn} /\ UNCHANGED executing
       \/ executing' = executing \cup {drawn} /\ UNCHANGED waiting
       \/ UNCHANGED <<waiting, executing>>
    /\ UNCHANGED <<executed, booked, learned>>

Begin(t) ==
    /\ t \in waiting
    /\ waiting' = waiting \ {t}
    /\ executing' = executing \cup {t}
    /\ UNCHANGED <<drawn, executed, booked, learned>>

\* An explorer tells the learner as soon as it has executed; a worker does not.
Execute(t) ==
    /\ t \in executing
    /\ executing' = executing \ {t}
    /\ executed' = executed \cup {t}
    /\ learned' \in {learned, learned \cup {t}}
    /\ UNCHANGED <<drawn, waiting, booked>>

\* The scheduler books a result, and tells the learner of a worker's task.
Book(t) ==
    /\ t \in executed
    /\ executed' = executed \ {t}
    /\ booked' = booked \cup {t}
    /\ learned' = learned \cup {t}
    /\ UNCHANGED <<drawn, waiting, executing>>

\* Stopping the engine drops what no thread holds any more.
Drop ==
    /\ executing = {}
    /\ waiting' = {} /\ executed' = {}
    /\ UNCHANGED <<drawn, executing, booked, learned>>

Next ==
    \/ Draw \/ Drop
    \/ \E t \in waiting : Begin(t)
    \/ \E t \in executing : Execute(t)
    \/ \E t \in executed : Book(t)

Spec == Init /\ [][Next]_ledgerVars
===============================================================================
