--------------------------- MODULE UnifiedLearner ---------------------------
(***************************************************************************)
(* processResult() of TrioFuzzUnifiedLearner                               *)
(* (src/include/core/triofuzz_unified_learner.hpp), called by the          *)
(* scheduler and by every explorer at the same time.  A result is fed to   *)
(* the Thompson-sampling layer, whose windows a mutex guards, and then,    *)
(* by its configuration arm, to the MOpt layer (one critical section) or   *)
(* to the Markov layer, where only the rebuild of the alias tables is      *)
(* under a lock and the counters that trigger it are bare atomics.         *)
(*                                                                         *)
(* The splice and the nosplice instance of a layer share nothing; there is *)
(* one of each here, and an arm of the other kind feeds neither.  Time is  *)
(* left out: whether a period has elapsed since the last update is any     *)
(* choice, as a step may take any time (and last_update_time_ of the       *)
(* Markov layer is written and read without the lock).  Left out too are   *)
(* the numbers that only weigh random choices: alpha and beta with their   *)
(* decay, the particle swarm, exploration_boost_, best_stack_.             *)
(***************************************************************************)
EXTENDS Integers, Sequences, FiniteSets, Functions

CONSTANTS
    Callers,       \* the scheduler and the explorers
    Nobody,        \* no caller
    Arms,          \* configuration arms
    MarkovArms,    \* those that feed the Markov layer
    MOptArms,      \* those that feed the MOpt layer
    NumOps,        \* n_, the operators of the Markov layer
    OpSequences,   \* the operator sequences of tasks; none is empty
    TSPeriod, TSMin,           \* update_period_ and min_samples_ of TrioFuzzTS
    MOptPeriod, MOptMin,       \* the same of TrioFuzzMOptPSO
    AliasInterval, MarkovMin,  \* alias_interval_ and min_samples_ of TrioFuzzMarkov
    MaxResults                 \* bound: results processed

Ops == 0 .. NumOps - 1

ASSUME LearnerAssumption ==
    /\ IsFiniteSet(Callers) /\ Callers # {} /\ Nobody \notin Callers
    /\ MarkovArms \subseteq Arms /\ MOptArms \subseteq Arms
    /\ MarkovArms \cap MOptArms = {}
    /\ NumOps \in Nat \ {0}
    /\ OpSequences \subseteq Seq(Nat) \ {<<>>}
    /\ {TSPeriod, TSMin, MOptPeriod, MOptMin, AliasInterval, MarkovMin, MaxResults}
         \subseteq Nat

VARIABLES
    results,    \* total_results_
    \* TrioFuzzTS
    uses,       \* per arm, atomic
    finds,      \* per arm, atomic
    window,     \* window_execs_ and window_finds_, under mtx_
    learned,    \* what updateWindow() was given so far
    \* TrioFuzzMOptPSO, under mtx_
    mopt,       \* execs_, execs_since_update_, updates_
    \* TrioFuzzMarkov
    trans,      \* trans_[..].finds by previous and next operator, atomic
    since,      \* since_update_, atomic
    tables,     \* per previous operator, the prob_ row its alias table is made of
    row,        \* the row the rebuild under way comes to next
    before,     \* trans, when the rebuild under way took mtx_
    \* the callers
    pc,         \* where each is in processResult()
    task,       \* the result each has in hand
    \* history
    recorded,   \* results in trans
    counted,    \* fetch_adds on since_update_
    begun,      \* recorded, when the rebuild under way took mtx_
    covered,    \* recorded, when the last finished one did
    triggers,   \* how often since_update_ triggered a rebuild
    fresh       \* callers that triggered one since since_update_ was last reset

statVars    == <<results, uses, finds>>
windowVars  == <<window, learned>>
tableVars   == <<tables, row, before, begun, covered>>
triggerVars == <<since, counted, triggers, fresh>>
vars == <<statVars, windowVars, mopt, trans, tableVars, triggerVars, pc, task, recorded>>

Locations == {"out", "window", "mopt", "markov", "count", "reset", "lock", "rebuild"}
At(l) == {c \in Callers : pc[c] = l}

Counts == [Ops -> [Ops -> Nat]]
Ones   == [i \in Ops |-> [j \in Ops |-> 1]]

\* A row of prob_ is finds / total, both as they were read.
Row == [total : Nat, finds : [Ops -> Nat]]

Tasks == [arm : Arms, found : BOOLEAN]
NoTask == [arm |-> Nobody]

Init ==
    /\ results = 0
    /\ uses = [a \in Arms |-> 0] /\ finds = [a \in Arms |-> 0]
    /\ window = [a \in Arms |-> [execs |-> 0, finds |-> 0]]
    /\ learned = [a \in Arms |-> [finds |-> 0, fails |-> 0]]
    /\ mopt = [execs |-> 0, since |-> 0, updates |-> 0]
    /\ trans = Ones /\ before = Ones /\ row = 0
    /\ tables = [i \in Ops |-> [total |-> NumOps, finds |-> Ones[i]]]
    /\ since = 0 /\ counted = 0 /\ triggers = 0 /\ fresh = {}
    /\ pc = [c \in Callers |-> "out"]
    /\ task = [c \in Callers |-> NoTask]
    /\ recorded = 0 /\ begun = 0 /\ covered = 0

Goto(c, l) == pc' = [pc EXCEPT ![c] = l]

\* processResult() returns.
Return(c) == Goto(c, "out") /\ task' = [task EXCEPT ![c] = NoTask]

-----------------------------------------------------------------------------
(* Layer 1: Thompson sampling.                                             *)

One(found) == IF found THEN 1 ELSE 0

\* The atomic counters, before the mutex.
Enter(c, t) ==
    /\ pc[c] = "out" /\ results < MaxResults
    /\ results' = results + 1
    /\ uses' = [uses EXCEPT ![t.arm] = @ + 1]
    /\ finds' = [finds EXCEPT ![t.arm] = @ + One(t.found)]
    /\ task' = [task EXCEPT ![c] = t]
    /\ Goto(c, "window")
    /\ UNCHANGED <<windowVars, mopt, trans, tableVars, triggerVars, recorded>>

\* mutant: no least number of samples once the time has elapsed
DueByTime(n, period, least, elapsed) == n >= period \/ elapsed

\* The hybrid trigger of all layers: enough executions, or time and some executions.
Due(n, period, least, elapsed) == n >= period \/ (elapsed /\ n >= least)

\* The window of an arm after one more result.
Grown(a, found) ==
    [execs |-> window[a].execs + 1, finds |-> window[a].finds + One(found)]

\* mutant: the finds of the window are kept
FlushKeepsFinds(a, w) ==
    /\ window' = [window EXCEPT ![a] = [execs |-> 0, finds |-> w.finds]]
    /\ learned' = [learned EXCEPT ![a].finds = @ + w.finds,
                                  ![a].fails = @ + (w.execs - w.finds)]

\* updateWindow(): the posterior of the arm takes the window w in, which starts anew.
Flush(a, w) ==
    /\ window' = [window EXCEPT ![a] = [execs |-> 0, finds |-> 0]]
    /\ learned' = [learned EXCEPT ![a].finds = @ + w.finds,
                                  ![a].fails = @ + (w.execs - w.finds)]

\* The critical section of TrioFuzzTS::update, and the branch to the next layer: an
\* analysis result feeds no other.
UpdateWindow(c, elapsed) ==
    /\ pc[c] = "window"
    /\ LET a == task[c].arm
           w == Grown(a, task[c].found)
       IN  \/ Due(w.execs, TSPeriod, TSMin, elapsed) /\ Flush(a, w)
           \/ /\ ~Due(w.execs, TSPeriod, TSMin, elapsed)
              /\ window' = [window EXCEPT ![a] = w] /\ UNCHANGED learned
    /\ \/ task[c].arm \in MOptArms /\ Goto(c, "mopt") /\ UNCHANGED task
       \/ task[c].arm \in MarkovArms /\ Goto(c, "markov") /\ UNCHANGED task
       \/ task[c].arm \notin MOptArms \cup MarkovArms /\ Return(c)
    /\ UNCHANGED <<statVars, mopt, trans, tableVars, triggerVars, recorded>>

-----------------------------------------------------------------------------
(* Layer 2: MOpt.                                                          *)

\* TrioFuzzMOptPSO::update, all of it under the lock; a period of 0 is no trigger.
UpdateMOpt(c, elapsed) ==
    /\ pc[c] = "mopt"
    /\ LET n == mopt.since + 1
           due == (MOptPeriod > 0 /\ n >= MOptPeriod) \/ (elapsed /\ n >= MOptMin)
       IN  mopt' = [execs |-> mopt.execs + 1, since |-> IF due THEN 0 ELSE n,
                    updates |-> mopt.updates + (IF due THEN 1 ELSE 0)]
    /\ Return(c)
    /\ UNCHANGED <<statVars, windowVars, trans, tableVars, triggerVars, recorded>>

-----------------------------------------------------------------------------
(* Layer 3: Markov.                                                        *)

\* How often j follows i in a sequence.
Pairs(seq, i, j) ==
    Cardinality({k \in 1 .. Len(seq) - 1 : seq[k] = i /\ seq[k + 1] = j})

\* The finds of the transitions, one fetch_add each.  A rebuild that meets only some of
\* them reads what one reads that began before and meets them all: see RowsRead.
Record(c, seq) ==
    /\ pc[c] = "markov"
    /\ trans' = [i \in Ops |-> [j \in Ops |->
                   trans[i][j] + (IF task[c].found THEN Pairs(seq, i, j) ELSE 0)]]
    /\ recorded' = recorded + 1
    /\ Goto(c, "count")
    /\ UNCHANGED <<statVars, windowVars, mopt, tableVars, triggerVars, task>>

\* The fetch_add on since_update_, and the decision to rebuild.
Count(c, elapsed) ==
    /\ pc[c] = "count"
    /\ since' = since + 1 /\ counted' = counted + 1
    /\ \/ /\ Due(since + 1, AliasInterval, MarkovMin, elapsed)
          /\ triggers' = triggers + 1 /\ fresh' = fresh \cup {c}
          /\ Goto(c, "reset") /\ UNCHANGED task
       \/ /\ ~Due(since + 1, AliasInterval, MarkovMin, elapsed)
          /\ UNCHANGED <<triggers, fresh>> /\ Return(c)
    /\ UNCHANGED <<statVars, windowVars, mopt, trans, tableVars, recorded>>

\* since_update_.store(0)
Reset(c) ==
    /\ pc[c] = "reset"
    /\ since' = 0 /\ fresh' = {}
    /\ Goto(c, "lock")
    /\ UNCHANGED <<statVars, windowVars, mopt, trans, tableVars, counted, triggers,
                   task, recorded>>

\* mutant: the tables are rebuilt without the lock
RebuildBeginUnlocked(c) ==
    /\ pc[c] = "lock"
    /\ before' = trans /\ begun' = recorded
    /\ Goto(c, "rebuild")
    /\ UNCHANGED <<statVars, windowVars, mopt, trans, tables, row, covered, triggerVars,
                   task, recorded>>

\* rebuildAlias() takes the lock; sampleAlias() waits until it is done.
RebuildBegin(c) ==
    /\ pc[c] = "lock" /\ At("rebuild") = {}
    /\ before' = trans /\ begun' = recorded
    /\ Goto(c, "rebuild")
    /\ UNCHANGED <<statVars, windowVars, mopt, trans, tables, row, covered, triggerVars,
                   task, recorded>>

\* The counters of a row are read twice, for the total and then for the probabilities,
\* while other callers count on: the second pass reads of each a value between the one
\* at the beginning and the present one, the first pass a value in between.
Total(f) == SumFunctionOnSet(f, Ops)

Between(f, g) ==
    {h \in [Ops -> UNION {f[j] .. g[j] : j \in Ops}] : \A j \in Ops : h[j] \in f[j] .. g[j]}

RowsRead(i) ==
    UNION {{[total |-> n, finds |-> f] : n \in {m \in 0 .. Total(f) : m >= Total(before[i])}}
             : f \in Between(before[i], trans[i])}

\* A row is rebuilt.
RebuildRow(c) ==
    /\ pc[c] = "rebuild" /\ row < NumOps
    /\ \E r \in RowsRead(row) : tables' = [tables EXCEPT ![row] = r]
    /\ row' = row + 1
    /\ UNCHANGED <<statVars, windowVars, mopt, trans, before, begun, covered, triggerVars,
                   pc, task, recorded>>

\* mutant: since_update_ is reset when the rebuild is done, too
RebuildEndResets(c) ==
    /\ pc[c] = "rebuild" /\ row = NumOps
    /\ row' = 0 /\ before' = Ones /\ begun' = 0 /\ covered' = begun
    /\ since' = 0
    /\ Return(c)
    /\ UNCHANGED <<statVars, windowVars, mopt, trans, tables, counted, triggers, fresh,
                   recorded>>

\* rebuildAlias() gives the lock back and update() returns.
RebuildEnd(c) ==
    /\ pc[c] = "rebuild" /\ row = NumOps
    /\ row' = 0 /\ before' = Ones /\ begun' = 0 /\ covered' = begun
    /\ Return(c)
    /\ UNCHANGED <<statVars, windowVars, mopt, trans, tables, triggerVars, recorded>>

-----------------------------------------------------------------------------
(* buildAlias() of a row, with every number multiplied by its total.       *)

\* small and large are stacks.  prob and idx are alias_prob_ and alias_idx_ of the row;
\* what is never paired ends as it is set here.
Unsorted(p) ==
    [scaled |-> [i \in Ops |-> p.finds[i] * NumOps],
     small  |-> <<>>, large |-> <<>>,
     prob   |-> [i \in Ops |-> p.total],
     idx    |-> [i \in Ops |-> i]]

\* An operator is below the average or not.
Sort(b, i, total) ==
    IF b.scaled[i] < total THEN [b EXCEPT !.small = Append(@, i)]
                           ELSE [b EXCEPT !.large = Append(@, i)]

Sorted(p) ==
    LET sorted[k \in 0 .. NumOps] ==
          IF k = 0 THEN Unsorted(p) ELSE Sort(sorted[k - 1], k - 1, p.total)
    IN  sorted[NumOps]

Top(stack)    == stack[Len(stack)]
Popped(stack) == SubSeq(stack, 1, Len(stack) - 1)

\* mutant: what l has is taken off, not what it lacks
SurplusOwn(b, l, g, total) == b.scaled[g] - b.scaled[l]

\* What g keeps when it has filled l up to the average.
Surplus(b, l, g, total) == b.scaled[g] + b.scaled[l] - total

\* The last small one takes what it lacks from the last large one.
Pair(b, total) ==
    IF b.small = <<>> \/ b.large = <<>> THEN b
    ELSE LET l    == Top(b.small)
             g    == Top(b.large)
             rest == Surplus(b, l, g, total)
         IN  [scaled |-> [b.scaled EXCEPT ![g] = rest],
              small  |-> IF rest < total THEN Append(Popped(b.small), g) ELSE Popped(b.small),
              large  |-> IF rest < total THEN Popped(b.large) ELSE b.large,
              prob   |-> [b.prob EXCEPT ![l] = b.scaled[l]],
              idx    |-> [b.idx EXCEPT ![l] = g]]

\* Every turn of the loop is the last for one operator.
AliasTable(p) ==
    LET paired[k \in 0 .. NumOps] ==
          IF k = 0 THEN Sorted(p) ELSE Pair(paired[k - 1], p.total)
    IN  paired[NumOps]

\* sampleAlias(): the chance of j, in 1/(NumOps * total), by itself or as an alias.
Chance(b, total, j) ==
    b.prob[j] + SumFunctionOnSet([i \in Ops |-> IF b.idx[i] = j THEN total - b.prob[i]
                                                               ELSE 0], Ops)

-----------------------------------------------------------------------------

Next ==
    \E c \in Callers :
        \/ \E t \in Tasks : Enter(c, t)
        \/ \E elapsed \in BOOLEAN :
             UpdateWindow(c, elapsed) \/ UpdateMOpt(c, elapsed) \/ Count(c, elapsed)
        \/ \E seq \in OpSequences : Record(c, seq)
        \/ Reset(c) \/ RebuildBegin(c) \/ RebuildRow(c) \/ RebuildEnd(c)

Spec == Init /\ [][Next]_vars

-----------------------------------------------------------------------------
(* Properties.                                                             *)

\* The type invariant of the three layers and the callers.
TypeOK ==
    /\ results \in Nat
    /\ uses \in [Arms -> Nat] /\ finds \in [Arms -> Nat]
    /\ window \in [Arms -> [execs : Nat, finds : Nat]]
    /\ learned \in [Arms -> [finds : Nat, fails : Nat]]
    /\ mopt \in [execs : Nat, since : Nat, updates : Nat]
    /\ trans \in Counts /\ before \in Counts
    /\ tables \in [Ops -> Row] /\ row \in 0 .. NumOps
    /\ since \in Nat /\ counted \in Nat /\ triggers \in Nat /\ fresh \subseteq Callers
    /\ pc \in [Callers -> Locations]
    /\ task \in [Callers -> Tasks \cup {NoTask}]
    /\ recorded \in Nat /\ begun \in Nat /\ covered \in Nat

\* Those that counted a result of the arm and have not brought it to the window.
OnTheirWay(a) == {c \in At("window") : task[c].arm = a}

\* Every use and every find of an arm is in exactly one window given to its posterior, in
\* the window being filled, or with a caller between the atomics and the mutex: whatever
\* the callers interleave, the posterior is given no result twice and misses none.
EachResultInOneWindow ==
    \A a \in Arms :
        /\ uses[a] = learned[a].finds + learned[a].fails + window[a].execs
                       + Cardinality(OnTheirWay(a))
        /\ finds[a] = learned[a].finds + window[a].finds
                       + Cardinality({c \in OnTheirWay(a) : task[c].found})

\* Once the triggered rebuilds are done the alias tables lag behind the transitions by no
\* more results than since_update_ shows and those about to be added to it: resetting it
\* outside of the lock, by several callers, loses no result for the next rebuild.
TablesFollow ==
    At("lock") \cup At("rebuild") = {} =>
        recorded - covered <= since + Cardinality(At("count"))

\* A rebuild never takes a find back that an earlier one had seen.
TablesOnlyAdvance ==
    [][\A i, j \in Ops : tables'[i].finds[j] >= tables[i].finds[j]]_vars

Least == IF AliasInterval < MarkovMin THEN AliasInterval ELSE MarkovMin

\* min_samples is not kept by each rebuild, as callers race for the trigger, but on
\* average every rebuild has its share of them, 1/|Callers|.
RebuildsAreBacked == triggers * Least <= Cardinality(Callers) * counted

\* The alias table of every row draws each operator in proportion to its finds, and if
\* the row was read while finds were added it still draws every operator, none more
\* often than in that proportion.
TablesAreSound ==
    \A i \in Ops :
        LET b         == AliasTable(tables[i])
            drawn(j)  == Chance(b, tables[i].total, j)
            wanted(j) == tables[i].finds[j] * NumOps
        IN  \A j \in Ops :
              /\ 0 < drawn(j) /\ drawn(j) <= wanted(j)
              /\ tables[i].total = Total(tables[i].finds) => drawn(j) = wanted(j)
=============================================================================
