------------------------------- MODULE EcoFuzz -------------------------------
(***************************************************************************)
(* The EcoFuzz seed schedule of SpecializedThreadEngine                    *)
(* (src/src/core/specialized_thread_engine.cpp).  A selector, the          *)
(* scheduler or an explorer thread, opens a cycle: it picks a seed, is     *)
(* granted an energy and makes that many tasks of the seed, one per call;  *)
(* the scheduler books the results and closes the cycle when it has seen   *)
(* as many as the energy.  The pick and the booking of a result are each   *)
(* one section of ecofuzz_mutex_, the fetch of the seed is outside of it.  *)
(*                                                                         *)
(* The corpus is changed by other threads at any time: what a refresh      *)
(* finds there, and whether its size differs and a second has passed, is   *)
(* any choice.  The energy formula is left out (rate, n_fuzz, average      *)
(* cost, last_found and fuzz_level only feed it): an energy is any value   *)
(* of its range.  Tasks of one cycle are alike: those in flight are a      *)
(* count.                                                                  *)
(***************************************************************************)
EXTENDS Integers, FiniteSets, Functions

CONSTANTS
    Selectors,    \* the scheduler and the explorers
    Hashes,       \* seed hashes; 0 stands for "no seed" in the code
    MaxCycles,    \* bound: cycles a behaviour may open
    Energies,     \* the energies each cycle may be granted (1..1000)
    MaxFinds,     \* bound: results with new coverage
    MaxRestarts   \* bound: how often the engine is stopped and started again

CycleIds == 1 .. MaxCycles
NoCycle  == 0

ASSUME EcoFuzzAssumption ==
    /\ Hashes \subseteq Nat \ {0} /\ IsFiniteSet(Hashes)
    /\ Selectors # {}
    /\ Energies \in [CycleIds -> SUBSET (Nat \ {0})]
    /\ MaxCycles \in Nat /\ MaxFinds \in Nat /\ MaxRestarts \in Nat

VARIABLES
    \* under ecofuzz_mutex_
    pool,       \* ecofuzz_seed_pool_, iterated in ascending order
    stats,      \* ecofuzz_seed_stats_; serial 0 where there is no entry
    total,      \* total_fuzz and path_increase of ecofuzz_global_
    open,       \* the keys of ecofuzz_cycles_
    cycle,      \* the cycles opened, by id
    nextCycle,  \* ecofuzz_next_cycle_id_
    \* the selectors
    fetching,   \* those between the pick and the answer of getSeedByHash()
    mine,       \* tls_ecofuzz.cycle_id
    left,       \* tls_ecofuzz.remaining
    \* elsewhere in the engine, and history
    out,        \* tasks of each cycle whose result is not booked yet
    lost,       \* history: tasks of each cycle that stop() dropped or prevented
    restarts,   \* stop() and start() so far
    waited      \* history: state-2 picks in this pool since the seed's own

cycleVars  == <<open, cycle, nextCycle>>
selectVars == <<fetching, mine, left>>
vars == <<pool, stats, total, cycleVars, selectVars, out, lost, restarts, waited>>

SeedStats == [serial : Nat, state : {0, 2}, fuzzed : BOOLEAN,
              mutations : Nat, misses : Nat, lastEnergy : Nat]

\* misses is exec_by_mutation, which starts at 1; mutations is mutation_num.
NoStats == [serial |-> 0, state |-> 0, fuzzed |-> FALSE,
            mutations |-> 0, misses |-> 1, lastEnergy |-> 0]

NoneOpened == [seed |-> 0, energy |-> 0, seen |-> 0, start |-> 0]

Init ==
    /\ pool = {}
    /\ stats = [h \in Hashes |-> NoStats]
    /\ total = [fuzz |-> 0, finds |-> 0]
    /\ open = {} /\ cycle = [c \in CycleIds |-> NoneOpened] /\ nextCycle = 1
    /\ fetching = {}
    /\ mine = [s \in Selectors |-> NoCycle]
    /\ left = [s \in Selectors |-> 0]
    /\ out = [c \in CycleIds |-> 0]
    /\ lost = [c \in CycleIds |-> 0]
    /\ restarts = 0
    /\ waited = [h \in Hashes |-> 0]

-----------------------------------------------------------------------------
(* The refresh and the pick, on a pool P, statistics st and waits w.       *)

\* Seeds new to the statistics get the next serial numbers, in ascending order.
Serial(P, h) ==
    Cardinality({g \in Hashes : stats[g].serial > 0})
      + Cardinality({g \in P : stats[g].serial = 0 /\ g <= h})

\* refresh_seed_pool_locked() finds the seeds P; or P is the pool as it was.
Entered(P) ==
    [h \in Hashes |-> IF h \in P /\ stats[h].serial = 0
                      THEN [NoStats EXCEPT !.serial = Serial(P, h)]
                      ELSE stats[h]]

WaitsIn(P) == IF P = pool THEN waited ELSE [h \in Hashes |-> 0]

\* State 1: the first seed of the pool that was never picked.
FirstUnfuzzed(P, st, h) ==
    /\ h \in P /\ ~st[h].fuzzed
    /\ \A g \in P : g < h => st[g].fuzzed

\* State 2: among the seeds of this round, all of them when the round is over.
Round(P, st) == {h \in P : st[h].state = 0}
Candidates(P, st) == IF Round(P, st) = {} THEN P ELSE Round(P, st)

\* get_sqrt of a serial number, which is at least 1.
Root(n) == CHOOSE r \in 0..n : r * r <= n /\ n < (r + 1) * (r + 1)

\* lhs < rhs: q has fewer misses per mutation than p, weighted by age.
Cheaper(q, p) ==
    q.misses * p.mutations * Root(p.serial) < p.misses * q.mutations * Root(q.serial)

\* The scan of the pool keeps the first of the cheapest.
Cheapest(P, st, h) ==
    /\ h \in Candidates(P, st)
    /\ \A g \in Candidates(P, st) :
         ~Cheaper(st[g], st[h]) /\ (g < h => Cheaper(st[h], st[g]))

\* mutant: the picked seed stays in the round
NewStatesKeep(P, st, h) ==
    [g \in Hashes |-> IF g \in P /\ Round(P, st) = {} THEN [st[g] EXCEPT !.state = 0]
                                                       ELSE st[g]]

\* A new round starts with every state reset; the picked seed leaves the round.
NewStates(P, st, h) ==
    [g \in Hashes |-> IF g = h THEN [st[g] EXCEPT !.state = 2]
                      ELSE IF g \in P /\ Round(P, st) = {} THEN [st[g] EXCEPT !.state = 0]
                      ELSE st[g]]

NewWaits(P, w, h) ==
    [g \in Hashes |-> IF g = h \/ g \notin P THEN 0 ELSE w[g] + 1]

PickUnfuzzed(P, st, w, h) ==
    /\ FirstUnfuzzed(P, st, h)
    /\ stats' = [st EXCEPT ![h].fuzzed = TRUE]
    /\ waited' = w

PickCheapest(P, st, w, h) ==
    /\ \A g \in P : st[g].fuzzed
    /\ Cheapest(P, st, h)
    /\ stats' = NewStates(P, st, h)
    /\ waited' = NewWaits(P, w, h)

-----------------------------------------------------------------------------
(* A selector.                                                             *)

\* Tasks of a cycle in the queues and workers, and those its selector may still make.
Holders(c) == {s \in Selectors : mine[s] = c}
LeftOf(c) == IF Holders(c) = {} THEN 0 ELSE left[CHOOSE s \in Holders(c) : TRUE]
Outstanding(c) == out[c] + LeftOf(c)

\* The selector makes a task of its seed, of n it may make.  The thread-local keeps the
\* cycle of which nothing is left, but nobody reads it.
Spend(s, n) ==
    /\ left' = [left EXCEPT ![s] = n - 1]
    /\ mine' = [mine EXCEPT ![s] = IF n > 1 THEN @ ELSE NoCycle]
    /\ out' = [out EXCEPT ![mine[s]] = @ + 1]

\* The fast path: one more task of the seed it holds.
SelectAgain(s) ==
    /\ s \notin fetching /\ left[s] > 0
    /\ Spend(s, left[s])
    /\ UNCHANGED <<pool, stats, total, cycleVars, fetching, lost, restarts, waited>>

SlowPath(s) == s \notin fetching /\ left[s] = 0

\* The slow path, under the mutex: the pool is refreshed or not, a seed is picked and
\* its cycle entered under a new id.
OpenCycle(s) ==
    /\ SlowPath(s) /\ nextCycle <= MaxCycles
    /\ pool' \in SUBSET Hashes
    /\ \E h \in pool', e \in Energies[nextCycle] :
         /\ \/ PickUnfuzzed(pool', Entered(pool'), WaitsIn(pool'), h)
            \/ PickCheapest(pool', Entered(pool'), WaitsIn(pool'), h)
         /\ cycle' = [cycle EXCEPT ![nextCycle] =
                        [seed |-> h, energy |-> e, seen |-> 0,
                         start |-> stats[h].mutations]]
    /\ open' = open \cup {nextCycle}
    /\ nextCycle' = nextCycle + 1
    /\ mine' = [mine EXCEPT ![s] = nextCycle]
    /\ fetching' = fetching \cup {s}
    /\ UNCHANGED <<total, left, out, lost, restarts>>

\* No seed to pick: the task gets an empty buffer and no cycle.
NothingToPick(s) ==
    /\ SlowPath(s)
    /\ pool' = {} /\ waited' = WaitsIn({})
    /\ UNCHANGED <<stats, total, cycleVars, selectVars, out, lost, restarts>>

\* mutant: the first task is not counted against the energy
FetchSeedFree(s) ==
    /\ s \in fetching
    /\ fetching' = fetching \ {s}
    /\ Spend(s, cycle[mine[s]].energy + 1)
    /\ UNCHANGED <<pool, stats, total, cycleVars, lost, restarts, waited>>

\* mutant: the first task is counted twice
FetchSeedTwice(s) ==
    /\ s \in fetching
    /\ fetching' = fetching \ {s}
    /\ Spend(s, cycle[mine[s]].energy - 1)
    /\ UNCHANGED <<pool, stats, total, cycleVars, lost, restarts, waited>>

\* getSeedByHash() answers, and the first task of the cycle is made.
FetchSeed(s) ==
    /\ s \in fetching
    /\ fetching' = fetching \ {s}
    /\ Spend(s, cycle[mine[s]].energy)
    /\ UNCHANGED <<pool, stats, total, cycleVars, lost, restarts, waited>>

\* An erased cycle; its seed is carried by the tasks that are still about, n of them.
Erase(c, n) ==
    /\ open' = open \ {c}
    /\ cycle' = [cycle EXCEPT ![c] = [NoneOpened EXCEPT !.seed = IF n > 0 THEN cycle[c].seed
                                                                          ELSE 0]]

\* mutant: the cycle of a seed that could not be fetched stays open
FetchFailsKeeps(s) ==
    /\ s \in fetching
    /\ fetching' = fetching \ {s}
    /\ mine' = [mine EXCEPT ![s] = NoCycle]
    /\ UNCHANGED <<pool, stats, total, cycleVars, left, out, lost, restarts, waited>>

\* The seed is gone from the corpus, or its index is stale: the cycle is erased.
FetchFails(s) ==
    /\ s \in fetching
    /\ fetching' = fetching \ {s}
    /\ mine' = [mine EXCEPT ![s] = NoCycle]
    /\ Erase(mine[s], 0)
    /\ UNCHANGED <<pool, stats, total, nextCycle, left, out, lost, restarts, waited>>

-----------------------------------------------------------------------------
(* The scheduler books a result; stop() and start().                       *)

CompleteEarly(c) == cycle[c].seen + 2 >= cycle[c].energy   \* mutant: one result early

\* results_seen, after this result, has reached assigned_energy.
Complete(c) == cycle[c].seen + 1 >= cycle[c].energy

\* mutant: last_energy is reckoned before the result
EnergyUsedBefore(c) == stats[cycle[c].seed].mutations - cycle[c].start

Counted(c, found) ==
    [fuzz |-> total.fuzz + 1,
     finds |-> total.finds + (IF c \in open /\ found THEN 1 ELSE 0)]

\* last_energy: all mutations of the seed since the cycle was opened.
EnergyUsed(c) == stats[cycle[c].seed].mutations + 1 - cycle[c].start

\* The statistics of a seed after one more result.
Booked(st, found, lastEnergy) ==
    [st EXCEPT !.mutations = @ + 1,
               !.misses = IF found THEN @ ELSE @ + 1,
               !.lastEnergy = lastEnergy]

\* They are kept whether or not the cycle is still there.
SeedBooked(c, found) ==
    LET h == cycle[c].seed
        e == IF c \in open /\ Complete(c) THEN EnergyUsed(c) ELSE stats[h].lastEnergy
    IN  [stats EXCEPT ![h] = Booked(stats[h], found, e)]

BookResult(c, found) ==
    /\ out[c] > 0 /\ (found => total.finds < MaxFinds)
    /\ out' = [out EXCEPT ![c] = @ - 1]
    /\ total' = Counted(c, found)
    /\ stats' = SeedBooked(c, found)
    /\ \/ c \in open /\ Complete(c) /\ Erase(c, Outstanding(c) - 1)
       \/ /\ c \in open /\ ~Complete(c)
          /\ cycle' = [cycle EXCEPT ![c].seen = @ + 1] /\ UNCHANGED open
       \/ c \notin open /\ UNCHANGED <<cycle, open>>
    /\ UNCHANGED <<pool, nextCycle, selectVars, lost, restarts, waited>>

\* stop() joins the threads, whose thread-locals die with them, and clears every queue;
\* the EcoFuzz state outlives it.
Restart ==
    /\ restarts < MaxRestarts /\ fetching = {}
    /\ restarts' = restarts + 1
    /\ lost' = [c \in CycleIds |-> lost[c] + Outstanding(c)]
    /\ out' = [c \in CycleIds |-> 0]
    /\ mine' = [s \in Selectors |-> NoCycle]
    /\ left' = [s \in Selectors |-> 0]
    /\ UNCHANGED <<pool, stats, total, cycleVars, fetching, waited>>

-----------------------------------------------------------------------------

Next ==
    \/ \E s \in Selectors :
         \/ SelectAgain(s) \/ OpenCycle(s) \/ NothingToPick(s)
         \/ FetchSeed(s) \/ FetchFails(s)
    \/ \E c \in CycleIds, found \in BOOLEAN : BookResult(c, found)
    \/ Restart

Spec == Init /\ [][Next]_vars

-----------------------------------------------------------------------------
(* Properties.                                                             *)

Cycle == [seed : Hashes \cup {0}, energy : Nat, seen : Nat, start : Nat]

\* The type invariant of the EcoFuzz state, the thread-locals and the tasks in flight.
TypeOK ==
    /\ pool \subseteq Hashes
    /\ stats \in [Hashes -> SeedStats]
    /\ total \in [fuzz : Nat, finds : Nat]
    /\ open \subseteq CycleIds /\ cycle \in [CycleIds -> Cycle]
    /\ nextCycle \in 1 .. (MaxCycles + 1)
    /\ fetching \subseteq Selectors
    /\ mine \in [Selectors -> CycleIds \cup {NoCycle}]
    /\ left \in [Selectors -> Nat]
    /\ out \in [CycleIds -> Nat] /\ lost \in [CycleIds -> Nat]
    /\ restarts \in 0..MaxRestarts
    /\ waited \in [Hashes -> Nat]

Fetched(c) == Holders(c) \cap fetching # {}

\* The energy an open cycle was granted is at any time the results booked to it, its
\* tasks in the queues and workers, what its selector may still make, and what stop()
\* took away: selectors spend an energy and the scheduler counts it down in different
\* threads, and nothing is counted twice or by nobody.
EnergyIsAccounted ==
    \A c \in open :
        cycle[c].energy = cycle[c].seen + lost[c]
            + (IF Fetched(c) THEN cycle[c].energy ELSE Outstanding(c))

\* Whenever a result of a cycle is on its way, or a selector may still make a task of
\* it, the cycle is in ecofuzz_cycles_: the booking never finds it closed, so that no
\* find is left out of path_increase.
WorkHasItsCycle == \A c \in CycleIds : Outstanding(c) > 0 => c \in open

\* A cycle that nobody works for any more is closed, unless stop() dropped a task of
\* it: failed fetches and late results leave nothing behind in ecofuzz_cycles_.
OnlyStopLeaksCycles ==
    \A c \in open : Outstanding(c) > 0 \/ Fetched(c) \/ lost[c] > 0

\* path_increase and total_fuzz, kept with the cycles, agree with mutation_num and
\* exec_by_mutation, kept with the seeds, whichever order the results of overlapping
\* cycles arrive in.
TotalsAgree ==
    /\ total.fuzz = SumFunction([h \in Hashes |-> stats[h].mutations])
    /\ total.finds = SumFunction([h \in Hashes |-> stats[h].mutations + 1 - stats[h].misses])

\* Round by round each seed of the pool gets its turn: while the pool stays as it is,
\* less than two rounds of state-2 picks pass between two of a seed, however cheap
\* the others are.
NoSeedStarves ==
    \A h \in pool : waited[h] <= 2 * (Cardinality(pool) - 1)

\* When the last result closes a cycle, last_energy covers the whole energy granted,
\* also when cycles of the same seed overlap: no mutation made for it is missing.
LastEnergyCoversCycle ==
    [][\A c \in open \ open' :
          out'[c] # out[c] => stats'[cycle[c].seed].lastEnergy >= cycle[c].energy]_vars
=============================================================================
