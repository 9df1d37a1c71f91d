# TrioFuzz in TLA+

Specifications of the parts of TrioFuzz whose correctness depends on the order in which
threads, processes and signals act. Paths are relative to the repository (`src/` in
`PROJECT.json` stands for its root, so the engine is `src/src/core/specialized_thread_engine.cpp`).

TrioFuzz is a multi-threaded, in-process fuzzer. By default `main()` is a *supervisor* that
forks a *worker process*; the worker runs the *specialized thread engine* (one scheduler
thread, workers, explorers); all of them execute the target in-process and share a corpus,
a coverage map and a learner.

## Inventory

| component | state | operations | interacts with | what is hard | what makes it correct |
|---|---|---|---|---|---|
| Task pipeline (`specialized_thread_engine`, TrioFuzz mode) | worker deques, double-buffered result queues, `pending_tasks`, `running_` | fill, pop, steal, execute, batch, submit, swap, book, sweep, start, stop | learner, corpus, executor | stealing against popping, partial batches, missed notifications, stop at any moment | every task is run and booked at most once, none is lost but by `stop()`, `stop()` returns and leaves nothing |
| Crash arbiter (`triofuzz_main.cpp`) | crash slot in shared memory, `g_active_child`, verdict cache, streaks, clocks | fork, watch, stop, reap, replay, save, restart, serialize | worker process, orchestrator's signals, kernel | crash in another thread during a capture, hangs, signals in every window, flaky bugs, races in the target | it judges the input that killed the worker, saves only reproducible crashes, ends when asked and only then |
| Corpus manager | seeds, hash index, energy cache, two mutexes | add, select, update energy, optimise, look up by hash, save | pipeline, EcoFuzz | lock order, index after reordering | no deadlock; a hash finds its own seed; the cache follows the energies |
| EcoFuzz scheduling | seed pool, per-seed statistics, open cycles | open a cycle, select from it, account a result, close it | pipeline, corpus | an energy spent by one thread and counted down by another, failed fetches, results lost at stop, overlapping cycles of a seed | energies and cycles agree with the tasks about; no seed of the pool starves |
| Unified learner | windows, PSO swarm, Markov counters, alias tables, stagnation state | generate a task, process a result, rebuild, reset | scheduler and explorers | its lock-free counters, two threads at the rebuild trigger, a row read while it is counted on | each result counted in one window, none lost for the tables; they draw in proportion to the finds |
| Thompson sampling / MOpt modes | per-arm statistics | select, update | pipeline queues | alternative engine modes | the same queue discipline |
| Fuzzing engine | threads, `running_`, detached statistics thread | start, stop, checkpoint | everything | threads that outlive `stop()` | nothing runs after destruction |
| Lock-free coverage | thread-local and global bitmaps | record, flush, query | executor, engine | weak compare-and-swap | an edge once flushed stays known |
| Checkpoints | one file | save by rename, load | engine | crash in the middle | the old or the new checkpoint, never half of one |
| Crash tracker, comparison tracing, mutators, monitors, configuration | mostly thread-local or read-only | pure data transformation, output | engine | little concurrency | out of scope, see below |

`PROJECT.json` lists what is hard (the fifth column) one hazard at a time, at its line.

## Plan

Done in this order; each line is a component module, its instance for TLC and its proofs.

1. `TaskLedger` (abstract) and `TrioPipeline`: done; proofs in `TrioPipelineProofs`,
   `TrioPipelineLedgerProofs`.
2. `Campaign` (abstract), `WorkerProcess` and `CrashArbiter`: done; proofs in
   `CrashArbiterProofs`.
3. `CorpusManager`: done; proofs in `CorpusManagerProofs`.
4. `EcoFuzz`: done; proofs in `EcoFuzzProofs` over `FunctionSums`.
5. `UnifiedLearner`, with Vose's construction of the alias tables against the distribution they
   are made from: done; proofs in `UnifiedLearnerProofs` and, for the tables,
   `AliasTableProofs`.

Left, as room permits: `LockFreeCoverage`, checkpoint file, seed-buffer pool, engine lifecycle.
The corpus optimiser as an algorithm of its own: which
seeds its stages keep, and whether the edges of the corpus survive (`removeByQualityScore` cuts
to the minimum size after `preserveCriticalSeeds` added to it).

## Modules

### TrioPipeline (extends nothing of the project; instance `Ledger` of TaskLedger)

Models `start()`/`stop()`, `schedulerThreadTrioFuzz`, `workerThreadTrioFuzz`,
`explorerThreadTrioFuzz`, `waitAndPopTask`, `stealTask`, `submitResultsBatch` and
`DoubleBufferedResultQueue`.

* A task is its id. `task_id_counter_` only grows and only the scheduler appends to a worker
  queue, so a deque is the set of its ids: front = least, back = greatest. What a task does and
  finds is abstracted.
* Each action is one critical section or one access to shared state; `wpc`, `spc`, `epc` and
  `ctl` are the program counters. The scheduler reads a queue's depth, makes the tasks and
  pushes each in separate steps, as the code does. `deciding` is a worker that evaluated the
  wait predicate and has not blocked yet: `notify_all()` in `stop()` finds nobody there.
* `ResultQueueOf` is the hash of a worker's thread id: any function. A worker may share a
  queue with other workers or with an explorer.
* `execs`, `booked`, `credits`, `void`, `dropped` are history.
* `MaxTaskId` and `MaxStarts` bound the state space; the proofs hold for every value.

`TaskLedger` is what the pipeline promises without queues: draw, begin, execute, book, drop.

### WorkerProcess and CrashArbiter (`CrashArbiter` extends `WorkerProcess`; instance `Camp` of Campaign)

`WorkerProcess` is the life of the forked engine as the supervisor sees it: threads arm, enter
and leave the target (`InProcessExecutor::execute`), fault, capture
(`worker_capture_handler`), and the process goes through init, started, run, stop, dead.
`CrashArbiter` is `run_supervisor()`, one action per step of its loop.

* What the target does with an input is the set the input is in: `Crashing`, `Flaky`, `Racy`
  (crashes only while another thread is inside the target), `Hanging`.
* The clocks are ages that stop at the last deadline that is tested; `Tick` advances all.
* `fatal` and `unchecked` are history. `hits` is kept modulo `ReverifyEvery`, `streak` up to
  `EscalateAfter`, `restarts` up to the cap.
* The fault of the engine's own code may come at `out` (unarmed) or `after` (the call has
  returned, the coverage is being collected, the thread is still armed).
* Left out: the backoff sleep, a failing `waitpid()`, file contents, the legacy
  `--no-arbiter` mode. Signals sent to the worker by the supervisor set its stop flag only
  while the main loop has one; the handler it inherits at fork only records them.

`Campaign` is what the arbiter promises without signals, clocks, threads or a verdict cache: a
worker starts, dies, its death is judged once, and the next one starts. Its state is read off
the arbiter's: `stage` is the supervisor's place and whether the worker lives, `cause` and
`culprit` are what `waitpid()` will say and whose input it was, `confirmed` the outcome of the
judgement.

### CorpusManager

Models `addSeed`, `getNextSeed`/`selectSeedByEnergy`, `updateSeedEnergy`,
`optimizeCorpusAFLStyle`, its interruptible form and the automatic optimiser's thread, over
`corpus_`, `hash_to_indices_`, the energy cache, `corpus_mutex_` and `energy_cache_mutex_`.

* What takes one lock, works and releases it is one action. Where a thread waits for the
  second lock with the first in hand, the wait is a place in `loc`: `fastCorpus` (cache lock
  held, waiting for the corpus), `rebuild` and `choose` (corpus held shared, waiting for the
  cache), `invalidate` (corpus held exclusively, waiting for the cache).
* Operations that only read are operators: `SeedsByHash(h)` is all that `getSeedByHash` may
  return. Positions count from 1.
* Scores and energies are abstracted: which seeds a cleanup keeps is any choice of the right
  size, in order. Energies are positive, so the branch for a total of zero is not modelled.
* Two contents may have one hash. A seed's `hash` is its `data_hash` field, which minimisation
  leaves as it was; the index is keyed by the hash of the content when it was built.
* `Init` is the corpus after `loadCorpus`, which does not deduplicate. `unindexed` is history.
* Left out: `seed_hashes_` (statistics only), crashes and files, and the helpers nothing calls
  (`cleanupAgedSeeds`, `removeRedundantSeeds`, `minimizeLargeSeeds`, `buildEnergyCache`, `merge`).

### EcoFuzz

Models the EcoFuzz branch of `getSeedFromCorpusForTrioSchedule` (2783-3029), the bookkeeping
of a result in `schedulerThreadTrioFuzz` (3547-3611) and what `stop()` does to both.

| code | model |
|---|---|
| `ecofuzz_seed_pool_`, `ecofuzz_seed_stats_`, `ecofuzz_cycles_`, `ecofuzz_global_` | `pool`, `stats`, `open` and `cycle`, `total` |
| `tls_ecofuzz` of a thread | `mine`, `left` |
| between the pick and `getSeedByHash` returning | `fetching` |
| fast path; slow path; fetch that answers, that fails | `SelectAgain`; `OpenCycle`, `NothingToPick`; `FetchSeed`, `FetchFails` |
| states 1 and 2 of the pick | `PickUnfuzzed`, `PickCheapest` |
| a result with a cycle | `BookResult` |
| `stop()` and `start()` | `Restart` |

* The pick with its refresh and the booking of a result are each one section of
  `ecofuzz_mutex_`, so each is one action. The fetch is outside of it.
* The corpus is changed by others at any time: what a refresh finds, and whether it happens,
  is any choice. A hash the corpus no longer has may stay in the pool.
* The energy formula is any value of a given set of positive numbers (the code clamps it to
  1..1000), so `rate`, `n_fuzz`, `fuzz_level` and `last_found`, which only feed it, are left out.
* Between selection and booking a task is in the pipeline, which `TrioPipeline` models; here
  the tasks of a cycle are alike and `out` counts them. They come back in any order or are
  dropped by `Restart`; `CustodyHolds` and `ExecutedAtMostOnce` of the pipeline justify that
  they do nothing else.
* `lost` and `waited` are history. 0 is no seed, as in the code: a content whose hash is 0 is
  never picked there, and is not in `Hashes` here.

### UnifiedLearner

Models `TrioFuzzUnifiedLearner::processResult` and what it calls: `TrioFuzzTS::update`,
`TrioFuzzMOptPSO::update`, `TrioFuzzMarkov::update`, `rebuildAlias`, `buildAlias`, `sampleAlias`.

* A caller is a place `pc` in `processResult` and a `task`. `Enter` is the atomics before the
  mutex of the Thompson layer, `UpdateWindow` its critical section and the branch to the next
  layer, `UpdateMOpt` the critical section of MOpt. The Markov layer has no lock until it
  rebuilds: `Record`, `Count` (the `fetch_add` on `since_update_` and the trigger), `Reset`
  (its store), `RebuildBegin`, one `RebuildRow` per row and `RebuildEnd` are steps of their own.
* A row is read twice while others count on. `RowsRead` is every pair of a total and counts
  these reads may return.
* `buildAlias` is its two loops, over integers: each probability is multiplied by the row's
  total, so there is no rounding. `Sorted` puts every operator on a stack, `Pair` is one turn of
  the second loop (a turn that finds a stack empty changes nothing), and what is left on a stack
  ends as `Unsorted` set it. `Chance` is what `sampleAlias` then draws.
* A time trigger may fire at any update. That covers the unsynchronised `last_update_time_` of
  the Markov layer, whose reads may return any earlier time.
* The splice and the nosplice instance of a layer share nothing: one of each is modelled.
* Left out: the numbers that only weigh random choices (`alpha`, `beta` and their decay, the
  swarm, `exploration_boost_`, `best_stack_`).
* `recorded`, `counted`, `begun`, `covered`, `triggers`, `fresh` are history.

### Proof modules

`TrioPipelineProofs`, `TrioPipelineLedgerProofs`, `CrashArbiterProofs`, `CorpusManagerProofs`,
`EcoFuzzProofs`, `UnifiedLearnerProofs` and `AliasTableProofs` each extend the module they are
about. `FunctionSums` models nothing: it has the facts about `SumFunctionOnSet` and about
functions defined by recursion on a number that the last three of them need.

## Runs

| run | instance | shows |
|---|---|---|
| `pipeline_workers` | 2 workers, depth 1, batches of 2, 3 ids, one shared result queue | `Custody`, `AtMostOnce`, `QueueBound`, `StopLeavesNothing` under stealing and batching |
| `pipeline_explorers` | 1 worker, 1 explorer on the same result queue, 4 ids, 2 starts, sweep above 3 pending | `PendingBound`, `BookedIsLearned`, and that the pipeline implements `TaskLedger` |
| `pipeline_live` | 2 workers, 2 ids, fairness | `StopReturns`, `QueuedIsTaken`, `SubmittedIsBooked` |
| `arbiter_safety` | 2 threads; a bug, a flaky bug, a race; engine faults | `TypeOK`, the four arbitration invariants and `BugsNeverSerialize` |
| `arbiter_live` | 2 threads; a flaky bug, a hang; SIGTERM at any time; unbounded | that the arbiter implements `Campaign`; `TerminationObeyed`, `WedgedIsReplaced`, `CampaignGoesOn` |
| `arbiter_budget` | 1 thread; budget 4; liveness deadlines disabled; failing forks | `BudgetIsKept` |
| `arbiter_engine_fault` | 1 thread, one racy input, three artifacts serialize | *violated*: `EngineFaultsNeverSerialize` |
| `corpus_safety` | 2 threads and the optimiser; three contents, two of one hash, one that is trimmed to another; cleanup at 4 down to 2; minimum 2, target 1; up to 2 loaded | no path keeps a lock (`TypeOK`), `ValidCacheFits`, `ChoosesWithTheCacheItBuilt`, `IndexSound`, `NeverEmptied` |
| `corpus_locks` | 2 threads and the optimiser; target 2, 1 loaded | *violated*: `NoLockCycle` |
| `corpus_index` | 1 thread and the optimiser; minimum and target 1, none loaded | *violated*: `FindsSeedsByTheirHash` |
| `ecofuzz_cycles` | 2 selectors, 2 seeds, 5 cycles (energy 2, then 1), 1 find, 1 restart | `EnergyIsAccounted`, `WorkHasItsCycle`, `OnlyStopLeaksCycles`, `TotalsAgree`, `NoSeedStarves`, `LastEnergyCoversCycle` |
| `unified_learner` | 2 callers, an arm of each kind, 3 operators, 5 results, periods 3 and 4 with minima 2 and 3 | `EachResultInOneWindow`, `TablesFollow`, `RebuildsAreBacked`, `TablesAreSound`, `TablesOnlyAdvance` |

Why the bounds are enough. Two workers give every combination of owner, thief and sharer of a
result queue; a third adds another victim and no new pair. Depth 1 with 3 or 4 ids wraps
`next_worker_to_fill_`, fills, empties and refills every queue, and leaves partial batches
behind; two starts reach state left over from a first run. Two threads are what a race, a
second fault during a capture and a thread blocked on the mutex need. Ages of 1 and 2
distinguish before, at and after each deadline; `EscalateAfter` = 2 and `ReverifyEvery` = 2
are the least that count at all. `PendingLimit` = 3 in `pipeline_explorers` is exactly the
room the pipeline needs there, so the sweep is one task away from firing. `VerdictLimit` = 0
in `arbiter_live` is the state of a cache that is full; `arbiter_safety` never fills it.
`Campaign` is checked where SIGTERM, hangs and exits meet the judgements (`arbiter_live`); races,
engine faults and cached verdicts, which that run leaves out, are in its proof. In
`corpus_safety` a corpus of 4 is the first that `addSeed` cleans, and minimum, target and low
water differ enough that every stage of the optimiser removes something; a selection needs
one reader, one holder of the cache lock and one writer, which are the three threads. Deadlock
is not checked in the corpus runs: the code does deadlock (`corpus_locks`), and the passing
run covers everything the other threads do up to there. In `ecofuzz_cycles` five cycles are
one unfuzzed pick of each seed, a round of state 2, and the first pick of the next round; an
energy of 2 is the least that leaves a task to the fast path, and cycles of one seed overlap.
In `unified_learner` five results are one more than the alias interval and two more than its
minimum, so that two callers pass the trigger, one resets what the other has counted, and the
second rebuild meets finds of a third result; one of the sequences has an operator out of
range, and a window of 3 is flushed by count and, from 2 on, by time. Deadlock is not checked
in these two: a behaviour ends when its cycles or results are used up. The budget is on in `arbiter_budget` only, where it has to end the campaign alone. Every
property is also run against a changed definition (the mutants in `PROJECT.json`) and is
violated by it.

### Fairness

* Pipeline: weak fairness of `stop()`'s own steps, each worker and each explorer: the operating
  system schedules every thread, `wait_for` times out after 5 ms, and *an execution returns*.
  The last is not the engine's merit: it has no per-execution timeout. In arbiter mode the
  supervisor's heartbeat stands for it, in legacy mode nothing does. Strong fairness of the
  scheduler: it takes each queue's mutex with a plain lock, and a mutex that is free again and
  again is obtained.
* Arbiter: weak fairness of the supervisor and of time. The worker owes nothing: it may hang,
  ignore SIGTERM or die.
* Corpus, EcoFuzz, learner: none; their properties are safety properties. `NoSeedStarves` says
  of the picks that are made, not that picks are made.

## What is proved

TLAPS proves, for every value of the constants:

**Pipeline** (`TrioPipelineProofs`, `TrioPipelineLedgerProofs`), assuming
`PipelineAssumption` only:

* `TypeCorrect`: `TypeOK` is not inductive; `Hands` adds what a thread holds at each place.
* `CustodyHolds`: `Custody` *is* inductive with `TypeInv`. Every step moves one task
  (`Moved`), moves none (`CustodyStill`) or drops many (`CustodyClear`); `StealIsPop` is the
  fact that the back of another's queue is one of its tasks.
* `ExecutedAtMostOnce` from `Tally`, which says for each place how often a task there has been
  executed, booked and taught.
* `NothingLeftAfterStop` from `Quiet`: when the threads are joined they hold nothing.
* `QueuesBounded` from `Filling`: while the scheduler fills, depth plus what is still needed
  is at most the target, because others only take.
* `PendingBounded` from `Backlog`: pending ids are tasks outstanding at workers or in
  result queues not drained yet in this round, `NumWorkers * (2 * QueueDepth + batch)` at most.
* `BookingTeaches` and `ImplementsLedger` *assume* that this room is at most `PendingLimit`.
  With the defaults (`worker_queue_target_depth` 4, `micro_batch_workers` 1) it is 9 tasks per
  worker against 10000, so it holds up to 1111 workers; beyond, the sweep may discard a task
  that is still executing.

**Arbiter** (`CrashArbiterProofs`), assuming `WorkerAssumption` and `ArbiterAssumption`:

* `TypeCorrect` from `Base`: types, that a dead worker has no threads, and where the worker is
  at each place of the supervisor.
* `ArbitratesTheFatalInput` from `Capture`: one thread at most is in the handler past
  `one_shot`, and a filled slot is its input until it raises the signal again.
* `OnlyReproducibleCrashesSaved` from `Reproducible`: positive verdicts come from replays.
* `NegativeVerdictsExpire` from `Rechecked`: uses since the last replay are among the hits.
* `CampaignEndsOnlyWhenAsked`, `SerializationEndsRaces` (from `Serialized`, mutual exclusion
  place by place).
* `ImplementsCampaign`: every step of the supervisor, the worker, the clocks and SIGTERM is a step
  of `Campaign` or none, by a lemma for each part of the round. It needs `Capture` (the input
  that is saved is the culprit), `Reproducible` (a cached positive verdict is one) and `Conduct`:
  no judgement before the reaping, none of a worker that finished, and an artifact only of a
  crash. `CampaignEndsOnlyWhenAsked` says a part of it in the code's own terms.
* `RealBugsNeverSerialize` *assumes* `ForkMayFail = FALSE`: a replay that cannot be forked
  reads as "did not reproduce", so a machine that fails forks can serialize a sound target.

**Corpus** (`CorpusManagerProofs`), assuming `CorpusAssumption` (which allows any hash
function, collisions included):

* `TypeCorrect`, `CacheNeverOverruns`, `SlowPathKeepsItsCache` from `IInv`, which adds to
  `TypeOK` that a writer excludes readers (`Exclusion`) and where the cache may disagree with
  the corpus (`CacheInv`: only while a thread is about to invalidate it).
* `CorpusNeverEmptied` from the lemmas that each stage of a cleanup leaves a corpus of at
  least one seed; `LastPosition` (a corpus with a seed of a hash has a last one) rests on
  the well-foundedness of `<`.
* `IndexIsSound`: `IndexSound` is inductive together with `IInv`.

**EcoFuzz** (`EcoFuzzProofs`), assuming `EcoFuzzAssumption` (finitely many hashes, positive
energies):

* `EcoFuzzTypes`: `left` cannot fall below zero only because no other selector holds the cycle,
  so the types are proved together with `Books`.
* `EnergyAccounted`, `ResultsFindTheirCycle`, `NoOtherLeak` from `Books`: ids are drawn once
  (`Drawn`), a thread-local's cycle is open and no other's (`Owned`), the energy of an open
  cycle is spread over results, losses, tasks about and what its owner may still make
  (`Spread`), an open cycle waits for a result and an erased one has no task (`Waiting`).
* `LastEnergyCovers` from `Reckoned` (mutations since a cycle was opened are at least its
  results) and from nothing having been lost of a cycle that is closed.
* `TotalsAreSums`: `TotalsAgree` is inductive with what the types say of a booked result. A
  booking changes one seed's counters and the totals by the same amount, so it rests on
  `SumPoint`: a sum changes by what changes at the one place.
* `EverySeedGetsItsTurn` from `Turns`: how long a seed has waited is bounded by how many of
  the pool have already left its round; a round takes at most as many picks as it has seeds.

**Learner** (`UnifiedLearnerProofs`, `AliasTableProofs`), assuming `LearnerAssumption`, for any finite set of
callers:

* `LearnerTypes` from `Hands` (no window has more finds than results).
* `EveryResultIsLearned`: `EachResultInOneWindow` is inductive with it.
* `TablesAdvance` from `Forward`: the tables hold no find the transitions lack, and the rows
  still to be rebuilt none that the rebuild may not read.
* `NoResultForgotten` from `Behind`: unless somebody is about to rebuild, what is missing
  from the tables was counted since the last reset or is about to be.
* `RebuildsArePaid` from `Paid`: each trigger is paid for with a share `1/|Callers|` of the
  results counted before the reset, except for callers that have not reset yet.

* `AliasTablesAreSound` (`AliasTableProofs`). The part about the code's order of steps is
  `Started`: every row in a table, and every row a rebuild may read, is `Readable` (each
  operator has at least the 1 it starts with, and the total was read before the counts). The
  part about `buildAlias` is `AliasTableSound`, for every readable row and every number of
  operators. Its loop invariant `Pairing` says that each operator's share (what is left of it
  and what it was given as an alias) is still its finds, that the surplus over the average of
  those on a stack is still the row's, and that every turn takes one operator off the stacks.
  So after `NumOps` turns a stack is empty (`PairingEnds`: the loop of the code ends), the surplus of
  those on the other one is not negative, and setting their probability to 1 takes from nobody.

`FunctionSums` proves what the last two need: that a function defined by recursion on a number
exists and keeps an invariant (`TurnsExist`, `TurnsKeep`), and that a sum over a finite set
unfolds in any order (`SumUnfolds`, `SumAdd`, `SumPoint`, `SumLinear`, `SumNotNegative`). The
library's induction theorems take predicates, which these provers cannot instantiate; here
induction is a statement about sets (`Induction`, `SetInduction`), proved from the
well-foundedness of `<` on the naturals.

Only model-checked: liveness (`StopReturns`, `QueuedIsTaken`, `SubmittedIsBooked`,
`TerminationObeyed`, `WedgedIsReplaced`, `CampaignGoesOn`, `BudgetIsKept`); the prover does
not handle fairness and `ENABLED`. Every safety property that a passing run checks is proved,
three of them under the assumptions named above (`BookingTeaches`, `ImplementsLedger`,
`RealBugsNeverSerialize`).

## Findings

`arbiter_engine_fault`: the comment at `src/interface/triofuzz_main.cpp:1612` says an engine
fault must not trip serialization, and the one at 250 that a thread is armed only inside a
target call. `execute()` disarms in a destructor, after `getCurrentRealCoverage()` (596), so a
fault there is published as armed, does not reproduce, and counts towards serialization.

`corpus_locks`: `README.md:121` calls the corpus manager thread-safe. `selectSeedByEnergy`
takes `energy_cache_mutex_` (`include/utils/corpus_manager.hpp:2754`) and then waits for
`corpus_mutex_` (2762, 2777); `updateSeedEnergy` (370) and the optimiser (2041, 2055) hold
`corpus_mutex_` and wait for `energy_cache_mutex_` in `invalidateEnergyCache` (2725). A
selection and an update can wait for each other for ever.

`corpus_index`: `getSeedByHash` is for schedulers that select seeds by hash (727). The
optimiser erases seeds (2037, 2051) and does not rebuild the hash index, as `addSeed` does
(190), and the look-up does not compare hashes: EcoFuzz can receive another seed than the one
it asked for.

Observed in the models and in no run of its own:

* The comment at `triofuzz_unified_learner.hpp:97` calls `min_samples` required for
  time-triggered updates. In the Markov layer several callers may pass the trigger before one
  resets `since_update_`, and the later ones rebuild for a handful of results. What holds is
  the average, `RebuildsAreBacked`.
* Its header (24-25) says that all learning is centralized in the scheduler and that explorers
  only execute. They call `processResult` from their own threads
  (`specialized_thread_engine.cpp:3865`); `UnifiedLearner` has both as callers.
* A cycle of which `stop()` dropped a task is never closed: `ecofuzz_cycles_` keeps it for the
  life of the engine (`OnlyStopLeaksCycles` says that nothing else leaks).
* `last_energy` counts the results of other cycles of the same seed that overlap (3578); it is
  never too small (`LastEnergyCoversCycle`), but may be too large.
* A seed is marked as fuzzed (2866) before a fetch that may fail, and a pool is read again only
  if the number of seeds changed (2825), so a seed that replaces another is not seen until then.
* The stagnation check divides the finds of its window by all executions since the start (414,
  417), so a long campaign reads as stagnating. `best_stack_` may be overwritten by an older scan
  (870-878) until the next find.

Observed while reading, not (yet) in a run: a crash reaped after the budget ran out or after
SIGTERM is not arbitrated (1719, 1728), so its input is not saved; a single thread stuck in
the target among live ones is not detected (documented at 271-280).

## Not modelled

Mutation algorithms, format heuristics, comparison tracing and Thompson sampling's
distributions are sequential computations on bytes and reals. Monitors, crash reports and
configuration are input and output. `fuzzbench/`, `magma/`, `external/` and
`ossfuzz_projects/` are vendored or benchmark integrations, some of them copies of this code.
The order of results within a batch and the seed-buffer pool are left out of `TrioPipeline`.
The Thompson-sampling and MOpt engine modes, with `mopt_online_learner.hpp`, reuse the queues of
the pipeline and are alternatives to the default. Task generation of the learner only draws
random numbers.
