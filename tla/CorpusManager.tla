---------------------------- MODULE CorpusManager ----------------------------
(***************************************************************************)
(* The seed corpus shared by all engine threads                            *)
(* (src/include/utils/corpus_manager.hpp): the deque of seeds, the hash    *)
(* index beside it, the cumulative energy cache used to select seeds, and  *)
(* the two locks, corpus_mutex_ (readers and one writer) and               *)
(* energy_cache_mutex_.                                                    *)
(*                                                                         *)
(* A step that takes a lock, works and releases it without waiting for the *)
(* other lock is one action; where a thread waits for the second lock      *)
(* while it holds the first, the wait is a location of its own. Scores and *)
(* energies are left out: which seeds a cleanup keeps is any choice of the *)
(* right size. Operations that only read are operators, not actions.       *)
(* Positions count from 1.                                                 *)
(***************************************************************************)
EXTENDS Naturals, FiniteSets, Sequences

CONSTANTS
    Threads,    \* workers and the threads that add, select and optimise
    Optimizer,  \* the thread of AutoOptimizationManager
    Data,       \* seed contents
    Hashes,
    HashOf,     \* SeedHasher::computeHash
    Trimmed,    \* the content after its trailing zeros are stripped
    HighWater,  \* 90 % of max_corpus_size: addSeed cleans up
    LowWater,   \* 75 % of it: what addSeed cleans down to
    MinCorpus,  \* min_corpus_size
    Target,     \* target_corpus_size
    MaxLoaded,  \* files loadCorpus() takes at start
    Nobody

Users == Threads \cup {Optimizer}

ASSUME CorpusAssumption ==
    /\ HashOf \in [Data -> Hashes] /\ Trimmed \in [Data -> Data]
    /\ LowWater \in Nat \ {0} /\ HighWater \in Nat /\ LowWater < HighWater
    /\ MinCorpus \in Nat \ {0} /\ Target \in Nat \ {0}
    /\ MaxLoaded \in Nat
    /\ Nobody \notin Users /\ Optimizer \notin Threads

VARIABLES
    corpus,       \* corpus_
    index,        \* hash_to_indices_: pairs <<hash, position>>
    writer,       \* who holds corpus_mutex_ exclusively
    readers,      \* who holds it shared, across a step
    cacheOwner,   \* who holds energy_cache_mutex_ across a step
    energyValid,  \* energy_cache_valid_
    cacheLen,     \* size of cumulative_energy_cache_
    loc,          \* where each thread is
    pick,         \* the position a thread read off the cache
    stopping,     \* should_stop_ of the automatic optimiser
    unindexed     \* history: the corpus was rearranged and the index not rebuilt since

seedVars  == <<corpus, index, unindexed>>
lockVars  == <<writer, readers, cacheOwner>>
cacheVars == <<energyValid, cacheLen>>
vars == <<seedVars, lockVars, cacheVars, loc, pick, stopping>>

Seed == [data : Data, hash : Hashes]
NewSeed(d) == [data |-> d, hash |-> HashOf[d]]
Locations == {"idle", "fast", "fastCorpus", "slow", "rebuild", "choose",
              "optimizing", "invalidate", "done"}

-----------------------------------------------------------------------------
(* Parts of a corpus.                                                      *)

\* Ways to keep k of the seeds of c in their order.
Keeping(c, k) ==
    {f \in [1..k -> DOMAIN c] : \A i, j \in 1..k : i < j => f[i] < f[j]}

Kept(c, f) == [i \in DOMAIN f |-> c[f[i]]]

KeptAt(c, I) ==
    {Kept(c, f) : f \in {f \in Keeping(c, Cardinality(I)) : \A i \in DOMAIN f : f[i] \in I}}

KeptBetween(c, m, n) == UNION {{Kept(c, f) : f \in Keeping(c, k)} : k \in m..n}

RebuiltIndexNever(c) == index                             \* mutant: the index is left as it was

\* rebuildHashIndex: of seeds with one hash the last wins.
RebuiltIndex(c) ==
    {<<HashOf[c[i].data], i>> : i \in
        {i \in DOMAIN c : \A j \in DOMAIN c :
            HashOf[c[j].data] = HashOf[c[i].data] => j <= i}}

\* One entry for every seed, as addSeed and loadCorpus make them.
FullIndex(c) == {<<HashOf[c[i].data], i>> : i \in DOMAIN c}

\* The entries found for a hash that are not past the end.
Found(h) == {i \in DOMAIN corpus : <<h, i>> \in index}

\* getSeedByHash returns one of these; which entry comes first is not specified.
SeedsByHash(h) == {corpus[i] : i \in Found(h)}

IsDuplicate(d) == \E i \in Found(HashOf[d]) : corpus[i].data = d

-----------------------------------------------------------------------------
(* The two locks.                                                          *)

CanRead  == writer = Nobody
CanWrite == writer = Nobody /\ readers = {}
CacheFree == cacheOwner = Nobody
Goto(t, l) == loc' = [loc EXCEPT ![t] = l]

-----------------------------------------------------------------------------
\* loadCorpus appends every file it reads, without deduplication, before a
\* thread runs.
Init ==
    /\ \E n \in 0..MaxLoaded : \E ds \in [1..n -> Data] :
           corpus = [i \in 1..n |-> NewSeed(ds[i])]
    /\ index = FullIndex(corpus)
    /\ writer = Nobody /\ readers = {} /\ cacheOwner = Nobody
    /\ energyValid = FALSE /\ cacheLen = 0
    /\ loc = [t \in Users |-> "idle"]
    /\ pick = [t \in Users |-> 0]
    /\ stopping = FALSE
    /\ unindexed = FALSE

(* addSeed. A duplicate only raises the energy of the seed it repeats.     *)

\* removeLowQualitySeedsAdvanced; size_t wraps when the minimum is above n.
Removable(n) ==
    IF n < HighWater THEN 0
    ELSE IF MinCorpus <= n /\ n - MinCorpus < n - LowWater THEN n - MinCorpus
         ELSE n - LowWater

AddSeed(t, d) ==
    /\ loc[t] = "idle" /\ CanWrite /\ ~IsDuplicate(d)
    /\ LET grown == Append(corpus, NewSeed(d))
           n == Len(grown)
       IN  IF n >= HighWater
           THEN /\ \E f \in Keeping(grown, n - Removable(n)) : corpus' = Kept(grown, f)
                /\ index' = RebuiltIndex(corpus')
                /\ unindexed' = FALSE
                /\ energyValid' = (energyValid /\ Removable(n) = 0)
           ELSE /\ corpus' = grown
                /\ index' = index \cup {<<HashOf[d], n>>}
                /\ UNCHANGED <<unindexed, energyValid>>
    /\ UNCHANGED <<lockVars, cacheLen, loc, pick, stopping>>

-----------------------------------------------------------------------------
(* getNextSeed and selectSeedByEnergy.                                     *)

GetNextSeed(t) ==
    /\ loc[t] = "idle" /\ t \in Threads /\ CanRead
    /\ corpus # <<>>
    /\ Goto(t, "fast")
    /\ UNCHANGED <<seedVars, lockVars, cacheVars, pick, stopping>>

\* The cache is valid: choose with it, and keep its lock to fetch the seed.
PickFromCache(t) ==
    /\ loc[t] = "fast" /\ CacheFree
    /\ energyValid /\ cacheLen > 0
    /\ \E i \in 1..cacheLen : pick' = [pick EXCEPT ![t] = i]
    /\ cacheOwner' = t
    /\ Goto(t, "fastCorpus")
    /\ UNCHANGED <<seedVars, writer, readers, cacheVars, stopping>>

MissCache(t) ==
    /\ loc[t] = "fast" /\ CacheFree
    /\ ~(energyValid /\ cacheLen > 0)
    /\ Goto(t, "slow")
    /\ UNCHANGED <<seedVars, lockVars, cacheVars, pick, stopping>>

\* mutant: the way to the slow path keeps the cache lock
FetchPickedKeepsLock(t) ==
    /\ loc[t] = "fastCorpus" /\ CanRead
    /\ Goto(t, IF pick[t] <= Len(corpus) THEN "idle" ELSE "slow")
    /\ cacheOwner' = IF pick[t] <= Len(corpus) THEN Nobody ELSE t
    /\ pick' = [pick EXCEPT ![t] = 0]
    /\ UNCHANGED <<seedVars, writer, readers, cacheVars, stopping>>

\* A position past the end, when the corpus shrank meanwhile, takes the slow path.
FetchPicked(t) ==
    /\ loc[t] = "fastCorpus" /\ CanRead
    /\ Goto(t, IF pick[t] <= Len(corpus) THEN "idle" ELSE "slow")
    /\ cacheOwner' = Nobody
    /\ pick' = [pick EXCEPT ![t] = 0]
    /\ UNCHANGED <<seedVars, writer, readers, cacheVars, stopping>>

EnterSlowPath(t) ==
    /\ loc[t] = "slow" /\ CanRead
    /\ IF corpus = <<>> THEN Goto(t, "idle") /\ UNCHANGED readers
                        ELSE Goto(t, "rebuild") /\ readers' = readers \cup {t}
    /\ UNCHANGED <<seedVars, writer, cacheOwner, cacheVars, pick, stopping>>

RebuildCache(t) ==
    /\ loc[t] = "rebuild" /\ CacheFree
    /\ energyValid' = TRUE
    /\ cacheLen' = IF energyValid THEN cacheLen ELSE Len(corpus)
    /\ Goto(t, "choose")
    /\ UNCHANGED <<seedVars, lockVars, pick, stopping>>

\* The cache lock is taken anew; the position is clamped to the corpus.
ChooseSeed(t) ==
    /\ loc[t] = "choose" /\ CacheFree
    /\ readers' = readers \ {t}
    /\ Goto(t, "idle")
    /\ UNCHANGED <<seedVars, writer, cacheOwner, cacheVars, pick, stopping>>

-----------------------------------------------------------------------------
\* mutant: the corpus is only locked shared to update a seed's energy
UpdateSeedEnergyShared(t, d) ==
    /\ loc[t] = "idle" /\ t \in Threads /\ CanRead
    /\ IsDuplicate(d)
    /\ writer' = t
    /\ Goto(t, "invalidate")
    /\ UNCHANGED <<seedVars, readers, cacheOwner, cacheVars, pick, stopping>>

\* updateSeedEnergy where it matters here: the try_lock succeeds, the seed is
\* found and its energy moves by more than the threshold.
UpdateSeedEnergy(t, d) ==
    /\ loc[t] = "idle" /\ t \in Threads /\ CanWrite
    /\ IsDuplicate(d)
    /\ writer' = t
    /\ Goto(t, "invalidate")
    /\ UNCHANGED <<seedVars, readers, cacheOwner, cacheVars, pick, stopping>>

\* invalidateEnergyCache, under the exclusive corpus lock; then both are released.
InvalidateEnergyCache(t) ==
    /\ loc[t] = "invalidate" /\ CacheFree
    /\ energyValid' = FALSE /\ cacheLen' = 0
    /\ writer' = Nobody
    /\ Goto(t, "idle")
    /\ UNCHANGED <<seedVars, readers, cacheOwner, pick, stopping>>

-----------------------------------------------------------------------------
(* optimizeCorpusAFLStyle and its interruptible form.                      *)

\* removeDuplicatesAFL keeps the first seed of every hash.
FirstOfHash(c) ==
    {i \in DOMAIN c : \A j \in DOMAIN c : HashOf[c[j].data] = HashOf[c[i].data] => i <= j}

Deduplicated(c) == KeptAt(c, FirstOfHash(c))

\* removeRedundantByCoverage drops some seeds but never the best of all.
RedundancyRemoved(c) == IF Len(c) <= MinCorpus THEN {c} ELSE KeptBetween(c, 1, Len(c))

\* mutant: one seed too many is removed
CutBelow(c, n) == IF Len(c) <= n THEN {c} ELSE KeptBetween(c, n - 1, n - 1)

\* removeByQualityScore keeps exactly the minimum, truncateToTargetSize the target.
CutTo(c, n) == IF Len(c) <= n THEN {c} ELSE KeptBetween(c, n, n)

\* minimizeSeedsInPlace of the first n seeds; data_hash is not computed again.
Minimized(c, n) ==
    [i \in DOMAIN c |-> IF i <= n THEN [c[i] EXCEPT !.data = Trimmed[@]] ELSE c[i]]

Thinned(c) == UNION {RedundancyRemoved(c1) : c1 \in Deduplicated(c)}
Scored(c)  == UNION {CutTo(c2, MinCorpus) : c2 \in Thinned(c)}
Optimized(c) == UNION {CutTo(Minimized(c3, Len(c3)), Target) : c3 \in Scored(c)}

\* A stop request cuts one of the stages short.
CutShort(c) ==
    LET DedupStopped == UNION {KeptAt(c, {i \in DOMAIN c : i > n \/ i \in FirstOfHash(c)}) :
                                   n \in 0..Len(c)}
        MinimizeStopped == {Minimized(c3, n) : c3 \in Scored(c), n \in 0..MinCorpus}
        TruncateStopped == UNION {KeptBetween(Minimized(c3, Len(c3)), Target, Len(c3)) :
                                      c3 \in Scored(c)}
    IN  DedupStopped \cup Thinned(c) \cup MinimizeStopped \cup TruncateStopped

\* An empty corpus is left alone.
Optimize(t) ==
    /\ loc[t] = "idle" /\ CanWrite
    /\ t = Optimizer => ~stopping
    /\ corpus # <<>>
    /\ writer' = t
    /\ Goto(t, "optimizing")
    /\ UNCHANGED <<seedVars, readers, cacheOwner, cacheVars, pick, stopping>>

\* mutant: only an interrupted optimisation invalidates the cache
FinishKeepingCache(t, outcomes, interrupted) ==
    /\ loc[t] = "optimizing"
    /\ corpus' \in outcomes
    /\ unindexed' = (unindexed \/ corpus' # corpus)
    /\ IF interrupted
       THEN Goto(t, "invalidate") /\ UNCHANGED writer
       ELSE Goto(t, "idle") /\ writer' = Nobody
    /\ UNCHANGED <<index, readers, cacheOwner, cacheVars, pick, stopping>>

\* The index is left as it was. An interrupted run reports size zero and so
\* always invalidates the cache.
FinishOptimizing(t, outcomes, interrupted) ==
    /\ loc[t] = "optimizing"
    /\ corpus' \in outcomes
    /\ unindexed' = (unindexed \/ corpus' # corpus)
    /\ IF interrupted \/ Len(corpus') < Len(corpus)
       THEN Goto(t, "invalidate") /\ UNCHANGED writer
       ELSE Goto(t, "idle") /\ writer' = Nobody
    /\ UNCHANGED <<index, readers, cacheOwner, cacheVars, pick, stopping>>

OptimizerStep(t) ==
    \/ FinishOptimizing(t, Optimized(corpus), FALSE)
    \/ t = Optimizer /\ stopping /\ FinishOptimizing(t, CutShort(corpus), TRUE)

\* stopAutoOptimization; the thread leaves its loop when it is back in it.
StopAutoOptimization ==
    /\ ~stopping
    /\ stopping' = TRUE
    /\ UNCHANGED <<seedVars, lockVars, cacheVars, loc, pick>>

OptimizerExits ==
    /\ stopping /\ loc[Optimizer] = "idle"
    /\ Goto(Optimizer, "done")
    /\ UNCHANGED <<seedVars, lockVars, cacheVars, pick, stopping>>

-----------------------------------------------------------------------------
Next ==
    \/ \E t \in Threads, d \in Data : AddSeed(t, d) \/ UpdateSeedEnergy(t, d)
    \/ \E t \in Threads :
          \/ GetNextSeed(t) \/ PickFromCache(t) \/ MissCache(t) \/ FetchPicked(t)
          \/ EnterSlowPath(t) \/ RebuildCache(t) \/ ChooseSeed(t)
    \/ \E t \in Users : Optimize(t) \/ OptimizerStep(t) \/ InvalidateEnergyCache(t)
    \/ StopAutoOptimization
    \/ OptimizerExits

Spec == Init /\ [][Next]_vars

-----------------------------------------------------------------------------
(* Properties.                                                             *)

StateOK ==
    /\ corpus \in Seq(Seed) /\ index \subseteq Hashes \X Nat
    /\ writer \in Users \cup {Nobody} /\ readers \subseteq Users
    /\ cacheOwner \in Users \cup {Nobody}
    /\ energyValid \in BOOLEAN /\ cacheLen \in Nat
    /\ loc \in [Users -> Locations] /\ pick \in [Users -> Nat]
    /\ stopping \in BOOLEAN /\ unindexed \in BOOLEAN

LocksHeld ==
    \A t \in Users :
        /\ loc[t] \in {"optimizing", "invalidate"} <=> writer = t
        /\ loc[t] \in {"rebuild", "choose"} <=> t \in readers
        /\ loc[t] = "fastCorpus" <=> cacheOwner = t

\* What the state of CorpusManager may be, and which lock a thread holds at
\* each place of its code: no return path keeps a lock
\* (corpus_manager.hpp:2751-2823, 343-391, 2034-2059).
TypeOK == StateOK /\ LocksHeld

\* A valid cache never reaches past the corpus: every operation that takes
\* seeds out invalidates it before the corpus can be read again
\* (lines 2054-2056, 2585-2586).
ValidCacheFits ==
    energyValid /\ writer = Nobody => cacheLen <= Len(corpus)

\* The slow path of selectSeedByEnergy gives the cache lock back between
\* rebuilding the cache and choosing with it (lines 2793-2809); the cache it
\* chooses with is still valid, not empty and no longer than the corpus.
ChoosesWithTheCacheItBuilt ==
    \A t \in Users :
        loc[t] = "choose" => energyValid /\ cacheLen \in 1..Len(corpus)

\* While no optimisation has rearranged the corpus since the last rebuild,
\* the hash index is sound and complete: an entry leads to a seed of its
\* hash, and the hash of every seed is found (lines 118-158, 2495-2516).
IndexSound ==
    ~unindexed =>
        /\ \A e \in index : e[2] \in DOMAIN corpus /\ HashOf[corpus[e[2]].data] = e[1]
        /\ \A i \in DOMAIN corpus : Found(HashOf[corpus[i].data]) # {}

\* No cleanup, optimisation or interruption of one empties the corpus: the
\* workers that drew seeds go on drawing them (lines 180-192, 1640-1650).
NeverEmptied == [][corpus # <<>> => corpus' # <<>>]_vars

\* getSeedByHash returns a seed whose data_hash is the hash it is asked for, as
\* its comment says the schedulers rely on (line 727).
FindsSeedsByTheirHash ==
    \A h \in Hashes : \A s \in SeedsByHash(h) : s.hash = h

\* No thread holds the energy cache lock and waits for the corpus lock of one
\* that waits for the energy cache lock ("thread-safe", README.md:121).
NoLockCycle ==
    \A t, u \in Users :
        ~(loc[t] = "fastCorpus" /\ writer = u /\ loc[u] = "invalidate")
=============================================================================
