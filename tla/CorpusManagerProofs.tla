------------------------- MODULE CorpusManagerProofs -------------------------
(***************************************************************************)
(* Safety of the seed corpus for every number of threads, every hash       *)
(* function, collisions included, and every size limit.                    *)
(*                                                                         *)
(* Types and lock ownership come first; from the exclusion of readers and  *)
(* the writer follow the energy cache and, independently, the hash index.  *)
(***************************************************************************)
EXTENDS CorpusManager, FiniteSetTheorems, WellFoundedInduction, TLAPS

\* What rearranges the corpus may leave: a corpus of seeds that is not empty.
Corpora == Seq(Seed) \ {<<>>}

\* corpus_mutex_ excludes its readers while a thread writes.
Exclusion == writer # Nobody => readers = {}

\* A valid cache has an entry, and none past the corpus unless a thread is about
\* to invalidate it.
CacheInv ==
    /\ energyValid =>
          /\ cacheLen > 0
          /\ cacheLen <= Len(corpus) \/ \E t \in Users : loc[t] = "invalidate"
    /\ \A t \in Users : loc[t] \in {"rebuild", "choose"} => corpus # <<>>
    /\ \A t \in Users : loc[t] = "choose" => energyValid
    /\ \A t \in Users : loc[t] = "optimizing" => corpus # <<>>

IInv == TypeOK /\ Exclusion /\ CacheInv

-----------------------------------------------------------------------------
(* What the parts of a corpus are.                                         *)

\* Erasing seeds from the deque (corpus_.erase in every cleanup) leaves as many seeds
\* as were to be kept.
LEMMA KeptIsCorpus ==
  ASSUME NEW c \in Seq(Seed), NEW k \in Nat, NEW f \in Keeping(c, k)
  PROVE  Kept(c, f) \in Seq(Seed) /\ Len(Kept(c, f)) = k /\ (k > 0 => Kept(c, f) # <<>>)
<1>1. f \in [1..k -> 1..Len(c)]
  BY DEF Keeping
<1>2. \A i \in 1..k : c[f[i]] \in Seed
  BY <1>1
<1>3. Kept(c, f) = [i \in 1..k |-> c[f[i]]]
  BY <1>1 DEF Kept
<1>4. Kept(c, f) \in [1..k -> Seed]
  BY <1>2, <1>3
<1>5. Kept(c, f) \in Seq(Seed) /\ Len(Kept(c, f)) = k
  BY <1>3, <1>4
<1> QED
  BY <1>5

\* A cleanup that keeps at least one seed leaves a corpus.
LEMMA KeptBetweenIsCorpus ==
  ASSUME NEW c \in Seq(Seed), NEW m \in Nat \ {0}, NEW n \in Nat
  PROVE  KeptBetween(c, m, n) \subseteq Corpora
BY KeptIsCorpus DEF KeptBetween, Corpora

\* removeByQualityScore and truncateToTargetSize leave a corpus.
LEMMA CutIsCorpus ==
  ASSUME NEW c \in Corpora, NEW n \in Nat \ {0}
  PROVE  CutTo(c, n) \subseteq Corpora
BY KeptBetweenIsCorpus DEF CutTo, Corpora

\* Keeping the seeds at some positions leaves a corpus if there is a position.
LEMMA KeptAtIsCorpus ==
  ASSUME NEW c \in Corpora, NEW I \in SUBSET DOMAIN c, I # {}
  PROVE  KeptAt(c, I) \subseteq Corpora
<1>1. IsFiniteSet(1..Len(c)) /\ DOMAIN c = 1..Len(c)
  BY FS_Interval DEF Corpora
<1>2. IsFiniteSet(I)
  BY <1>1, FS_Subset
<1>3. Cardinality(I) \in Nat \ {0}
  BY <1>2, FS_CardinalityType, FS_EmptySet
<1> QED
  BY <1>3, KeptIsCorpus DEF KeptAt, Corpora

\* The first seed is the first of its hash, so removeDuplicatesAFL leaves a corpus.
LEMMA FirstIsKept ==
  ASSUME NEW c \in Corpora
  PROVE  FirstOfHash(c) # {} /\ FirstOfHash(c) \subseteq DOMAIN c
<1>1. 1 \in DOMAIN c /\ \A j \in DOMAIN c : 1 <= j
  BY DEF Corpora
<1>2. 1 \in FirstOfHash(c)
  BY <1>1 DEF FirstOfHash
<1> QED
  BY <1>2 DEF FirstOfHash

\* minimizeSeedsInPlace changes what seeds hold, not how many there are.
LEMMA MinimizedIsCorpus ==
  ASSUME NEW c \in Corpora, NEW n \in Nat
  PROVE  Minimized(c, n) \in Corpora
<1>1. c \in [1..Len(c) -> Seed] /\ Len(c) \in Nat /\ c # <<>>
  BY DEF Corpora
<1>2. \A i \in 1..Len(c) : [c[i] EXCEPT !.data = Trimmed[@]] \in Seed
  BY <1>1, CorpusAssumption DEF Seed
<1>3. Minimized(c, n) \in [1..Len(c) -> Seed]
  BY <1>1, <1>2 DEF Minimized
<1>4. Minimized(c, n) \in Seq(Seed) /\ Len(Minimized(c, n)) = Len(c)
  BY <1>1, <1>3
<1>5. Len(c) # 0
  BY DEF Corpora
<1> QED
  BY <1>4, <1>5 DEF Corpora

\* The stages of optimizeCorpus up to the scoring leave a corpus.
LEMMA ScoredIsCorpus ==
  ASSUME NEW c \in Corpora
  PROVE  Thinned(c) \subseteq Corpora /\ Scored(c) \subseteq Corpora
<1>1. Deduplicated(c) \subseteq Corpora
  BY FirstIsKept, KeptAtIsCorpus DEF Deduplicated
<1>2. \A d \in Corpora : RedundancyRemoved(d) \subseteq Corpora
  BY KeptBetweenIsCorpus DEF RedundancyRemoved, Corpora
<1>3. Thinned(c) \subseteq Corpora
  BY <1>1, <1>2 DEF Thinned
<1>4. \A d \in Corpora : CutTo(d, MinCorpus) \subseteq Corpora
  BY CutIsCorpus, CorpusAssumption
<1> QED
  BY <1>3, <1>4 DEF Scored

\* Whatever optimizeCorpus does, to its end or cut short, it leaves a corpus.
LEMMA OptimizedIsCorpus ==
  ASSUME NEW c \in Corpora
  PROVE  Optimized(c) \subseteq Corpora /\ CutShort(c) \subseteq Corpora
<1>1. Thinned(c) \subseteq Corpora /\ Scored(c) \subseteq Corpora
  BY ScoredIsCorpus
<1>2. \A d \in Scored(c) : Minimized(d, Len(d)) \in Corpora /\ Len(d) \in Nat
  BY <1>1, MinimizedIsCorpus DEF Corpora
<1>3. Optimized(c) \subseteq Corpora
  BY <1>2, CutIsCorpus, CorpusAssumption DEF Optimized
<1>4. ASSUME NEW n \in 0..Len(c)
      PROVE  KeptAt(c, {i \in DOMAIN c : i > n \/ i \in FirstOfHash(c)}) \subseteq Corpora
  <2> DEFINE I == {i \in DOMAIN c : i > n \/ i \in FirstOfHash(c)}
  <2>1. I # {} /\ I \in SUBSET DOMAIN c
    BY FirstIsKept
  <2> QED
    BY <2>1, KeptAtIsCorpus
<1>5. \A d \in Scored(c), n \in 0..MinCorpus : Minimized(d, n) \in Corpora
  BY <1>1, MinimizedIsCorpus, CorpusAssumption
<1>6. \A d \in Scored(c) : KeptBetween(Minimized(d, Len(d)), Target, Len(d)) \subseteq Corpora
  BY <1>2, KeptBetweenIsCorpus, CorpusAssumption DEF Corpora
<1> DEFINE A == UNION {KeptAt(c, {i \in DOMAIN c : i > n \/ i \in FirstOfHash(c)}) :
                          n \in 0..Len(c)}
           B == {Minimized(c3, n) : c3 \in Scored(c), n \in 0..MinCorpus}
           C == UNION {KeptBetween(Minimized(c3, Len(c3)), Target, Len(c3)) : c3 \in Scored(c)}
<1>7. A \subseteq Corpora
  BY <1>4
<1>8. B \subseteq Corpora
  BY <1>5
<1>9. C \subseteq Corpora
  BY <1>6
<1>10. CutShort(c) = A \cup Thinned(c) \cup B \cup C
  BY DEF CutShort
<1> HIDE DEF A, B, C
<1> QED
  BY <1>1, <1>3, <1>7, <1>8, <1>9, <1>10

-----------------------------------------------------------------------------
(* The hash index after a rebuild.                                         *)

\* A set of positions that is not empty has a last one.
LEMMA LastPosition ==
  ASSUME NEW n \in Nat, NEW I \in SUBSET (1..n), I # {}
  PROVE  \E i \in I : \A j \in I : j <= i
<1> DEFINE T == {n - i : i \in I}
           R == OpToRel(<, Nat)
<1>0. \A i \in I : i \in 1..n /\ n - i \in Nat
  OBVIOUS
<1>1. T \subseteq Nat /\ T # {}
  BY <1>0
<1>2. PICK x \in T : \A y \in T : ~(<<y, x>> \in R)
  <2> HIDE DEF T, R
  <2>1. IsWellFoundedOn(R, Nat)
    BY NatLessThanWellFounded DEF R
  <2> QED
    BY <1>1, <2>1, WFMin
<1>3. \A y \in T : ~(y < x)
  BY <1>1, <1>2 DEF OpToRel
<1>4. PICK i \in I : x = n - i
  BY DEF T
<1>5. ASSUME NEW j \in I PROVE j <= i
  <2>1. n - j \in T
    OBVIOUS
  <2>2. ~(n - j < n - i)
    BY <1>3, <1>4, <2>1
  <2>3. i \in Nat /\ j \in Nat
    BY <1>0
  <2> QED
    BY <2>2, <2>3
<1> QED
  BY <1>5

\* rebuildHashIndex: every entry leads to a seed of its hash, every hash has an entry.
LEMMA RebuiltIsSound ==
  ASSUME NEW c \in Seq(Seed)
  PROVE  /\ RebuiltIndex(c) \subseteq Hashes \X Nat
         /\ \A e \in RebuiltIndex(c) : e[2] \in DOMAIN c /\ HashOf[c[e[2]].data] = e[1]
         /\ \A i \in DOMAIN c : \E k \in DOMAIN c :
                <<HashOf[c[i].data], k>> \in RebuiltIndex(c)
<1>1. ASSUME NEW i \in DOMAIN c PROVE c[i].data \in Data /\ HashOf[c[i].data] \in Hashes
  <2>1. c[i] \in Seed
    OBVIOUS
  <2> QED
    BY <2>1, CorpusAssumption DEF Seed
<1>2. DOMAIN c = 1..Len(c) /\ Len(c) \in Nat
  OBVIOUS
<1>3. RebuiltIndex(c) \subseteq Hashes \X Nat
  BY <1>1, <1>2 DEF RebuiltIndex
<1>4. \A e \in RebuiltIndex(c) : e[2] \in DOMAIN c /\ HashOf[c[e[2]].data] = e[1]
  BY DEF RebuiltIndex
<1>5. ASSUME NEW i \in DOMAIN c
      PROVE  \E k \in DOMAIN c : <<HashOf[c[i].data], k>> \in RebuiltIndex(c)
  <2> DEFINE I == {j \in DOMAIN c : HashOf[c[j].data] = HashOf[c[i].data]}
  <2>1. I \in SUBSET (1..Len(c)) /\ I # {}
    BY <1>2
  <2>2. PICK k \in I : \A j \in I : j <= k
    BY <1>2, <2>1, LastPosition
  <2>3. <<HashOf[c[k].data], k>> \in RebuiltIndex(c)
    BY <2>2 DEF RebuiltIndex
  <2> QED
    BY <2>2, <2>3
<1> QED
  BY <1>3, <1>4, <1>5

-----------------------------------------------------------------------------
(* Types, locks and the cache.                                             *)

\* What addSeed makes of the corpus: one seed longer, or cut back but not to nothing.
LEMMA AddedIsCorpus ==
  ASSUME StateOK, NEW d \in Data
  PROVE  LET grown == Append(corpus, NewSeed(d))
             n == Len(grown)
         IN  /\ grown \in Corpora /\ n = Len(corpus) + 1
             /\ n >= HighWater => n - Removable(n) \in Nat \ {0}
             /\ n >= HighWater => \A f \in Keeping(grown, n - Removable(n)) :
                    /\ Kept(grown, f) \in Corpora
                    /\ Len(Kept(grown, f)) = n - Removable(n)
<1> DEFINE grown == Append(corpus, NewSeed(d))
           n == Len(grown)
<1>1. NewSeed(d) \in Seed
  BY CorpusAssumption DEF NewSeed, Seed
<1>2. grown \in Seq(Seed) /\ n = Len(corpus) + 1 /\ n \in Nat /\ n # 0
  BY <1>1 DEF StateOK
<1>3. grown \in Corpora
  <2> HIDE DEF grown
  <2>1. Len(grown) # 0 => grown # <<>>
    OBVIOUS
  <2> QED
    BY <1>2, <2>1 DEF Corpora
<1>4. n >= HighWater => n - Removable(n) \in Nat \ {0}
  <2> HIDE DEF grown, n
  <2> QED
    BY <1>2, CorpusAssumption DEF Removable
<1>5. ASSUME n >= HighWater, NEW f \in Keeping(grown, n - Removable(n))
      PROVE  Kept(grown, f) \in Corpora /\ Len(Kept(grown, f)) = n - Removable(n)
  <2> DEFINE k == n - Removable(n)
  <2>1. k \in Nat \ {0}
    BY <1>4, <1>5
  <2> HIDE DEF k
  <2>2. f \in Keeping(grown, k)
    BY <1>5 DEF k
  <2>3. Kept(grown, f) \in Corpora /\ Len(Kept(grown, f)) = k
    BY <1>2, <2>1, <2>2, KeptIsCorpus DEF Corpora
  <2> QED
    BY <2>3 DEF k
<1> HIDE DEF grown, n
<1>6. /\ grown \in Corpora /\ n = Len(corpus) + 1
      /\ n >= HighWater => n - Removable(n) \in Nat \ {0}
      /\ n >= HighWater => \A f \in Keeping(grown, n - Removable(n)) :
             Kept(grown, f) \in Corpora /\ Len(Kept(grown, f)) = n - Removable(n)
  BY <1>2, <1>3, <1>4, <1>5
<1> QED
  BY <1>6 DEF grown, n

\* A manager that has loaded its corpus and runs no thread satisfies the invariant.
LEMMA IInvInit == Init => IInv
<1> SUFFICES ASSUME Init PROVE IInv
  OBVIOUS
<1>1. PICK n \in 0..MaxLoaded : \E ds \in [1..n -> Data] :
          corpus = [i \in 1..n |-> NewSeed(ds[i])]
  BY DEF Init
<1>2. PICK ds \in [1..n -> Data] : corpus = [i \in 1..n |-> NewSeed(ds[i])]
  BY <1>1
<1>3. n \in Nat /\ \A i \in 1..n : NewSeed(ds[i]) \in Seed
  BY CorpusAssumption DEF NewSeed, Seed
<1>4. corpus \in [1..n -> Seed]
  BY <1>2, <1>3
<1>5. corpus \in Seq(Seed)
  BY <1>3, <1>4
<1>6. DOMAIN corpus = 1..n
  BY <1>4
<1>7. index \subseteq Hashes \X Nat
  <2>1. ASSUME NEW i \in 1..n PROVE HashOf[corpus[i].data] \in Hashes /\ i \in Nat
    <3>1. corpus[i] \in Seed
      BY <1>4
    <3> QED
      BY <1>3, <3>1, CorpusAssumption DEF Seed
  <2>2. index = {<<HashOf[corpus[i].data], i>> : i \in 1..n}
    BY <1>6 DEF Init, FullIndex
  <2> QED
    BY <2>1, <2>2
<1>8. StateOK
  BY <1>5, <1>7 DEF Init, StateOK, Locations
<1>9. LocksHeld /\ Exclusion /\ CacheInv
  BY CorpusAssumption DEF Init, LocksHeld, Exclusion, CacheInv, Users
<1> QED
  BY <1>8, <1>9 DEF IInv, TypeOK

\* addSeed runs with nobody in the corpus, so no reader sees it change.
LEMMA AddSeedKeeps ==
  ASSUME IInv, NEW t \in Threads, NEW d \in Data, AddSeed(t, d)
  PROVE  IInv' /\ corpus' # <<>>
<1> DEFINE grown == Append(corpus, NewSeed(d))
           n == Len(grown)
<1>1. StateOK /\ LocksHeld /\ Exclusion /\ CacheInv
  BY DEF IInv, TypeOK
<1>2. CanWrite /\ UNCHANGED <<lockVars, cacheLen, loc, pick, stopping>>
  BY DEF AddSeed
<1>3. /\ corpus' \in Corpora /\ index' \subseteq Hashes \X Nat
      /\ unindexed' \in BOOLEAN /\ energyValid' \in BOOLEAN
      /\ energyValid' => energyValid /\ Len(corpus') > Len(corpus)
  <2>1. CASE n >= HighWater
    <3>1. PICK f \in Keeping(grown, n - Removable(n)) : corpus' = Kept(grown, f)
      BY <2>1 DEF AddSeed
    <3>2. corpus' \in Corpora /\ Len(corpus') = n - Removable(n) /\ n = Len(corpus) + 1
      BY <1>1, <2>1, <3>1, AddedIsCorpus
    <3>3. index' = RebuiltIndex(corpus') /\ unindexed' = FALSE
          /\ energyValid' = (energyValid /\ Removable(n) = 0)
      BY <2>1 DEF AddSeed
    <3>4. index' \subseteq Hashes \X Nat
      BY <3>2, <3>3, RebuiltIsSound DEF Corpora
    <3>5. Removable(n) = 0 => Len(corpus') > Len(corpus)
      <4> HIDE DEF n
      <4>1. Len(corpus) \in Nat
        BY <1>1 DEF StateOK
      <4> QED
        BY <3>2, <4>1
    <3> QED
      BY <1>1, <3>2, <3>3, <3>4, <3>5 DEF StateOK
  <2>2. CASE ~(n >= HighWater)
    <3>1. corpus' = grown /\ index' = index \cup {<<HashOf[d], n>>}
          /\ UNCHANGED <<unindexed, energyValid>>
      BY <2>2 DEF AddSeed
    <3>2. grown \in Corpora /\ n = Len(corpus) + 1 /\ Len(corpus) \in Nat
      BY <1>1, AddedIsCorpus DEF StateOK
    <3> HIDE DEF grown
    <3>3. index' \subseteq Hashes \X Nat
      BY <1>1, <3>1, <3>2, CorpusAssumption DEF StateOK
    <3> QED
      BY <1>1, <3>1, <3>2, <3>3 DEF StateOK
  <2> QED
    BY <2>1, <2>2
<1>4. corpus' \in Seq(Seed) /\ corpus' # <<>> /\ Len(corpus') \in Nat /\ Len(corpus) \in Nat
  <2>1. corpus' \in Seq(Seed) /\ corpus' # <<>> /\ corpus \in Seq(Seed)
    BY <1>1, <1>3 DEF Corpora, StateOK
  <2> QED
    BY <2>1
<1>5. StateOK'
  <2>1. UNCHANGED <<writer, readers, cacheOwner, cacheLen, loc, pick, stopping>>
    BY <1>2 DEF lockVars
  <2> HIDE DEF grown, n
  <2> QED
    BY <1>1, <1>3, <1>4, <2>1 DEF StateOK
<1>6. LocksHeld' /\ Exclusion'
  BY <1>1, <1>2 DEF LocksHeld, Exclusion, lockVars
<1>7. CacheInv'
  <2>1. \A u \in Users : loc[u] \notin {"rebuild", "choose", "optimizing", "invalidate"}
    BY <1>1, <1>2, CorpusAssumption DEF CanWrite, LocksHeld
  <2>2. loc' = loc /\ cacheLen' = cacheLen /\ cacheLen \in Nat
    BY <1>1, <1>2 DEF StateOK
  <2>3. ASSUME energyValid' PROVE cacheLen' > 0 /\ cacheLen' <= Len(corpus')
    <3>1. energyValid /\ Len(corpus') > Len(corpus)
      BY <1>3, <2>3
    <3>2. cacheLen > 0 /\ cacheLen <= Len(corpus)
      BY <1>1, <2>1, <3>1 DEF CacheInv
    <3> QED
      BY <1>4, <2>2, <3>1, <3>2
  <2> QED
    BY <2>1, <2>2, <2>3 DEF CacheInv
<1> QED
  BY <1>4, <1>5, <1>6, <1>7 DEF IInv, TypeOK

\* The steps of getNextSeed and selectSeedByEnergy take and give back their locks, and
\* what the slow path chooses with is what it built.
LEMMA SelectionKeeps ==
  ASSUME IInv, NEW t \in Threads,
         \/ GetNextSeed(t) \/ PickFromCache(t) \/ MissCache(t) \/ FetchPicked(t)
         \/ EnterSlowPath(t) \/ RebuildCache(t) \/ ChooseSeed(t)
  PROVE  IInv' /\ UNCHANGED corpus
<1>1. StateOK /\ LocksHeld /\ Exclusion /\ CacheInv /\ t \in Users
  BY DEF IInv, TypeOK, Users
<1> USE DEF Goto, seedVars, lockVars, cacheVars
<1>2. CASE GetNextSeed(t) \/ MissCache(t)
  <2>1. StateOK'
    BY <1>1, <1>2 DEF GetNextSeed, MissCache, StateOK, Locations
  <2>2. LocksHeld' /\ Exclusion'
    BY <1>1, <1>2 DEF GetNextSeed, MissCache, StateOK, LocksHeld, Exclusion
  <2>3. CacheInv' /\ UNCHANGED corpus
    BY <1>1, <1>2 DEF GetNextSeed, MissCache, StateOK, CacheInv
  <2> QED
    BY <2>1, <2>2, <2>3 DEF IInv, TypeOK
<1>3. CASE PickFromCache(t)
  <2>1. StateOK'
    <3>1. PICK i \in 1..cacheLen : pick' = [pick EXCEPT ![t] = i]
      BY <1>3 DEF PickFromCache
    <3> QED
      BY <1>1, <1>3, <3>1 DEF PickFromCache, StateOK, Locations
  <2>2. LocksHeld' /\ Exclusion'
    BY <1>1, <1>3, CorpusAssumption DEF PickFromCache, CacheFree, StateOK, LocksHeld, Exclusion
  <2>3. CacheInv' /\ UNCHANGED corpus
    BY <1>1, <1>3 DEF PickFromCache, StateOK, CacheInv
  <2> QED
    BY <2>1, <2>2, <2>3 DEF IInv, TypeOK
<1>4. CASE FetchPicked(t)
  <2>1. StateOK'
    BY <1>1, <1>4 DEF FetchPicked, StateOK, Locations
  <2>2. LocksHeld' /\ Exclusion'
    BY <1>1, <1>4, CorpusAssumption DEF FetchPicked, StateOK, LocksHeld, Exclusion
  <2>3. CacheInv' /\ UNCHANGED corpus
    BY <1>1, <1>4 DEF FetchPicked, StateOK, CacheInv
  <2> QED
    BY <2>1, <2>2, <2>3 DEF IInv, TypeOK
<1>5. CASE EnterSlowPath(t)
  <2>1. StateOK'
    BY <1>1, <1>5 DEF EnterSlowPath, StateOK, Locations
  <2>2. LocksHeld' /\ Exclusion'
    BY <1>1, <1>5, CorpusAssumption DEF EnterSlowPath, CanRead, StateOK, LocksHeld, Exclusion
  <2>3. CacheInv' /\ UNCHANGED corpus
    BY <1>1, <1>5 DEF EnterSlowPath, StateOK, CacheInv
  <2> QED
    BY <2>1, <2>2, <2>3 DEF IInv, TypeOK
<1>6. CASE RebuildCache(t)
  <2>1. StateOK'
    BY <1>1, <1>6 DEF RebuildCache, StateOK, Locations
  <2>2. LocksHeld' /\ Exclusion'
    BY <1>1, <1>6 DEF RebuildCache, StateOK, LocksHeld, Exclusion
  <2>3. corpus \in Seq(Seed) /\ corpus # <<>>
    BY <1>1, <1>6 DEF RebuildCache, StateOK, CacheInv
  <2>4. Len(corpus) \in Nat /\ Len(corpus) > 0
    BY <2>3
  <2>5. \A u \in Users : loc[u] # "invalidate"
    BY <1>1, <1>6, CorpusAssumption DEF RebuildCache, LocksHeld, Exclusion
  <2>6. cacheLen' > 0 /\ cacheLen' <= Len(corpus')
    BY <1>1, <1>6, <2>4, <2>5 DEF RebuildCache, StateOK, CacheInv
  <2>7. CacheInv' /\ UNCHANGED corpus
    BY <1>1, <1>6, <2>3, <2>6 DEF RebuildCache, StateOK, CacheInv
  <2> QED
    BY <2>1, <2>2, <2>7 DEF IInv, TypeOK
<1>7. CASE ChooseSeed(t)
  <2>1. StateOK'
    BY <1>1, <1>7 DEF ChooseSeed, StateOK, Locations
  <2>2. LocksHeld' /\ Exclusion'
    BY <1>1, <1>7 DEF ChooseSeed, StateOK, LocksHeld, Exclusion
  <2>3. CacheInv' /\ UNCHANGED corpus
    BY <1>1, <1>7 DEF ChooseSeed, StateOK, CacheInv
  <2> QED
    BY <2>1, <2>2, <2>3 DEF IInv, TypeOK
<1> QED
  BY <1>2, <1>3, <1>4, <1>5, <1>6, <1>7

\* updateSeedEnergy keeps the corpus lock until it has invalidated the cache.
LEMMA UpdateKeeps ==
  ASSUME IInv, NEW t \in Threads, NEW d \in Data, UpdateSeedEnergy(t, d)
  PROVE  IInv' /\ UNCHANGED corpus
<1>1. StateOK /\ LocksHeld /\ Exclusion /\ CacheInv /\ t \in Users
  BY DEF IInv, TypeOK, Users
<1> USE DEF Goto, seedVars, lockVars, cacheVars
<1>2. StateOK'
  BY <1>1 DEF UpdateSeedEnergy, StateOK, Locations
<1>3. LocksHeld' /\ Exclusion'
  BY <1>1, CorpusAssumption DEF UpdateSeedEnergy, CanWrite, StateOK, LocksHeld, Exclusion
<1>4. CacheInv' /\ UNCHANGED corpus
  BY <1>1 DEF UpdateSeedEnergy, StateOK, CacheInv
<1> QED
  BY <1>2, <1>3, <1>4 DEF IInv, TypeOK

\* invalidateEnergyCache runs under the exclusive corpus lock: no slow path is between
\* its two uses of the cache.
LEMMA InvalidateKeeps ==
  ASSUME IInv, NEW t \in Users, InvalidateEnergyCache(t)
  PROVE  IInv' /\ UNCHANGED corpus
<1>1. StateOK /\ LocksHeld /\ Exclusion /\ CacheInv
  BY DEF IInv, TypeOK
<1> USE DEF Goto, seedVars, lockVars, cacheVars
<1>2. StateOK'
  BY <1>1 DEF InvalidateEnergyCache, StateOK, Locations
<1>3. writer = t /\ readers = {}
  BY <1>1, CorpusAssumption DEF InvalidateEnergyCache, LocksHeld, Exclusion
<1>4. LocksHeld' /\ Exclusion'
  BY <1>1, <1>3, CorpusAssumption DEF InvalidateEnergyCache, StateOK, LocksHeld, Exclusion
<1>5. \A u \in Users : loc[u] \notin {"rebuild", "choose"}
  BY <1>1, <1>3 DEF LocksHeld
<1>6. CacheInv' /\ UNCHANGED corpus
  BY <1>1, <1>5 DEF InvalidateEnergyCache, StateOK, CacheInv
<1> QED
  BY <1>2, <1>4, <1>6 DEF IInv, TypeOK

\* optimizeCorpusAFLStyle holds the corpus lock until the cache is invalidated, if the
\* corpus shrank, and never leaves the corpus empty.
LEMMA OptimizerKeeps ==
  ASSUME IInv, NEW t \in Users, Optimize(t) \/ OptimizerStep(t)
  PROVE  IInv' /\ (corpus # <<>> => corpus' # <<>>)
<1>1. StateOK /\ LocksHeld /\ Exclusion /\ CacheInv
  BY DEF IInv, TypeOK
<1> USE DEF Goto, seedVars, lockVars, cacheVars
<1>2. CASE Optimize(t)
  <2>1. StateOK'
    BY <1>1, <1>2 DEF Optimize, StateOK, Locations
  <2>2. LocksHeld' /\ Exclusion'
    BY <1>1, <1>2, CorpusAssumption DEF Optimize, CanWrite, StateOK, LocksHeld, Exclusion
  <2>3. CacheInv' /\ UNCHANGED corpus
    BY <1>1, <1>2 DEF Optimize, StateOK, CacheInv
  <2> QED
    BY <2>1, <2>2, <2>3 DEF IInv, TypeOK
<1>3. ASSUME NEW outcomes, NEW interrupted \in BOOLEAN,
             FinishOptimizing(t, outcomes, interrupted), outcomes \subseteq Corpora
      PROVE  IInv' /\ corpus' # <<>>
  <2>1. corpus' \in Seq(Seed) /\ corpus' # <<>>
    BY <1>3 DEF FinishOptimizing, Corpora
  <2>2. Len(corpus') \in Nat /\ Len(corpus) \in Nat
    BY <1>1, <2>1 DEF StateOK
  <2>3. writer = t /\ readers = {}
    BY <1>1, <1>3, CorpusAssumption DEF FinishOptimizing, LocksHeld, Exclusion
  <2>4. \A u \in Users : u # t => loc[u] \notin {"rebuild", "choose", "optimizing", "invalidate"}
    BY <1>1, <2>3 DEF LocksHeld
  <2>5. /\ UNCHANGED <<index, readers, cacheOwner, energyValid, cacheLen, pick, stopping>>
        /\ unindexed' \in BOOLEAN
        /\ \/ loc' = [loc EXCEPT ![t] = "invalidate"] /\ writer' = writer
           \/ /\ loc' = [loc EXCEPT ![t] = "idle"] /\ writer' = Nobody
              /\ ~(Len(corpus') < Len(corpus))
    BY <1>3 DEF FinishOptimizing
  <2>6. StateOK'
    BY <1>1, <2>1, <2>5 DEF StateOK, Locations
  <2>7. LocksHeld' /\ Exclusion'
    BY <1>1, <2>3, <2>4, <2>5, CorpusAssumption DEF StateOK, LocksHeld, Exclusion
  <2>8. CacheInv'
    <3>1. ASSUME energyValid'
          PROVE  cacheLen' > 0 /\ (cacheLen' <= Len(corpus') \/ \E u \in Users : loc'[u] = "invalidate")
      <4>1. loc[t] = "optimizing" /\ cacheLen \in Nat
        BY <1>1, <1>3 DEF FinishOptimizing, StateOK
      <4>2. cacheLen > 0 /\ cacheLen <= Len(corpus)
        BY <1>1, <2>4, <2>5, <3>1, <4>1 DEF CacheInv
      <4>3. CASE loc' = [loc EXCEPT ![t] = "invalidate"]
        BY <1>1, <2>5, <4>2, <4>3 DEF StateOK
      <4>4. CASE ~(Len(corpus') < Len(corpus))
        BY <2>2, <2>5, <4>1, <4>2, <4>4
      <4> QED
        BY <2>5, <4>3, <4>4
    <3>2. \A u \in Users : loc'[u] # "choose"
      BY <1>1, <2>4, <2>5 DEF StateOK
    <3> QED
      BY <2>1, <3>1, <3>2 DEF CacheInv
  <2> QED
    BY <2>1, <2>6, <2>7, <2>8 DEF IInv, TypeOK
<1>4. CASE OptimizerStep(t)
  <2>1. loc[t] = "optimizing"
    BY <1>4 DEF OptimizerStep, FinishOptimizing
  <2>2. corpus \in Corpora
    BY <1>1, <2>1 DEF StateOK, CacheInv, Corpora
  <2>3. Optimized(corpus) \subseteq Corpora /\ CutShort(corpus) \subseteq Corpora
    BY <2>2, OptimizedIsCorpus
  <2> QED
    BY <1>3, <1>4, <2>3 DEF OptimizerStep
<1> QED
  BY <1>2, <1>4

\* Every step keeps the invariant and leaves seeds where there were seeds.
LEMMA NextKeeps ==
  ASSUME IInv, [Next]_vars
  PROVE  IInv' /\ (corpus # <<>> => corpus' # <<>>)
<1> USE DEF seedVars, lockVars, cacheVars
<1>1. CASE \E t \in Threads, d \in Data : AddSeed(t, d) \/ UpdateSeedEnergy(t, d)
  BY <1>1, AddSeedKeeps, UpdateKeeps
<1>2. CASE \E t \in Threads : \/ GetNextSeed(t) \/ PickFromCache(t) \/ MissCache(t)
                              \/ FetchPicked(t) \/ EnterSlowPath(t) \/ RebuildCache(t)
                              \/ ChooseSeed(t)
  BY <1>2, SelectionKeeps
<1>3. CASE \E t \in Users : Optimize(t) \/ OptimizerStep(t) \/ InvalidateEnergyCache(t)
  BY <1>3, OptimizerKeeps, InvalidateKeeps
<1>4. CASE StopAutoOptimization \/ OptimizerExits
  <2>1. StateOK /\ LocksHeld /\ Exclusion /\ CacheInv /\ Optimizer \in Users
    BY DEF IInv, TypeOK, Users
  <2>2. StateOK'
    BY <1>4, <2>1 DEF StopAutoOptimization, OptimizerExits, Goto, StateOK, Locations
  <2>3. LocksHeld' /\ Exclusion'
    BY <1>4, <2>1 DEF StopAutoOptimization, OptimizerExits, Goto, StateOK, LocksHeld, Exclusion
  <2>4. CacheInv' /\ UNCHANGED corpus
    BY <1>4, <2>1 DEF StopAutoOptimization, OptimizerExits, Goto, StateOK, CacheInv
  <2> QED
    BY <2>2, <2>3, <2>4 DEF IInv, TypeOK
<1>5. CASE UNCHANGED vars
  BY <1>5 DEF vars, IInv, TypeOK, StateOK, LocksHeld, Exclusion, CacheInv
<1> QED
  BY <1>1, <1>2, <1>3, <1>4, <1>5 DEF Next

-----------------------------------------------------------------------------
(* The theorems.                                                           *)

\* The invariant all of them rest on.
LEMMA Invariant == Spec => []IInv
<1>1. Init => IInv
  BY IInvInit
<1>2. IInv /\ [Next]_vars => IInv'
  BY NextKeeps
<1> QED
  BY <1>1, <1>2, PTL DEF Spec

\* Every path through the corpus code returns the locks it took, whichever threads
\* interleave, and the corpus stays one of seeds.
THEOREM TypeCorrect == Spec => []TypeOK
<1>1. IInv => TypeOK
  BY DEF IInv
<1> QED
  BY <1>1, Invariant, PTL

\* No reader finds a valid energy cache longer than the corpus.
THEOREM CacheNeverOverruns == Spec => []ValidCacheFits
<1>1. IInv => ValidCacheFits
  <2> SUFFICES ASSUME IInv, energyValid, writer = Nobody PROVE cacheLen <= Len(corpus)
    BY DEF ValidCacheFits
  <2>1. \A t \in Users : loc[t] # "invalidate"
    BY CorpusAssumption DEF IInv, TypeOK, LocksHeld
  <2> QED
    BY <2>1 DEF IInv, CacheInv
<1> QED
  BY <1>1, Invariant, PTL

\* Between the two uses of the cache in the slow path nobody can invalidate it, because
\* whoever does holds the corpus exclusively and the slow path holds it shared.
THEOREM SlowPathKeepsItsCache == Spec => []ChoosesWithTheCacheItBuilt
<1>1. IInv => ChoosesWithTheCacheItBuilt
  <2> SUFFICES ASSUME IInv, NEW t \in Users, loc[t] = "choose"
               PROVE  energyValid /\ cacheLen \in 1..Len(corpus)
    BY DEF ChoosesWithTheCacheItBuilt
  <2>1. StateOK /\ LocksHeld /\ Exclusion /\ CacheInv
    BY DEF IInv, TypeOK
  <2>2. energyValid
    BY <2>1 DEF CacheInv
  <2>3. \A u \in Users : loc[u] # "invalidate"
    BY <2>1, CorpusAssumption DEF LocksHeld, Exclusion
  <2>4. cacheLen > 0 /\ cacheLen <= Len(corpus)
    BY <2>1, <2>2, <2>3 DEF CacheInv
  <2>5. cacheLen \in Nat /\ Len(corpus) \in Nat
    BY <2>1 DEF StateOK
  <2> QED
    BY <2>2, <2>4, <2>5
<1> QED
  BY <1>1, Invariant, PTL

\* No cleanup, optimisation or interruption of one empties the corpus.
THEOREM CorpusNeverEmptied == Spec => NeverEmptied
<1>1. IInv /\ [Next]_vars => [corpus # <<>> => corpus' # <<>>]_vars
  BY NextKeeps
<1> QED
  BY <1>1, Invariant, PTL DEF Spec, NeverEmptied

\* The first loaded corpus is indexed seed by seed.
LEMMA IndexInit == Init => IndexSound
<1> SUFFICES ASSUME Init PROVE IndexSound
  OBVIOUS
<1>1. index = FullIndex(corpus)
  BY DEF Init
<1>2. \A e \in index : e[2] \in DOMAIN corpus /\ HashOf[corpus[e[2]].data] = e[1]
  BY <1>1 DEF FullIndex
<1>3. \A i \in DOMAIN corpus : i \in Found(HashOf[corpus[i].data])
  BY <1>1 DEF FullIndex, Found
<1> QED
  BY <1>2, <1>3 DEF IndexSound

\* addSeed indexes the seed it appends, or rebuilds the index of what it keeps.
LEMMA AddSeedIndexes ==
  ASSUME IInv, IndexSound, NEW t \in Threads, NEW d \in Data, AddSeed(t, d)
  PROVE  IndexSound'
<1> DEFINE grown == Append(corpus, NewSeed(d))
           n == Len(grown)
<1>1. StateOK
  BY DEF IInv, TypeOK
<1>2. CASE n >= HighWater
  <2>1. index' = RebuiltIndex(corpus')
    BY <1>2 DEF AddSeed
  <2>2. corpus' \in Seq(Seed)
    <3>1. AddSeed(t, d) => IInv'
      BY AddSeedKeeps
    <3> QED
      BY <3>1 DEF IInv, TypeOK, StateOK
  <2>3. /\ \A e \in index' : e[2] \in DOMAIN corpus' /\ HashOf[corpus'[e[2]].data] = e[1]
        /\ \A i \in DOMAIN corpus' : \E k \in DOMAIN corpus' : <<HashOf[corpus'[i].data], k>> \in index'
    BY <2>1, <2>2, RebuiltIsSound
  <2> QED
    BY <2>3 DEF IndexSound, Found
<1>3. CASE ~(n >= HighWater)
  <2>1. /\ corpus' = grown /\ index' = index \cup {<<HashOf[d], n>>}
        /\ unindexed' = unindexed
    BY <1>3 DEF AddSeed
  <2> SUFFICES ASSUME ~unindexed
               PROVE  /\ \A e \in index' :
                            e[2] \in DOMAIN corpus' /\ HashOf[corpus'[e[2]].data] = e[1]
                      /\ \A i \in DOMAIN corpus' : \E k \in DOMAIN corpus' :
                            <<HashOf[corpus'[i].data], k>> \in index'
    BY <2>1 DEF IndexSound, Found
  <2>2. /\ corpus \in Seq(Seed) /\ NewSeed(d) \in Seed /\ NewSeed(d).data = d
        /\ n = Len(corpus) + 1 /\ Len(corpus) \in Nat
    <3>1. NewSeed(d) \in Seed /\ NewSeed(d).data = d
      BY CorpusAssumption DEF NewSeed, Seed
    <3> QED
      BY <1>1, <3>1 DEF StateOK
  <2>3. /\ DOMAIN corpus' = 1..n /\ DOMAIN corpus = 1..Len(corpus) /\ corpus'[n].data = d
        /\ \A i \in DOMAIN corpus : corpus'[i] = corpus[i]
    <3>1. DOMAIN grown = 1..n /\ grown[n] = NewSeed(d)
          /\ \A i \in DOMAIN corpus : grown[i] = corpus[i]
      BY <2>2
    <3> HIDE DEF grown, n
    <3> QED
      BY <2>1, <2>2, <3>1
  <2> HIDE DEF grown, n
  <2>4. /\ \A e \in index : e[2] \in DOMAIN corpus /\ HashOf[corpus[e[2]].data] = e[1]
        /\ \A i \in DOMAIN corpus : \E k \in DOMAIN corpus :
              <<HashOf[corpus[i].data], k>> \in index
    BY DEF IndexSound, Found
  <2>5. ASSUME NEW e \in index'
        PROVE  e[2] \in DOMAIN corpus' /\ HashOf[corpus'[e[2]].data] = e[1]
    <3>1. CASE e \in index
      BY <2>2, <2>3, <2>4, <3>1
    <3>2. CASE e = <<HashOf[d], n>>
      BY <2>2, <2>3, <3>2
    <3> QED
      BY <2>1, <3>1, <3>2
  <2>6. ASSUME NEW i \in DOMAIN corpus'
        PROVE  \E k \in DOMAIN corpus' : <<HashOf[corpus'[i].data], k>> \in index'
    <3>1. CASE i \in DOMAIN corpus
      <4>1. PICK k \in DOMAIN corpus : <<HashOf[corpus[i].data], k>> \in index
        BY <2>4, <3>1
      <4>2. k \in DOMAIN corpus' /\ corpus'[i] = corpus[i]
        BY <2>2, <2>3, <3>1
      <4> QED
        BY <2>1, <4>1, <4>2
    <3>2. CASE i = n
      <4>1. n \in DOMAIN corpus'
        BY <2>2, <2>3
      <4> QED
        BY <2>1, <2>3, <3>2, <4>1
    <3> QED
      BY <2>2, <2>3, <3>1, <3>2
  <2> QED
    BY <2>5, <2>6
<1> QED
  BY <1>2, <1>3

\* As long as no optimisation has rearranged the corpus since the last rebuild, the hash
\* index is exact, whatever hashes collide.
THEOREM IndexIsSound == Spec => []IndexSound
<1>1. ASSUME IInv, IndexSound, [Next]_vars PROVE IndexSound'
  <2> USE DEF seedVars
  <2>1. CASE \E t \in Threads, d \in Data : AddSeed(t, d)
    BY <1>1, <2>1, AddSeedIndexes
  <2>2. CASE \E t \in Users : OptimizerStep(t)
    <3>1. UNCHANGED index /\ unindexed' = (unindexed \/ corpus' # corpus)
      BY <2>2 DEF OptimizerStep, FinishOptimizing
    <3> QED
      BY <1>1, <3>1 DEF IndexSound, Found
  <2>3. CASE UNCHANGED seedVars
    BY <1>1, <2>3 DEF IndexSound, Found
  <2>4. \/ \E t \in Threads, d \in Data : AddSeed(t, d)
        \/ \E t \in Users : OptimizerStep(t)
        \/ UNCHANGED seedVars
    BY <1>1 DEF Next, vars, UpdateSeedEnergy, GetNextSeed, PickFromCache, MissCache, FetchPicked,
       EnterSlowPath, RebuildCache, ChooseSeed, Optimize, InvalidateEnergyCache,
       StopAutoOptimization, OptimizerExits
  <2> QED
    BY <2>1, <2>2, <2>3, <2>4
<1> QED
  BY <1>1, IndexInit, Invariant, PTL DEF Spec
=============================================================================
