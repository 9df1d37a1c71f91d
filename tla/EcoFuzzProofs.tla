---------------------------- MODULE EcoFuzzProofs ----------------------------
(***************************************************************************)
(* Safety of the EcoFuzz schedule for every set of selectors and seeds,    *)
(* every energy and every number of cycles.                                *)
(*                                                                         *)
(* Two invariants are inductive beside the types: Books, on who owns which *)
(* cycle and where its energy is, and Turns, on how long a seed has waited *)
(* relative to the seeds still due in its round.                           *)
(***************************************************************************)
EXTENDS EcoFuzz, FunctionSums, FiniteSetTheorems, TLAPS

\* Ids are drawn once; what is not opened yet is untouched.
Drawn ==
    /\ \A c \in open : c < nextCycle
    /\ \A s \in Selectors : mine[s] < nextCycle
    /\ \A c \in CycleIds : c >= nextCycle => out[c] = 0 /\ lost[c] = 0

\* A thread-local names a cycle of which something is left, and no other's.
Owned ==
    /\ \A s, t \in Selectors : mine[s] = mine[t] /\ mine[s] # NoCycle => s = t
    /\ \A s \in Selectors : mine[s] # NoCycle => mine[s] \in open
    /\ \A s \in Selectors : mine[s] = NoCycle => left[s] = 0 /\ s \notin fetching
    /\ \A s \in Selectors : mine[s] # NoCycle /\ s \notin fetching => left[s] > 0

\* Where the energy of an open cycle is: untouched while its seed is fetched, else
\* spread over results, losses, tasks about and what its owner may still make.
Spread ==
    /\ \A s \in fetching :
         left[s] = 0 /\ out[mine[s]] = 0 /\ lost[mine[s]] = 0 /\ cycle[mine[s]].seen = 0
    /\ \A s \in Selectors \ fetching : \A c \in open :
         mine[s] = c => cycle[c].energy = cycle[c].seen + lost[c] + out[c] + left[s]
    /\ \A c \in open :
         (\A s \in Selectors : mine[s] # c)
            => cycle[c].energy = cycle[c].seen + lost[c] + out[c]

\* An open cycle waits for a result; an erased one has no task about.
Waiting ==
    /\ \A c \in open : cycle[c].seed \in Hashes /\ cycle[c].seen < cycle[c].energy
    /\ \A c \in CycleIds \ open : out[c] = 0

\* The mutations of a seed since a cycle was opened include the cycle's results.
Reckoned ==
    /\ \A h \in Hashes : stats[h].serial = 0 => stats[h] = NoStats
    /\ \A c \in open : stats[cycle[c].seed].serial > 0
    /\ \A c \in open :
         cycle[c].start + cycle[c].seen <= stats[cycle[c].seed].mutations

Books == Drawn /\ Owned /\ Spread /\ Waiting /\ Reckoned

\* A refresh keeps the types and numbers every seed of the pool (refresh_seed_pool_locked);
LEMMA EnteredType ==
  ASSUME TypeOK, NEW P \in SUBSET Hashes
  PROVE  /\ Entered(P) \in [Hashes -> SeedStats]
         /\ \A h \in P : Entered(P)[h].serial > 0
<1>1. IsFiniteSet(Hashes)
  BY EcoFuzzAssumption
<1>2. ASSUME NEW h \in Hashes
      PROVE  Serial(P, h) \in Nat /\ (h \in P /\ stats[h].serial = 0 => Serial(P, h) > 0)
  <2> DEFINE A == {g \in Hashes : stats[g].serial > 0}
             B == {g \in P : stats[g].serial = 0 /\ g <= h}
  <2>1. IsFiniteSet(A) /\ IsFiniteSet(B)
    <3>1. A \subseteq Hashes /\ B \subseteq Hashes
      OBVIOUS
    <3> QED
      BY <1>1, <3>1, FS_Subset
  <2>2. Cardinality(A) \in Nat /\ Cardinality(B) \in Nat
    BY <2>1, FS_CardinalityType
  <2>3. ASSUME h \in P, stats[h].serial = 0 PROVE Cardinality(B) > 0
    <3>1. h \in B
      BY <2>3, EcoFuzzAssumption
    <3> QED
      BY <2>1, <2>2, <3>1, FS_EmptySet
  <2> QED
    BY <2>2, <2>3 DEF Serial
<1>3. ASSUME NEW h \in Hashes PROVE [NoStats EXCEPT !.serial = Serial(P, h)] \in SeedStats
  BY <1>2 DEF NoStats, SeedStats
<1>4. ASSUME NEW h \in P PROVE Entered(P)[h].serial > 0
  <2>1. CASE stats[h].serial = 0
    <3>1. Entered(P)[h] = [NoStats EXCEPT !.serial = Serial(P, h)]
      BY <2>1 DEF Entered
    <3> QED
      BY <1>2, <2>1, <3>1 DEF NoStats
  <2>2. CASE stats[h].serial # 0
    <3>1. Entered(P)[h] = stats[h]
      BY <2>2 DEF Entered
    <3> QED
      BY <2>2, <3>1 DEF TypeOK, SeedStats
  <2> QED
    BY <2>1, <2>2
<1>5. Entered(P) \in [Hashes -> SeedStats]
  BY <1>3 DEF Entered, TypeOK
<1> QED
  BY <1>4, <1>5

\* ... and the numbers its entry had, or those of a new entry.
LEMMA EnteredKeeps ==
  ASSUME TypeOK, Reckoned, NEW P \in SUBSET Hashes, NEW h \in Hashes
  PROVE  /\ Entered(P)[h].mutations = stats[h].mutations
         /\ Entered(P)[h].misses = stats[h].misses
         /\ Entered(P)[h].state = stats[h].state
         /\ Entered(P)[h].serial = 0 => Entered(P)[h] = NoStats
         /\ stats[h].serial > 0 => Entered(P)[h].serial > 0
<1>1. CASE h \in P /\ stats[h].serial = 0
  <2>1. stats[h] = NoStats
    BY <1>1 DEF Reckoned
  <2>2. Entered(P)[h] = [NoStats EXCEPT !.serial = Serial(P, h)]
    BY <1>1 DEF Entered
  <2>3. [NoStats EXCEPT !.serial = Serial(P, h)].serial = 0
          => [NoStats EXCEPT !.serial = Serial(P, h)] = NoStats
    BY DEF NoStats
  <2> QED
    BY <2>1, <2>2, <2>3 DEF NoStats
<1>2. CASE ~(h \in P /\ stats[h].serial = 0)
  <2>1. Entered(P)[h] = stats[h]
    BY <1>2 DEF Entered
  <2> QED
    BY <2>1 DEF Reckoned
<1> QED
  BY <1>1, <1>2

\* A pick, of either kind, changes states and the fuzzed flag only
\* (pick_ecofuzz_seed_locked).
LEMMA PickType ==
  ASSUME TypeOK, Reckoned, NEW P \in SUBSET Hashes, NEW h \in P,
         \/ PickUnfuzzed(P, Entered(P), WaitsIn(P), h)
         \/ PickCheapest(P, Entered(P), WaitsIn(P), h)
  PROVE  /\ stats' \in [Hashes -> SeedStats]
         /\ waited' \in [Hashes -> Nat]
         /\ \A g \in Hashes : /\ stats'[g].mutations = stats[g].mutations
                             /\ stats'[g].misses = stats[g].misses
         /\ \A g \in Hashes : stats'[g].serial = 0 => stats'[g] = NoStats
         /\ stats'[h].serial > 0
         /\ \A g \in Hashes : stats[g].serial > 0 => stats'[g].serial > 0
<1> DEFINE st == Entered(P)
           w == WaitsIn(P)
<1>1. st \in [Hashes -> SeedStats]
  BY EnteredType
<1>2. w \in [Hashes -> Nat]
  BY DEF WaitsIn, TypeOK
<1>3. \A g \in Hashes : /\ st[g].mutations = stats[g].mutations
                        /\ st[g].misses = stats[g].misses
                        /\ st[g].serial = 0 => st[g] = NoStats
                        /\ g \in P => st[g].serial > 0
                        /\ stats[g].serial > 0 => st[g].serial > 0
  BY EnteredKeeps, EnteredType
<1>4. h \in Hashes
  OBVIOUS
<1> HIDE DEF st, w
<1>5. CASE PickUnfuzzed(P, st, w, h)
  <2>1. stats' = [st EXCEPT ![h].fuzzed = TRUE] /\ waited' = w
    BY <1>5 DEF PickUnfuzzed
  <2>2. /\ stats'[h].serial > 0 /\ stats'[h].mutations = st[h].mutations
        /\ stats'[h].misses = st[h].misses
    BY <1>1, <1>3, <1>4, <2>1 DEF SeedStats
  <2>3. stats' \in [Hashes -> SeedStats] /\ \A g \in Hashes \ {h} : stats'[g] = st[g]
    BY <1>1, <1>4, <2>1 DEF SeedStats
  <2> QED
    BY <1>2, <1>3, <2>1, <2>2, <2>3
<1>6. CASE PickCheapest(P, st, w, h)
  <2>1. stats' = NewStates(P, st, h) /\ waited' = NewWaits(P, w, h)
    BY <1>6 DEF PickCheapest
  <2>2. ASSUME NEW g \in Hashes
        PROVE  /\ NewStates(P, st, h)[g] \in SeedStats
               /\ NewStates(P, st, h)[g].mutations = st[g].mutations
               /\ NewStates(P, st, h)[g].misses = st[g].misses
               /\ NewStates(P, st, h)[g].serial = st[g].serial
               /\ g \notin P => NewStates(P, st, h)[g] = st[g]
    BY <1>1 DEF NewStates, SeedStats
  <2>3. NewStates(P, st, h) \in [Hashes -> SeedStats]
    BY <2>2 DEF NewStates
  <2>4. NewWaits(P, w, h) \in [Hashes -> Nat]
    BY <1>2 DEF NewWaits
  <2>5. ASSUME NEW g \in Hashes
        PROVE  /\ stats'[g].mutations = stats[g].mutations
               /\ stats'[g].misses = stats[g].misses
               /\ stats'[g].serial = 0 => stats'[g] = NoStats
               /\ g = h => stats'[g].serial > 0
               /\ stats[g].serial > 0 => stats'[g].serial > 0
    BY <1>3, <2>1, <2>2
  <2> QED
    BY <1>4, <2>1, <2>3, <2>4, <2>5
<1> QED
  BY <1>5, <1>6 DEF st, w

-----------------------------------------------------------------------------
(* The types.                                                              *)

\* The engine starts with an empty pool, no statistics and no cycle.
LEMMA TypeInit == Init => TypeOK
BY EcoFuzzAssumption DEF Init, TypeOK, SeedStats, NoStats, Cycle, NoneOpened, CycleIds, NoCycle

\* The tasks a selector makes from its energy (the fast path and the first task).
LEMMA SpendType ==
  ASSUME TypeOK, NEW s \in Selectors, NEW n \in Nat, n > 0, mine[s] \in CycleIds,
         Spend(s, n)
  PROVE  /\ left' \in [Selectors -> Nat]
         /\ mine' \in [Selectors -> CycleIds \cup {NoCycle}]
         /\ out' \in [CycleIds -> Nat]
BY DEF Spend, TypeOK, NoCycle

\* ecofuzz_cycles_.erase(), by a failed fetch or by the last result.
LEMMA EraseType ==
  ASSUME TypeOK, NEW c \in CycleIds, NEW n, Erase(c, n)
  PROVE  open' \subseteq CycleIds /\ cycle' \in [CycleIds -> Cycle]
<1>1. cycle[c].seed \in Hashes \cup {0}
  BY DEF TypeOK, Cycle
<1>2. [NoneOpened EXCEPT !.seed = IF n > 0 THEN cycle[c].seed ELSE 0] \in Cycle
  <2>1. [NoneOpened EXCEPT !.seed = IF n > 0 THEN cycle[c].seed ELSE 0]
          = [seed |-> IF n > 0 THEN cycle[c].seed ELSE 0, energy |-> 0, seen |-> 0, start |-> 0]
    BY DEF NoneOpened
  <2> QED
    BY <1>1, <2>1 DEF Cycle
<1> QED
  BY <1>2 DEF Erase, TypeOK

\* Who holds energy has a cycle, and that cycle a positive energy: no counter of the
\* code goes below zero.
LEMMA SpendsFromACycle ==
  ASSUME TypeOK, Books, NEW s \in Selectors
  PROVE  /\ left[s] > 0 => mine[s] \in open
         /\ s \in fetching => mine[s] \in open
         /\ mine[s] \in open => cycle[mine[s]].energy > 0 /\ cycle[mine[s]].energy \in Nat
<1>1. left[s] > 0 => mine[s] \in open
  BY DEF Books, Owned, TypeOK
<1>2. s \in fetching => mine[s] \in open
  BY DEF Books, Owned
<1>3. ASSUME mine[s] \in open
      PROVE  cycle[mine[s]].energy > 0 /\ cycle[mine[s]].energy \in Nat
  BY <1>3 DEF Books, Waiting, TypeOK, Cycle
<1> QED
  BY <1>1, <1>2, <1>3

\* Every result that arrives finds its cycle, and in it the hash of a seed with statistics.
LEMMA ResultHasCycle ==
  ASSUME TypeOK, Books, NEW c \in CycleIds, out[c] > 0
  PROVE  /\ c \in open
         /\ cycle[c].seed \in Hashes
BY DEF Books, Waiting, TypeOK

\* What a result changes in the statistics of its seed.
LEMMA BookedIsStats ==
  ASSUME NEW st \in SeedStats, NEW found \in BOOLEAN, NEW e \in Nat
  PROVE  /\ Booked(st, found, e) \in SeedStats
         /\ Booked(st, found, e).mutations = st.mutations + 1
         /\ Booked(st, found, e).misses = IF found THEN st.misses ELSE st.misses + 1
         /\ Booked(st, found, e).state = st.state
         /\ Booked(st, found, e).serial = st.serial
         /\ Booked(st, found, e).lastEnergy = e
<1> DEFINE m == IF found THEN st.misses ELSE st.misses + 1
<1>1. m \in Nat
  BY DEF SeedStats
<1>2. Booked(st, found, e) = [st EXCEPT !.mutations = @ + 1, !.misses = m, !.lastEnergy = e]
  BY DEF Booked
<1>5. m = IF found THEN st.misses ELSE st.misses + 1
  OBVIOUS
<1> HIDE DEF m
<1>3. st = [serial |-> st.serial, state |-> st.state, fuzzed |-> st.fuzzed,
            mutations |-> st.mutations, misses |-> st.misses,
            lastEnergy |-> st.lastEnergy]
  BY DEF SeedStats
<1>4. Booked(st, found, e) =
        [serial |-> st.serial, state |-> st.state, fuzzed |-> st.fuzzed,
         mutations |-> st.mutations + 1, misses |-> m, lastEnergy |-> e]
  BY <1>2, <1>3
<1> QED
  BY <1>1, <1>4, <1>5 DEF SeedStats

\* The booking keeps the types: last_energy is not reckoned below zero.
LEMMA BookedType ==
  ASSUME TypeOK, Books, NEW c \in CycleIds, NEW found \in BOOLEAN, BookResult(c, found)
  PROVE  /\ stats' \in [Hashes -> SeedStats]
         /\ \A h \in Hashes \ {cycle[c].seed} : stats'[h] = stats[h]
         /\ stats'[cycle[c].seed].mutations = stats[cycle[c].seed].mutations + 1
         /\ stats'[cycle[c].seed].misses =
              IF found THEN stats[cycle[c].seed].misses ELSE stats[cycle[c].seed].misses + 1
         /\ \A h \in Hashes : /\ stats'[h].state = stats[h].state
                             /\ stats'[h].serial = stats[h].serial
         /\ Complete(c) => stats'[cycle[c].seed].lastEnergy = EnergyUsed(c)
<1> DEFINE h == cycle[c].seed
<1>1. c \in open /\ h \in Hashes
  BY ResultHasCycle DEF BookResult
<1>2. /\ stats[h] \in SeedStats
      /\ cycle[c].start \in Nat /\ cycle[c].start <= stats[h].mutations
  <2>1. cycle[c] \in Cycle /\ stats[h] \in SeedStats
    BY <1>1 DEF TypeOK
  <2>2. cycle[c].start + cycle[c].seen <= stats[h].mutations
    BY <1>1 DEF Books, Reckoned
  <2> QED
    BY <2>1, <2>2 DEF Cycle, SeedStats
<1> DEFINE e == IF c \in open /\ Complete(c) THEN EnergyUsed(c) ELSE stats[h].lastEnergy
<1>3. stats' = [stats EXCEPT ![h] = Booked(stats[h], found, e)]
  BY DEF BookResult, SeedBooked
<1>4. e \in Nat
  <2>1. EnergyUsed(c) \in Nat
    BY <1>2 DEF EnergyUsed, SeedStats
  <2>2. stats[h].lastEnergy \in Nat
    BY <1>2 DEF SeedStats
  <2> QED
    BY <2>1, <2>2
<1>5. Complete(c) => e = EnergyUsed(c)
  BY <1>1
<1> HIDE DEF e
<1> DEFINE b == Booked(stats[h], found, e)
<1>6. /\ b \in SeedStats /\ b.mutations = stats[h].mutations + 1
      /\ b.misses = IF found THEN stats[h].misses ELSE stats[h].misses + 1
      /\ b.state = stats[h].state /\ b.serial = stats[h].serial /\ b.lastEnergy = e
  BY <1>2, <1>4, BookedIsStats
<1> HIDE DEF b
<1>7. stats \in [Hashes -> SeedStats] /\ stats' = [stats EXCEPT ![h] = b]
  BY <1>3 DEF TypeOK, b
<1> HIDE DEF h
<1>8. /\ stats' \in [Hashes -> SeedStats]
      /\ \A g \in Hashes \ {h} : stats'[g] = stats[g]
      /\ stats'[h] = b
  BY <1>1, <1>6, <1>7
<1> QED
  BY <1>5, <1>6, <1>8 DEF h

\* A result changes no seed without an entry in ecofuzz_seed_stats_.
LEMMA BookedSerial ==
  ASSUME TypeOK, Books, NEW c \in CycleIds, NEW found \in BOOLEAN, BookResult(c, found)
  PROVE  \A h \in Hashes : stats'[h].serial = 0 => stats'[h] = NoStats
<1> TAKE h \in Hashes
<1> HAVE stats'[h].serial = 0
<1>1. stats[h].serial = 0
  BY BookedType
<1>2. stats[h] = NoStats
  BY <1>1 DEF Books, Reckoned
<1>3. h # cycle[c].seed
  BY <1>1, ResultHasCycle DEF BookResult, Books, Reckoned
<1> QED
  BY <1>2, <1>3, BookedType

\* Every step of a selector, of the booking and of stop() keeps the types.
LEMMA TypeStep ==
  ASSUME TypeOK, Books, [Next]_vars
  PROVE  TypeOK'
<1>1. ASSUME NEW s \in Selectors, SelectAgain(s) PROVE TypeOK'
  <2>1. /\ left[s] \in Nat /\ left[s] > 0 /\ mine[s] \in CycleIds
    BY <1>1, SpendsFromACycle DEF SelectAgain, TypeOK
  <2>2. /\ left' \in [Selectors -> Nat]
        /\ mine' \in [Selectors -> CycleIds \cup {NoCycle}]
        /\ out' \in [CycleIds -> Nat]
    BY <1>1, <2>1, SpendType DEF SelectAgain
  <2> QED
    BY <1>1, <2>2 DEF SelectAgain, TypeOK, cycleVars
<1>2. ASSUME NEW s \in Selectors, OpenCycle(s) PROVE TypeOK'
  <2>1. PICK h \in pool', e \in Energies[nextCycle] :
           /\ \/ PickUnfuzzed(pool', Entered(pool'), WaitsIn(pool'), h)
              \/ PickCheapest(pool', Entered(pool'), WaitsIn(pool'), h)
           /\ cycle' = [cycle EXCEPT ![nextCycle] =
                          [seed |-> h, energy |-> e, seen |-> 0,
                           start |-> stats[h].mutations]]
    BY <1>2 DEF OpenCycle
  <2>2. pool' \in SUBSET Hashes
    BY <1>2 DEF OpenCycle
  <2>3. stats' \in [Hashes -> SeedStats] /\ waited' \in [Hashes -> Nat]
    BY <2>1, <2>2, PickType DEF Books
  <2>4. nextCycle \in CycleIds /\ nextCycle + 1 \in 1 .. (MaxCycles + 1)
    BY <1>2, EcoFuzzAssumption DEF OpenCycle, TypeOK, CycleIds
  <2>5. [seed |-> h, energy |-> e, seen |-> 0, start |-> stats[h].mutations] \in Cycle
    <3>1. e \in Nat
      BY <2>4, EcoFuzzAssumption
    <3> QED
      BY <2>2, <3>1 DEF Cycle, TypeOK, SeedStats
  <2>6. cycle' \in [CycleIds -> Cycle]
    BY <2>1, <2>5 DEF TypeOK
  <2> QED
    BY <1>2, <2>2, <2>3, <2>4, <2>6 DEF OpenCycle, TypeOK
<1>3. ASSUME NEW s \in Selectors, NothingToPick(s) PROVE TypeOK'
  BY <1>3 DEF NothingToPick, TypeOK, WaitsIn, cycleVars, selectVars
<1>4. ASSUME NEW s \in Selectors, FetchSeed(s) PROVE TypeOK'
  <2>1. /\ cycle[mine[s]].energy \in Nat /\ cycle[mine[s]].energy > 0 /\ mine[s] \in CycleIds
    BY <1>4, SpendsFromACycle DEF FetchSeed, TypeOK
  <2>2. /\ left' \in [Selectors -> Nat]
        /\ mine' \in [Selectors -> CycleIds \cup {NoCycle}]
        /\ out' \in [CycleIds -> Nat]
    BY <1>4, <2>1, SpendType DEF FetchSeed
  <2> QED
    BY <1>4, <2>2 DEF FetchSeed, TypeOK, cycleVars
<1>5. ASSUME NEW s \in Selectors, FetchFails(s) PROVE TypeOK'
  <2>1. mine[s] \in CycleIds
    BY <1>5, SpendsFromACycle DEF FetchFails, TypeOK
  <2>2. open' \subseteq CycleIds /\ cycle' \in [CycleIds -> Cycle]
    BY <1>5, <2>1, EraseType DEF FetchFails
  <2> QED
    BY <1>5, <2>2 DEF FetchFails, TypeOK
<1>6. ASSUME NEW c \in CycleIds, NEW found \in BOOLEAN, BookResult(c, found) PROVE TypeOK'
  <2>1. stats' \in [Hashes -> SeedStats]
    BY <1>6, BookedType
  <2>2. open' \subseteq CycleIds /\ cycle' \in [CycleIds -> Cycle]
    <3>1. ASSUME Erase(c, Outstanding(c) - 1)
          PROVE  open' \subseteq CycleIds /\ cycle' \in [CycleIds -> Cycle]
      BY <3>1, EraseType
    <3>2. ASSUME cycle' = [cycle EXCEPT ![c].seen = @ + 1], open' = open
          PROVE  open' \subseteq CycleIds /\ cycle' \in [CycleIds -> Cycle]
      <4>1. cycle[c] \in Cycle
        BY DEF TypeOK
      <4>2. [cycle[c] EXCEPT !.seen = @ + 1] \in Cycle
        BY <4>1 DEF Cycle
      <4> QED
        BY <3>2, <4>2 DEF TypeOK
    <3> QED
      BY <1>6, <3>1, <3>2 DEF BookResult, TypeOK
  <2>3. total' \in [fuzz : Nat, finds : Nat]
    <3> DEFINE one == IF c \in open /\ found THEN 1 ELSE 0
    <3>1. one \in Nat
      OBVIOUS
    <3>2. total' = [fuzz |-> total.fuzz + 1, finds |-> total.finds + one]
      BY <1>6 DEF BookResult, Counted
    <3> HIDE DEF one
    <3> QED
      BY <3>1, <3>2 DEF TypeOK
  <2>4. out' \in [CycleIds -> Nat]
    BY <1>6 DEF BookResult, TypeOK
  <2>5. UNCHANGED <<pool, nextCycle, selectVars, lost, restarts, waited>>
    BY <1>6 DEF BookResult
  <2> QED
    BY <2>1, <2>2, <2>3, <2>4, <2>5 DEF TypeOK, selectVars
<1>7. ASSUME Restart PROVE TypeOK'
  <2>1. \A c \in CycleIds : Outstanding(c) \in Nat
    <3> TAKE c \in CycleIds
    <3>1. LeftOf(c) \in Nat
      <4>1. CASE Holders(c) = {}
        BY <4>1 DEF LeftOf
      <4>2. CASE Holders(c) # {}
        BY <4>2 DEF LeftOf, Holders, TypeOK
      <4> QED
        BY <4>1, <4>2
    <3> QED
      BY <3>1 DEF Outstanding, TypeOK
  <2> QED
    BY <1>7, <2>1, EcoFuzzAssumption DEF Restart, TypeOK, cycleVars, NoCycle
<1>8. ASSUME UNCHANGED vars PROVE TypeOK'
  BY <1>8 DEF vars, TypeOK, cycleVars, selectVars
<1> QED
  BY <1>1, <1>2, <1>3, <1>4, <1>5, <1>6, <1>7, <1>8 DEF Next

-----------------------------------------------------------------------------
(* The books.                                                              *)

\* At the start there is no cycle to keep books of.
LEMMA BooksInit == Init => Books
BY EcoFuzzAssumption
   DEF Init, Books, Drawn, Owned, Spread, Waiting, Reckoned, CycleIds, NoCycle, NoStats

\* A selector makes one task: one less left, one more about (the fast path).
LEMMA BooksSelectAgain ==
  ASSUME TypeOK, Books, NEW s \in Selectors, SelectAgain(s)
  PROVE  Books'
<1> DEFINE c == mine[s]
<1>1. c \in open /\ c \in CycleIds /\ c # NoCycle /\ s \notin fetching
  BY SpendsFromACycle DEF SelectAgain, TypeOK, CycleIds, NoCycle
<1>2. /\ left' = [left EXCEPT ![s] = left[s] - 1]
      /\ mine' = [mine EXCEPT ![s] = IF left[s] > 1 THEN c ELSE NoCycle]
      /\ out' = [out EXCEPT ![c] = @ + 1]
      /\ left[s] \in Nat /\ left[s] > 0
      /\ UNCHANGED <<stats, open, cycle, nextCycle, fetching, lost>>
  BY DEF SelectAgain, Spend, cycleVars, TypeOK
<1>3. Drawn'
  BY <1>1, <1>2 DEF Books, Drawn, TypeOK, CycleIds, NoCycle
<1>4. Owned'
  BY <1>1, <1>2 DEF Books, Owned, TypeOK, NoCycle
<1>5. \A t \in Selectors \ {s} : mine'[t] = mine[t] /\ mine[t] # c /\ left'[t] = left[t]
  BY <1>1, <1>2 DEF Books, Owned, TypeOK
<1>6. Spread'
  <2>1. cycle[c].energy = cycle[c].seen + lost[c] + out[c] + left[s]
    BY <1>1 DEF Books, Spread
  <2>2. \A d \in open : d # c => out'[d] = out[d]
    BY <1>2 DEF TypeOK
  <2>3. out'[c] = out[c] + 1 /\ out[c] \in Nat /\ lost[c] \in Nat /\ cycle[c] \in Cycle
    BY <1>1, <1>2 DEF TypeOK
  <2>4. \A t \in fetching : mine[t] \in open /\ mine'[t] = mine[t] /\ mine[t] # c /\ left'[t] = left[t]
    BY <1>1, <1>5 DEF TypeOK, Books, Owned
  <2>5. \A t \in fetching' : /\ left'[t] = 0 /\ out'[mine'[t]] = 0 /\ lost'[mine'[t]] = 0
                            /\ cycle'[mine'[t]].seen = 0
    BY <1>2, <2>2, <2>4 DEF Books, Spread
  <2>6. ASSUME NEW t \in Selectors \ fetching, NEW d \in open, mine'[t] = d
        PROVE  cycle[d].energy = cycle[d].seen + lost[d] + out'[d] + left'[t]
    <3>1. CASE t = s
      <4>1. d = c /\ left'[s] = left[s] - 1
        BY <1>2, <2>6, <3>1 DEF TypeOK, NoCycle, CycleIds
      <4> QED
        BY <1>2, <2>1, <2>3, <3>1, <4>1 DEF Cycle
    <3>2. CASE t # s
      BY <1>5, <2>2, <2>6, <3>2 DEF Books, Spread
    <3> QED
      BY <3>1, <3>2
  <2>7. ASSUME NEW d \in open, \A t \in Selectors : mine'[t] # d
        PROVE  cycle[d].energy = cycle[d].seen + lost[d] + out'[d]
    <3>1. CASE d = c
      <4>1. left[s] = 1
        BY <1>2, <2>7, <3>1 DEF TypeOK
      <4> QED
        BY <2>1, <2>3, <3>1, <4>1 DEF Cycle
    <3>2. CASE d # c
      <4>1. \A t \in Selectors : mine[t] # d
        BY <1>5, <2>7, <3>2
      <4> QED
        BY <2>2, <3>2, <4>1 DEF Books, Spread
    <3> QED
      BY <3>1, <3>2
  <2> QED
    BY <1>2, <2>5, <2>6, <2>7 DEF Spread
<1>7. Waiting' /\ Reckoned'
  BY <1>1, <1>2 DEF Books, Waiting, Reckoned, TypeOK
<1> QED
  BY <1>3, <1>4, <1>6, <1>7 DEF Books

\* A cycle is opened under an id nobody has; its whole energy is still to come.
LEMMA BooksOpenCycle ==
  ASSUME TypeOK, Books, NEW s \in Selectors, OpenCycle(s)
  PROVE  Books'
<1> DEFINE k == nextCycle
<1>1. PICK h \in pool', e \in Energies[k] :
         /\ \/ PickUnfuzzed(pool', Entered(pool'), WaitsIn(pool'), h)
            \/ PickCheapest(pool', Entered(pool'), WaitsIn(pool'), h)
         /\ cycle' = [cycle EXCEPT ![k] = [seed |-> h, energy |-> e, seen |-> 0,
                                          start |-> stats[h].mutations]]
  BY DEF OpenCycle
<1>2. /\ k \in CycleIds /\ k # NoCycle /\ pool' \subseteq Hashes /\ h \in Hashes
      /\ e \in Nat /\ e > 0
  <2>1. k \in CycleIds /\ k # NoCycle /\ pool' \in SUBSET Hashes
    BY EcoFuzzAssumption DEF OpenCycle, TypeOK, CycleIds, NoCycle
  <2> QED
    BY <1>1, <2>1, EcoFuzzAssumption
<1>3. /\ open' = open \cup {k} /\ nextCycle' = k + 1
      /\ mine' = [mine EXCEPT ![s] = k] /\ fetching' = fetching \cup {s}
      /\ UNCHANGED <<left, out, lost>>
      /\ s \notin fetching /\ left[s] = 0
  BY DEF OpenCycle, SlowPath
<1>4. /\ mine[s] = NoCycle /\ k \notin open /\ \A t \in Selectors : mine[t] # k
      /\ out[k] = 0 /\ lost[k] = 0
  <2>1. mine[s] = NoCycle
    BY <1>3 DEF Books, Owned, TypeOK
  <2>2. k \notin open /\ \A t \in Selectors : mine[t] # k
    BY DEF Books, Drawn, TypeOK
  <2> QED
    BY <1>2, <2>1, <2>2 DEF Books, Drawn, TypeOK
<1>5. /\ \A d \in open : cycle'[d] = cycle[d]
      /\ cycle'[k].seed = h /\ cycle'[k].energy = e /\ cycle'[k].seen = 0
      /\ cycle'[k].start = stats[h].mutations
  BY <1>1, <1>2, <1>4 DEF TypeOK
<1>6. Drawn'
  <2>1. \A c \in open' : c < k + 1
    BY <1>2, <1>3 DEF Books, Drawn, TypeOK, CycleIds
  <2>2. \A t \in Selectors : mine'[t] < k + 1
    BY <1>2, <1>3 DEF Books, Drawn, TypeOK, CycleIds, NoCycle
  <2>3. \A c \in CycleIds : c >= k + 1 => out[c] = 0 /\ lost[c] = 0
    BY <1>2 DEF Books, Drawn, CycleIds
  <2> QED
    BY <1>3, <2>1, <2>2, <2>3 DEF Drawn
<1>7. Owned'
  BY <1>2, <1>3, <1>4 DEF Books, Owned, TypeOK
<1>8. Spread'
  <2>1. \A t \in Selectors \ {s} : mine'[t] = mine[t]
    BY <1>3 DEF TypeOK
  <2>2. mine'[s] = k
    BY <1>3 DEF TypeOK
  <2>3. ASSUME NEW t \in fetching'
        PROVE  /\ left'[t] = 0 /\ out'[mine'[t]] = 0 /\ lost'[mine'[t]] = 0
               /\ cycle'[mine'[t]].seen = 0
    <3>1. CASE t = s
      BY <1>3, <1>4, <1>5, <2>2, <3>1
    <3>2. CASE t # s
      <4>1. t \in fetching /\ t \in Selectors /\ mine[t] \in open /\ mine'[t] = mine[t]
        BY <1>3, <2>1, <3>2 DEF TypeOK, Books, Owned
      <4> QED
        BY <1>3, <1>5, <4>1 DEF Books, Spread
    <3> QED
      BY <3>1, <3>2
  <2>4. ASSUME NEW t \in Selectors \ fetching', NEW d \in open', mine'[t] = d
        PROVE  cycle'[d].energy = cycle'[d].seen + lost'[d] + out'[d] + left'[t]
    <3>1. t # s /\ mine[t] = d /\ d \in open
      BY <1>3, <1>4, <2>1, <2>4
    <3> QED
      BY <1>3, <1>5, <2>4, <3>1 DEF Books, Spread
  <2>5. ASSUME NEW d \in open', \A t \in Selectors : mine'[t] # d
        PROVE  cycle'[d].energy = cycle'[d].seen + lost'[d] + out'[d]
    <3>1. d \in open
      BY <1>3, <2>2, <2>5
    <3>2. \A t \in Selectors : mine[t] # d
      <4>1. d # NoCycle
        BY <3>1 DEF TypeOK, CycleIds, NoCycle
      <4> QED
        BY <1>4, <2>1, <2>5, <4>1
    <3> QED
      BY <1>3, <1>5, <3>1, <3>2 DEF Books, Spread
  <2> QED
    BY <2>3, <2>4, <2>5 DEF Spread
<1>9. Waiting'
  BY <1>2, <1>3, <1>4, <1>5 DEF Books, Waiting
<1>10. Reckoned'
  <2>0. stats' \in [Hashes -> SeedStats]
    BY <1>1, <1>2, PickType DEF Books
  <2>1. \A g \in Hashes : stats'[g].mutations = stats[g].mutations
    BY <1>1, <1>2, PickType DEF Books
  <2>5. \A g \in Hashes : stats'[g].serial = 0 => stats'[g] = NoStats
    BY <1>1, <1>2, PickType DEF Books
  <2>2. \A c \in open : cycle[c].seed \in Hashes
    BY DEF Books, Waiting
  <2>6. \A c \in open' : stats'[cycle'[c].seed].serial > 0
    <3>1. stats'[h].serial > 0 /\ \A g \in Hashes : stats[g].serial > 0 => stats'[g].serial > 0
      BY <1>1, <1>2, PickType DEF Books
    <3> QED
      BY <1>3, <1>5, <2>2, <3>1 DEF Books, Reckoned
  <2>3. cycle'[k].start + cycle'[k].seen <= stats'[cycle'[k].seed].mutations
    <3>1. stats[h].mutations \in Nat /\ stats'[h].mutations = stats[h].mutations
      BY <1>2, <2>1 DEF TypeOK, SeedStats
    <3>2. stats[h].mutations + 0 <= stats[h].mutations
      BY <3>1
    <3> QED
      BY <1>5, <3>1, <3>2
  <2>4. ASSUME NEW c \in open
        PROVE  cycle'[c].start + cycle'[c].seen <= stats'[cycle'[c].seed].mutations
    <3>1. cycle[c].start + cycle[c].seen <= stats[cycle[c].seed].mutations
      BY DEF Books, Reckoned
    <3>2. stats'[cycle[c].seed].mutations = stats[cycle[c].seed].mutations
      BY <2>1, <2>2
    <3> QED
      BY <1>5, <3>1, <3>2
  <2> QED
    BY <1>3, <2>3, <2>4, <2>5, <2>6 DEF Reckoned
<1> QED
  BY <1>6, <1>7, <1>8, <1>9, <1>10 DEF Books

\* The fetched seed starts to be spent; the thread-local becomes the owner.
LEMMA BooksFetchSeed ==
  ASSUME TypeOK, Books, NEW s \in Selectors, FetchSeed(s)
  PROVE  Books'
<1> DEFINE c == mine[s]
           e == cycle[c].energy
<1>1. /\ s \in fetching /\ c \in open /\ c \in CycleIds /\ c # NoCycle
      /\ e \in Nat /\ e > 0
  BY SpendsFromACycle DEF FetchSeed, TypeOK, CycleIds, NoCycle
<1>2. /\ left' = [left EXCEPT ![s] = e - 1]
      /\ mine' = [mine EXCEPT ![s] = IF e > 1 THEN c ELSE NoCycle]
      /\ out' = [out EXCEPT ![c] = @ + 1]
      /\ fetching' = fetching \ {s}
      /\ UNCHANGED <<stats, open, cycle, nextCycle, lost>>
  BY DEF FetchSeed, Spend, cycleVars, TypeOK
<1>3. /\ left[s] = 0 /\ out[c] = 0 /\ lost[c] = 0 /\ cycle[c].seen = 0
  BY <1>1 DEF Books, Spread
<1>4. \A t \in Selectors \ {s} : mine'[t] = mine[t] /\ mine[t] # c /\ left'[t] = left[t]
  BY <1>1, <1>2 DEF Books, Owned, TypeOK
<1>5. out'[c] = 1 /\ \A d \in CycleIds : d # c => out'[d] = out[d]
  BY <1>1, <1>2, <1>3 DEF TypeOK
<1>6. /\ left'[s] = e - 1
      /\ mine'[s] = IF e > 1 THEN c ELSE NoCycle
  BY <1>2 DEF TypeOK
<1> HIDE DEF e
<1>7. Drawn'
  BY <1>1, <1>2 DEF Books, Drawn, TypeOK, CycleIds, NoCycle
<1>8. Owned'
  <2>1. \A t, u \in Selectors : mine'[t] = mine'[u] /\ mine'[t] # NoCycle => t = u
    BY <1>4, <1>6 DEF Books, Owned
  <2>2. \A t \in Selectors : mine'[t] # NoCycle => mine'[t] \in open
    BY <1>1, <1>4, <1>6 DEF Books, Owned
  <2>3. \A t \in Selectors : mine'[t] = NoCycle => left'[t] = 0 /\ t \notin fetching'
    BY <1>1, <1>2, <1>4, <1>6 DEF Books, Owned
  <2>4. \A t \in Selectors : mine'[t] # NoCycle /\ t \notin fetching' => left'[t] > 0
    BY <1>1, <1>2, <1>4, <1>6 DEF Books, Owned
  <2> QED
    BY <1>2, <2>1, <2>2, <2>3, <2>4 DEF Owned
<1>9. Spread'
  <2>1. \A t \in fetching' : /\ left'[t] = 0 /\ out'[mine'[t]] = 0 /\ lost[mine'[t]] = 0
                            /\ cycle[mine'[t]].seen = 0
    <3> TAKE t \in fetching'
    <3>1. t \in fetching /\ t \in Selectors \ {s} /\ mine[t] \in CycleIds
      BY <1>2 DEF TypeOK, Books, Owned
    <3> QED
      BY <1>4, <1>5, <3>1 DEF Books, Spread
  <2>2. ASSUME NEW t \in Selectors \ fetching', NEW d \in open, mine'[t] = d
        PROVE  cycle[d].energy = cycle[d].seen + lost[d] + out'[d] + left'[t]
    <3>0. d \in CycleIds
      BY DEF TypeOK
    <3>1. CASE t = s
      <4>1. d = c
        BY <1>6, <2>2, <3>0, <3>1 DEF CycleIds, NoCycle
      <4> QED
        BY <1>1, <1>3, <1>5, <1>6, <3>1, <4>1 DEF e
    <3>2. CASE t # s
      <4>1. d # c /\ mine[t] = d /\ t \notin fetching
        BY <1>2, <1>4, <2>2, <3>2
      <4> QED
        BY <1>4, <1>5, <3>0, <3>2, <4>1 DEF Books, Spread
    <3> QED
      BY <3>1, <3>2
  <2>3. ASSUME NEW d \in open, \A t \in Selectors : mine'[t] # d
        PROVE  cycle[d].energy = cycle[d].seen + lost[d] + out'[d]
    <3>0. d \in CycleIds
      BY DEF TypeOK
    <3>1. CASE d = c
      <4>1. e = 1
        BY <1>1, <1>6, <2>3, <3>1
      <4> QED
        BY <1>3, <1>5, <3>1, <4>1 DEF e
    <3>2. CASE d # c
      <4>1. \A t \in Selectors : mine[t] # d
        BY <1>4, <2>3, <3>2
      <4> QED
        BY <1>5, <3>0, <3>2, <4>1 DEF Books, Spread
    <3> QED
      BY <3>1, <3>2
  <2> QED
    BY <1>2, <2>1, <2>2, <2>3 DEF Spread
<1>10. Waiting' /\ Reckoned'
  BY <1>1, <1>2, <1>5 DEF Books, Waiting, Reckoned
<1> QED
  BY <1>7, <1>8, <1>9, <1>10 DEF Books

\* The cycle of a failed fetch is erased, and nobody else knows its id.
LEMMA BooksFetchFails ==
  ASSUME TypeOK, Books, NEW s \in Selectors, FetchFails(s)
  PROVE  Books'
<1> DEFINE c == mine[s]
<1>1. s \in fetching /\ c \in open /\ c \in CycleIds
  BY SpendsFromACycle DEF FetchFails, TypeOK
<1>2. /\ open' = open \ {c} /\ fetching' = fetching \ {s}
      /\ mine' = [mine EXCEPT ![s] = NoCycle]
      /\ \A d \in CycleIds : d # c => cycle'[d] = cycle[d]
      /\ UNCHANGED <<stats, nextCycle, left, out, lost>>
  BY DEF FetchFails, Erase, TypeOK
<1>3. left[s] = 0 /\ out[c] = 0
  BY <1>1 DEF Books, Spread
<1>4. /\ mine'[s] = NoCycle
      /\ \A t \in Selectors \ {s} : mine'[t] = mine[t] /\ mine[t] # c
  BY <1>1, <1>2 DEF Books, Owned, TypeOK, CycleIds, NoCycle
<1>5. open \subseteq CycleIds
  BY DEF TypeOK
<1>6. Drawn'
  BY <1>2, <1>4 DEF Books, Drawn, TypeOK, CycleIds, NoCycle
<1>7. Owned'
  BY <1>2, <1>3, <1>4 DEF Books, Owned
<1>8. Spread'
  <2>1. ASSUME NEW t \in fetching'
        PROVE  /\ left[t] = 0 /\ out[mine'[t]] = 0 /\ lost[mine'[t]] = 0
               /\ cycle'[mine'[t]].seen = 0
    <3>1. t \in fetching /\ t \in Selectors \ {s} /\ mine[t] \in CycleIds
      BY <1>2, <1>5 DEF TypeOK, Books, Owned
    <3> QED
      BY <1>2, <1>4, <3>1 DEF Books, Spread
  <2>2. ASSUME NEW t \in Selectors \ fetching', NEW d \in open', mine'[t] = d
        PROVE  cycle'[d].energy = cycle'[d].seen + lost[d] + out[d] + left[t]
    <3>1. d \in open /\ d # c /\ d \in CycleIds /\ d # NoCycle
      BY <1>2, <1>5 DEF CycleIds, NoCycle
    <3>2. t # s /\ mine[t] = d /\ t \notin fetching
      BY <1>2, <1>4, <2>2, <3>1
    <3> QED
      BY <1>2, <3>1, <3>2 DEF Books, Spread
  <2>3. ASSUME NEW d \in open', \A t \in Selectors : mine'[t] # d
        PROVE  cycle'[d].energy = cycle'[d].seen + lost[d] + out[d]
    <3>1. d \in open /\ d # c /\ d \in CycleIds
      BY <1>2, <1>5
    <3>2. \A t \in Selectors : mine[t] # d
      BY <1>4, <2>3, <3>1
    <3> QED
      BY <1>2, <3>1, <3>2 DEF Books, Spread
  <2> QED
    BY <1>2, <2>1, <2>2, <2>3 DEF Spread
<1>9. Waiting' /\ Reckoned'
  BY <1>2, <1>3, <1>5 DEF Books, Waiting, Reckoned
<1> QED
  BY <1>6, <1>7, <1>8, <1>9 DEF Books

\* What may still be made for a cycle is what its owner holds.
LEMMA LeftOfOwner ==
  ASSUME TypeOK, Owned, NEW c \in CycleIds
  PROVE  /\ \A s \in Selectors : mine[s] = c => LeftOf(c) = left[s]
         /\ (\A s \in Selectors : mine[s] # c) => LeftOf(c) = 0
         /\ LeftOf(c) \in Nat
<1>1. c # NoCycle
  BY DEF CycleIds, NoCycle
<1>2. ASSUME NEW s \in Selectors, mine[s] = c PROVE LeftOf(c) = left[s]
  <2>1. Holders(c) = {s}
    BY <1>1, <1>2 DEF Holders, Owned
  <2> QED
    BY <2>1 DEF LeftOf
<1>3. ASSUME \A s \in Selectors : mine[s] # c PROVE LeftOf(c) = 0
  BY <1>3 DEF LeftOf, Holders
<1>4. LeftOf(c) \in Nat
  BY <1>2, <1>3 DEF TypeOK
<1> QED
  BY <1>2, <1>3, <1>4

\* The result that completes a cycle was its last: nothing of it is about or left.
LEMMA LastResult ==
  ASSUME TypeOK, Books, NEW c \in open, out[c] > 0, Complete(c)
  PROVE  out[c] = 1 /\ \A s \in Selectors : mine[s] # c
<1>1. /\ c \in CycleIds /\ c # NoCycle /\ cycle[c] \in Cycle
      /\ out[c] \in Nat /\ lost[c] \in Nat /\ left \in [Selectors -> Nat]
      /\ cycle[c].seen \in Nat /\ cycle[c].energy \in Nat
  BY DEF TypeOK, Cycle, CycleIds, NoCycle
<1>2. cycle[c].energy = cycle[c].seen + 1
  BY <1>1 DEF Complete, Books, Waiting
<1>3. \A s \in Selectors : mine[s] # c
  <2> SUFFICES ASSUME NEW s \in Selectors, mine[s] = c PROVE FALSE
    OBVIOUS
  <2>1. s \notin fetching
    BY <1>1 DEF Books, Spread
  <2>2. left[s] > 0
    BY <1>1, <2>1 DEF Books, Owned
  <2>3. cycle[c].energy = cycle[c].seen + lost[c] + out[c] + left[s]
    BY <2>1 DEF Books, Spread
  <2> QED
    BY <1>1, <1>2, <2>2, <2>3
<1>4. cycle[c].energy = cycle[c].seen + lost[c] + out[c]
  BY <1>3 DEF Books, Spread
<1> QED
  BY <1>1, <1>2, <1>3, <1>4

\* One result booked is one task less about and one more seen.
LEMMA BooksBookResult ==
  ASSUME TypeOK, Books, NEW c \in CycleIds, NEW found \in BOOLEAN, BookResult(c, found)
  PROVE  Books'
<1>1. /\ c \in open /\ out[c] \in Nat /\ out[c] > 0 /\ cycle[c].seed \in Hashes
      /\ out' = [out EXCEPT ![c] = @ - 1]
      /\ UNCHANGED <<nextCycle, fetching, mine, left, lost>>
  BY ResultHasCycle DEF BookResult, TypeOK, selectVars
<1>2. /\ out'[c] = out[c] - 1
      /\ \A d \in CycleIds : d # c => out'[d] = out[d]
  BY <1>1 DEF TypeOK
<1>3. open \subseteq CycleIds /\ open' \subseteq open
  BY DEF TypeOK, BookResult, Erase
<1>4. \A d \in CycleIds : d # c => cycle'[d] = cycle[d] /\ (d \in open => d \in open')
  BY DEF BookResult, Erase, TypeOK
<1>5. CASE Complete(c)
  <2>1. out[c] = 1 /\ \A s \in Selectors : mine[s] # c
    BY <1>1, <1>5, LastResult
  <2>2. c \notin open'
    BY <1>1, <1>5 DEF BookResult, Erase
  <2>3. Drawn'
    BY <1>1, <1>2, <1>3 DEF Books, Drawn, TypeOK
  <2>4. Owned'
    BY <1>1, <1>3, <1>4, <2>1 DEF Books, Owned
  <2>5. Spread'
    <3>1. \A s \in fetching : mine[s] \in CycleIds /\ mine[s] # c
      BY <1>3, <2>1 DEF TypeOK, Books, Owned
    <3>2. \A s \in fetching : /\ left[s] = 0 /\ out'[mine[s]] = 0 /\ lost[mine[s]] = 0
                            /\ cycle'[mine[s]].seen = 0
      BY <1>2, <1>4, <3>1 DEF Books, Spread
    <3>3. \A d \in open' : d \in CycleIds /\ d # c /\ d \in open
      BY <1>3, <2>2
    <3> QED
      BY <1>1, <1>2, <1>4, <3>2, <3>3 DEF Books, Spread
  <2>6. Waiting'
    <3>1. \A d \in open' : cycle'[d].seed \in Hashes /\ cycle'[d].seen < cycle'[d].energy
      BY <1>3, <1>4, <2>2 DEF Books, Waiting
    <3>2. \A d \in CycleIds \ open' : out'[d] = 0
      BY <1>2, <1>4, <2>1 DEF Books, Waiting
    <3> QED
      BY <3>1, <3>2 DEF Waiting
  <2>7. ASSUME NEW d \in open'
        PROVE  cycle'[d].start + cycle'[d].seen <= stats'[cycle'[d].seed].mutations
    <3> DEFINE h == cycle[d].seed
    <3>1. /\ d \in open /\ d # c /\ cycle'[d] = cycle[d] /\ h \in Hashes
      BY <1>3, <1>4, <2>2 DEF Books, Waiting
    <3>2. stats[h].mutations \in Nat /\ cycle[d].start + cycle[d].seen <= stats[h].mutations
      BY <3>1 DEF Books, Reckoned, TypeOK, SeedStats
    <3>3. /\ cycle[d].start \in Nat /\ cycle[d].seen \in Nat
      BY <1>3, <3>1 DEF TypeOK, Cycle
    <3>4. stats'[h].mutations = stats[h].mutations \/ stats'[h].mutations = stats[h].mutations + 1
      BY <3>1, BookedType
    <3> QED
      BY <3>1, <3>2, <3>3, <3>4
  <2>8. Reckoned'
    <3>1. \A d \in open' : stats'[cycle'[d].seed].serial > 0
      <4> TAKE d \in open'
      <4>1. d \in open /\ cycle'[d] = cycle[d] /\ cycle[d].seed \in Hashes
        BY <1>3, <1>4, <2>2 DEF Books, Waiting
      <4> QED
        BY <4>1, BookedType DEF Books, Reckoned
    <3> QED
      BY <2>7, <3>1, BookedSerial DEF Reckoned
  <2> QED
    BY <2>3, <2>4, <2>5, <2>6, <2>8 DEF Books
<1>6. CASE ~Complete(c)
  <2>1. open' = open /\ cycle' = [cycle EXCEPT ![c].seen = @ + 1]
    BY <1>1, <1>6 DEF BookResult
  <2>2. /\ cycle[c] \in Cycle /\ cycle[c].seen \in Nat /\ cycle[c].energy \in Nat
        /\ cycle[c].start \in Nat /\ lost[c] \in Nat /\ left \in [Selectors -> Nat]
    BY DEF TypeOK, Cycle
  <2>3. /\ cycle'[c].seen = cycle[c].seen + 1 /\ cycle'[c].energy = cycle[c].energy
        /\ cycle'[c].seed = cycle[c].seed /\ cycle'[c].start = cycle[c].start
    BY <2>1, <2>2 DEF TypeOK, Cycle
  <2>4. Drawn' /\ Owned'
    BY <1>1, <1>2, <2>1 DEF Books, Drawn, Owned, TypeOK
  <2>5. Spread'
    <3>1. \A s \in fetching : mine[s] \in CycleIds /\ mine[s] # c
      BY <1>1, <1>3 DEF TypeOK, Books, Owned, Spread
    <3>2. \A s \in fetching : /\ left[s] = 0 /\ out'[mine[s]] = 0 /\ lost[mine[s]] = 0
                            /\ cycle'[mine[s]].seen = 0
      BY <1>2, <1>4, <3>1 DEF Books, Spread
    <3>3. ASSUME NEW s \in Selectors \ fetching, NEW d \in open, mine[s] = d
          PROVE  cycle'[d].energy = cycle'[d].seen + lost[d] + out'[d] + left[s]
      <4>1. cycle[d].energy = cycle[d].seen + lost[d] + out[d] + left[s]
        BY <3>3 DEF Books, Spread
      <4>2. CASE d = c
        BY <1>1, <1>2, <2>2, <2>3, <4>1, <4>2
      <4>3. CASE d # c
        BY <1>2, <1>3, <1>4, <4>1, <4>3
      <4> QED
        BY <4>2, <4>3
    <3>4. ASSUME NEW d \in open, \A s \in Selectors : mine[s] # d
          PROVE  cycle'[d].energy = cycle'[d].seen + lost[d] + out'[d]
      <4>1. cycle[d].energy = cycle[d].seen + lost[d] + out[d]
        BY <3>4 DEF Books, Spread
      <4>2. CASE d = c
        BY <1>1, <1>2, <2>2, <2>3, <4>1, <4>2
      <4>3. CASE d # c
        BY <1>2, <1>3, <1>4, <4>1, <4>3
      <4> QED
        BY <4>2, <4>3
    <3> QED
      BY <1>1, <2>1, <3>2, <3>3, <3>4 DEF Spread
  <2>6. Waiting'
    <3>1. cycle[c].seen + 1 < cycle[c].energy
      BY <1>6, <2>2 DEF Complete
    <3>2. \A d \in open : cycle'[d].seed \in Hashes /\ cycle'[d].seen < cycle'[d].energy
      BY <1>1, <1>3, <1>4, <2>3, <3>1 DEF Books, Waiting
    <3>3. \A d \in CycleIds \ open : out'[d] = 0
      BY <1>1, <1>2 DEF Books, Waiting
    <3> QED
      BY <2>1, <3>2, <3>3 DEF Waiting
  <2>7. ASSUME NEW d \in open
        PROVE  cycle'[d].start + cycle'[d].seen <= stats'[cycle'[d].seed].mutations
    <3> DEFINE h == cycle[d].seed
    <3>1. /\ d \in CycleIds /\ h \in Hashes
      BY <1>3 DEF Books, Waiting
    <3>2. stats[h].mutations \in Nat /\ cycle[d].start + cycle[d].seen <= stats[h].mutations
      BY <3>1 DEF Books, Reckoned, TypeOK, SeedStats
    <3>3. /\ cycle[d].start \in Nat /\ cycle[d].seen \in Nat
      BY <3>1 DEF TypeOK, Cycle
    <3>4. CASE d = c
      <4>1. stats'[h].mutations = stats[h].mutations + 1
        BY <3>4, BookedType
      <4> QED
        BY <2>3, <3>2, <3>3, <3>4, <4>1
    <3>5. CASE d # c
      <4>1. stats'[h].mutations = stats[h].mutations \/ stats'[h].mutations = stats[h].mutations + 1
        BY <3>1, BookedType
      <4> QED
        BY <1>4, <3>1, <3>2, <3>3, <3>5, <4>1
    <3> QED
      BY <3>4, <3>5
  <2>8. Reckoned'
    <3>1. \A d \in open : stats'[cycle'[d].seed].serial > 0
      <4> TAKE d \in open
      <4>1. cycle'[d].seed = cycle[d].seed /\ cycle[d].seed \in Hashes
        BY <1>3, <1>4, <2>3 DEF Books, Waiting
      <4> QED
        BY <4>1, BookedType DEF Books, Reckoned
    <3> QED
      BY <2>1, <2>7, <3>1, BookedSerial DEF Reckoned
  <2> QED
    BY <2>4, <2>5, <2>6, <2>8 DEF Books
<1> QED
  BY <1>5, <1>6

\* stop() moves what is about or left of every cycle to the losses.
LEMMA BooksRestart ==
  ASSUME TypeOK, Books, Restart
  PROVE  Books'
<1>1. /\ fetching = {} /\ fetching' = {}
      /\ \A c \in CycleIds : out'[c] = 0 /\ lost'[c] = lost[c] + out[c] + LeftOf(c)
      /\ \A s \in Selectors : mine'[s] = NoCycle /\ left'[s] = 0
      /\ UNCHANGED <<stats, open, cycle, nextCycle>>
  <2>1. \A c \in CycleIds : out[c] \in Nat /\ lost[c] \in Nat /\ LeftOf(c) \in Nat
    BY LeftOfOwner DEF TypeOK, Books
  <2> QED
    BY <2>1 DEF Restart, Outstanding, cycleVars
<1>2. Drawn'
  <2>1. \A c \in CycleIds : c >= nextCycle => lost'[c] = 0
    <3> TAKE c \in CycleIds
    <3> HAVE c >= nextCycle
    <3>1. out[c] = 0 /\ lost[c] = 0
      BY DEF Books, Drawn
    <3>2. \A s \in Selectors : mine[s] # c
      BY DEF Books, Drawn, TypeOK, CycleIds, NoCycle
    <3> QED
      BY <1>1, <3>1, <3>2, LeftOfOwner DEF Books
  <2> QED
    BY <1>1, <2>1 DEF Books, Drawn, TypeOK, NoCycle
<1>3. Owned'
  BY <1>1 DEF Owned
<1>4. Spread'
  <2>1. ASSUME NEW c \in open PROVE cycle[c].energy = cycle[c].seen + lost'[c]
    <3>1. /\ c \in CycleIds /\ cycle[c].seen \in Nat /\ lost[c] \in Nat /\ out[c] \in Nat
      BY DEF TypeOK, Cycle
    <3>2. CASE \A s \in Selectors : mine[s] # c
      <4>1. LeftOf(c) = 0
        BY <3>1, <3>2, LeftOfOwner DEF Books
      <4> QED
        BY <1>1, <3>1, <3>2, <4>1 DEF Books, Spread
    <3>3. ASSUME NEW s \in Selectors, mine[s] = c
          PROVE  cycle[c].energy = cycle[c].seen + lost'[c]
      <4>1. LeftOf(c) = left[s] /\ left[s] \in Nat
        BY <3>1, <3>3, LeftOfOwner DEF Books, TypeOK
      <4>2. cycle[c].energy = cycle[c].seen + lost[c] + out[c] + left[s]
        BY <1>1, <3>3 DEF Books, Spread
      <4> QED
        BY <1>1, <3>1, <4>1, <4>2
    <3> QED
      BY <3>2, <3>3
  <2>2. ASSUME NEW c \in open PROVE c \in CycleIds /\ c # NoCycle /\ cycle[c].seen \in Nat
    <3>1. c \in CycleIds
      BY DEF TypeOK
    <3>2. cycle[c] \in Cycle
      BY <3>1 DEF TypeOK
    <3>3. c # NoCycle
      BY <3>1 DEF CycleIds, NoCycle
    <3> QED
      BY <3>1, <3>2, <3>3 DEF Cycle
  <2>3. \A c \in open : lost'[c] \in Nat
    BY <1>1, <2>2, LeftOfOwner DEF TypeOK, Books
  <2> QED
    BY <1>1, <2>1, <2>2, <2>3 DEF Spread
<1>5. Waiting' /\ Reckoned'
  BY <1>1 DEF Books, Waiting, Reckoned
<1> QED
  BY <1>2, <1>3, <1>4, <1>5 DEF Books

\* Every step keeps the books.
LEMMA BooksStep ==
  ASSUME TypeOK, Books, [Next]_vars
  PROVE  Books'
<1>1. ASSUME NEW s \in Selectors, NothingToPick(s) PROVE Books'
  BY <1>1 DEF NothingToPick, Books, Drawn, Owned, Spread, Waiting, Reckoned, cycleVars,
     selectVars
<1>2. ASSUME UNCHANGED vars PROVE Books'
  BY <1>2 DEF vars, Books, Drawn, Owned, Spread, Waiting, Reckoned, cycleVars, selectVars
<1> QED
  BY <1>1, <1>2, BooksSelectAgain, BooksOpenCycle, BooksFetchSeed, BooksFetchFails,
     BooksBookResult, BooksRestart DEF Next

\* The types and the books hold of every behaviour of the schedule.
THEOREM EcoFuzzInvariant == Spec => [](TypeOK /\ Books)
<1>1. Init => TypeOK /\ Books
  BY TypeInit, BooksInit
<1>2. TypeOK /\ Books /\ [Next]_vars => TypeOK' /\ Books'
  BY TypeStep, BooksStep
<1> QED
  BY <1>1, <1>2, PTL DEF Spec

\* The EcoFuzz state and the thread-locals keep their types: no energy, no count of
\* remaining tasks and no last_energy goes below zero.
THEOREM EcoFuzzTypes == Spec => []TypeOK
BY EcoFuzzInvariant, PTL

\* What an open cycle still has coming is what is about and what its owner holds.
LEMMA OpenCycleBalance ==
  ASSUME TypeOK, Books, NEW c \in open
  PROVE  \/ /\ Fetched(c)
            /\ cycle[c].energy = cycle[c].seen + lost[c] + cycle[c].energy
         \/ /\ ~Fetched(c)
            /\ cycle[c].energy = cycle[c].seen + lost[c] + Outstanding(c)
<1>1. /\ c \in CycleIds /\ cycle[c].energy \in Nat /\ cycle[c].seen \in Nat
      /\ lost[c] \in Nat /\ out[c] \in Nat /\ LeftOf(c) \in Nat
  BY LeftOfOwner DEF TypeOK, Cycle, Books
<1>2. ASSUME NEW s \in Selectors, mine[s] = c, s \in fetching
      PROVE  Fetched(c) /\ cycle[c].energy = cycle[c].seen + lost[c] + cycle[c].energy
  <2>1. Fetched(c)
    BY <1>2 DEF Fetched, Holders
  <2>2. cycle[c].seen = 0 /\ lost[c] = 0
    BY <1>2 DEF Books, Spread
  <2> QED
    BY <1>1, <2>1, <2>2
<1>3. ASSUME \A s \in fetching : mine[s] # c
      PROVE  ~Fetched(c) /\ cycle[c].energy = cycle[c].seen + lost[c] + Outstanding(c)
  <2>1. ~Fetched(c)
    BY <1>3 DEF Fetched, Holders
  <2>2. CASE \A s \in Selectors : mine[s] # c
    <3>1. LeftOf(c) = 0
      BY <1>1, <2>2, LeftOfOwner DEF Books
    <3>2. cycle[c].energy = cycle[c].seen + lost[c] + out[c]
      BY <2>2 DEF Books, Spread
    <3> QED
      BY <1>1, <2>1, <3>1, <3>2 DEF Outstanding
  <2>3. ASSUME NEW s \in Selectors, mine[s] = c
        PROVE  cycle[c].energy = cycle[c].seen + lost[c] + Outstanding(c)
    <3>1. LeftOf(c) = left[s]
      BY <1>1, <2>3, LeftOfOwner DEF Books
    <3>2. cycle[c].energy = cycle[c].seen + lost[c] + out[c] + left[s]
      BY <1>3, <2>3 DEF Books, Spread
    <3> QED
      BY <1>1, <3>1, <3>2 DEF Outstanding
  <2> QED
    BY <2>1, <2>2, <2>3
<1>4. fetching \subseteq Selectors
  BY DEF TypeOK
<1> QED
  BY <1>2, <1>3, <1>4

\* Every energy granted is accounted for between the thread-locals, the queues, the
\* results booked and what stop() took, for any number of threads.
THEOREM EnergyAccounted == Spec => []EnergyIsAccounted
<1>1. TypeOK /\ Books => EnergyIsAccounted
  BY OpenCycleBalance DEF EnergyIsAccounted
<1> QED
  BY <1>1, EcoFuzzInvariant, PTL

\* The booking in the scheduler loop always finds the cycle of a result: none is closed
\* while a task of it is about or may still be made.
THEOREM ResultsFindTheirCycle == Spec => []WorkHasItsCycle
<1>1. ASSUME TypeOK, Books, NEW c \in CycleIds, c \notin open
      PROVE  ~(Outstanding(c) > 0)
  <2>1. out[c] = 0
    BY <1>1 DEF Books, Waiting
  <2>2. \A s \in Selectors : mine[s] # c
    BY <1>1 DEF Books, Owned, CycleIds, NoCycle
  <2>3. LeftOf(c) = 0
    BY <1>1, <2>2, LeftOfOwner DEF Books
  <2> QED
    BY <2>1, <2>3 DEF Outstanding
<1>2. TypeOK /\ Books => WorkHasItsCycle
  BY <1>1 DEF WorkHasItsCycle
<1> QED
  BY <1>2, EcoFuzzInvariant, PTL

\* ecofuzz_cycles_ does not grow by itself: an entry nobody works for is owed to stop().
THEOREM NoOtherLeak == Spec => []OnlyStopLeaksCycles
<1>1. ASSUME TypeOK, Books, NEW c \in open, ~Fetched(c)
      PROVE  Outstanding(c) > 0 \/ lost[c] > 0
  <2>1. cycle[c].energy = cycle[c].seen + lost[c] + Outstanding(c)
    BY <1>1, OpenCycleBalance
  <2>2. cycle[c].seen < cycle[c].energy
    BY <1>1 DEF Books, Waiting
  <2>3. /\ cycle[c].energy \in Nat /\ cycle[c].seen \in Nat /\ lost[c] \in Nat
        /\ Outstanding(c) \in Nat
    BY <1>1, LeftOfOwner DEF TypeOK, Cycle, Books, Outstanding
  <2> QED
    BY <2>1, <2>2, <2>3
<1>2. TypeOK /\ Books => OnlyStopLeaksCycles
  BY <1>1 DEF OnlyStopLeaksCycles
<1> QED
  BY <1>2, EcoFuzzInvariant, PTL

\* The last_energy that a closing cycle leaves to the energy formula is never less than
\* the energy it was granted, whatever other cycles of the seed did meanwhile.
THEOREM LastEnergyCovers == Spec => LastEnergyCoversCycle
<1> DEFINE Covered == \A c \in open \ open' :
                        out'[c] # out[c] => stats'[cycle[c].seed].lastEnergy >= cycle[c].energy
<1>1. ASSUME TypeOK, Books, [Next]_vars, NEW c \in open \ open', out'[c] # out[c]
      PROVE  stats'[cycle[c].seed].lastEnergy >= cycle[c].energy
  <2>1. PICK found \in BOOLEAN : BookResult(c, found)
    <3>1. ASSUME NEW d \in CycleIds, NEW found \in BOOLEAN, BookResult(d, found)
          PROVE  d = c
      BY <1>1, <3>1 DEF BookResult, Erase
    <3>2. ASSUME NEW s \in Selectors, FetchFails(s) PROVE FALSE
      BY <1>1, <3>2 DEF FetchFails
    <3>3. open' = open => FALSE
      BY <1>1
    <3>4. (\E s \in Selectors : SelectAgain(s) \/ NothingToPick(s) \/ FetchSeed(s)) \/ Restart
          \/ UNCHANGED vars => open' = open
      BY DEF SelectAgain, NothingToPick, FetchSeed, Restart, vars, cycleVars
    <3>5. ASSUME NEW s \in Selectors, OpenCycle(s) PROVE FALSE
      BY <1>1, <3>5 DEF OpenCycle
    <3> QED
      BY <1>1, <3>1, <3>2, <3>3, <3>4, <3>5 DEF Next
  <2>2. Complete(c) /\ c \in CycleIds
    BY <1>1, <2>1 DEF BookResult, TypeOK
  <2>3. stats'[cycle[c].seed].lastEnergy = EnergyUsed(c)
    BY <1>1, <2>1, <2>2, BookedType
  <2>4. /\ cycle[c].energy \in Nat /\ cycle[c].seen \in Nat /\ cycle[c].start \in Nat
        /\ stats[cycle[c].seed].mutations \in Nat
    BY <1>1, <2>2 DEF TypeOK, Cycle, SeedStats, Books, Waiting
  <2>5. cycle[c].start + cycle[c].seen <= stats[cycle[c].seed].mutations
    BY <1>1 DEF Books, Reckoned
  <2> QED
    BY <2>2, <2>3, <2>4, <2>5 DEF Complete, EnergyUsed
<1>2. TypeOK /\ Books /\ [Next]_vars => [Covered]_vars
  BY <1>1
<1> QED
  BY <1>2, EcoFuzzInvariant, PTL DEF Spec, LastEnergyCoversCycle

-----------------------------------------------------------------------------
(* The totals.                                                             *)

\* A step that leaves mutation_num and exec_by_mutation of each seed and the totals.
LEMMA TotalsSame ==
  ASSUME TotalsAgree, UNCHANGED total,
         \A h \in Hashes : /\ stats'[h].mutations = stats[h].mutations
                           /\ stats'[h].misses = stats[h].misses
  PROVE  TotalsAgree'
<1>1. [h \in Hashes |-> stats'[h].mutations] = [h \in Hashes |-> stats[h].mutations]
  OBVIOUS
<1>2. [h \in Hashes |-> stats'[h].mutations + 1 - stats'[h].misses]
        = [h \in Hashes |-> stats[h].mutations + 1 - stats[h].misses]
  OBVIOUS
<1> QED
  BY <1>1, <1>2 DEF TotalsAgree

\* A result counts once for the engine and once for its seed, and so does its find, as
\* the cycle is still there.
LEMMA TotalsBooked ==
  ASSUME TypeOK, Books, TotalsAgree,
         NEW c \in CycleIds, NEW found \in BOOLEAN, BookResult(c, found)
  PROVE  TotalsAgree'
<1> DEFINE h == cycle[c].seed
           f == [g \in Hashes |-> stats[g].mutations]
           ff == [g \in Hashes |-> stats'[g].mutations]
           d == [g \in Hashes |-> stats[g].mutations + 1 - stats[g].misses]
           dd == [g \in Hashes |-> stats'[g].mutations + 1 - stats'[g].misses]
           one == IF found THEN 1 ELSE 0
<1>1. c \in open /\ h \in Hashes
  BY ResultHasCycle DEF BookResult
<1>2. total' = [fuzz |-> total.fuzz + 1, finds |-> total.finds + one]
  BY <1>1 DEF BookResult, Counted
<1>3. /\ stats \in [Hashes -> SeedStats] /\ stats' \in [Hashes -> SeedStats]
      /\ \A g \in Hashes \ {h} : stats'[g] = stats[g]
      /\ stats'[h].mutations = stats[h].mutations + 1
      /\ stats'[h].misses = IF found THEN stats[h].misses ELSE stats[h].misses + 1
  BY BookedType DEF TypeOK
<1>4. IsFiniteSet(Hashes)
  BY EcoFuzzAssumption
<1> HIDE DEF h
<1>5. /\ \A g \in Hashes : f[g] \in Int /\ ff[g] \in Int /\ d[g] \in Int /\ dd[g] \in Int
      /\ \A g \in Hashes \ {h} : f[g] = ff[g] /\ d[g] = dd[g]
      /\ ff[h] = f[h] + 1
  BY <1>1, <1>3 DEF SeedStats
<1>6. dd[h] = d[h] + one
  <2>1. stats[h].mutations \in Nat /\ stats[h].misses \in Nat
    BY <1>1, <1>3 DEF SeedStats
  <2> QED
    BY <1>1, <1>3, <2>1
<1>7. DOMAIN f = Hashes /\ DOMAIN ff = Hashes /\ DOMAIN d = Hashes /\ DOMAIN dd = Hashes
  OBVIOUS
<1>8. total.fuzz = SumFunctionOnSet(f, Hashes) /\ total.finds = SumFunctionOnSet(d, Hashes)
  BY <1>7 DEF TotalsAgree, SumFunction
<1>9. one \in Int
  OBVIOUS
<1>10. SumFunctionOnSet(f, Hashes) \in Int /\ SumFunctionOnSet(d, Hashes) \in Int
  BY <1>4, <1>5, SumType
<1> HIDE DEF f, ff, d, dd, one
<1>11. SumFunctionOnSet(ff, Hashes) = SumFunctionOnSet(f, Hashes) + ff[h] - f[h]
  <2>1. \A g \in Hashes : f[g] \in Int /\ ff[g] \in Int
    BY <1>5
  <2>2. \A g \in Hashes \ {h} : f[g] = ff[g]
    BY <1>5
  <2> QED
    BY <1>1, <1>4, <2>1, <2>2, SumPoint
<1>12. SumFunctionOnSet(dd, Hashes) = SumFunctionOnSet(d, Hashes) + dd[h] - d[h]
  <2>1. \A g \in Hashes : d[g] \in Int /\ dd[g] \in Int
    BY <1>5
  <2>2. \A g \in Hashes \ {h} : d[g] = dd[g]
    BY <1>5
  <2> QED
    BY <1>1, <1>4, <2>1, <2>2, SumPoint
<1>13. total'.fuzz = SumFunctionOnSet(ff, Hashes) /\ total'.finds = SumFunctionOnSet(dd, Hashes)
  <2>1. total'.fuzz = total.fuzz + 1 /\ total'.finds = total.finds + one
    BY <1>2
  <2> QED
    BY <1>1, <1>5, <1>6, <1>8, <1>9, <1>10, <1>11, <1>12, <2>1
<1> QED
  BY <1>7, <1>13 DEF TotalsAgree, SumFunction, ff, dd

\* Nothing was booked at the start.
LEMMA TotalsInit == Init => TotalsAgree
<1> SUFFICES ASSUME Init PROVE TotalsAgree
  OBVIOUS
<1> DEFINE f == [h \in Hashes |-> stats[h].mutations]
           d == [h \in Hashes |-> stats[h].mutations + 1 - stats[h].misses]
<1>1. \A h \in Hashes : f[h] = 0 /\ d[h] = 0
  BY DEF Init, NoStats
<1>2. DOMAIN f = Hashes /\ DOMAIN d = Hashes
  OBVIOUS
<1>3. IsFiniteSet(Hashes)
  BY EcoFuzzAssumption
<1> HIDE DEF f, d
<1>5. SumFunctionOnSet(f, Hashes) = 0 /\ SumFunctionOnSet(d, Hashes) = 0
  BY <1>1, <1>3, SumZero
<1>6. total.fuzz = 0 /\ total.finds = 0
  BY DEF Init
<1> QED
  BY <1>2, <1>5, <1>6 DEF TotalsAgree, SumFunction, f, d

\* Every step keeps the totals: a refresh makes entries with nothing booked.
LEMMA TotalsStep ==
  ASSUME TypeOK, Books, TotalsAgree, [Next]_vars
  PROVE  TotalsAgree'
<1>1. ASSUME NEW c \in CycleIds, NEW found \in BOOLEAN, BookResult(c, found)
      PROVE  TotalsAgree'
  BY <1>1, TotalsBooked
<1>2. ASSUME NEW s \in Selectors, OpenCycle(s) PROVE TotalsAgree'
  <2>1. pool' \in SUBSET Hashes /\ UNCHANGED total
    BY <1>2 DEF OpenCycle
  <2>2. PICK h \in pool' : \/ PickUnfuzzed(pool', Entered(pool'), WaitsIn(pool'), h)
                           \/ PickCheapest(pool', Entered(pool'), WaitsIn(pool'), h)
    BY <1>2 DEF OpenCycle
  <2>3. \A g \in Hashes : /\ stats'[g].mutations = stats[g].mutations
                          /\ stats'[g].misses = stats[g].misses
    BY <2>1, <2>2, PickType DEF Books
  <2> QED
    BY <2>1, <2>3, TotalsSame
<1>3. ASSUME UNCHANGED <<stats, total>> PROVE TotalsAgree'
  BY <1>3, TotalsSame
<1> QED
  BY <1>1, <1>2, <1>3
     DEF Next, SelectAgain, NothingToPick, FetchSeed, FetchFails, Restart, vars

\* The engine's totals are the sums of its seeds' counters, for any set of seeds and any
\* interleaving of overlapping cycles.
THEOREM TotalsAreSums == Spec => []TotalsAgree
<1>1. TypeOK /\ Books /\ TotalsAgree /\ [Next]_vars => TotalsAgree'
  BY TotalsStep
<1> QED
  BY <1>1, TotalsInit, EcoFuzzInvariant, PTL DEF Spec

-----------------------------------------------------------------------------
(* The rounds.                                                             *)

\* A seed that had its turn waits for those still due, one that is due waited for all
\* that went before, in this round and the one it had its turn in.
TurnsIn(P, st, w) ==
    \A h \in P :
      /\ st[h].state = 2 => w[h] + Cardinality(Round(P, st)) + 1 <= Cardinality(P)
      /\ st[h].state = 0 => w[h] + Cardinality(Round(P, st)) + 1 <= 2 * Cardinality(P)

Turns == TurnsIn(pool, stats, waited)

\* Sizes of a pool and of the seeds due in it.
LEMMA RoundSize ==
  ASSUME NEW P \in SUBSET Hashes, NEW st \in [Hashes -> SeedStats]
  PROVE  /\ IsFiniteSet(P) /\ IsFiniteSet(Round(P, st))
         /\ Cardinality(P) \in Nat /\ Cardinality(Round(P, st)) \in Nat
         /\ Cardinality(Round(P, st)) <= Cardinality(P)
         /\ \A h \in P : Cardinality(P) > 0
         /\ \A h \in P : st[h].state = 0 => Cardinality(Round(P, st)) > 0
         /\ \A h \in P : st[h].state = 2 =>
                Cardinality(Round(P, st)) + 1 <= Cardinality(P)
<1>1. IsFiniteSet(P)
  BY EcoFuzzAssumption, FS_Subset
<1>2. Round(P, st) \subseteq P
  BY DEF Round
<1>3. IsFiniteSet(Round(P, st)) /\ Cardinality(Round(P, st)) <= Cardinality(P)
  BY <1>1, <1>2, FS_Subset
<1>4. Cardinality(P) \in Nat /\ Cardinality(Round(P, st)) \in Nat
  BY <1>1, <1>3, FS_CardinalityType
<1>5. ASSUME NEW h \in P PROVE Cardinality(P) > 0
  BY <1>1, <1>4, <1>5, FS_EmptySet
<1>6. ASSUME NEW h \in P, st[h].state = 0 PROVE Cardinality(Round(P, st)) > 0
  <2>1. h \in Round(P, st)
    BY <1>6 DEF Round
  <2> QED
    BY <1>3, <1>4, <2>1, FS_EmptySet
<1>7. ASSUME NEW h \in P, st[h].state = 2
      PROVE  Cardinality(Round(P, st)) + 1 <= Cardinality(P)
  <2>1. h \notin Round(P, st)
    BY <1>7 DEF Round
  <2>2. Round(P, st) \subseteq P \ {h}
    BY <1>2, <2>1
  <2>3. IsFiniteSet(P \ {h}) /\ Cardinality(P \ {h}) = Cardinality(P) - 1
    BY <1>1, FS_RemoveElement
  <2>4. Cardinality(Round(P, st)) <= Cardinality(P \ {h})
    BY <2>2, <2>3, FS_Subset
  <2> QED
    BY <1>4, <2>3, <2>4
<1> QED
  BY <1>1, <1>3, <1>4, <1>5, <1>6, <1>7

\* A refresh either keeps the pool, and every state in it, or starts all waits anew.
LEMMA TurnsEntered ==
  ASSUME TypeOK, Books, Turns, NEW P \in SUBSET Hashes
  PROVE  TurnsIn(P, Entered(P), WaitsIn(P))
<1>1. Entered(P) \in [Hashes -> SeedStats]
  BY EnteredType
<1>2. CASE P = pool
  <2>1. \A h \in P : Entered(P)[h].state = stats[h].state
    BY EnteredKeeps DEF Books
  <2>2. Round(P, Entered(P)) = Round(P, stats)
    BY <2>1 DEF Round
  <2>3. WaitsIn(P) = waited
    BY <1>2 DEF WaitsIn
  <2> QED
    BY <1>2, <2>1, <2>2, <2>3 DEF Turns, TurnsIn
<1>3. CASE P # pool
  <2>1. WaitsIn(P) = [h \in Hashes |-> 0]
    BY <1>3 DEF WaitsIn
  <2>2. \A h \in P : WaitsIn(P)[h] = 0
    BY <2>1
  <2> DEFINE n == Cardinality(P)
             r == Cardinality(Round(P, Entered(P)))
  <2>3. /\ n \in Nat /\ r \in Nat /\ r <= n
        /\ \A h \in P : n > 0
        /\ \A h \in P : Entered(P)[h].state = 2 => r + 1 <= n
    BY <1>1, RoundSize
  <2> HIDE DEF n, r
  <2>4. ASSUME NEW h \in P
        PROVE  /\ Entered(P)[h].state = 2 => WaitsIn(P)[h] + r + 1 <= n
               /\ Entered(P)[h].state = 0 => WaitsIn(P)[h] + r + 1 <= 2 * n
    <3>1. WaitsIn(P)[h] = 0 /\ n > 0
      BY <2>2, <2>3
    <3>2. WaitsIn(P)[h] + r + 1 = r + 1
      BY <2>3, <3>1
    <3>3. r + 1 <= 2 * n
      BY <2>3, <3>1
    <3> QED
      BY <2>3, <3>2, <3>3
  <2> QED
    BY <2>4 DEF TurnsIn, n, r
<1> QED
  BY <1>2, <1>3

\* A state-2 pick: the picked seed waits anew, every other one pick more.
LEMMA TurnsPicked ==
  ASSUME NEW P \in SUBSET Hashes, NEW st \in [Hashes -> SeedStats],
         NEW w \in [Hashes -> Nat], NEW h \in Hashes, TurnsIn(P, st, w),
         Cheapest(P, st, h)
  PROVE  TurnsIn(P, NewStates(P, st, h), NewWaits(P, w, h))
<1> DEFINE ns == NewStates(P, st, h)
           nw == NewWaits(P, w, h)
           n == Cardinality(P)
           r == Cardinality(Round(P, st))
           nr == Cardinality(Round(P, ns))
<1>1. h \in P /\ h \in Candidates(P, st)
  BY DEF Cheapest, Candidates, Round
<1>2. Round(P, ns) = Candidates(P, st) \ {h}
  <2>1. ASSUME NEW g \in P PROVE g \in Round(P, ns) <=> g \in Candidates(P, st) \ {h}
    <3>1. CASE g = h
      BY <3>1 DEF Round, NewStates, SeedStats
    <3>2. CASE g # h /\ Round(P, st) = {}
      BY <3>2 DEF Round, NewStates, Candidates, SeedStats
    <3>3. CASE g # h /\ Round(P, st) # {}
      BY <3>3 DEF Round, NewStates, Candidates
    <3> QED
      BY <3>1, <3>2, <3>3
  <2> QED
    BY <2>1 DEF Round, Candidates
<1>3. /\ n \in Nat /\ r \in Nat /\ r <= n /\ n > 0
      /\ IsFiniteSet(P) /\ IsFiniteSet(Round(P, st))
  BY <1>1, RoundSize
<1>4. IsFiniteSet(Candidates(P, st))
  BY <1>3 DEF Candidates
<1>5. nr = Cardinality(Candidates(P, st)) - 1
  BY <1>1, <1>2, <1>4, FS_RemoveElement
<1>6. \A g \in P : g # h => nw[g] = w[g] + 1 /\ w[g] \in Nat
  BY DEF NewWaits
<1>7. nw[h] = 0 /\ ns[h].state = 2
  BY DEF NewWaits, NewStates, SeedStats
<1>8. CASE Round(P, st) = {}
  <2>1. r = 0 /\ nr = n - 1
    BY <1>5, <1>8, FS_EmptySet DEF Candidates
  <2>2. \A g \in P : st[g].state = 2
    BY <1>8 DEF Round, SeedStats
  <2>3. \A g \in P : g # h => ns[g].state = 0
    BY <1>8 DEF NewStates, SeedStats
  <2>4. \A g \in P : w[g] + r + 1 <= n
    BY <2>2 DEF TurnsIn
  <2> HIDE DEF ns, nw, n, r, nr
  <2>5. ASSUME NEW g \in P
        PROVE  /\ ns[g].state = 2 => nw[g] + nr + 1 <= n
               /\ ns[g].state = 0 => nw[g] + nr + 1 <= 2 * n
    <3>1. CASE g = h
      BY <1>3, <1>7, <2>1, <3>1
    <3>2. CASE g # h
      <4>1. nw[g] = w[g] + 1 /\ w[g] \in Nat /\ w[g] + 1 <= n /\ ns[g].state = 0
        BY <1>3, <1>6, <2>1, <2>3, <2>4, <3>2
      <4>2. nw[g] + nr + 1 <= 2 * n
        BY <1>3, <2>1, <4>1
      <4> QED
        BY <4>1, <4>2
    <3> QED
      BY <3>1, <3>2
  <2> QED
    BY <2>5 DEF TurnsIn, ns, nw, n, nr
<1>9. CASE Round(P, st) # {}
  <2>1. nr = r - 1 /\ r > 0
    <3>1. r # 0
      BY <1>3, <1>9, FS_EmptySet
    <3> QED
      BY <1>3, <1>5, <1>9, <3>1 DEF Candidates
  <2>2. \A g \in P : g # h => ns[g].state = st[g].state
    BY <1>9 DEF NewStates
  <2>3. \A g \in P : st[g].state = 2 => w[g] + r + 1 <= n
    BY DEF TurnsIn
  <2>5. \A g \in P : st[g].state = 0 => w[g] + r + 1 <= 2 * n
    BY DEF TurnsIn
  <2> HIDE DEF ns, nw, n, r, nr
  <2>4. ASSUME NEW g \in P
        PROVE  /\ ns[g].state = 2 => nw[g] + nr + 1 <= n
               /\ ns[g].state = 0 => nw[g] + nr + 1 <= 2 * n
    <3>1. CASE g = h
      BY <1>3, <1>7, <2>1, <3>1
    <3>2. CASE g # h
      <4>1. nw[g] + nr + 1 = w[g] + r + 1
        BY <1>3, <1>6, <2>1, <3>2
      <4>2. CASE st[g].state = 2
        <5>1. w[g] + r + 1 <= n
          BY <2>3, <4>2
        <5>2. nw[g] + nr + 1 <= n
          BY <4>1, <5>1
        <5> QED
          BY <2>2, <3>2, <4>2, <5>2
      <4>3. CASE st[g].state = 0
        <5>1. w[g] + r + 1 <= 2 * n
          BY <2>5, <4>3
        <5>2. nw[g] + nr + 1 <= 2 * n
          BY <4>1, <5>1
        <5> QED
          BY <2>2, <3>2, <4>3, <5>2
      <4> QED
        BY <2>2, <3>2, <4>2, <4>3
    <3> QED
      BY <3>1, <3>2
  <2> QED
    BY <2>4 DEF TurnsIn, ns, nw, n, nr
<1> QED
  BY <1>8, <1>9

\* The pool is empty at the start.
LEMMA TurnsInit == Init => Turns
BY DEF Init, Turns, TurnsIn

\* Every step keeps the bound on the waits: only a pick or a refresh touches it.
LEMMA TurnsStep ==
  ASSUME TypeOK, Books, Turns, [Next]_vars
  PROVE  Turns'
<1>1. ASSUME UNCHANGED <<pool, waited>>, \A h \in Hashes : stats'[h].state = stats[h].state
      PROVE  Turns'
  <2>1. \A h \in pool : stats'[h].state = stats[h].state
    BY <1>1 DEF TypeOK
  <2>2. Round(pool, stats') = Round(pool, stats)
    BY <2>1 DEF Round
  <2> QED
    BY <1>1, <2>1, <2>2 DEF Turns, TurnsIn
<1>2. ASSUME NEW s \in Selectors, OpenCycle(s) PROVE Turns'
  <2> DEFINE P == pool'
             st == Entered(P)
             w == WaitsIn(P)
  <2>1. PICK h \in P : PickUnfuzzed(P, st, w, h) \/ PickCheapest(P, st, w, h)
    BY <1>2 DEF OpenCycle
  <2>2. P \in SUBSET Hashes /\ h \in Hashes
    BY <1>2 DEF OpenCycle
  <2>3. /\ st \in [Hashes -> SeedStats] /\ w \in [Hashes -> Nat]
        /\ TurnsIn(P, st, w)
    BY <2>2, EnteredType, TurnsEntered DEF WaitsIn, TypeOK
  <2> HIDE DEF st, w
  <2>4. CASE PickUnfuzzed(P, st, w, h)
    <3>1. waited' = w /\ stats' = [st EXCEPT ![h].fuzzed = TRUE]
      BY <2>4 DEF PickUnfuzzed
    <3>2. \A g \in P : stats'[g].state = st[g].state
      BY <2>2, <2>3, <3>1 DEF SeedStats
    <3>3. Round(P, stats') = Round(P, st)
      BY <3>2 DEF Round
    <3> QED
      BY <2>3, <3>1, <3>2, <3>3 DEF Turns, TurnsIn
  <2>5. CASE PickCheapest(P, st, w, h)
    <3>1. /\ waited' = NewWaits(P, w, h) /\ stats' = NewStates(P, st, h)
          /\ Cheapest(P, st, h)
      BY <2>5 DEF PickCheapest
    <3>2. TurnsIn(P, NewStates(P, st, h), NewWaits(P, w, h))
      BY <2>2, <2>3, <3>1, TurnsPicked
    <3> QED
      BY <3>1, <3>2 DEF Turns
  <2> QED
    BY <2>1, <2>4, <2>5
<1>3. ASSUME NEW s \in Selectors, NothingToPick(s) PROVE Turns'
  BY <1>3 DEF NothingToPick, Turns, TurnsIn
<1>4. ASSUME NEW c \in CycleIds, NEW found \in BOOLEAN, BookResult(c, found) PROVE Turns'
  <2>1. UNCHANGED <<pool, waited>>
    BY <1>4 DEF BookResult
  <2>2. \A h \in Hashes : stats'[h].state = stats[h].state
    BY <1>4, BookedType
  <2> QED
    BY <1>1, <2>1, <2>2
<1>5. ASSUME UNCHANGED <<pool, stats, waited>> PROVE Turns'
  BY <1>1, <1>5
<1> QED
  BY <1>2, <1>3, <1>4, <1>5
     DEF Next, SelectAgain, FetchSeed, FetchFails, Restart, vars

\* The state-2 scan starves no seed of an unchanging pool, for any pool, any outcomes and
\* any number of threads that pick.
THEOREM EverySeedGetsItsTurn == Spec => []NoSeedStarves
<1>1. ASSUME TypeOK, Turns, NEW h \in pool
      PROVE  waited[h] <= 2 * (Cardinality(pool) - 1)
  <2> DEFINE n == Cardinality(pool)
             r == Cardinality(Round(pool, stats))
  <2>1. /\ n \in Nat /\ r \in Nat /\ n > 0 /\ waited[h] \in Nat
        /\ stats[h].state = 0 => r > 0
        /\ stats[h].state = 0 \/ stats[h].state = 2
    BY <1>1, RoundSize DEF TypeOK, SeedStats
  <2>2. /\ stats[h].state = 2 => waited[h] + r + 1 <= n
        /\ stats[h].state = 0 => waited[h] + r + 1 <= 2 * n
    BY <1>1 DEF Turns, TurnsIn
  <2> HIDE DEF n, r
  <2>3. waited[h] <= 2 * (n - 1)
    BY <2>1, <2>2
  <2> QED
    BY <2>3 DEF n
<1>2. TypeOK /\ Turns => NoSeedStarves
  BY <1>1 DEF NoSeedStarves
<1>3. TypeOK /\ Books /\ Turns /\ [Next]_vars => Turns'
  BY TurnsStep
<1> QED
  BY <1>2, <1>3, TurnsInit, EcoFuzzInvariant, PTL DEF Spec
=============================================================================
