-------------------------- MODULE AliasTableProofs --------------------------
(***************************************************************************)
(* Why the alias tables of UnifiedLearner are sound, for any number of     *)
(* operators and any counts that a rebuild may read.                       *)
(*                                                                         *)
(* buildAlias() is two loops: the first sorts the operators on two stacks  *)
(* (Sorting), the second pairs the last of one with the last of the other  *)
(* (Pairing).  What the second one keeps is, for each operator, its share:  *)
(* what it has not given away and what it was given as an alias; and, over *)
(* those still on a stack, their surplus over the average.                 *)
(***************************************************************************)
EXTENDS UnifiedLearnerProofs, FunctionSums, SequenceTheorems

\* The state of the two loops.
Tables == [scaled : [Ops -> Int], small : Seq(Ops), large : Seq(Ops),
           prob : [Ops -> Int], idx : [Ops -> Ops]]

-----------------------------------------------------------------------------
(* Stacks.                                                                 *)

\* push_back()
LEMMA Pushed ==
  ASSUME NEW s \in Seq(Ops), IsInjective(s), NEW x \in Ops, x \notin Range(s)
  PROVE  /\ Append(s, x) \in Seq(Ops) /\ IsInjective(Append(s, x))
         /\ Range(Append(s, x)) = Range(s) \cup {x}
         /\ Len(Append(s, x)) = Len(s) + 1 /\ Len(s) \in Nat
<1> DEFINE a == Append(s, x)
<1>1. /\ a \in Seq(Ops) /\ Len(a) = Len(s) + 1 /\ Len(s) \in Nat
      /\ \A i \in 1 .. Len(s) : a[i] = s[i]
      /\ a[Len(s) + 1] = x
      /\ DOMAIN s = 1 .. Len(s) /\ DOMAIN a = 1 .. Len(s) + 1
  BY AppendProperties, LenProperties
<1> HIDE DEF a
<1>2. 1 .. Len(s) + 1 = (1 .. Len(s)) \cup {Len(s) + 1}
  BY <1>1
<1>3. \A i \in DOMAIN s : s[i] # x
  BY DEF Range
<1>4. IsInjective(a)
  BY <1>1, <1>2, <1>3 DEF IsInjective
<1>5. Range(a) = Range(s) \cup {x}
  BY <1>1, <1>2 DEF Range
<1> QED
  BY <1>1, <1>4, <1>5 DEF a

\* back() and pop_back() of a stack that is not empty.
LEMMA PopType ==
  ASSUME NEW s \in Seq(Ops), s # <<>>
  PROVE  /\ Top(s) \in Ops /\ Popped(s) \in Seq(Ops)
         /\ Len(s) \in Nat /\ Len(s) # 0 /\ Len(Popped(s)) = Len(s) - 1
         /\ DOMAIN s = 1 .. Len(s) /\ DOMAIN Popped(s) = 1 .. Len(s) - 1
         /\ \A i \in 1 .. Len(s) - 1 : Popped(s)[i] = s[i]
<1> DEFINE n == Len(s)
           q == SubSeq(s, 1, n - 1)
<1>1. n \in Nat /\ n # 0 /\ DOMAIN s = 1 .. n /\ \A i \in 1 .. n : s[i] \in Ops
  BY LenProperties, EmptySeq
<1>2. \A i \in 1 .. n - 1 : s[i] \in Ops
  BY <1>1
<1>3. /\ q \in Seq(Ops) /\ Len(q) = IF 1 <= n - 1 THEN (n - 1) - 1 + 1 ELSE 0
      /\ \A i \in 1 .. (n - 1) - 1 + 1 : q[i] = s[1 + i - 1]
  BY <1>1, <1>2, SubSeqProperties
<1>4. Len(q) = n - 1
  BY <1>1, <1>3
<1>5. DOMAIN q = 1 .. n - 1
  BY <1>3, <1>4, LenProperties
<1>6. \A i \in 1 .. n - 1 : q[i] = s[i]
  BY <1>1, <1>3
<1>7. s[n] \in Ops
  BY <1>1
<1> QED
  BY <1>1, <1>3, <1>4, <1>5, <1>6, <1>7 DEF Top, Popped

\* They take the last element off.
LEMMA PopIs ==
  ASSUME NEW s \in Seq(Ops), IsInjective(s), s # <<>>
  PROVE  /\ Top(s) \in Ops /\ Top(s) \in Range(s)
         /\ Popped(s) \in Seq(Ops) /\ IsInjective(Popped(s))
         /\ Range(Popped(s)) = Range(s) \ {Top(s)}
         /\ Len(Popped(s)) = Len(s) - 1 /\ Len(s) \in Nat
<1> DEFINE n == Len(s)
           q == Popped(s)
<1>1. /\ s[n] \in Ops /\ q \in Seq(Ops) /\ n \in Nat /\ n # 0 /\ Len(q) = n - 1
      /\ DOMAIN s = 1 .. n /\ DOMAIN q = 1 .. n - 1
      /\ \A i \in 1 .. n - 1 : q[i] = s[i]
  BY PopType DEF Top
<1> HIDE DEF q, n
<1>2. 1 .. n = (1 .. n - 1) \cup {n} /\ n \in 1 .. n
  BY <1>1
<1>3. IsInjective(q)
  BY <1>1, <1>2 DEF IsInjective
<1>4. \A i \in 1 .. n - 1 : s[i] # s[n]
  <2>1. \A i \in 1 .. n - 1 : i # n /\ i \in 1 .. n
    BY <1>1
  <2> QED
    BY <1>1, <1>2, <2>1 DEF IsInjective
<1>5. Range(q) = Range(s) \ {s[n]} /\ s[n] \in Range(s)
  BY <1>1, <1>2, <1>4 DEF Range
<1> QED
  BY <1>1, <1>3, <1>5 DEF Top, q, n

-----------------------------------------------------------------------------
(* Sorting.                                                                *)

\* The first k operators are sorted, each on one stack.
Sorting(b, p, k) ==
    /\ b.scaled = [i \in Ops |-> p.finds[i] * NumOps]
    /\ b.prob = [i \in Ops |-> p.total]
    /\ b.idx = [i \in Ops |-> i]
    /\ IsInjective(b.small) /\ IsInjective(b.large)
    /\ \A i \in Range(b.small) : i < k /\ b.scaled[i] < p.total
    /\ \A i \in Range(b.large) : i < k /\ b.scaled[i] >= p.total
    /\ \A i \in Ops : i < k => i \in Range(b.small) \cup Range(b.large)
    /\ Len(b.small) + Len(b.large) = k

\* Before the first loop.
LEMMA SortInit ==
  ASSUME NEW p \in Row
  PROVE  Unsorted(p) \in Tables /\ Sorting(Unsorted(p), p, 0)
<1>1. <<>> \in Seq(Ops) /\ Len(<<>>) = 0 /\ DOMAIN <<>> = 1 .. 0
  BY EmptySeq, LenProperties
<1>2. 1 .. 0 = {}
  OBVIOUS
<1>3. IsInjective(<<>>) /\ Range(<<>>) = {}
  BY <1>1, <1>2 DEF IsInjective, Range
<1>4. \A i \in Ops : ~(i < 0)
  BY DEF Ops
<1>5. \A i \in Ops : p.finds[i] * NumOps \in Int /\ p.total \in Int
  BY LearnerAssumption DEF Row
<1>6. Unsorted(p) \in Tables
  BY <1>1, <1>5 DEF Unsorted, Tables
<1> QED
  BY <1>1, <1>3, <1>4, <1>6 DEF Unsorted, Sorting

\* A sum of two of which one grows.
LEMMA PlusOne ==
  \A i, j, x \in Nat : i + j = x => (i + 1) + j = x + 1 /\ i + (j + 1) = x + 1
OBVIOUS

\* A turn of the first loop.
LEMMA SortStep ==
  ASSUME NEW p \in Row, NEW k \in 1 .. NumOps, NEW b \in Tables, Sorting(b, p, k - 1)
  PROVE  Sorting(Sort(b, k - 1, p.total), p, k)
<1> DEFINE x == k - 1
           c == Sort(b, x, p.total)
<1>1. x \in Ops /\ x \in Nat /\ x + 1 = k /\ k \in Nat
  BY LearnerAssumption DEF Ops
<1>2. /\ b.scaled \in [Ops -> Int] /\ b.small \in Seq(Ops) /\ b.large \in Seq(Ops)
      /\ p.total \in Int
  BY DEF Tables, Row
<1>3. Sorting(b, p, x)
  OBVIOUS
<1> HIDE DEF x
<1>4. /\ \A i \in Range(b.small) : i < x /\ b.scaled[i] < p.total
      /\ \A i \in Range(b.large) : i < x /\ b.scaled[i] >= p.total
      /\ \A i \in Ops : i < x => i \in Range(b.small) \cup Range(b.large)
      /\ IsInjective(b.small) /\ IsInjective(b.large)
      /\ Len(b.small) + Len(b.large) = x
  BY <1>3 DEF Sorting
<1>5. x \notin Range(b.small) /\ x \notin Range(b.large)
  BY <1>1, <1>4
<1>6. Range(b.small) \subseteq Ops /\ Range(b.large) \subseteq Ops
  BY <1>2, LenProperties DEF Range
<1>7. \A i \in Ops : (i < x => i < k) /\ (i < k => i < x \/ i = x)
  BY <1>1, LearnerAssumption DEF Ops
<1>8. Len(b.small) \in Nat /\ Len(b.large) \in Nat
  BY <1>2, LenProperties
<1>14. Len(b.small) \in Nat /\ Len(b.large) \in Nat /\ x \in Nat /\ x + 1 = k
  BY <1>1, <1>8, Zenon
<1>9. x < k
  BY <1>1
<1>10. /\ c.prob = b.prob /\ c.idx = b.idx /\ c.scaled = b.scaled
       /\ b.scaled[x] < p.total => c.small = Append(b.small, x) /\ c.large = b.large
       /\ ~(b.scaled[x] < p.total) => c.large = Append(b.large, x) /\ c.small = b.small
  BY DEF Sort, Tables
<1> HIDE DEF c
<1>11. /\ c.scaled = [i \in Ops |-> p.finds[i] * NumOps]
       /\ c.prob = [i \in Ops |-> p.total] /\ c.idx = [i \in Ops |-> i]
  BY <1>3, <1>10 DEF Sorting
<1>12. CASE b.scaled[x] < p.total
  <2>1. /\ IsInjective(c.small) /\ Range(c.small) = Range(b.small) \cup {x}
        /\ Len(c.small) = Len(b.small) + 1
    BY <1>1, <1>2, <1>4, <1>5, <1>10, <1>12, Pushed
  <2>2. Len(c.small) + Len(c.large) = k
    <3>1. Len(c.small) = Len(b.small) + 1 /\ Len(c.large) = Len(b.large)
      BY <1>10, <1>12, <2>1
    <3>2. Len(b.small) + Len(b.large) = x
      BY <1>4
    <3>3. Len(c.small) + Len(c.large) = (Len(b.small) + 1) + Len(b.large)
      BY <3>1, Zenon
    <3> QED
      BY <1>14, <3>2, <3>3, PlusOne, Zenon
  <2>3. \A i \in Range(c.small) : i < k /\ c.scaled[i] < p.total
    BY <1>4, <1>6, <1>7, <1>9, <1>10, <1>12, <2>1
  <2>4. \A i \in Range(c.large) : i < k /\ c.scaled[i] >= p.total
    BY <1>4, <1>6, <1>7, <1>10, <1>12
  <2>5. \A i \in Ops : i < k => i \in Range(c.small) \cup Range(c.large)
    BY <1>4, <1>7, <1>10, <1>12, <2>1
  <2>7. Sorting(c, p, k)
    BY <1>4, <1>10, <1>11, <1>12, <2>1, <2>2, <2>3, <2>4, <2>5 DEF Sorting
  <2> QED
    BY <2>7 DEF c, x
<1>13. CASE ~(b.scaled[x] < p.total)
  <2>1. /\ IsInjective(c.large) /\ Range(c.large) = Range(b.large) \cup {x}
        /\ Len(c.large) = Len(b.large) + 1
    BY <1>1, <1>2, <1>4, <1>5, <1>10, <1>13, Pushed
  <2>2. Len(c.small) + Len(c.large) = k
    <3>1. Len(c.large) = Len(b.large) + 1 /\ Len(c.small) = Len(b.small)
      BY <1>10, <1>13, <2>1
    <3>2. Len(b.small) + Len(b.large) = x
      BY <1>4
    <3>3. Len(c.small) + Len(c.large) = Len(b.small) + (Len(b.large) + 1)
      BY <3>1, Zenon
    <3> QED
      BY <1>14, <3>2, <3>3, PlusOne, Zenon
  <2>3. \A i \in Range(c.small) : i < k /\ c.scaled[i] < p.total
    BY <1>4, <1>6, <1>7, <1>10, <1>13
  <2>6. b.scaled[x] >= p.total
    BY <1>1, <1>2, <1>13
  <2>4. \A i \in Range(c.large) : i < k /\ c.scaled[i] >= p.total
    BY <1>4, <1>6, <1>7, <1>9, <1>10, <2>1, <2>6
  <2>5. \A i \in Ops : i < k => i \in Range(c.small) \cup Range(c.large)
    BY <1>4, <1>7, <1>10, <1>13, <2>1
  <2>7. Sorting(c, p, k)
    BY <1>4, <1>10, <1>11, <1>13, <2>1, <2>2, <2>3, <2>4, <2>5 DEF Sorting
  <2> QED
    BY <2>7 DEF c, x
<1> QED
  BY <1>12, <1>13

\* A turn of the first loop keeps the types.
LEMMA SortType ==
  ASSUME NEW b \in Tables, NEW x \in Ops, NEW t
  PROVE  Sort(b, x, t) \in Tables
<1>1. Append(b.small, x) \in Seq(Ops) /\ Append(b.large, x) \in Seq(Ops)
  BY AppendProperties DEF Tables
<1> QED
  BY <1>1 DEF Sort, Tables

\* The first loop sorts all operators.
LEMMA SortDone ==
  ASSUME NEW p \in Row
  PROVE  Sorted(p) \in Tables /\ Sorting(Sorted(p), p, NumOps)
<1> DEFINE Loop(g) == g = [k \in 0 .. NumOps |-> IF k = 0 THEN Unsorted(p)
                                                 ELSE Sort(g[k - 1], k - 1, p.total)]
           turn == [k \in 1 .. NumOps |-> [b \in Tables |-> Sort(b, k - 1, p.total)]]
           I == [k \in 0 .. NumOps |-> {b \in Tables : Sorting(b, p, k)}]
<1>1. NumOps \in Nat /\ \A k \in 1 .. NumOps : k - 1 \in Ops /\ k - 1 \in 0 .. NumOps
  BY LearnerAssumption DEF Ops
<1>2. turn \in TurnFunctions(NumOps, Tables)
  BY <1>1, SortType DEF TurnFunctions
<1>3. Unsorted(p) \in Tables /\ Sorting(Unsorted(p), p, 0)
  BY SortInit
<1>4. \E g : Loop(g)
  <2> HIDE DEF turn
  <2>0. \E g : Loops(g, NumOps, Tables, Unsorted(p), turn)
    BY <1>1, <1>2, <1>3, TurnsExist
  <2>1. PICK g \in [0 .. NumOps -> Tables] :
           g[0] = Unsorted(p) /\ \A k \in 1 .. NumOps : g[k] = turn[k][g[k - 1]]
    BY <2>0 DEF Loops
  <2>2. ASSUME NEW k \in 1 .. NumOps PROVE g[k] = Sort(g[k - 1], k - 1, p.total)
    <3>1. g[k - 1] \in Tables
      BY <1>1
    <3> QED
      BY <2>1, <3>1 DEF turn
  <2>3. \A k \in 0 .. NumOps : k # 0 => k \in 1 .. NumOps
    BY <1>1
  <2> QED
    BY <2>1, <2>2, <2>3
<1>5. PICK g : Loop(g) /\ Sorted(p) = g[NumOps]
  BY <1>4 DEF Sorted
<1>6. g[0] = Unsorted(p)
  BY <1>1, <1>5
<1>7. \A k \in 1 .. NumOps : g[k] = Sort(g[k - 1], k - 1, p.total)
  BY <1>1, <1>5
<1>8. g[0] \in I[0]
  BY <1>1, <1>3, <1>6
<1>9. ASSUME NEW k \in 1 .. NumOps, g[k - 1] \in I[k - 1] PROVE g[k] \in I[k]
  <2>1. g[k - 1] \in Tables /\ Sorting(g[k - 1], p, k - 1)
    BY <1>1, <1>9
  <2>2. g[k] \in Tables /\ Sorting(g[k], p, k)
    BY <1>1, <1>7, <2>1, SortType, SortStep
  <2> QED
    BY <2>2
<1>10. g[NumOps] \in I[NumOps]
  <2> HIDE DEF I
  <2> QED
    BY <1>1, <1>8, <1>9, TurnsKeep
<1> QED
  BY <1>1, <1>5, <1>10

-----------------------------------------------------------------------------
(* Pairing.                                                                *)

\* The operators still on a stack.
Active(b) == Range(b.small) \cup Range(b.large)

\* What j is given by those it is the alias of.
Gifts(b, t, j) == [i \in Ops |-> IF b.idx[i] = j THEN t - b.prob[i] ELSE 0]
Given(b, t, j) == SumFunctionOnSet(Gifts(b, t, j), Ops)

\* What j has for itself.
Held(b, j) == IF j \in Active(b) THEN b.scaled[j] ELSE b.prob[j]

\* What those still on a stack have over the average.
Excess(b, t) == [i \in Ops |-> IF i \in Active(b) THEN b.scaled[i] - t ELSE 0]

\* Each operator is on at most one stack, and on the right one.
Stacked(b, t) ==
    /\ IsInjective(b.small) /\ IsInjective(b.large)
    /\ \A i \in Range(b.small) : b.scaled[i] < t
    /\ \A i \in Range(b.large) : b.scaled[i] >= t

\* Those still on a stack are set as if they were never paired.
Settled(b, t) ==
    \A i \in Ops : /\ b.scaled[i] > 0 /\ b.prob[i] > 0 /\ b.prob[i] <= t
                   /\ i \in Active(b) => b.prob[i] = t /\ b.idx[i] = i

\* Every turn takes one operator off, until one stack is empty.
Shrinking(b, k) ==
    \/ b.small = <<>> \/ b.large = <<>>
    \/ Len(b.small) + Len(b.large) = NumOps - k

\* Nothing is lost or made up: of the shares, and of the surplus.
SharesKept(b, p) == \A j \in Ops : Held(b, j) + Given(b, p.total, j) = p.finds[j] * NumOps

SurplusKept(b, p) ==
    SumFunctionOnSet(Excess(b, p.total), Ops) = Total(p.finds) * NumOps - NumOps * p.total

\* After k turns of the second loop.
Pairing(b, p, k) ==
    /\ Stacked(b, p.total) /\ Settled(b, p.total) /\ Shrinking(b, k)
    /\ SharesKept(b, p) /\ SurplusKept(b, p)

\* The rows that a rebuild may read: each count is at least the 1 it starts with, and the
\* total was read before them.
Readable(p) ==
    /\ p \in Row
    /\ \A j \in Ops : p.finds[j] >= 1
    /\ p.total >= 1 /\ p.total <= Total(p.finds)

\* Operators are finitely many, and all of them are on a stack after the first loop.
LEMMA OpsFinite == IsFiniteSet(Ops) /\ Cardinality(Ops) = NumOps /\ NumOps \in Nat \ {0}
<1>0. NumOps \in Nat \ {0} /\ 0 \in Int /\ NumOps - 1 \in Int
  BY LearnerAssumption
<1>1. IsFiniteSet(0 .. NumOps - 1) /\ Cardinality(0 .. NumOps - 1) =
        IF 0 > NumOps - 1 THEN 0 ELSE (NumOps - 1) - 0 + 1
  BY <1>0, FS_Interval
<1> QED
  BY <1>1, LearnerAssumption DEF Ops

\* Between the loops nobody has given anything yet.
LEMMA PairingInit ==
  ASSUME NEW p, Readable(p)
  PROVE  Sorted(p) \in Tables /\ Pairing(Sorted(p), p, 0)
<1> DEFINE b == Sorted(p)
           t == p.total
<1>1. b \in Tables /\ Sorting(b, p, NumOps) /\ p \in Row
  BY SortDone DEF Readable
<1>2. NumOps \in Nat \ {0} /\ t \in Nat /\ t >= 1
      /\ \A j \in Ops : p.finds[j] \in Nat /\ p.finds[j] >= 1
  BY OpsFinite DEF Readable, Row
<1>3. \A i \in Ops : i < NumOps
  BY OpsFinite DEF Ops
<1>4. Active(b) = Ops
  <2>1. Range(b.small) \subseteq Ops /\ Range(b.large) \subseteq Ops
    BY <1>1, LenProperties DEF Tables, Range
  <2> QED
    BY <1>1, <1>3, <2>1 DEF Sorting, Active
<1>5. \A i \in Ops : /\ b.scaled[i] = p.finds[i] * NumOps
                     /\ b.prob[i] = t /\ b.idx[i] = i
  BY <1>1 DEF Sorting
<1>6. Stacked(b, t)
  <2> HIDE DEF b
  <2> QED
    BY <1>1 DEF Sorting, Stacked
<1>7. Shrinking(b, 0)
  <2>1. NumOps - 0 = NumOps
    BY <1>2
  <2>2. Len(b.small) + Len(b.large) = NumOps
    BY <1>1 DEF Sorting
  <2> QED
    BY <2>1, <2>2, Zenon DEF Shrinking
<1> HIDE DEF b, t
<1>8. Settled(b, t)
  <2>1. \A i \in Ops : p.finds[i] * NumOps > 0
    BY <1>2
  <2> QED
    BY <1>2, <1>5, <2>1 DEF Settled
<1>9. SharesKept(b, p)
  <2> SUFFICES ASSUME NEW j \in Ops PROVE Held(b, j) + Given(b, t, j) = p.finds[j] * NumOps
    BY DEF SharesKept, t
  <2>1. \A i \in Ops : Gifts(b, t, j)[i] = 0
    BY <1>2, <1>5 DEF Gifts
  <2>2. Given(b, t, j) = 0
    BY <2>1, OpsFinite, SumZero DEF Given
  <2>3. Held(b, j) = p.finds[j] * NumOps
    BY <1>4, <1>5 DEF Held
  <2>4. p.finds[j] * NumOps \in Int
    BY <1>2
  <2> QED
    BY <2>2, <2>3, <2>4
<1>10. SurplusKept(b, p)
  <2>1. \A i \in Ops : p.finds[i] \in Int /\ Excess(b, t)[i] = p.finds[i] * NumOps - t
    BY <1>2, <1>4, <1>5 DEF Excess
  <2>2. NumOps \in Int /\ t \in Int /\ IsFiniteSet(Ops)
    BY <1>2, OpsFinite
  <2>3. SumFunctionOnSet(Excess(b, t), Ops)
          = SumFunctionOnSet(p.finds, Ops) * NumOps - Cardinality(Ops) * t
    BY <2>1, <2>2, SumLinear
  <2> QED
    BY <2>3, OpsFinite DEF SurplusKept, Total, t
<1> QED
  BY <1>1, <1>6, <1>7, <1>8, <1>9, <1>10 DEF Pairing, b, t

\* A turn of the second loop from b to c, with l small and g large: l leaves the stacks, g
\* lends it what it lacks and stays on one.
Lends(b, c, t, l, g) ==
    /\ l \in Ops /\ g \in Ops /\ l # g /\ l \in Active(b) /\ g \in Active(b)
    /\ b.scaled[l] < t /\ b.scaled[g] >= t
    /\ c \in Tables /\ Active(c) = Active(b) \ {l}
    /\ c.scaled = [b.scaled EXCEPT ![g] = b.scaled[g] + b.scaled[l] - t]
    /\ c.prob = [b.prob EXCEPT ![l] = b.scaled[l]]
    /\ c.idx = [b.idx EXCEPT ![l] = g]
    /\ Stacked(c, t)
    /\ Len(c.small) + Len(c.large) = (Len(b.small) + Len(b.large)) - 1

\* Pair() does it.
LEMMA PairLends ==
  ASSUME NEW t \in Int, NEW b \in Tables, Stacked(b, t),
         b.small # <<>>, b.large # <<>>
  PROVE  Lends(b, Pair(b, t), t, Top(b.small), Top(b.large))
<1> DEFINE c == Pair(b, t)
           l == Top(b.small)
           g == Top(b.large)
<1> DEFINE rest == b.scaled[g] + b.scaled[l] - t
           s == Popped(b.small)
           r == Popped(b.large)
<1>1. /\ b.small \in Seq(Ops) /\ b.large \in Seq(Ops)
      /\ b.scaled \in [Ops -> Int] /\ b.prob \in [Ops -> Int] /\ b.idx \in [Ops -> Ops]
  BY DEF Tables
<1>2. /\ IsInjective(b.small) /\ IsInjective(b.large)
      /\ \A i \in Range(b.small) : b.scaled[i] < t
      /\ \A i \in Range(b.large) : b.scaled[i] >= t
  BY DEF Stacked
<1>3. /\ l \in Ops /\ l \in Range(b.small) /\ s \in Seq(Ops) /\ IsInjective(s)
      /\ Range(s) = Range(b.small) \ {l}
      /\ Len(s) = Len(b.small) - 1 /\ Len(b.small) \in Nat
  BY <1>1, <1>2, PopIs
<1>4. /\ g \in Ops /\ g \in Range(b.large) /\ r \in Seq(Ops) /\ IsInjective(r)
      /\ Range(r) = Range(b.large) \ {g}
      /\ Len(r) = Len(b.large) - 1 /\ Len(b.large) \in Nat
  BY <1>1, <1>2, PopIs
<1>5. b.scaled[l] \in Int /\ b.scaled[g] \in Int /\ rest \in Int
  <2>1. b.scaled \in [Ops -> Int] /\ l \in Ops /\ g \in Ops
    BY <1>1, <1>3, <1>4
  <2> HIDE DEF l, g
  <2> QED
    BY <2>1
<1>6. /\ \A i \in Ops : ~(b.scaled[i] < t /\ b.scaled[i] >= t)
      /\ Range(b.small) \subseteq Ops /\ Range(b.large) \subseteq Ops
  <2>1. \A i \in Ops : b.scaled[i] \in Int
    BY <1>1
  <2> QED
    BY <1>1, <2>1, LenProperties DEF Range
<1>7. Range(b.small) \cap Range(b.large) = {}
  BY <1>2, <1>6
<1>8. /\ c.scaled = [b.scaled EXCEPT ![g] = rest]
      /\ c.prob = [b.prob EXCEPT ![l] = b.scaled[l]]
      /\ c.idx = [b.idx EXCEPT ![l] = g]
      /\ c = [scaled |-> c.scaled, small |-> c.small, large |-> c.large,
              prob |-> c.prob, idx |-> c.idx]
      /\ rest < t => c.small = Append(s, g) /\ c.large = r
      /\ ~(rest < t) => c.small = s /\ c.large = b.large
  BY DEF Pair, Surplus
<1> HIDE DEF rest, s, r, c, l, g
<1>9. /\ \A i \in Ops \ {g} : c.scaled[i] = b.scaled[i]
      /\ c.scaled[g] = rest
  BY <1>1, <1>4, <1>8
<1>10. c.scaled \in [Ops -> Int] /\ c.prob \in [Ops -> Int] /\ c.idx \in [Ops -> Ops]
  <2>1. c.scaled = [b.scaled EXCEPT ![g] = rest] /\ b.scaled \in [Ops -> Int] /\ rest \in Int
    BY <1>1, <1>5, <1>8
  <2>2. c.prob = [b.prob EXCEPT ![l] = b.scaled[l]] /\ b.prob \in [Ops -> Int]
    BY <1>1, <1>8
  <2>3. c.idx = [b.idx EXCEPT ![l] = g] /\ b.idx \in [Ops -> Ops] /\ g \in Ops
    BY <1>1, <1>4, <1>8
  <2>4. c.scaled \in [Ops -> Int]
    BY <2>1
  <2>5. c.prob \in [Ops -> Int]
    BY <1>5, <2>2
  <2>6. c.idx \in [Ops -> Ops]
    BY <2>3
  <2> QED
    BY <2>4, <2>5, <2>6
<1>11. g \notin Range(s) /\ l # g
  BY <1>3, <1>4, <1>7
<1>12. /\ c.small \in Seq(Ops) /\ c.large \in Seq(Ops)
       /\ IsInjective(c.small) /\ IsInjective(c.large)
       /\ Range(c.small) \cup Range(c.large) = Active(b) \ {l}
       /\ \A i \in Range(c.small) : (i = g /\ rest < t) \/ i \in Range(b.small) \ {g}
       /\ \A i \in Range(c.large) : (i = g /\ ~(rest < t)) \/ i \in Range(b.large) \ {g}
       /\ Len(c.small) + Len(c.large) = (Len(b.small) + Len(b.large)) - 1
  <2>1. CASE rest < t
    <3>1. /\ Append(s, g) \in Seq(Ops) /\ IsInjective(Append(s, g))
          /\ Range(Append(s, g)) = Range(s) \cup {g}
          /\ Len(Append(s, g)) = Len(s) + 1
      BY <1>3, <1>4, <1>11, Pushed
    <3>2. c.small = Append(s, g) /\ c.large = r
      BY <1>8, <2>1
    <3>3. Len(c.small) + Len(c.large) = (Len(b.small) + Len(b.large)) - 1
      <4>1. Len(c.small) = Len(s) + 1 /\ Len(c.large) = Len(r)
        BY <3>1, <3>2
      <4>2. Len(c.small) = Len(b.small) /\ Len(c.large) = Len(b.large) - 1
        BY <1>3, <1>4, <4>1
      <4> QED
        BY <1>3, <1>4, <4>2
    <3>4. Range(c.small) \cup Range(c.large) = Active(b) \ {l}
      BY <1>3, <1>4, <1>7, <1>11, <3>1, <3>2 DEF Active
    <3> QED
      BY <1>3, <1>4, <1>7, <1>11, <2>1, <3>1, <3>2, <3>3, <3>4
  <2>2. CASE ~(rest < t)
    <3>1. c.small = s /\ c.large = b.large
      BY <1>8, <2>2
    <3>2. Len(c.small) + Len(c.large) = (Len(b.small) + Len(b.large)) - 1
      <4>1. Len(c.small) = Len(b.small) - 1 /\ Len(c.large) = Len(b.large)
        BY <1>3, <3>1
      <4> QED
        BY <1>3, <1>4, <4>1
    <3>3. Range(c.small) \cup Range(c.large) = Active(b) \ {l}
      BY <1>3, <1>4, <1>7, <3>1 DEF Active
    <3> QED
      BY <1>1, <1>2, <1>3, <1>4, <1>7, <1>11, <2>2, <3>1, <3>2, <3>3
  <2> QED
    BY <2>1, <2>2
<1>13. c \in Tables
  BY <1>8, <1>10, <1>12 DEF Tables
<1>14. Stacked(c, t)
  <2>1. \A i \in Range(c.small) : c.scaled[i] < t
    BY <1>2, <1>6, <1>9, <1>12
  <2>2. ~(rest < t) => rest >= t
    BY <1>5
  <2>3. \A i \in Range(c.large) : c.scaled[i] >= t
    BY <1>2, <1>6, <1>9, <1>12, <2>2
  <2> QED
    BY <1>12, <2>1, <2>3 DEF Stacked
<1> QED
  <2>1. Lends(b, c, t, l, g)
    BY <1>2, <1>3, <1>4, <1>8, <1>11, <1>12, <1>13, <1>14 DEF Lends, Active, rest
  <2> QED
    BY <2>1 DEF c, l, g

\* What is on a stack stays unpaired, and what l keeps is less than the average.
LEMMA SettledStep ==
  ASSUME NEW t \in Int, NEW b \in Tables, Settled(b, t),
         NEW c, NEW l, NEW g, Lends(b, c, t, l, g)
  PROVE  Settled(c, t)
<1>1. /\ l \in Ops /\ g \in Ops /\ l # g /\ l \in Active(b) /\ g \in Active(b)
      /\ b.scaled[l] < t /\ b.scaled[g] >= t
      /\ c \in Tables /\ Active(c) = Active(b) \ {l}
      /\ c.scaled = [b.scaled EXCEPT ![g] = b.scaled[g] + b.scaled[l] - t]
      /\ c.prob = [b.prob EXCEPT ![l] = b.scaled[l]]
      /\ c.idx = [b.idx EXCEPT ![l] = g]
  BY DEF Lends
<1>2. b.scaled \in [Ops -> Int] /\ b.prob \in [Ops -> Int] /\ b.idx \in [Ops -> Ops]
  BY DEF Tables
<1>3. /\ c.scaled[g] = b.scaled[g] + b.scaled[l] - t
      /\ \A i \in Ops \ {g} : c.scaled[i] = b.scaled[i]
      /\ c.prob[l] = b.scaled[l] /\ \A i \in Ops \ {l} : c.prob[i] = b.prob[i]
      /\ c.idx[l] = g /\ \A i \in Ops \ {l} : c.idx[i] = b.idx[i]
  BY <1>1, <1>2
<1>4. /\ b.scaled[l] \in Int /\ b.scaled[g] \in Int
      /\ b.prob[l] = t /\ b.idx[l] = l
      /\ b.scaled[l] > 0 /\ b.scaled[g] > 0
  BY <1>1, <1>2 DEF Settled
<1>5. ASSUME NEW i \in Ops PROVE c.scaled[i] > 0
  <2>1. CASE i = g
    BY <1>1, <1>3, <1>4, <2>1
  <2>2. CASE i # g
    BY <1>3, <2>2 DEF Settled
  <2> QED
    BY <2>1, <2>2
<1>6. ASSUME NEW i \in Ops PROVE c.prob[i] > 0 /\ c.prob[i] <= t
  <2>1. CASE i = l
    BY <1>1, <1>3, <1>4, <2>1
  <2>2. CASE i # l
    BY <1>3, <2>2 DEF Settled
  <2> QED
    BY <2>1, <2>2
<1>7. ASSUME NEW i \in Ops, i \in Active(c) PROVE c.prob[i] = t /\ c.idx[i] = i
  <2>1. i # l /\ i \in Active(b)
    BY <1>1, <1>7
  <2> QED
    BY <1>3, <2>1 DEF Settled
<1> QED
  BY <1>5, <1>6, <1>7 DEF Settled

\* The gifts to an operator are a number, and none of them is negative.
LEMMA GivenType ==
  ASSUME NEW t \in Int, NEW b \in Tables, Settled(b, t), NEW j \in Ops
  PROVE  /\ \A i \in Ops : Gifts(b, t, j)[i] \in Int
         /\ Given(b, t, j) \in Int /\ Given(b, t, j) >= 0
<1>1. b.prob \in [Ops -> Int]
  BY DEF Tables
<1>2. \A i \in Ops : b.prob[i] \in Int /\ b.prob[i] <= t
  BY <1>1 DEF Settled
<1>3. \A i \in Ops : Gifts(b, t, j)[i] \in Int /\ Gifts(b, t, j)[i] >= 0
  BY <1>2 DEF Gifts
<1> QED
  BY <1>3, OpsFinite, SumType, SumNotNegative DEF Given

\* What l lacks moves from what g has to what g is given; nothing else moves.
LEMMA SharesStep ==
  ASSUME NEW t \in Int, NEW b \in Tables, Settled(b, t),
         NEW c, NEW l, NEW g, Lends(b, c, t, l, g)
  PROVE  \A j \in Ops : Held(c, j) + Given(c, t, j) = Held(b, j) + Given(b, t, j)
<1>1. /\ l \in Ops /\ g \in Ops /\ l # g /\ l \in Active(b) /\ g \in Active(b)
      /\ b.scaled[l] < t /\ b.scaled[g] >= t
      /\ c \in Tables /\ Active(c) = Active(b) \ {l}
      /\ c.scaled = [b.scaled EXCEPT ![g] = b.scaled[g] + b.scaled[l] - t]
      /\ c.prob = [b.prob EXCEPT ![l] = b.scaled[l]]
      /\ c.idx = [b.idx EXCEPT ![l] = g]
  BY DEF Lends
<1>2. b.scaled \in [Ops -> Int] /\ b.prob \in [Ops -> Int] /\ b.idx \in [Ops -> Ops]
  BY DEF Tables
<1>3. /\ c.scaled[g] = b.scaled[g] + b.scaled[l] - t
      /\ \A i \in Ops \ {g} : c.scaled[i] = b.scaled[i]
      /\ c.prob[l] = b.scaled[l] /\ \A i \in Ops \ {l} : c.prob[i] = b.prob[i]
      /\ c.idx[l] = g /\ \A i \in Ops \ {l} : c.idx[i] = b.idx[i]
  BY <1>1, <1>2
<1>4. /\ b.scaled[l] \in Int /\ b.scaled[g] \in Int
      /\ b.prob[l] = t /\ b.idx[l] = l
      /\ b.scaled[l] > 0 /\ b.scaled[g] > 0
  BY <1>1, <1>2 DEF Settled
<1> SUFFICES ASSUME NEW j \in Ops
             PROVE  Held(c, j) + Given(c, t, j) = Held(b, j) + Given(b, t, j)
  OBVIOUS
<1> DEFINE F == Gifts(b, t, j)
           G == Gifts(c, t, j)
           lent == IF g = j THEN t - b.scaled[l] ELSE 0
<1>5. /\ F[l] = 0 /\ G[l] = lent
      /\ \A i \in Ops \ {l} : F[i] = G[i]
  BY <1>1, <1>3, <1>4 DEF Gifts
<1>6. Settled(c, t)
  BY SettledStep
<1>7. \A i \in Ops : F[i] \in Int /\ G[i] \in Int
  BY <1>1, <1>6, GivenType
<1>8. lent \in Int
  BY <1>4
<1> HIDE DEF F, G
<1>9. SumFunctionOnSet(G, Ops) = SumFunctionOnSet(F, Ops) + G[l] - F[l]
  <2>1. l \in Ops /\ \A i \in Ops \ {l} : F[i] = G[i]
    BY <1>1, <1>5
  <2> QED
    BY <1>7, <2>1, OpsFinite, SumPoint
<1>10. Given(b, t, j) \in Int /\ Given(c, t, j) = Given(b, t, j) + lent - 0
  BY <1>5, <1>9, GivenType DEF Given, F, G
<1>11. Held(b, j) \in Int /\ Held(c, j) = Held(b, j) - lent
  <2>1. CASE j = l
    BY <1>1, <1>3, <1>4, <2>1 DEF Held
  <2>2. CASE j = g
    <3>1. Held(b, j) = b.scaled[g] /\ Held(c, j) = b.scaled[g] + b.scaled[l] - t
      BY <1>1, <1>3, <2>2 DEF Held
    <3>2. lent = t - b.scaled[l]
      BY <2>2
    <3> QED
      BY <1>4, <3>1, <3>2
  <2>3. CASE j # l /\ j # g
    <3>1. Held(c, j) = Held(b, j) /\ lent = 0
      BY <1>1, <1>3, <2>3 DEF Held
    <3>2. Held(b, j) \in Int
      BY <1>2 DEF Held
    <3> QED
      BY <3>1, <3>2
  <2> QED
    BY <2>1, <2>2, <2>3
<1> HIDE DEF lent
<1> QED
  BY <1>8, <1>10, <1>11

\* The surplus of g shrinks by what l, who leaves, lacked.
LEMMA SurplusStep ==
  ASSUME NEW t \in Int, NEW b \in Tables, Settled(b, t),
         NEW c, NEW l, NEW g, Lends(b, c, t, l, g)
  PROVE  SumFunctionOnSet(Excess(c, t), Ops) = SumFunctionOnSet(Excess(b, t), Ops)
<1>1. /\ l \in Ops /\ g \in Ops /\ l # g /\ l \in Active(b) /\ g \in Active(b)
      /\ b.scaled[l] < t /\ b.scaled[g] >= t
      /\ c \in Tables /\ Active(c) = Active(b) \ {l}
      /\ c.scaled = [b.scaled EXCEPT ![g] = b.scaled[g] + b.scaled[l] - t]
      /\ c.prob = [b.prob EXCEPT ![l] = b.scaled[l]]
      /\ c.idx = [b.idx EXCEPT ![l] = g]
  BY DEF Lends
<1>2. b.scaled \in [Ops -> Int] /\ b.prob \in [Ops -> Int] /\ b.idx \in [Ops -> Ops]
  BY DEF Tables
<1>3. /\ c.scaled[g] = b.scaled[g] + b.scaled[l] - t
      /\ \A i \in Ops \ {g} : c.scaled[i] = b.scaled[i]
      /\ c.prob[l] = b.scaled[l] /\ \A i \in Ops \ {l} : c.prob[i] = b.prob[i]
      /\ c.idx[l] = g /\ \A i \in Ops \ {l} : c.idx[i] = b.idx[i]
  BY <1>1, <1>2
<1>4. /\ b.scaled[l] \in Int /\ b.scaled[g] \in Int
      /\ b.prob[l] = t /\ b.idx[l] = l
      /\ b.scaled[l] > 0 /\ b.scaled[g] > 0
  BY <1>1, <1>2 DEF Settled
\* In between, l has left and g not lent yet.
<1> DEFINE F == Excess(b, t)
           G == Excess(c, t)
           H == [F EXCEPT ![l] = 0]
<1>5. /\ F[l] = b.scaled[l] - t /\ G[l] = 0
      /\ F[g] = b.scaled[g] - t /\ G[g] = b.scaled[g] + b.scaled[l] - t - t
      /\ \A i \in Ops \ {l, g} : F[i] = G[i]
  <2>1. g \in Active(c) /\ l \notin Active(c)
    BY <1>1
  <2>2. \A i \in Ops \ {l, g} : /\ i \in Active(c) <=> i \in Active(b)
                               /\ c.scaled[i] = b.scaled[i]
    BY <1>1, <1>3
  <2>3. G[g] = c.scaled[g] - t
    BY <1>1, <2>1 DEF Excess
  <2>4. F[l] = b.scaled[l] - t /\ F[g] = b.scaled[g] - t
    BY <1>1 DEF Excess
  <2>5. G[l] = 0
    BY <1>1, <2>1 DEF Excess
  <2>6. \A i \in Ops \ {l, g} : F[i] = G[i]
    BY <2>2 DEF Excess
  <2> HIDE DEF F, G
  <2>7. G[g] = b.scaled[g] + b.scaled[l] - t - t
    BY <1>3, <1>4, <2>3
  <2> QED
    BY <2>4, <2>5, <2>6, <2>7
<1>6. /\ \A i \in Ops : F[i] \in Int /\ H[i] \in Int /\ G[i] \in Int
      /\ H[l] = 0 /\ \A i \in Ops \ {l} : F[i] = H[i]
  <2>1. c.scaled \in [Ops -> Int]
    BY <1>1 DEF Tables
  <2> QED
    BY <1>1, <1>2, <2>1 DEF Excess
<1>7. H[g] = F[g] /\ \A i \in Ops \ {g} : H[i] = G[i]
  BY <1>1, <1>5, <1>6
<1> HIDE DEF F, G, H
<1>8. SumFunctionOnSet(H, Ops) = SumFunctionOnSet(F, Ops) + H[l] - F[l]
  <2>1. l \in Ops /\ \A i \in Ops : F[i] \in Int /\ H[i] \in Int
    BY <1>1, <1>6
  <2>2. \A i \in Ops \ {l} : F[i] = H[i]
    BY <1>6
  <2> QED
    BY <2>1, <2>2, OpsFinite, SumPoint
<1>9. SumFunctionOnSet(G, Ops) = SumFunctionOnSet(H, Ops) + G[g] - H[g]
  <2>1. g \in Ops /\ \A i \in Ops : H[i] \in Int /\ G[i] \in Int
    BY <1>1, <1>6
  <2>2. \A i \in Ops \ {g} : H[i] = G[i]
    BY <1>7
  <2> QED
    BY <2>1, <2>2, OpsFinite, SumPoint
<1>10. SumFunctionOnSet(F, Ops) \in Int
  BY <1>6, OpsFinite, SumType
<1>11. SumFunctionOnSet(H, Ops) = SumFunctionOnSet(F, Ops) - (b.scaled[l] - t)
  BY <1>4, <1>5, <1>6, <1>8, <1>10
<1>12. SumFunctionOnSet(G, Ops) = SumFunctionOnSet(H, Ops) + (b.scaled[l] - t)
  <2>1. SumFunctionOnSet(H, Ops) \in Int
    BY <1>6, OpsFinite, SumType
  <2> QED
    BY <1>4, <1>5, <1>7, <1>9, <2>1
<1>13. SumFunctionOnSet(G, Ops) = SumFunctionOnSet(F, Ops)
  BY <1>4, <1>10, <1>11, <1>12
<1> QED
  BY <1>13 DEF F, G

\* A turn of the second loop keeps the types.
LEMMA PairType ==
  ASSUME NEW b \in Tables, NEW t \in Int
  PROVE  Pair(b, t) \in Tables
<1>1. /\ b.small \in Seq(Ops) /\ b.large \in Seq(Ops)
      /\ b.scaled \in [Ops -> Int] /\ b.prob \in [Ops -> Int] /\ b.idx \in [Ops -> Ops]
  BY DEF Tables
<1>2. CASE b.small = <<>> \/ b.large = <<>>
  BY <1>2 DEF Pair
<1>3. CASE b.small # <<>> /\ b.large # <<>>
  <2> DEFINE l == Top(b.small)
             g == Top(b.large)
             rest == Surplus(b, l, g, t)
  <2>1. /\ l \in Ops /\ Popped(b.small) \in Seq(Ops)
        /\ g \in Ops /\ Popped(b.large) \in Seq(Ops)
    BY <1>1, <1>3, PopType
  <2>2. Append(Popped(b.small), g) \in Seq(Ops)
    BY <2>1, AppendProperties
  <2>3. b.scaled[l] \in Int /\ rest \in Int
    BY <1>1, <2>1 DEF Surplus
  <2>4. Pair(b, t) =
          [scaled |-> [b.scaled EXCEPT ![g] = rest],
           small  |-> IF rest < t THEN Append(Popped(b.small), g) ELSE Popped(b.small),
           large  |-> IF rest < t THEN Popped(b.large) ELSE b.large,
           prob   |-> [b.prob EXCEPT ![l] = b.scaled[l]],
           idx    |-> [b.idx EXCEPT ![l] = g]]
    BY <1>3 DEF Pair
  <2> HIDE DEF l, g, rest
  <2> QED
    BY <1>1, <2>1, <2>2, <2>3, <2>4 DEF Tables
<1> QED
  BY <1>2, <1>3

\* A turn of the second loop.
LEMMA PairStep ==
  ASSUME NEW p, Readable(p), NEW k \in 1 .. NumOps, NEW b \in Tables, Pairing(b, p, k - 1)
  PROVE  Pairing(Pair(b, p.total), p, k)
<1> DEFINE t == p.total
           c == Pair(b, t)
<1>1. t \in Int /\ k \in Nat /\ NumOps \in Nat
  BY OpsFinite DEF Readable, Row
<1>2. Stacked(b, t) /\ Settled(b, t) /\ Shrinking(b, k - 1) /\ SharesKept(b, p)
      /\ SurplusKept(b, p)
  BY DEF Pairing
<1>3. CASE b.small = <<>> \/ b.large = <<>>
  <2>1. c = b
    BY <1>3 DEF Pair
  <2>2. Shrinking(b, k)
    BY <1>3 DEF Shrinking
  <2> QED
    BY <1>2, <2>1, <2>2 DEF Pairing
<1>4. CASE b.small # <<>> /\ b.large # <<>>
  <2> DEFINE l == Top(b.small)
             g == Top(b.large)
  <2>1. Lends(b, c, t, l, g)
    BY <1>1, <1>2, <1>4, PairLends
  <2> HIDE DEF c, l, g, t
  <2>2. Stacked(c, t) /\ Settled(c, t)
    BY <1>1, <1>2, <2>1, SettledStep DEF Lends
  <2>3. SharesKept(c, p)
    <3>1. \A j \in Ops : Held(c, j) + Given(c, t, j) = Held(b, j) + Given(b, t, j)
      BY <1>1, <1>2, <2>1, SharesStep
    <3> QED
      BY <1>2, <3>1 DEF SharesKept, t
  <2>4. SurplusKept(c, p)
    <3>1. SumFunctionOnSet(Excess(c, t), Ops) = SumFunctionOnSet(Excess(b, t), Ops)
      BY <1>1, <1>2, <2>1, SurplusStep
    <3> QED
      BY <1>2, <3>1 DEF SurplusKept, t
  <2>5. Shrinking(c, k)
    <3>0. Len(c.small) + Len(c.large) = (Len(b.small) + Len(b.large)) - 1
      BY <2>1 DEF Lends
    <3> DEFINE m == Len(b.small) + Len(b.large)
               d == Len(c.small) + Len(c.large)
    <3>1. m = NumOps - (k - 1)
      BY <1>2, <1>4, Zenon DEF Shrinking
    <3>3. d = m - 1
      BY <3>0
    <3> HIDE DEF m, d
    <3>2. d = NumOps - k
      BY <1>1, <3>1, <3>3
    <3> QED
      BY <3>2, Zenon DEF d, Shrinking
  <2> QED
    BY <2>2, <2>3, <2>4, <2>5 DEF Pairing, c, t
<1> QED
  BY <1>3, <1>4

\* The second loop, which has a turn for each operator, ends with an empty stack.
LEMMA PairingDone ==
  ASSUME NEW p, Readable(p)
  PROVE  AliasTable(p) \in Tables /\ Pairing(AliasTable(p), p, NumOps)
<1> DEFINE Loop(g) == g = [k \in 0 .. NumOps |-> IF k = 0 THEN Sorted(p)
                                                 ELSE Pair(g[k - 1], p.total)]
           turn == [k \in 1 .. NumOps |-> [b \in Tables |-> Pair(b, p.total)]]
           I == [k \in 0 .. NumOps |-> {b \in Tables : Pairing(b, p, k)}]
<1>1. /\ NumOps \in Nat /\ \A k \in 1 .. NumOps : k - 1 \in 0 .. NumOps
      /\ p.total \in Int
  BY LearnerAssumption DEF Readable, Row
<1>2. turn \in TurnFunctions(NumOps, Tables)
  BY <1>1, PairType DEF TurnFunctions
<1>3. Sorted(p) \in Tables /\ Pairing(Sorted(p), p, 0)
  BY PairingInit
<1>4. \E g : Loop(g)
  <2> HIDE DEF turn
  <2>0. \E g : Loops(g, NumOps, Tables, Sorted(p), turn)
    BY <1>1, <1>2, <1>3, TurnsExist
  <2>1. PICK g \in [0 .. NumOps -> Tables] :
           g[0] = Sorted(p) /\ \A k \in 1 .. NumOps : g[k] = turn[k][g[k - 1]]
    BY <2>0 DEF Loops
  <2>2. ASSUME NEW k \in 1 .. NumOps PROVE g[k] = Pair(g[k - 1], p.total)
    <3>1. g[k - 1] \in Tables
      BY <1>1
    <3> QED
      BY <2>1, <3>1 DEF turn
  <2>3. \A k \in 0 .. NumOps : k # 0 => k \in 1 .. NumOps
    BY <1>1
  <2> QED
    BY <2>1, <2>2, <2>3
<1>5. PICK g : Loop(g) /\ AliasTable(p) = g[NumOps]
  BY <1>4 DEF AliasTable
<1>6. g[0] = Sorted(p)
  BY <1>1, <1>5
<1>7. \A k \in 1 .. NumOps : g[k] = Pair(g[k - 1], p.total)
  BY <1>1, <1>5
<1>8. g[0] \in I[0]
  BY <1>1, <1>3, <1>6
<1>9. ASSUME NEW k \in 1 .. NumOps, g[k - 1] \in I[k - 1] PROVE g[k] \in I[k]
  <2>1. g[k - 1] \in Tables /\ Pairing(g[k - 1], p, k - 1)
    BY <1>1, <1>9
  <2>2. g[k] \in Tables /\ Pairing(g[k], p, k)
    BY <1>1, <1>7, <2>1, PairType, PairStep
  <2> QED
    BY <2>2
<1>10. g[NumOps] \in I[NumOps]
  <2> HIDE DEF I
  <2> QED
    BY <1>1, <1>8, <1>9, TurnsKeep
<1> QED
  BY <1>1, <1>5, <1>10

\* With one stack empty nobody is below the average, and with a total that is the sum of
\* the counts nobody is above it either.
LEMMA NobodyShort ==
  ASSUME NEW p, Readable(p), NEW b \in Tables, Pairing(b, p, NumOps)
  PROVE  \A j \in Active(b) : /\ b.scaled[j] >= p.total
                              /\ p.total = Total(p.finds) => b.scaled[j] = p.total
<1> DEFINE t == p.total
           D == Excess(b, t)
           sum == SumFunctionOnSet(D, Ops)
<1>1. /\ b.scaled \in [Ops -> Int] /\ b.small \in Seq(Ops) /\ b.large \in Seq(Ops)
      /\ t \in Int /\ NumOps \in Nat /\ NumOps > 0
      /\ Len(b.small) \in Nat /\ Len(b.large) \in Nat
      /\ Total(p.finds) \in Int /\ t <= Total(p.finds)
  <2>1. \A j \in Ops : p.finds[j] \in Int
    BY DEF Readable, Row
  <2>2. Total(p.finds) \in Int
    BY <2>1, OpsFinite, SumType DEF Total
  <2>3. b.scaled \in [Ops -> Int] /\ b.small \in Seq(Ops) /\ b.large \in Seq(Ops)
    BY DEF Tables
  <2>4. NumOps \in Nat /\ NumOps > 0
    BY OpsFinite
  <2> QED
    BY <2>2, <2>3, <2>4, LenProperties DEF Readable, Row
<1>2. /\ \A i \in Range(b.small) : b.scaled[i] < t
      /\ \A i \in Range(b.large) : b.scaled[i] >= t
      /\ sum = Total(p.finds) * NumOps - NumOps * t
  BY DEF Pairing, Stacked, SurplusKept
<1>3. Range(b.small) \subseteq Ops /\ Range(b.large) \subseteq Ops
  BY <1>1, LenProperties DEF Range
<1>4. b.small = <<>> \/ b.large = <<>>
  <2>1. CASE Len(b.small) + Len(b.large) = NumOps - NumOps
    <3> DEFINE x == Len(b.small)
               y == Len(b.large)
    <3>2. x \in Nat /\ y \in Nat /\ x + y = NumOps - NumOps
      BY <1>1, <2>1
    <3> HIDE DEF x, y
    <3>3. x = 0
      BY <1>1, <3>2
    <3>1. Len(b.small) = 0
      BY <3>3 DEF x
    <3> QED
      BY <1>1, <3>1, EmptySeq
  <2> QED
    BY <2>1 DEF Pairing, Shrinking
<1>5. sum >= 0 /\ (t = Total(p.finds) => sum = 0)
  <2>1. Total(p.finds) * NumOps - NumOps * t = (Total(p.finds) - t) * NumOps
    BY <1>1
  <2>2. (Total(p.finds) - t) * NumOps >= 0
    BY <1>1
  <2>3. t = Total(p.finds) => (Total(p.finds) - t) * NumOps = 0
    BY <1>1
  <2> QED
    BY <1>2, <2>1, <2>2, <2>3
<1>6. Range(<<>>) = {}
  <2>1. DOMAIN <<>> = 1 .. 0 /\ 1 .. 0 = {}
    BY EmptySeq, LenProperties
  <2> QED
    BY <2>1 DEF Range
<1>7. \A i \in Ops : D[i] \in Int /\ (i \in Active(b) => D[i] = b.scaled[i] - t)
                     /\ (i \notin Active(b) => D[i] = 0)
  BY <1>1 DEF Excess
<1> HIDE DEF D, sum
<1>8. CASE b.large = <<>>
  <2>1. Active(b) = Range(b.small)
    BY <1>6, <1>8 DEF Active
  <2>2. ASSUME NEW i \in Ops PROVE D[i] \in Int /\ D[i] <= 0
    <3>1. CASE i \in Active(b)
      <4>1. D[i] = b.scaled[i] - t /\ b.scaled[i] \in Int /\ b.scaled[i] < t
        BY <1>1, <1>2, <1>7, <2>1, <3>1
      <4> QED
        BY <1>1, <4>1
    <3> QED
      BY <1>7, <3>1
  <2>3. \A i \in Ops : sum <= D[i]
    BY <2>2, OpsFinite, SumNotPositive DEF sum
  <2>4. \A i \in Ops : D[i] = 0
    <3>1. sum \in Int
      BY <2>2, OpsFinite, SumType DEF sum
    <3> QED
      BY <1>5, <2>2, <2>3, <3>1
  <2>5. ASSUME NEW i \in Active(b) PROVE FALSE
    <3>1. i \in Ops /\ b.scaled[i] < t
      BY <1>2, <1>3, <2>1
    <3>2. b.scaled[i] - t = 0 /\ b.scaled[i] \in Int
      BY <1>1, <1>7, <2>4, <3>1
    <3> QED
      BY <1>1, <3>1, <3>2
  <2> QED
    BY <2>5
<1>9. CASE b.small = <<>>
  <2>1. Active(b) = Range(b.large)
    BY <1>6, <1>9 DEF Active
  <2>2. ASSUME NEW i \in Ops PROVE D[i] \in Int /\ D[i] >= 0
    <3>1. CASE i \in Active(b)
      <4>1. D[i] = b.scaled[i] - t /\ b.scaled[i] \in Int /\ b.scaled[i] >= t
        BY <1>1, <1>2, <1>7, <2>1, <3>1
      <4> QED
        BY <1>1, <4>1
    <3> QED
      BY <1>7, <3>1
  <2>3. \A i \in Ops : D[i] <= sum
    BY <2>2, OpsFinite, SumNotNegative DEF sum
  <2>4. ASSUME NEW i \in Active(b), t = Total(p.finds) PROVE b.scaled[i] = t
    <3>1. i \in Ops /\ D[i] = 0 /\ b.scaled[i] \in Int
      BY <1>1, <1>3, <1>5, <2>1, <2>2, <2>3, <2>4
    <3>2. D[i] = b.scaled[i] - t
      BY <1>7, <3>1
    <3> QED
      BY <1>1, <3>1, <3>2
  <2> QED
    BY <1>2, <2>1, <2>4
<1> QED
  BY <1>4, <1>8, <1>9

\* The second loop of buildAlias(), `while (!small.empty() && !large.empty())`, ends within
\* as many turns as there are operators: the turns of AliasTable are all it takes.
THEOREM PairingEnds ==
  ASSUME NEW p, Readable(p)
  PROVE  AliasTable(p).small = <<>> \/ AliasTable(p).large = <<>>
<1> DEFINE b == AliasTable(p)
<1>1. b \in Tables /\ Pairing(b, p, NumOps)
  BY PairingDone
<1> HIDE DEF b
<1>2. b.small \in Seq(Ops) /\ b.large \in Seq(Ops) /\ Shrinking(b, NumOps)
  BY <1>1 DEF Tables, Pairing
<1>3. Len(b.small) \in Nat /\ Len(b.large) \in Nat /\ NumOps \in Nat
  BY <1>2, LenProperties, LearnerAssumption
<1>4. b.small = <<>> \/ b.large = <<>> \/ Len(b.small) = 0
  <2>1. \A m, n, k \in Nat : m + n = k - k => m = 0
    OBVIOUS
  <2>2. b.small = <<>> \/ b.large = <<>> \/ Len(b.small) + Len(b.large) = NumOps - NumOps
    BY <1>2 DEF Shrinking
  <2> QED
    BY <1>3, <2>1, <2>2, Zenon
<1>5. b.small = <<>> \/ b.large = <<>>
  BY <1>2, <1>4, EmptySeq
<1> QED
  BY <1>5 DEF b

\* buildAlias() and sampleAlias() on a row that a rebuild may read.
THEOREM AliasTableSound ==
  ASSUME NEW p, Readable(p), NEW j \in Ops
  PROVE  LET drawn  == Chance(AliasTable(p), p.total, j)
             wanted == p.finds[j] * NumOps
         IN  /\ 0 < drawn /\ drawn <= wanted
             /\ p.total = Total(p.finds) => drawn = wanted
<1> DEFINE b == AliasTable(p)
           t == p.total
           wanted == p.finds[j] * NumOps
           given == Given(b, t, j)
<1>1. b \in Tables /\ Pairing(b, p, NumOps)
  BY PairingDone
<1>2. t \in Int /\ t >= 1 /\ wanted \in Int /\ wanted > 0
  <2>1. p.finds[j] \in Nat /\ p.finds[j] >= 1 /\ NumOps \in Nat /\ NumOps >= 1
    BY OpsFinite DEF Readable, Row
  <2>2. p.finds[j] * NumOps \in Int /\ p.finds[j] * NumOps > 0
    BY <2>1
  <2> QED
    BY <2>2 DEF Readable, Row
<1>3. Chance(b, t, j) = b.prob[j] + given
  BY DEF Chance, Given, Gifts
<1> HIDE DEF b, t, wanted
<1>4. Settled(b, t) /\ Held(b, j) + given = wanted
  BY <1>1 DEF Pairing, SharesKept, t, wanted
<1>5. given \in Int /\ given >= 0
  BY <1>1, <1>2, <1>4, GivenType
<1> HIDE DEF given
<1>6. b.prob[j] \in Int /\ b.scaled[j] \in Int
  BY <1>1 DEF Tables
<1>7. /\ 0 < b.prob[j] + given /\ b.prob[j] + given <= wanted
      /\ t = Total(p.finds) => b.prob[j] + given = wanted
  <2>1. CASE j \in Active(b)
    <3>1. b.prob[j] = t /\ b.scaled[j] + given = wanted
      BY <1>4, <2>1 DEF Settled, Held
    <3>2. b.scaled[j] >= t /\ (t = Total(p.finds) => b.scaled[j] = t)
      BY <1>1, <2>1, NobodyShort DEF t
    <3> QED
      BY <1>2, <1>5, <1>6, <3>1, <3>2
  <2>2. CASE j \notin Active(b)
    <3>1. b.prob[j] + given = wanted
      BY <1>4, <2>2 DEF Held
    <3> QED
      BY <1>2, <3>1
  <2> QED
    BY <2>1, <2>2
<1>8. /\ 0 < Chance(b, t, j) /\ Chance(b, t, j) <= wanted
      /\ t = Total(p.finds) => Chance(b, t, j) = wanted
  BY <1>3, <1>7, Zenon
<1> QED
  BY <1>8 DEF b, t, wanted

-----------------------------------------------------------------------------
(* What a rebuild may read.                                                *)

\* Every transition starts with a find of 1, and none is ever taken back.
Started ==
    /\ \A i, j \in Ops : trans[i][j] >= 1 /\ before[i][j] >= 1
    /\ \A i \in Ops : Readable(tables[i])

\* A sum of positive counts is positive.
LEMMA TotalPositive ==
  ASSUME NEW f \in [Ops -> Nat], \A j \in Ops : f[j] >= 1
  PROVE  Total(f) \in Nat /\ Total(f) >= 1
<1>1. \A j \in Ops : f[j] \in Int /\ f[j] >= 0
  OBVIOUS
<1>2. Total(f) \in Int /\ \A j \in Ops : f[j] <= Total(f)
  BY <1>1, OpsFinite, SumType, SumNotNegative DEF Total
<1>3. 0 \in Ops
  BY OpsFinite DEF Ops
<1>4. f[0] \in Int /\ f[0] >= 1 /\ f[0] <= Total(f)
  BY <1>1, <1>2, <1>3
<1> QED
  BY <1>2, <1>4

\* The rows of the table are first made of the counts the transitions start with.
LEMMA StartedInit == Init => Started
<1> SUFFICES ASSUME Init PROVE Started
  OBVIOUS
<1>1. \A i, j \in Ops : trans[i][j] >= 1 /\ before[i][j] >= 1
  BY DEF Init, Ones
<1>2. ASSUME NEW i \in Ops PROVE Readable(tables[i])
  <2> DEFINE f == [j \in Ops |-> 1]
             g == [j \in Ops |-> 0]
  <2>1. tables[i] = [total |-> NumOps, finds |-> f]
    BY DEF Init, Ones
  <2>2. tables[i] \in Row
    BY <2>1, OpsFinite DEF Row
  <2>3. \A j \in Ops : f[j] \in Int /\ g[j] = f[j] * 1 - 1
    OBVIOUS
  <2>4. \A j \in Ops : g[j] = 0
    OBVIOUS
  <2>5. NumOps \in Nat /\ NumOps >= 1 /\ Cardinality(Ops) = NumOps /\ IsFiniteSet(Ops)
    BY OpsFinite
  <2>6. \A j \in Ops : tables[i].finds[j] >= 1
    BY <2>1
  <2> HIDE DEF f, g
  <2>7. SumFunctionOnSet(g, Ops) = SumFunctionOnSet(f, Ops) * 1 - Cardinality(Ops) * 1
    BY <2>3, <2>5, SumLinear
  <2>8. SumFunctionOnSet(g, Ops) = 0
    BY <2>4, <2>5, SumZero
  <2>9. SumFunctionOnSet(f, Ops) \in Int
    BY <2>3, <2>5, SumType
  <2>10. SumFunctionOnSet(f, Ops) = NumOps
    BY <2>5, <2>7, <2>8, <2>9
  <2>11. tables[i].total = NumOps /\ tables[i].finds = f
    BY <2>1
  <2>12. tables[i].total >= 1 /\ tables[i].total <= Total(tables[i].finds)
    BY <2>5, <2>10, <2>11 DEF Total
  <2> QED
    BY <2>2, <2>6, <2>12 DEF Readable
<1> QED
  BY <1>1, <1>2 DEF Started

\* Whatever the two passes over a row read while counts are added, the row is readable.
LEMMA RowsReadReadable ==
  ASSUME TypeOK, Started, NEW i \in Ops, NEW r \in RowsRead(i)
  PROVE  Readable(r)
<1>1. /\ before[i] \in [Ops -> Nat] /\ trans[i] \in [Ops -> Nat]
      /\ \A j \in Ops : before[i][j] >= 1
  BY DEF TypeOK, Counts, Started
<1>2. PICK f \in Between(before[i], trans[i]) :
         r \in {[total |-> n, finds |-> f] : n \in {m \in 0 .. Total(f) : m >= Total(before[i])}}
  BY DEF RowsRead
<1>3. f \in [Ops -> Nat] /\ \A j \in Ops : f[j] >= 1
  <2>1. /\ DOMAIN f = Ops /\ f = [j \in Ops |-> f[j]]
        /\ \A j \in Ops : f[j] \in before[i][j] .. trans[i][j]
    BY DEF Between
  <2>2. \A j \in Ops : f[j] \in Nat /\ f[j] >= 1
    BY <1>1, <2>1
  <2> QED
    BY <2>1, <2>2
<1>4. Total(f) \in Nat /\ Total(before[i]) \in Nat /\ Total(before[i]) >= 1
  BY <1>1, <1>3, TotalPositive
<1>5. PICK n \in 0 .. Total(f) : n >= Total(before[i]) /\ r = [total |-> n, finds |-> f]
  BY <1>2
<1>6. n \in Nat /\ n >= 1 /\ n <= Total(f)
  BY <1>4, <1>5
<1>7. r.total = n /\ r.finds = f /\ r \in Row
  BY <1>3, <1>5, <1>6 DEF Row
<1> QED
  BY <1>3, <1>6, <1>7 DEF Readable

\* Every step keeps the counts and the rows so.
LEMMA StartedStep ==
  ASSUME TypeOK, Started, TypeOK', [Next]_vars
  PROVE  Started'
<1>1. ASSUME UNCHANGED <<trans, tables, before>> PROVE Started'
  BY <1>1 DEF Started, Readable, Row, Total
<1>2. ASSUME NEW c \in Callers, NEW seq \in OpSequences, Record(c, seq) PROVE Started'
  <2>1. UNCHANGED <<tables, before>>
    BY <1>2 DEF Record, tableVars
  <2>2. ASSUME NEW i \in Ops, NEW j \in Ops PROVE trans'[i][j] >= 1
    <3> DEFINE more == IF task[c].found THEN Pairs(seq, i, j) ELSE 0
    <3>1. Pairs(seq, i, j) \in Nat
      BY PairsType
    <3>2. more \in Nat
      BY <3>1
    <3>3. trans'[i][j] = trans[i][j] + more
      BY <1>2 DEF Record
    <3>4. trans[i][j] \in Nat /\ trans[i][j] >= 1
      BY DEF TypeOK, Counts, Started
    <3> HIDE DEF more
    <3> QED
      BY <3>2, <3>3, <3>4
  <2> QED
    BY <2>1, <2>2 DEF Started, Readable, Row, Total
<1>3. ASSUME NEW c \in Callers, RebuildBegin(c) PROVE Started'
  <2>1. before' = trans /\ trans' = trans /\ tables' = tables
    BY <1>3 DEF RebuildBegin
  <2> QED
    BY <2>1 DEF Started, Readable, Row, Total
<1>4. ASSUME NEW c \in Callers, RebuildRow(c) PROVE Started'
  <2>1. PICK r \in RowsRead(row) : tables' = [tables EXCEPT ![row] = r]
    BY <1>4 DEF RebuildRow
  <2>2. UNCHANGED <<trans, before>> /\ row \in Ops
    BY <1>4, OpsFinite DEF RebuildRow, TypeOK, Ops
  <2>3. Readable(r)
    BY <2>2, RowsReadReadable
  <2>4. \A i \in Ops : tables'[i] = IF i = row THEN r ELSE tables[i]
    BY <2>1 DEF TypeOK
  <2>5. \A i \in Ops : Readable(tables'[i])
    BY <2>3, <2>4 DEF Started
  <2> QED
    BY <2>2, <2>5 DEF Started, Readable, Row, Total
<1>5. ASSUME NEW c \in Callers, RebuildEnd(c) PROVE Started'
  <2>1. before' = Ones /\ trans' = trans /\ tables' = tables
    BY <1>5 DEF RebuildEnd
  <2>2. \A i, j \in Ops : before'[i][j] >= 1
    BY <2>1 DEF Ones
  <2> QED
    BY <2>1, <2>2 DEF Started, Readable, Row, Total
<1> QED
  BY <1>1, <1>2, <1>3, <1>4, <1>5
     DEF Next, Enter, UpdateWindow, UpdateMOpt, Count, Reset, vars, tableVars

\* Whatever the rebuilds read, each table draws every operator, none more often than its
\* finds ask for, and exactly as often if the counts were read while they stood still.
THEOREM AliasTablesAreSound == Spec => []TablesAreSound
<1>1. Started => TablesAreSound
  <2> SUFFICES ASSUME Started, NEW i \in Ops, NEW j \in Ops
               PROVE  /\ 0 < Chance(AliasTable(tables[i]), tables[i].total, j)
                      /\ Chance(AliasTable(tables[i]), tables[i].total, j)
                           <= tables[i].finds[j] * NumOps
                      /\ tables[i].total = Total(tables[i].finds) =>
                           Chance(AliasTable(tables[i]), tables[i].total, j)
                             = tables[i].finds[j] * NumOps
    BY DEF TablesAreSound
  <2>1. Readable(tables[i])
    BY DEF Started
  <2> QED
    BY <2>1, AliasTableSound
<1>2. TypeOK /\ TypeOK' /\ Started /\ [Next]_vars => Started'
  BY StartedStep
<1>3. Spec => []TypeOK
  BY LearnerTypes
<1> QED
  BY <1>1, <1>2, <1>3, StartedInit, PTL DEF Spec
=============================================================================
