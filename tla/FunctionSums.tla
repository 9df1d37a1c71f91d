---------------------------- MODULE FunctionSums ----------------------------
(***************************************************************************)
(* Facts about SumFunctionOnSet(f, S), the sum of f[x] over a finite set S *)
(* of x, and about functions defined by recursion on a number.  The        *)
(* induction principles are stated with sets in place of predicates, so    *)
(* that they can be used by name.                                          *)
(***************************************************************************)
EXTENDS Functions, FiniteSetTheorems, WellFoundedInduction, TLAPS

\* A set of numbers that has 0 and with each number the next has every number.
LEMMA Induction ==
  ASSUME NEW C, 0 \in C, \A n \in Nat : n \in C => n + 1 \in C
  PROVE  \A n \in Nat : n \in C
<1> DEFINE B == {n \in Nat : n \notin C}
           R == OpToRel(<, Nat)
<1> SUFFICES ASSUME B # {} PROVE FALSE
  OBVIOUS
<1>1. PICK m \in B : \A k \in B : ~(<<k, m>> \in R)
  <2>1. IsWellFoundedOn(R, Nat)
    BY NatLessThanWellFounded DEF R
  <2> HIDE DEF R
  <2>2. B \subseteq Nat
    OBVIOUS
  <2> HIDE DEF B
  <2> QED
    BY <2>1, <2>2, WFMin
<1>2. m \in Nat /\ m # 0
  OBVIOUS
<1>3. m - 1 \in B
  BY <1>2
<1>4. <<m - 1, m>> \in R
  BY <1>2, <1>3 DEF OpToRel
<1> QED
  BY <1>1, <1>3, <1>4

\* A set of subsets of a finite set S that has {} and with each T every T plus one more
\* element has S.
LEMMA SetInduction ==
  ASSUME NEW S, IsFiniteSet(S), NEW C, {} \in C,
         \A T \in SUBSET S : \A x \in S \ T : T \in C => T \cup {x} \in C
  PROVE  S \in C
<1> DEFINE N == {n \in Nat : \A T \in SUBSET S : Cardinality(T) = n => T \in C}
<1>1. 0 \in N
  <2>1. \A T \in SUBSET S : Cardinality(T) = 0 => T = {}
    BY FS_Subset, FS_EmptySet
  <2> QED
    BY <2>1
<1>2. \A n \in Nat : n \in N => n + 1 \in N
  <2> SUFFICES ASSUME NEW n \in Nat, n \in N,
                      NEW T \in SUBSET S, Cardinality(T) = n + 1
               PROVE  T \in C
    OBVIOUS
  <2>1. IsFiniteSet(T) /\ T # {}
    BY FS_Subset, FS_EmptySet
  <2>2. PICK x \in T : TRUE
    BY <2>1
  <2>3. Cardinality(T \ {x}) = n
    <3>1. Cardinality(T \ {x}) = Cardinality(T) - 1
      BY <2>1, <2>2, FS_RemoveElement
    <3> QED
      BY <3>1
  <2>4. T \ {x} \in C
    BY <2>3
  <2>5. (T \ {x}) \cup {x} = T
    BY <2>2
  <2> QED
    BY <2>4, <2>5
<1>3. Cardinality(S) \in N
  <2> HIDE DEF N
  <2> QED
    BY <1>1, <1>2, Induction, FS_CardinalityType
<1> QED
  BY <1>3

-----------------------------------------------------------------------------
(* Recursion on a number, as a loop does it that makes N turns.            *)

\* g has the values after each turn of a loop that starts with b.
Loops(g, N, V, b, turn) ==
    g \in [0 .. N -> V] /\ g[0] = b /\ \A k \in 1 .. N : g[k] = turn[k][g[k - 1]]

\* N turns that stay in V.
TurnFunctions(N, V) == [1 .. N -> [V -> V]]

\* A loop whose turns stay in V has a value after each turn.
LEMMA TurnsExist ==
  ASSUME NEW N \in Nat, NEW V, NEW b \in V, NEW turn \in TurnFunctions(N, V)
  PROVE  \E g : Loops(g, N, V, b, turn)
<1> DEFINE Loop(g, n) == g[0] = b /\ \A k \in 1 .. n : g[k] = turn[k][g[k - 1]]
           C == {n \in Nat : n <= N => \E g \in [0 .. n -> V] : Loop(g, n)}
<1>0. turn \in [1 .. N -> [V -> V]]
  BY DEF TurnFunctions
<1>1. 0 \in C
  <2> DEFINE g == [k \in 0 .. 0 |-> b]
  <2>1. g \in [0 .. 0 -> V] /\ Loop(g, 0)
    OBVIOUS
  <2> QED
    BY <2>1
<1>2. ASSUME NEW n \in Nat, n \in C PROVE n + 1 \in C
  <2> SUFFICES ASSUME n + 1 <= N PROVE \E g \in [0 .. n + 1 -> V] : Loop(g, n + 1)
    OBVIOUS
  <2>1. PICK g \in [0 .. n -> V] : Loop(g, n)
    BY <1>2
  <2> DEFINE h == [k \in 0 .. n + 1 |-> IF k <= n THEN g[k] ELSE turn[n + 1][g[n]]]
  <2>2. g[n] \in V /\ turn[n + 1][g[n]] \in V
    BY <1>0
  <2>3. h \in [0 .. n + 1 -> V]
    BY <2>2
  <2>4. h[0] = b
    BY <2>1
  <2>5. ASSUME NEW k \in 1 .. n + 1 PROVE h[k] = turn[k][h[k - 1]]
    <3>1. CASE k \in 1 .. n
      <4>1. g[k] = turn[k][g[k - 1]]
        BY <2>1, <3>1
      <4>2. h[k] = g[k] /\ h[k - 1] = g[k - 1]
        BY <3>1
      <4> QED
        BY <4>1, <4>2
    <3>2. CASE k = n + 1
      BY <3>2
    <3> QED
      BY <3>1, <3>2
  <2> QED
    BY <2>3, <2>4, <2>5
<1>3. \A n \in Nat : n \in C
  <2> HIDE DEF C
  <2> QED
    BY <1>1, <1>2, Induction
<1> QED
  BY <1>3 DEF Loops

\* What holds of the first value and is kept by every turn holds of the last value.
LEMMA TurnsKeep ==
  ASSUME NEW N \in Nat, NEW g, NEW I, g[0] \in I[0],
         \A k \in 1 .. N : g[k - 1] \in I[k - 1] => g[k] \in I[k]
  PROVE  g[N] \in I[N]
<1> DEFINE C == {n \in Nat : n <= N => g[n] \in I[n]}
<1>1. 0 \in C
  OBVIOUS
<1>2. ASSUME NEW n \in Nat, n \in C PROVE n + 1 \in C
  <2> SUFFICES ASSUME n + 1 <= N PROVE g[n + 1] \in I[n + 1]
    OBVIOUS
  <2>1. n + 1 \in 1 .. N /\ (n + 1) - 1 = n
    OBVIOUS
  <2>2. g[n] \in I[n]
    BY <1>2
  <2> QED
    BY <2>1, <2>2
<1>3. \A n \in Nat : n \in C
  <2> HIDE DEF C
  <2> QED
    BY <1>1, <1>2, Induction
<1> QED
  BY <1>3

-----------------------------------------------------------------------------
(* The recursion in MapThenFoldSet.                                        *)

Pick(s) == CHOOSE x \in s : TRUE

\* g is the function by which MapThenFoldSet sums f over the subsets of S.
Sums(g, f, S) ==
    g = [s \in SUBSET S |-> IF s = {} THEN 0 ELSE f[Pick(s)] + g[s \ {Pick(s)}]]

\* The next element to be summed is one of the set.
LEMMA PickIn == \A s : s # {} => Pick(s) \in s
BY DEF Pick

\* There is such a function, for every finite set.
LEMMA SumsExist ==
  ASSUME NEW S, IsFiniteSet(S), NEW f
  PROVE  \E g : Sums(g, f, S)
<1> DEFINE Upto(n) == {s \in SUBSET S : Cardinality(s) <= n}
           Body(g, s) == IF s = {} THEN 0 ELSE f[Pick(s)] + g[s \ {Pick(s)}]
           C == {n \in Nat : \E g : g = [s \in Upto(n) |-> Body(g, s)]}
<1>0. \A s \in SUBSET S : s # {} =>
         /\ Pick(s) \in s /\ s \ {Pick(s)} \in SUBSET S
         /\ Cardinality(s) \in Nat /\ Cardinality(s \ {Pick(s)}) = Cardinality(s) - 1
  BY PickIn, FS_Subset, FS_RemoveElement, FS_CardinalityType
<1>1. 0 \in C
  <2>1. \A s \in Upto(0) : s = {}
    BY FS_Subset, FS_EmptySet, FS_CardinalityType
  <2>2. [s \in Upto(0) |-> 0] = [s \in Upto(0) |-> Body([t \in Upto(0) |-> 0], s)]
    BY <2>1
  <2> HIDE DEF Upto, Body
  <2> QED
    BY <2>2
<1>2. ASSUME NEW n \in Nat, n \in C PROVE n + 1 \in C
  <2>1. PICK g : g = [s \in Upto(n) |-> Body(g, s)]
    BY <1>2
  <2> DEFINE h == [s \in Upto(n + 1) |-> Body(g, s)]
  <2>2. \A s \in Upto(n + 1) : s # {} => s \ {Pick(s)} \in Upto(n)
    BY <1>0
  <2>3. \A s \in Upto(n) : s \in Upto(n + 1) /\ h[s] = g[s]
    <3>1. \A s \in Upto(n) : s \in Upto(n + 1)
      BY FS_Subset, FS_CardinalityType
    <3> HIDE DEF Upto, Body
    <3> QED
      BY <2>1, <3>1
  <2>4. \A s \in Upto(n + 1) : Body(g, s) = Body(h, s)
    <3> HIDE DEF h, Upto
    <3> QED
      BY <2>2, <2>3
  <2>5. h = [s \in Upto(n + 1) |-> Body(h, s)]
    <3> HIDE DEF Body, Upto
    <3> QED
      BY <2>4
  <2> HIDE DEF h, Body, Upto
  <2> QED
    BY <2>5
<1>3. Cardinality(S) \in C
  <2> HIDE DEF C
  <2> QED
    BY <1>1, <1>2, Induction, FS_CardinalityType
<1>4. Upto(Cardinality(S)) = SUBSET S
  BY FS_Subset
<1> QED
  <2> HIDE DEF Upto
  <2> QED
    BY <1>3, <1>4 DEF Sums

\* It is unique, also between a set and its subsets.
LEMMA SumsUnique ==
  ASSUME NEW S, IsFiniteSet(S), NEW T \in SUBSET S, NEW f, NEW g, NEW h,
         Sums(g, f, S), Sums(h, f, T)
  PROVE  g[T] = h[T]
<1> DEFINE N == {n \in Nat : \A s \in SUBSET T : Cardinality(s) = n => g[s] = h[s]}
<1>0. \A s \in SUBSET T : /\ s \in SUBSET S /\ IsFiniteSet(s)
                          /\ g[s] = IF s = {} THEN 0 ELSE f[Pick(s)] + g[s \ {Pick(s)}]
                          /\ h[s] = IF s = {} THEN 0 ELSE f[Pick(s)] + h[s \ {Pick(s)}]
  BY FS_Subset DEF Sums
<1>1. 0 \in N
  BY <1>0, FS_EmptySet
<1>2. ASSUME NEW n \in Nat, n \in N PROVE n + 1 \in N
  <2> SUFFICES ASSUME NEW s \in SUBSET T, Cardinality(s) = n + 1 PROVE g[s] = h[s]
    OBVIOUS
  <2>1. s # {}
    BY FS_EmptySet
  <2>2. Pick(s) \in s /\ s \ {Pick(s)} \in SUBSET T
    BY <2>1, PickIn
  <2>3. Cardinality(s \ {Pick(s)}) = n
    <3>1. IsFiniteSet(s)
      BY <1>0
    <3>2. Cardinality(s \ {Pick(s)}) = Cardinality(s) - 1
      BY <2>2, <3>1, FS_RemoveElement
    <3> QED
      BY <3>2
  <2>4. g[s \ {Pick(s)}] = h[s \ {Pick(s)}]
    BY <1>2, <2>2, <2>3
  <2> QED
    BY <1>0, <2>1, <2>4
<1>3. Cardinality(T) \in N
  <2> HIDE DEF N
  <2> QED
    BY <1>1, <1>2, Induction, FS_Subset, FS_CardinalityType
<1> QED
  BY <1>0, <1>3

\* What the library's operator is.
LEMMA SumIs ==
  ASSUME NEW S, IsFiniteSet(S), NEW f
  PROVE  \E g : Sums(g, f, S) /\ SumFunctionOnSet(f, S) = g[S]
<1> DEFINE G == CHOOSE g : Sums(g, f, S)
<1>1. Sums(G, f, S)
  BY SumsExist
<1>2. SumFunctionOnSet(f, S) = G[S]
  BY DEF SumFunctionOnSet, FoldFunctionOnSet, MapThenFoldSet, Sums, Pick
<1> QED
  BY <1>1, <1>2

\* A sum is its first summand and the sum of the rest.
LEMMA SumUnfolds ==
  ASSUME NEW S, IsFiniteSet(S), NEW f
  PROVE  SumFunctionOnSet(f, S) =
           IF S = {} THEN 0
           ELSE f[Pick(S)] + SumFunctionOnSet(f, S \ {Pick(S)})
<1>1. PICK g : Sums(g, f, S) /\ SumFunctionOnSet(f, S) = g[S]
  BY SumIs
<1>2. CASE S = {}
  BY <1>1, <1>2 DEF Sums
<1>3. CASE S # {}
  <2> DEFINE T == S \ {Pick(S)}
  <2>1. T \in SUBSET S /\ IsFiniteSet(T)
    BY FS_Subset
  <2>2. PICK h : Sums(h, f, T) /\ SumFunctionOnSet(f, T) = h[T]
    BY <2>1, SumIs
  <2>3. g[T] = h[T]
    BY <1>1, <2>1, <2>2, SumsUnique
  <2>4. g[S] = f[Pick(S)] + g[T]
    BY <1>1, <1>3 DEF Sums
  <2> QED
    BY <1>1, <1>3, <2>2, <2>3, <2>4
<1> QED
  BY <1>2, <1>3

-----------------------------------------------------------------------------
(* Sums.                                                                   *)

\* The sum of nothing.
LEMMA SumEmpty == ASSUME NEW f PROVE SumFunctionOnSet(f, {}) = 0
BY SumUnfolds, FS_EmptySet

\* A sum of integers is an integer.
LEMMA SumType ==
  ASSUME NEW S, IsFiniteSet(S), NEW f, \A x \in S : f[x] \in Int
  PROVE  SumFunctionOnSet(f, S) \in Int
<1> DEFINE N == {n \in Nat : \A T \in SUBSET S :
                                Cardinality(T) = n => SumFunctionOnSet(f, T) \in Int}
<1>1. 0 \in N
  BY SumEmpty, FS_Subset, FS_EmptySet
<1>2. ASSUME NEW n \in Nat, n \in N PROVE n + 1 \in N
  <2> SUFFICES ASSUME NEW T \in SUBSET S, Cardinality(T) = n + 1
               PROVE  SumFunctionOnSet(f, T) \in Int
    OBVIOUS
  <2>1. IsFiniteSet(T) /\ T # {} /\ Pick(T) \in T
    BY FS_Subset, FS_EmptySet, PickIn
  <2>2. Cardinality(T \ {Pick(T)}) = Cardinality(T) - 1
    BY <2>1, FS_RemoveElement
  <2>3. SumFunctionOnSet(f, T \ {Pick(T)}) \in Int
    BY <1>2, <2>2
  <2>4. f[Pick(T)] \in Int
    BY <2>1
  <2> QED
    BY <2>1, <2>3, <2>4, SumUnfolds
<1>3. Cardinality(S) \in N
  <2> HIDE DEF N
  <2> QED
    BY <1>1, <1>2, Induction, FS_CardinalityType
<1> QED
  BY <1>3

\* The order of summation does not matter.
LEMMA SumAdd ==
  ASSUME NEW S, IsFiniteSet(S), NEW x, x \notin S,
         NEW f, \A y \in S \cup {x} : f[y] \in Int
  PROVE  SumFunctionOnSet(f, S \cup {x}) = f[x] + SumFunctionOnSet(f, S)
<1> DEFINE A == S \cup {x}
           N == {n \in Nat : \A T \in SUBSET A : \A z \in A \ T :
                   Cardinality(T) = n =>
                     SumFunctionOnSet(f, T \cup {z}) = f[z] + SumFunctionOnSet(f, T)}
<1>0. IsFiniteSet(A)
  BY FS_AddElement
<1>1. \A T \in SUBSET A : IsFiniteSet(T) /\ SumFunctionOnSet(f, T) \in Int
  BY <1>0, FS_Subset, SumType
\* The element picked first is the one in question.
<1>2. \A T \in SUBSET A : \A z \in A \ T : Pick(T \cup {z}) = z =>
        SumFunctionOnSet(f, T \cup {z}) = f[z] + SumFunctionOnSet(f, T)
  <2> TAKE T \in SUBSET A
  <2> TAKE z \in A \ T
  <2> HAVE Pick(T \cup {z}) = z
  <2>1. (T \cup {z}) \ {z} = T /\ T \cup {z} \in SUBSET A /\ T \cup {z} # {}
    OBVIOUS
  <2> HIDE DEF A
  <2> QED
    BY <1>1, <2>1, SumUnfolds
<1>3. 0 \in N
  <2> SUFFICES ASSUME NEW T \in SUBSET A, NEW z \in A \ T, Cardinality(T) = 0
               PROVE  SumFunctionOnSet(f, T \cup {z}) = f[z] + SumFunctionOnSet(f, T)
    OBVIOUS
  <2>1. T = {}
    BY <1>1, FS_EmptySet
  <2>2. Pick(T \cup {z}) = z
    BY <2>1, PickIn
  <2> QED
    BY <1>2, <2>2
<1>4. ASSUME NEW n \in Nat, n \in N PROVE n + 1 \in N
  <2> SUFFICES ASSUME NEW T \in SUBSET A, NEW z \in A \ T, Cardinality(T) = n + 1
               PROVE  SumFunctionOnSet(f, T \cup {z}) = f[z] + SumFunctionOnSet(f, T)
    OBVIOUS
  <2> DEFINE U == T \cup {z}
             y == Pick(U)
             V == T \ {y}
  <2>1. U \in SUBSET A /\ U # {} /\ y \in U
    BY PickIn
  <2>2. CASE y = z
    BY <1>2, <2>2
  <2>3. CASE y # z
    <3>1. y \in T /\ y \in A \ V /\ z \in A \ V /\ V \in SUBSET A
      BY <2>1, <2>3
    <3>2. U \ {y} = V \cup {z} /\ V \cup {y} = T
      BY <3>1, <2>3
    <3>3. Cardinality(V) = n
      <4>1. Cardinality(V) = Cardinality(T) - 1
        <5>1. y \in T /\ IsFiniteSet(T)
          BY <1>1, <3>1
        <5> HIDE DEF y, A
        <5> QED
          BY <5>1, FS_RemoveElement
      <4> QED
        BY <4>1
    <3>4. SumFunctionOnSet(f, V \cup {z}) = f[z] + SumFunctionOnSet(f, V)
      BY <1>4, <3>1, <3>3
    <3>5. SumFunctionOnSet(f, V \cup {y}) = f[y] + SumFunctionOnSet(f, V)
      BY <1>4, <3>1, <3>3
    <3>6. SumFunctionOnSet(f, U) = f[y] + SumFunctionOnSet(f, V \cup {z})
      <4> HIDE DEF y
      <4>1. y = Pick(U)
        BY DEF y
      <4> HIDE DEF U, V, A
      <4> QED
        BY <1>1, <2>1, <3>2, <4>1, SumUnfolds
    <3>7. f[y] \in Int /\ f[z] \in Int /\ SumFunctionOnSet(f, V) \in Int
      BY <1>1, <3>1
    <3> HIDE DEF y, V, U
    <3>8. SumFunctionOnSet(f, T) = f[y] + SumFunctionOnSet(f, V)
      BY <3>2, <3>5
    <3>9. SumFunctionOnSet(f, U) = f[z] + SumFunctionOnSet(f, T)
      BY <3>4, <3>6, <3>7, <3>8
    <3> QED
      BY <3>9 DEF U
  <2> QED
    BY <2>2, <2>3
<1>5. Cardinality(S) \in N
  <2> HIDE DEF N
  <2> QED
    BY <1>3, <1>4, Induction, FS_CardinalityType
<1> QED
  BY <1>5

\* Sums of equal functions are equal.
LEMMA SumSame ==
  ASSUME NEW S, IsFiniteSet(S), NEW f, NEW g,
         \A x \in S : f[x] = g[x] /\ f[x] \in Int
  PROVE  SumFunctionOnSet(f, S) = SumFunctionOnSet(g, S)
<1> DEFINE C == {T \in SUBSET S : SumFunctionOnSet(f, T) = SumFunctionOnSet(g, T)}
<1>1. {} \in C
  BY SumEmpty
<1>2. ASSUME NEW T \in SUBSET S, NEW x \in S \ T, T \in C
      PROVE  T \cup {x} \in C
  <2>1. IsFiniteSet(T) /\ T \cup {x} \in SUBSET S
    BY FS_Subset
  <2>2. SumFunctionOnSet(f, T \cup {x}) = f[x] + SumFunctionOnSet(f, T)
    BY <2>1, SumAdd
  <2>3. SumFunctionOnSet(g, T \cup {x}) = g[x] + SumFunctionOnSet(g, T)
    BY <2>1, SumAdd
  <2> QED
    BY <1>2, <2>1, <2>2, <2>3
<1>3. S \in C
  <2> HIDE DEF C
  <2> QED
    BY <1>1, <1>2, SetInduction
<1> QED
  BY <1>3

\* A function that is changed in one point.
LEMMA SumPoint ==
  ASSUME NEW S, IsFiniteSet(S), NEW f, NEW g, NEW x \in S,
         \A y \in S : f[y] \in Int /\ g[y] \in Int,
         \A y \in S \ {x} : f[y] = g[y]
  PROVE  SumFunctionOnSet(g, S) = SumFunctionOnSet(f, S) + g[x] - f[x]
<1> DEFINE T == S \ {x}
<1>1. IsFiniteSet(T) /\ x \notin T /\ T \cup {x} = S
  BY FS_Subset
<1>2. SumFunctionOnSet(f, S) = f[x] + SumFunctionOnSet(f, T)
  <2>1. SumFunctionOnSet(f, T \cup {x}) = f[x] + SumFunctionOnSet(f, T)
    BY <1>1, SumAdd
  <2> QED
    BY <1>1, <2>1
<1>3. SumFunctionOnSet(g, S) = g[x] + SumFunctionOnSet(g, T)
  <2>1. SumFunctionOnSet(g, T \cup {x}) = g[x] + SumFunctionOnSet(g, T)
    BY <1>1, SumAdd
  <2> QED
    BY <1>1, <2>1
<1>4. SumFunctionOnSet(f, T) = SumFunctionOnSet(g, T) /\ SumFunctionOnSet(f, T) \in Int
  BY <1>1, SumSame, SumType
<1>5. f[x] \in Int /\ g[x] \in Int
  OBVIOUS
<1> HIDE DEF T
<1> QED
  BY <1>2, <1>3, <1>4, <1>5

\* A sum without negative terms is none of them short, and is zero only if all are.
LEMMA SumNotNegative ==
  ASSUME NEW S, IsFiniteSet(S), NEW f, \A x \in S : f[x] \in Int /\ f[x] >= 0
  PROVE  /\ SumFunctionOnSet(f, S) >= 0
         /\ \A x \in S : f[x] <= SumFunctionOnSet(f, S)
<1> DEFINE C == {T \in SUBSET S : /\ SumFunctionOnSet(f, T) >= 0
                                  /\ \A x \in T : f[x] <= SumFunctionOnSet(f, T)}
<1>1. {} \in C
  BY SumEmpty
<1>2. ASSUME NEW T \in SUBSET S, NEW x \in S \ T, T \in C
      PROVE  T \cup {x} \in C
  <2>1. IsFiniteSet(T) /\ T \cup {x} \in SUBSET S
    BY FS_Subset
  <2>2. SumFunctionOnSet(f, T \cup {x}) = f[x] + SumFunctionOnSet(f, T)
    BY <2>1, SumAdd
  <2>3. SumFunctionOnSet(f, T) \in Int /\ f[x] \in Int /\ f[x] >= 0
    BY <2>1, SumType
  <2>4. SumFunctionOnSet(f, T) >= 0 /\ \A y \in T : f[y] <= SumFunctionOnSet(f, T)
    BY <1>2
  <2>5. SumFunctionOnSet(f, T \cup {x}) >= 0
    BY <2>2, <2>3, <2>4
  <2>6. \A y \in T \cup {x} : f[y] <= SumFunctionOnSet(f, T \cup {x})
    BY <2>2, <2>3, <2>4
  <2> QED
    BY <2>1, <2>5, <2>6
<1>3. S \in C
  <2> HIDE DEF C
  <2> QED
    BY <1>1, <1>2, SetInduction
<1> QED
  BY <1>3

\* The same without positive terms.
LEMMA SumNotPositive ==
  ASSUME NEW S, IsFiniteSet(S), NEW f, \A x \in S : f[x] \in Int /\ f[x] <= 0
  PROVE  \A x \in S : SumFunctionOnSet(f, S) <= f[x]
<1> DEFINE C == {T \in SUBSET S : /\ SumFunctionOnSet(f, T) <= 0
                                  /\ \A x \in T : SumFunctionOnSet(f, T) <= f[x]}
<1>1. {} \in C
  BY SumEmpty
<1>2. ASSUME NEW T \in SUBSET S, NEW x \in S \ T, T \in C
      PROVE  T \cup {x} \in C
  <2>1. IsFiniteSet(T) /\ T \cup {x} \in SUBSET S
    BY FS_Subset
  <2>2. SumFunctionOnSet(f, T \cup {x}) = f[x] + SumFunctionOnSet(f, T)
    BY <2>1, SumAdd
  <2>3. SumFunctionOnSet(f, T) \in Int /\ f[x] \in Int /\ f[x] <= 0
    BY <2>1, SumType
  <2>4. SumFunctionOnSet(f, T) <= 0 /\ \A y \in T : SumFunctionOnSet(f, T) <= f[y]
    BY <1>2
  <2>5. SumFunctionOnSet(f, T \cup {x}) <= 0
    BY <2>2, <2>3, <2>4
  <2>6. \A y \in T \cup {x} : SumFunctionOnSet(f, T \cup {x}) <= f[y]
    BY <2>2, <2>3, <2>4
  <2> QED
    BY <2>1, <2>5, <2>6
<1>3. S \in C
  <2> HIDE DEF C
  <2> QED
    BY <1>1, <1>2, SetInduction
<1> QED
  BY <1>3

\* Multiplication distributes over a sum, and a constant is added once per element.
LEMMA SumLinear ==
  ASSUME NEW S, IsFiniteSet(S), NEW f, NEW g, NEW n \in Int, NEW t \in Int,
         \A x \in S : f[x] \in Int /\ g[x] = f[x] * n - t
  PROVE  SumFunctionOnSet(g, S) = SumFunctionOnSet(f, S) * n - Cardinality(S) * t
<1> DEFINE C == {T \in SUBSET S : SumFunctionOnSet(g, T) =
                                    SumFunctionOnSet(f, T) * n - Cardinality(T) * t}
<1>1. {} \in C
  BY SumEmpty, FS_EmptySet
<1>2. ASSUME NEW T \in SUBSET S, NEW x \in S \ T, T \in C
      PROVE  T \cup {x} \in C
  <2>1. IsFiniteSet(T) /\ T \cup {x} \in SUBSET S
    BY FS_Subset
  <2>2. SumFunctionOnSet(f, T \cup {x}) = f[x] + SumFunctionOnSet(f, T)
    BY <2>1, SumAdd
  <2>3. SumFunctionOnSet(g, T \cup {x}) = f[x] * n - t + SumFunctionOnSet(g, T)
    <3>1. \A y \in T \cup {x} : g[y] \in Int
      OBVIOUS
    <3> QED
      BY <2>1, <3>1, SumAdd
  <2>4. Cardinality(T \cup {x}) = Cardinality(T) + 1 /\ Cardinality(T) \in Int
    BY <2>1, FS_AddElement, FS_CardinalityType
  <2>5. SumFunctionOnSet(f, T) \in Int /\ f[x] \in Int
    BY <2>1, SumType
  <2>6. SumFunctionOnSet(g, T) = SumFunctionOnSet(f, T) * n - Cardinality(T) * t
    BY <1>2
  <2>7. /\ (f[x] + SumFunctionOnSet(f, T)) * n = f[x] * n + SumFunctionOnSet(f, T) * n
        /\ (Cardinality(T) + 1) * t = Cardinality(T) * t + t
    BY <2>4, <2>5
  <2>8. f[x] * n \in Int /\ SumFunctionOnSet(f, T) * n \in Int /\ Cardinality(T) * t \in Int
    BY <2>4, <2>5
  <2>9. SumFunctionOnSet(g, T \cup {x}) =
          SumFunctionOnSet(f, T \cup {x}) * n - Cardinality(T \cup {x}) * t
    BY <2>2, <2>3, <2>4, <2>6, <2>7, <2>8
  <2> QED
    BY <2>1, <2>9
<1>3. S \in C
  <2> HIDE DEF C
  <2> QED
    BY <1>1, <1>2, SetInduction
<1> QED
  BY <1>3

\* A sum of zeros.
LEMMA SumZero ==
  ASSUME NEW S, IsFiniteSet(S), NEW f, \A x \in S : f[x] = 0
  PROVE  SumFunctionOnSet(f, S) = 0
<1> DEFINE C == {T \in SUBSET S : SumFunctionOnSet(f, T) = 0}
<1>1. {} \in C
  BY SumEmpty
<1>2. ASSUME NEW T \in SUBSET S, NEW x \in S \ T, T \in C
      PROVE  T \cup {x} \in C
  <2>1. IsFiniteSet(T) /\ T \cup {x} \in SUBSET S
    BY FS_Subset
  <2>2. \A y \in T \cup {x} : f[y] \in Int
    OBVIOUS
  <2>3. SumFunctionOnSet(f, T \cup {x}) = f[x] + SumFunctionOnSet(f, T)
    BY <2>1, <2>2, SumAdd
  <2> QED
    BY <1>2, <2>1, <2>3
<1>3. S \in C
  <2> HIDE DEF C
  <2> QED
    BY <1>1, <1>2, SetInduction
<1> QED
  BY <1>3
=============================================================================
