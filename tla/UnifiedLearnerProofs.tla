------------------------ MODULE UnifiedLearnerProofs ------------------------
(***************************************************************************)
(* Proofs about UnifiedLearner, for any number of callers, arms and        *)
(* operators and for any periods.  The inductive invariant has four parts: *)
(* what a caller has in hand (Hands), how far the tables may be behind     *)
(* (Behind, Forward), and what the triggers cost (Paid).                   *)
(***************************************************************************)
EXTENDS UnifiedLearner, FiniteSetTheorems, TLAPS

\* A caller in processResult() holds a task, and no window has more finds than results.
Hands ==
    /\ \A c \in Callers : pc[c] # "out" => task[c] \in Tasks
    /\ \A a \in Arms : window[a].finds <= window[a].execs

\* The lock has one holder.
OneRebuilds == \A c, d \in At("rebuild") : c = d

\* What the tables hold, or will when the rebuild under way is done.
Promised == IF At("rebuild") = {} THEN covered ELSE begun

\* With nobody waiting for the lock, only what was counted since the last reset or is
\* about to be counted is missing from the tables.
Behind ==
    /\ OneRebuilds
    /\ At("lock") = {} => recorded <= Promised + since + Cardinality(At("count"))

\* The tables hold no find that is not in the transitions, and the rows still to be
\* rebuilt none that the rebuild may not read.
Forward ==
    /\ OneRebuilds
    /\ \A i, j \in Ops : tables[i].finds[j] <= trans[i][j]
    /\ At("rebuild") # {} =>
         \A i, j \in Ops : /\ before[i][j] <= trans[i][j]
                           /\ i >= row => tables[i].finds[j] <= before[i][j]

\* Triggers are paid for with a share of the results counted before the last reset, but
\* for those of the callers that have not reset the counter yet.
Paid ==
    /\ fresh \subseteq At("reset")
    /\ fresh # {} => Least <= since
    /\ triggers * Least + Cardinality(Callers) * since
         <= Cardinality(Callers) * counted + Least * Cardinality(fresh)

-----------------------------------------------------------------------------

\* Sets of callers are finite, and no larger than all of them.
LEMMA CallersFinite ==
  ASSUME NEW S \in SUBSET Callers
  PROVE  /\ IsFiniteSet(S) /\ Cardinality(S) \in Nat
         /\ Cardinality(S) <= Cardinality(Callers) /\ Cardinality(Callers) \in Nat
BY FS_Subset, FS_CardinalityType, LearnerAssumption

\* The size of a set of callers that one joins.
LEMMA CallerJoins ==
  ASSUME NEW S \in SUBSET Callers, NEW c \in Callers, c \notin S
  PROVE  Cardinality(S \cup {c}) = Cardinality(S) + 1
BY CallersFinite, FS_AddElement

\* The size of a set of callers that one leaves.
LEMMA CallerLeaves ==
  ASSUME NEW S \in SUBSET Callers, NEW c \in S
  PROVE  Cardinality(S) = Cardinality(S \ {c}) + 1
<1>1. Cardinality(S \ {c}) = Cardinality(S) - 1
  BY CallersFinite, FS_RemoveElement
<1>2. Cardinality(S) \in Nat
  BY CallersFinite
<1> QED
  BY <1>1, <1>2

\* A caller that goes somewhere is there and nowhere else.
LEMMA AtMoves ==
  ASSUME pc \in [Callers -> Locations], NEW c \in Callers, NEW l \in Locations, Goto(c, l)
  PROVE  /\ At(l)' = At(l) \cup {c}
         /\ \A k \in Locations \ {l} : At(k)' = At(k) \ {c}
BY DEF At, Goto

\* The locations, for use where a step goes to one.
LEMMA Places ==
  /\ "out" \in Locations /\ "window" \in Locations /\ "mopt" \in Locations
  /\ "markov" \in Locations /\ "count" \in Locations /\ "reset" \in Locations
  /\ "lock" \in Locations /\ "rebuild" \in Locations
BY DEF Locations

\* What is read of a row lies between the transitions at the beginning and now.
LEMMA RowsReadBetween ==
  ASSUME TypeOK, NEW i \in Ops, NEW r \in RowsRead(i)
  PROVE  /\ r \in Row
         /\ \A j \in Ops : before[i][j] <= r.finds[j] /\ r.finds[j] <= trans[i][j]
<1>1. PICK f \in Between(before[i], trans[i]) :
        \E n \in 0 .. Total(f) : r = [total |-> n, finds |-> f]
  BY DEF RowsRead
<1>2. PICK n \in 0 .. Total(f) : r = [total |-> n, finds |-> f]
  BY <1>1
<1>3. n \in Nat
  OBVIOUS
<1>4. \A j \in Ops : before[i][j] \in Nat /\ trans[i][j] \in Nat
  BY DEF TypeOK, Counts
<1>5. \A j \in Ops : f[j] \in before[i][j] .. trans[i][j]
  BY DEF Between
<1>6. f \in [Ops -> Nat]
  BY <1>4, <1>5 DEF Between
<1> QED
  BY <1>2, <1>3, <1>4, <1>5, <1>6 DEF Row

\* A pair of operators follows each other a number of times.
LEMMA PairsType ==
  ASSUME NEW seq \in OpSequences, NEW i, NEW j
  PROVE  Pairs(seq, i, j) \in Nat
<1>1. Len(seq) \in Nat
  BY LearnerAssumption
<1>2. IsFiniteSet(1 .. Len(seq) - 1)
  BY <1>1, FS_Interval
<1> QED
  BY <1>2, FS_Subset, FS_CardinalityType DEF Pairs

-----------------------------------------------------------------------------
(* Types, and what the callers hold.                                       *)

\* Nothing has happened at the start.
LEMMA HandsInit == Init => TypeOK /\ Hands
BY LearnerAssumption DEF Init, TypeOK, Hands, Counts, Ones, Row, Locations, Ops

\* A flush or a window that grows keeps the types, and the finds within the results.
LEMMA WindowTyped ==
  ASSUME TypeOK, Hands, NEW a \in Arms, NEW found \in BOOLEAN,
         LET w == Grown(a, found)
         IN  Flush(a, w) \/ (window' = [window EXCEPT ![a] = w] /\ UNCHANGED learned)
  PROVE  /\ window' \in [Arms -> [execs : Nat, finds : Nat]]
         /\ learned' \in [Arms -> [finds : Nat, fails : Nat]]
         /\ \A b \in Arms : window'[b].finds <= window'[b].execs
<1> DEFINE w == Grown(a, found)
<1>1. /\ w \in [execs : Nat, finds : Nat] /\ w.finds <= w.execs
      /\ w.execs - w.finds \in Nat
  <2>1. window[a] \in [execs : Nat, finds : Nat] /\ window[a].finds <= window[a].execs
    BY DEF TypeOK, Hands
  <2>2. One(found) \in Nat /\ One(found) <= 1
    BY DEF One
  <2> QED
    BY <2>1, <2>2 DEF Grown
<1>2. learned[a] \in [finds : Nat, fails : Nat]
  BY DEF TypeOK
<1> HIDE DEF w
<1>3. CASE Flush(a, w)
  BY <1>1, <1>2, <1>3 DEF Flush, TypeOK, Hands
<1>4. CASE window' = [window EXCEPT ![a] = w] /\ UNCHANGED learned
  BY <1>1, <1>4 DEF TypeOK, Hands
<1> QED
  BY <1>3, <1>4 DEF w

\* Every step keeps the types and what the callers hold.
LEMMA HandsStep ==
  ASSUME TypeOK, Hands, [Next]_vars
  PROVE  TypeOK' /\ Hands'
<1> USE Places
<1>1. ASSUME NEW c \in Callers, NEW t \in Tasks, Enter(c, t) PROVE TypeOK' /\ Hands'
  <2>1. t.arm \in Arms /\ One(t.found) \in Nat
    BY DEF Tasks, One
  <2> QED
    BY <1>1, <2>1
       DEF Enter, Goto, TypeOK, Hands, statVars, windowVars, tableVars, triggerVars
<1>2. ASSUME NEW c \in Callers, NEW e \in BOOLEAN, UpdateWindow(c, e) PROVE TypeOK' /\ Hands'
  <2>1. task[c] \in Tasks /\ task[c].arm \in Arms /\ task[c].found \in BOOLEAN
    BY <1>2 DEF UpdateWindow, Hands, Tasks
  <2>2. /\ window' \in [Arms -> [execs : Nat, finds : Nat]]
        /\ learned' \in [Arms -> [finds : Nat, fails : Nat]]
        /\ \A b \in Arms : window'[b].finds <= window'[b].execs
    BY <1>2, <2>1, WindowTyped DEF UpdateWindow
  <2>3. /\ pc' \in [Callers -> Locations] /\ task' \in [Callers -> Tasks \cup {NoTask}]
        /\ \A d \in Callers : pc'[d] # "out" => task'[d] \in Tasks
    <3>1. \/ UNCHANGED task /\ (Goto(c, "mopt") \/ Goto(c, "markov"))
          \/ Return(c)
      BY <1>2 DEF UpdateWindow
    <3> QED
      BY <2>1, <3>1 DEF Goto, Return, TypeOK, Hands
  <2> QED
    BY <1>2, <2>2, <2>3 DEF UpdateWindow, TypeOK, Hands, statVars, tableVars, triggerVars
<1>3. ASSUME NEW c \in Callers, NEW e \in BOOLEAN, UpdateMOpt(c, e) PROVE TypeOK' /\ Hands'
  BY <1>3 DEF UpdateMOpt, Goto, Return, TypeOK, Hands, statVars, windowVars, tableVars,
              triggerVars
<1>4. ASSUME NEW c \in Callers, NEW seq \in OpSequences, Record(c, seq)
      PROVE  TypeOK' /\ Hands'
  <2>1. trans' \in Counts
    <3>1. \A i, j \in Ops : trans[i][j] \in Nat /\ Pairs(seq, i, j) \in Nat
      BY PairsType DEF TypeOK, Counts
    <3> QED
      BY <1>4, <3>1 DEF Record, Counts
  <2> QED
    BY <1>4, <2>1 DEF Record, Goto, TypeOK, Hands, statVars, windowVars, tableVars, triggerVars
<1>5. ASSUME NEW c \in Callers, NEW e \in BOOLEAN, Count(c, e) PROVE TypeOK' /\ Hands'
  <2>1. /\ since' \in Nat /\ counted' \in Nat /\ triggers' \in Nat /\ fresh' \subseteq Callers
    BY <1>5 DEF Count, TypeOK
  <2>2. /\ pc' \in [Callers -> Locations] /\ task' \in [Callers -> Tasks \cup {NoTask}]
        /\ \A d \in Callers : pc'[d] # "out" => task'[d] \in Tasks
    BY <1>5 DEF Count, Goto, Return, TypeOK, Hands
  <2> QED
    BY <1>5, <2>1, <2>2 DEF Count, TypeOK, Hands, statVars, windowVars, tableVars
<1>6. ASSUME NEW c \in Callers, Reset(c) PROVE TypeOK' /\ Hands'
  BY <1>6 DEF Reset, Goto, TypeOK, Hands, statVars, windowVars, tableVars
<1>7. ASSUME NEW c \in Callers, RebuildBegin(c) PROVE TypeOK' /\ Hands'
  BY <1>7 DEF RebuildBegin, Goto, TypeOK, Hands, statVars, windowVars, triggerVars
<1>8. ASSUME NEW c \in Callers, RebuildRow(c) PROVE TypeOK' /\ Hands'
  <2>1. row \in Ops /\ row' \in 0 .. NumOps
    BY <1>8, LearnerAssumption DEF RebuildRow, TypeOK, Ops
  <2>2. tables' \in [Ops -> Row]
    BY <1>8, <2>1, RowsReadBetween DEF RebuildRow, TypeOK
  <2> QED
    BY <1>8, <2>1, <2>2 DEF RebuildRow, TypeOK, Hands, statVars, windowVars, triggerVars
<1>9. ASSUME NEW c \in Callers, RebuildEnd(c) PROVE TypeOK' /\ Hands'
  <2>1. before' \in Counts /\ row' \in 0 .. NumOps
    BY <1>9, LearnerAssumption DEF RebuildEnd, Counts, Ones
  <2>2. /\ pc' \in [Callers -> Locations] /\ task' \in [Callers -> Tasks \cup {NoTask}]
        /\ \A d \in Callers : pc'[d] # "out" => task'[d] \in Tasks
    BY <1>9 DEF RebuildEnd, Goto, Return, TypeOK, Hands
  <2>3. begun' \in Nat /\ covered' \in Nat
    BY <1>9 DEF RebuildEnd, TypeOK
  <2> QED
    BY <1>9, <2>1, <2>2, <2>3
       DEF RebuildEnd, TypeOK, Hands, statVars, windowVars, triggerVars
<1>10. CASE UNCHANGED vars
  BY <1>10 DEF TypeOK, Hands, vars, statVars, windowVars, tableVars, triggerVars
<1> QED
  BY <1>1, <1>2, <1>3, <1>4, <1>5, <1>6, <1>7, <1>8, <1>9, <1>10 DEF Next

\* The variables keep their types, and callers what they hold.
LEMMA HandsInvariant == Spec => [](TypeOK /\ Hands)
BY HandsInit, HandsStep, PTL DEF Spec

\* The types hold whatever the callers interleave; no window's failures go below zero.
THEOREM LearnerTypes == Spec => []TypeOK
BY HandsInvariant, PTL

-----------------------------------------------------------------------------
(* Each result in one window.                                              *)

\* Those that bring a find of the arm to its window.
FindsOnTheirWay(a) == {c \in OnTheirWay(a) : task[c].found}

\* A step that moves no caller to or from a window touches no result on its way.
LEMMA OthersOnTheirWay ==
  ASSUME pc \in [Callers -> Locations], NEW c \in Callers, NEW l \in Locations,
         l # "window", pc[c] # "window", Goto(c, l),
         \A d \in Callers \ {c} : task'[d] = task[d]
  PROVE  \A a \in Arms : /\ OnTheirWay(a)' = OnTheirWay(a)
                         /\ FindsOnTheirWay(a)' = FindsOnTheirWay(a)
BY DEF Goto, OnTheirWay, FindsOnTheirWay, At

\* A caller that enters has a result on its way.
LEMMA EnterOnTheirWay ==
  ASSUME TypeOK, NEW c \in Callers, NEW t \in Tasks, Enter(c, t), NEW a \in Arms
  PROVE  /\ Cardinality(OnTheirWay(a))' =
              Cardinality(OnTheirWay(a)) + (IF a = t.arm THEN 1 ELSE 0)
         /\ Cardinality(FindsOnTheirWay(a))' =
              Cardinality(FindsOnTheirWay(a)) + (IF a = t.arm THEN One(t.found) ELSE 0)
<1>1. /\ OnTheirWay(a) \in SUBSET Callers /\ FindsOnTheirWay(a) \in SUBSET Callers
      /\ c \notin OnTheirWay(a) /\ c \notin FindsOnTheirWay(a)
  BY DEF Enter, OnTheirWay, FindsOnTheirWay, At
<1>2. OnTheirWay(a)' = IF a = t.arm THEN OnTheirWay(a) \cup {c} ELSE OnTheirWay(a)
  BY DEF Enter, Goto, OnTheirWay, At, TypeOK
<1>3. FindsOnTheirWay(a)' = IF a = t.arm /\ t.found THEN FindsOnTheirWay(a) \cup {c}
                                                   ELSE FindsOnTheirWay(a)
  BY DEF Enter, Goto, OnTheirWay, FindsOnTheirWay, At, TypeOK
<1> QED
  BY <1>1, <1>2, <1>3, CallerJoins, CallersFinite DEF One

\* A caller that leaves the window has brought its result there.
LEMMA LeaveOnTheirWay ==
  ASSUME TypeOK, Hands, NEW c \in Callers, NEW e \in BOOLEAN, UpdateWindow(c, e), NEW a \in Arms
  PROVE  /\ Cardinality(OnTheirWay(a)) =
              Cardinality(OnTheirWay(a))' + (IF a = task[c].arm THEN 1 ELSE 0)
         /\ Cardinality(FindsOnTheirWay(a)) =
              Cardinality(FindsOnTheirWay(a))'
                + (IF a = task[c].arm THEN One(task[c].found) ELSE 0)
<1>1. OnTheirWay(a) \in SUBSET Callers /\ FindsOnTheirWay(a) \in SUBSET Callers
  BY DEF OnTheirWay, FindsOnTheirWay, At
<1>2. /\ c \in OnTheirWay(a) <=> a = task[c].arm
      /\ c \in FindsOnTheirWay(a) <=> a = task[c].arm /\ task[c].found
  BY DEF UpdateWindow, OnTheirWay, FindsOnTheirWay, At
<1>3. /\ pc'[c] # "window" /\ \A d \in Callers \ {c} : pc'[d] = pc[d] /\ task'[d] = task[d]
  BY DEF UpdateWindow, Goto, Return, TypeOK
<1>4. /\ OnTheirWay(a)' = OnTheirWay(a) \ {c}
      /\ FindsOnTheirWay(a)' = FindsOnTheirWay(a) \ {c}
  BY <1>3 DEF OnTheirWay, FindsOnTheirWay, At
<1>5. /\ c \notin OnTheirWay(a) => OnTheirWay(a) \ {c} = OnTheirWay(a)
      /\ c \notin FindsOnTheirWay(a) => FindsOnTheirWay(a) \ {c} = FindsOnTheirWay(a)
  OBVIOUS
<1>6. /\ Cardinality(OnTheirWay(a)) \in Nat /\ Cardinality(FindsOnTheirWay(a)) \in Nat
      /\ Cardinality(OnTheirWay(a) \ {c}) \in Nat
      /\ Cardinality(FindsOnTheirWay(a) \ {c}) \in Nat
  BY <1>1, CallersFinite
<1>7. Cardinality(OnTheirWay(a)) =
        Cardinality(OnTheirWay(a)) ' + (IF a = task[c].arm THEN 1 ELSE 0)
  <2>1. CASE c \in OnTheirWay(a)
    BY <1>1, <1>2, <1>4, <2>1, CallerLeaves
  <2>2. CASE c \notin OnTheirWay(a)
    <3>1. OnTheirWay(a)' = OnTheirWay(a)
      BY <1>4, <1>5, <2>2
    <3>2. Cardinality(OnTheirWay(a))' = Cardinality(OnTheirWay(a))
      BY <3>1
    <3> QED
      BY <1>2, <1>6, <2>2, <3>2
  <2> QED
    BY <2>1, <2>2
<1>8. Cardinality(FindsOnTheirWay(a)) =
        Cardinality(FindsOnTheirWay(a))' + (IF a = task[c].arm THEN One(task[c].found) ELSE 0)
  <2>1. CASE c \in FindsOnTheirWay(a)
    BY <1>1, <1>2, <1>4, <2>1, CallerLeaves DEF One
  <2>2. CASE c \notin FindsOnTheirWay(a)
    <3>1. FindsOnTheirWay(a)' = FindsOnTheirWay(a)
      BY <1>4, <1>5, <2>2
    <3>2. Cardinality(FindsOnTheirWay(a))' = Cardinality(FindsOnTheirWay(a))
      BY <3>1
    <3> QED
      BY <1>2, <1>6, <2>2, <3>2 DEF One
  <2> QED
    BY <2>1, <2>2
<1> QED
  BY <1>7, <1>8

\* A flush or a window that grows takes one result in.
LEMMA WindowTakes ==
  ASSUME TypeOK, Hands, NEW a \in Arms, NEW found \in BOOLEAN, NEW b \in Arms,
         LET w == Grown(a, found)
         IN  Flush(a, w) \/ (window' = [window EXCEPT ![a] = w] /\ UNCHANGED learned)
  PROVE  /\ learned'[b].finds + learned'[b].fails + window'[b].execs =
              learned[b].finds + learned[b].fails + window[b].execs
                + (IF b = a THEN 1 ELSE 0)
         /\ learned'[b].finds + window'[b].finds =
              learned[b].finds + window[b].finds + (IF b = a THEN One(found) ELSE 0)
<1> DEFINE w == Grown(a, found)
<1>1. /\ w \in [execs : Nat, finds : Nat]
      /\ w.execs = window[a].execs + 1 /\ w.finds = window[a].finds + One(found)
  BY DEF One, Grown, TypeOK
<1>2. One(found) \in Nat
  BY DEF One
<1>3. /\ learned[a] \in [finds : Nat, fails : Nat] /\ learned[b] \in [finds : Nat, fails : Nat]
      /\ window[a] \in [execs : Nat, finds : Nat] /\ window[b] \in [execs : Nat, finds : Nat]
  BY DEF TypeOK
<1> HIDE DEF w
<1>4. CASE b # a
  BY <1>3, <1>4 DEF Flush, TypeOK
<1>5. CASE b = a /\ Flush(a, w)
  <2>1. /\ window'[a].execs = 0 /\ window'[a].finds = 0
        /\ learned'[a].finds = learned[a].finds + w.finds
        /\ learned'[a].fails = learned[a].fails + (w.execs - w.finds)
    BY <1>3, <1>5 DEF Flush, TypeOK
  <2> QED
    BY <1>1, <1>2, <1>3, <1>5, <2>1
<1>6. CASE b = a /\ window' = [window EXCEPT ![a] = w] /\ UNCHANGED learned
  <2>1. window'[a] = w /\ learned' = learned
    BY <1>6 DEF TypeOK
  <2>2. window'[a].execs = window[a].execs + 1 /\ window'[a].finds = window[a].finds + One(found)
    BY <1>1, <2>1
  <2> QED
    BY <1>2, <1>3, <1>6, <2>1, <2>2
<1> QED
  BY <1>4, <1>5, <1>6 DEF w

\* Every step keeps each result in one window.
LEMMA WindowsStep ==
  ASSUME TypeOK, Hands, EachResultInOneWindow, [Next]_vars
  PROVE  EachResultInOneWindow'
<1> USE Places
<1> DEFINE Kept == /\ UNCHANGED <<uses, finds, learned, window>>
                   /\ \A a \in Arms : /\ OnTheirWay(a)' = OnTheirWay(a)
                                      /\ FindsOnTheirWay(a)' = FindsOnTheirWay(a)
<1>1. Kept => EachResultInOneWindow'
  BY DEF EachResultInOneWindow, FindsOnTheirWay
<1>2. ASSUME NEW a \in Arms
      PROVE  /\ uses[a] \in Nat /\ finds[a] \in Nat
             /\ window[a] \in [execs : Nat, finds : Nat]
             /\ learned[a] \in [finds : Nat, fails : Nat]
             /\ Cardinality(OnTheirWay(a)) \in Nat
             /\ Cardinality(FindsOnTheirWay(a)) \in Nat
             /\ uses[a] = learned[a].finds + learned[a].fails + window[a].execs
                            + Cardinality(OnTheirWay(a))
             /\ finds[a] = learned[a].finds + window[a].finds
                             + Cardinality(FindsOnTheirWay(a))
  <2>1. OnTheirWay(a) \in SUBSET Callers /\ FindsOnTheirWay(a) \in SUBSET Callers
    BY DEF OnTheirWay, FindsOnTheirWay, At
  <2> QED
    BY <2>1, CallersFinite DEF TypeOK, EachResultInOneWindow, FindsOnTheirWay
<1>3. ASSUME NEW c \in Callers, NEW t \in Tasks, Enter(c, t) PROVE EachResultInOneWindow'
  <2>1. One(t.found) \in Nat /\ t.arm \in Arms
    BY DEF One, Tasks
  <2>2. SUFFICES ASSUME NEW a \in Arms
        PROVE  /\ uses'[a] = learned'[a].finds + learned'[a].fails + window'[a].execs
                               + Cardinality(OnTheirWay(a))'
               /\ finds'[a] = learned'[a].finds + window'[a].finds
                                + Cardinality(FindsOnTheirWay(a))'
    BY DEF EachResultInOneWindow, FindsOnTheirWay
  <2>3. /\ uses'[a] = uses[a] + (IF a = t.arm THEN 1 ELSE 0)
        /\ finds'[a] = finds[a] + (IF a = t.arm THEN One(t.found) ELSE 0)
        /\ window' = window /\ learned' = learned
    BY <1>2, <1>3, <2>1 DEF Enter, TypeOK, windowVars
  <2>4. /\ Cardinality(OnTheirWay(a))' =
              Cardinality(OnTheirWay(a)) + (IF a = t.arm THEN 1 ELSE 0)
        /\ Cardinality(FindsOnTheirWay(a))' =
              Cardinality(FindsOnTheirWay(a)) + (IF a = t.arm THEN One(t.found) ELSE 0)
    BY <1>3, EnterOnTheirWay
  <2> QED
    BY <1>2, <2>1, <2>3, <2>4
<1>4. ASSUME NEW c \in Callers, NEW e \in BOOLEAN, UpdateWindow(c, e)
      PROVE  EachResultInOneWindow'
  <2>1. task[c].arm \in Arms /\ task[c].found \in BOOLEAN /\ One(task[c].found) \in Nat
    BY <1>4 DEF UpdateWindow, Hands, Tasks, One
  <2>2. SUFFICES ASSUME NEW a \in Arms
        PROVE  /\ uses'[a] = learned'[a].finds + learned'[a].fails + window'[a].execs
                               + Cardinality(OnTheirWay(a))'
               /\ finds'[a] = learned'[a].finds + window'[a].finds
                                + Cardinality(FindsOnTheirWay(a))'
    BY DEF EachResultInOneWindow, FindsOnTheirWay
  <2>3. uses' = uses /\ finds' = finds
    BY <1>4 DEF UpdateWindow, statVars
  <2>4. /\ learned'[a].finds + learned'[a].fails + window'[a].execs =
              learned[a].finds + learned[a].fails + window[a].execs
                + (IF a = task[c].arm THEN 1 ELSE 0)
        /\ learned'[a].finds + window'[a].finds =
              learned[a].finds + window[a].finds
                + (IF a = task[c].arm THEN One(task[c].found) ELSE 0)
    BY <1>4, <2>1, WindowTakes DEF UpdateWindow
  <2>5. /\ Cardinality(OnTheirWay(a)) =
              Cardinality(OnTheirWay(a))' + (IF a = task[c].arm THEN 1 ELSE 0)
        /\ Cardinality(FindsOnTheirWay(a)) =
              Cardinality(FindsOnTheirWay(a))'
                + (IF a = task[c].arm THEN One(task[c].found) ELSE 0)
    BY <1>4, LeaveOnTheirWay
  <2>6. /\ Cardinality(OnTheirWay(a))' \in Nat /\ Cardinality(FindsOnTheirWay(a))' \in Nat
    <3>1. OnTheirWay(a)' \in SUBSET Callers /\ FindsOnTheirWay(a)' \in SUBSET Callers
      BY DEF OnTheirWay, FindsOnTheirWay, At
    <3> QED
      BY <3>1, CallersFinite
  <2>7. /\ learned'[a] \in [finds : Nat, fails : Nat] /\ window'[a] \in [execs : Nat, finds : Nat]
    BY <1>4, <2>1, WindowTyped DEF UpdateWindow
  <2> QED
    BY <1>2, <2>1, <2>3, <2>4, <2>5, <2>6, <2>7
<1>5. ASSUME NEW c \in Callers, NEW e \in BOOLEAN, UpdateMOpt(c, e) PROVE Kept
  BY <1>5, OthersOnTheirWay DEF UpdateMOpt, Return, TypeOK, statVars, windowVars
<1>6. ASSUME NEW c \in Callers, NEW seq \in OpSequences, Record(c, seq) PROVE Kept
  BY <1>6, OthersOnTheirWay DEF Record, TypeOK, statVars, windowVars
<1>7. ASSUME NEW c \in Callers, NEW e \in BOOLEAN, Count(c, e) PROVE Kept
  BY <1>7, OthersOnTheirWay DEF Count, Return, TypeOK, statVars, windowVars
<1>8. ASSUME NEW c \in Callers, Reset(c) PROVE Kept
  BY <1>8, OthersOnTheirWay DEF Reset, TypeOK, statVars, windowVars
<1>9. ASSUME NEW c \in Callers, RebuildBegin(c) PROVE Kept
  BY <1>9, OthersOnTheirWay DEF RebuildBegin, TypeOK, statVars, windowVars
<1>10. ASSUME NEW c \in Callers, RebuildRow(c) PROVE Kept
  BY <1>10 DEF RebuildRow, statVars, windowVars, OnTheirWay, FindsOnTheirWay, At
<1>11. ASSUME NEW c \in Callers, RebuildEnd(c) PROVE Kept
  BY <1>11, OthersOnTheirWay DEF RebuildEnd, Return, TypeOK, statVars, windowVars
<1>12. CASE UNCHANGED vars
  BY <1>1, <1>12 DEF vars, statVars, windowVars, OnTheirWay, FindsOnTheirWay, At
<1> HIDE DEF Kept
<1> QED
  BY <1>1, <1>3, <1>4, <1>5, <1>6, <1>7, <1>8, <1>9, <1>10, <1>11, <1>12 DEF Next

\* No result has been counted at the start.
LEMMA WindowsInit == Init => EachResultInOneWindow
<1> SUFFICES ASSUME Init, NEW a \in Arms
    PROVE  /\ uses[a] = learned[a].finds + learned[a].fails + window[a].execs
                          + Cardinality(OnTheirWay(a))
           /\ finds[a] = learned[a].finds + window[a].finds
                           + Cardinality(FindsOnTheirWay(a))
  BY DEF EachResultInOneWindow, FindsOnTheirWay
<1>1. OnTheirWay(a) = {} /\ FindsOnTheirWay(a) = {}
  BY DEF Init, OnTheirWay, FindsOnTheirWay, At
<1>2. Cardinality(OnTheirWay(a)) = 0 /\ Cardinality(FindsOnTheirWay(a)) = 0
  BY <1>1, FS_EmptySet
<1> QED
  BY <1>2 DEF Init

\* The posterior of an arm is given every result once, by any callers with any periods.
THEOREM EveryResultIsLearned == Spec => []EachResultInOneWindow
BY HandsInvariant, WindowsInit, WindowsStep, PTL DEF Spec

-----------------------------------------------------------------------------
(* The lock, and tables that only advance.                                 *)

\* Only the step that takes the lock lets a caller rebuild, and nobody has it then.
LEMMA OneRebuildsStep ==
  ASSUME TypeOK, OneRebuilds, [Next]_vars
  PROVE  OneRebuilds'
<1> USE Places
<1>1. ASSUME NEW c \in Callers, NEW l \in Locations \ {"rebuild"}, Goto(c, l)
      PROVE  OneRebuilds'
  BY <1>1, AtMoves DEF TypeOK, OneRebuilds
<1>2. ASSUME NEW c \in Callers, RebuildBegin(c) PROVE OneRebuilds'
  BY <1>2, AtMoves DEF RebuildBegin, TypeOK, OneRebuilds
<1>3. ASSUME UNCHANGED pc PROVE OneRebuilds'
  BY <1>3 DEF OneRebuilds, At
<1>4. ASSUME NEW c \in Callers, NEW e \in BOOLEAN,
             UpdateWindow(c, e) \/ UpdateMOpt(c, e) \/ Count(c, e)
      PROVE  OneRebuilds'
  BY <1>1, <1>4 DEF UpdateWindow, UpdateMOpt, Count, Return
<1>5. ASSUME NEW c \in Callers, NEW t \in Tasks, Enter(c, t) PROVE OneRebuilds'
  BY <1>1, <1>5 DEF Enter
<1>6. ASSUME NEW c \in Callers, NEW seq \in OpSequences, Record(c, seq) PROVE OneRebuilds'
  BY <1>1, <1>6 DEF Record
<1>7. ASSUME NEW c \in Callers, Reset(c) \/ RebuildEnd(c) PROVE OneRebuilds'
  BY <1>1, <1>7 DEF Reset, RebuildEnd, Return
<1>8. ASSUME NEW c \in Callers, RebuildRow(c) PROVE OneRebuilds'
  BY <1>3, <1>8 DEF RebuildRow
<1> QED
  BY <1>2, <1>3, <1>4, <1>5, <1>6, <1>7, <1>8 DEF Next, vars

\* Everything is as new at the start.
LEMMA ForwardInit == Init => Forward
<1> SUFFICES ASSUME Init PROVE Forward
  OBVIOUS
<1>1. At("rebuild") = {}
  BY DEF Init, At
<1>2. \A i, j \in Ops : tables[i].finds[j] = 1 /\ trans[i][j] = 1
  BY DEF Init, Ones
<1> QED
  BY <1>1, <1>2 DEF Forward, OneRebuilds

\* Every step keeps the tables behind the transitions.
LEMMA ForwardStep ==
  ASSUME TypeOK, Forward, [Next]_vars
  PROVE  Forward'
<1> USE Places
<1>1. OneRebuilds'
  BY OneRebuildsStep DEF Forward
<1>2. ASSUME UNCHANGED <<trans, before, tables, row>>, At("rebuild") = {} => At("rebuild")' = {}
      PROVE  Forward'
  BY <1>1, <1>2 DEF Forward
<1>3. ASSUME NEW c \in Callers, NEW l \in Locations \ {"rebuild"}, Goto(c, l)
      PROVE  At("rebuild") = {} => At("rebuild")' = {}
  BY <1>3, AtMoves DEF TypeOK
<1>4. ASSUME NEW c \in Callers, NEW e \in BOOLEAN,
             UpdateWindow(c, e) \/ UpdateMOpt(c, e) \/ Count(c, e)
      PROVE  Forward'
  BY <1>2, <1>3, <1>4 DEF UpdateWindow, UpdateMOpt, Count, Return, tableVars
<1>5. ASSUME NEW c \in Callers, NEW t \in Tasks, Enter(c, t) PROVE Forward'
  BY <1>2, <1>3, <1>5 DEF Enter, tableVars
<1>6. ASSUME NEW c \in Callers, Reset(c) PROVE Forward'
  BY <1>2, <1>3, <1>6 DEF Reset, tableVars
<1>7. ASSUME NEW c \in Callers, NEW seq \in OpSequences, Record(c, seq) PROVE Forward'
  <2>1. \A i, j \in Ops : trans'[i][j] \in Nat /\ trans[i][j] \in Nat /\ trans[i][j] <= trans'[i][j]
    BY <1>7, PairsType DEF Record, TypeOK, Counts
  <2>2. UNCHANGED <<before, tables, row>> /\ (At("rebuild") = {} => At("rebuild")' = {})
    BY <1>3, <1>7 DEF Record, tableVars
  <2>3. \A i, j \in Ops : before[i][j] \in Nat /\ tables[i].finds[j] \in Nat
    BY DEF TypeOK, Counts, Row
  <2> QED
    BY <1>1, <2>1, <2>2, <2>3 DEF Forward
<1>8. ASSUME NEW c \in Callers, RebuildBegin(c) PROVE Forward'
  <2>1. before' = trans /\ UNCHANGED <<trans, tables, row>>
    BY <1>8 DEF RebuildBegin
  <2>2. \A i, j \in Ops : trans[i][j] \in Nat
    BY DEF TypeOK, Counts
  <2> QED
    BY <1>1, <2>1, <2>2 DEF Forward
<1>9. ASSUME NEW c \in Callers, RebuildRow(c) PROVE Forward'
  <2>1. row \in Ops /\ row' = row + 1 /\ UNCHANGED <<trans, before, pc>> /\ c \in At("rebuild")
    BY <1>9, LearnerAssumption DEF RebuildRow, TypeOK, Ops, At
  <2>2. PICK r \in RowsRead(row) : tables' = [tables EXCEPT ![row] = r]
    BY <1>9 DEF RebuildRow
  <2>3. r \in Row /\ \A j \in Ops : before[row][j] <= r.finds[j] /\ r.finds[j] <= trans[row][j]
    BY <2>1, RowsReadBetween
  <2>4. \A i \in Ops : tables'[i] = IF i = row THEN r ELSE tables[i]
    BY <2>2 DEF TypeOK
  <2>5. \A i, j \in Ops : tables'[i].finds[j] <= trans'[i][j]
    BY <2>1, <2>3, <2>4 DEF Forward
  <2>6. \A i \in Ops : i >= row' => i >= row /\ i # row
    BY <2>1 DEF Ops
  <2>7. \A i, j \in Ops : /\ before'[i][j] <= trans'[i][j]
                          /\ i >= row' => tables'[i].finds[j] <= before'[i][j]
    BY <2>1, <2>4, <2>6 DEF Forward
  <2> QED
    BY <1>1, <2>5, <2>7 DEF Forward
<1>10. ASSUME NEW c \in Callers, RebuildEnd(c) PROVE Forward'
  <2>1. UNCHANGED <<trans, tables>> /\ c \in At("rebuild") /\ Goto(c, "out")
    BY <1>10 DEF RebuildEnd, Return, At
  <2>2. At("rebuild")' = {}
    <3>1. At("rebuild")' = At("rebuild") \ {c}
      BY <2>1, AtMoves DEF TypeOK
    <3>2. \A d \in At("rebuild") : d = c
      BY <2>1 DEF Forward, OneRebuilds
    <3> QED
      BY <3>1, <3>2
  <2> QED
    BY <1>1, <2>1, <2>2 DEF Forward
<1>11. CASE UNCHANGED vars
  BY <1>2, <1>11 DEF vars, tableVars, At
<1> QED
  BY <1>4, <1>5, <1>6, <1>7, <1>8, <1>9, <1>10, <1>11 DEF Next

\* Only the row that is rebuilt changes, to counters read no earlier than any before.
LEMMA AdvanceStep ==
  ASSUME TypeOK, Forward, [Next]_vars
  PROVE  \A i, j \in Ops : tables'[i].finds[j] >= tables[i].finds[j]
<1>1. \A i, j \in Ops : tables[i].finds[j] \in Nat
  BY DEF TypeOK, Row
<1>2. CASE tables' = tables
  BY <1>1, <1>2
<1>3. ASSUME NEW c \in Callers, RebuildRow(c)
      PROVE  \A i, j \in Ops : tables'[i].finds[j] >= tables[i].finds[j]
  <2>1. row \in Ops /\ c \in At("rebuild")
    BY <1>3, LearnerAssumption DEF RebuildRow, TypeOK, Ops, At
  <2>2. PICK r \in RowsRead(row) : tables' = [tables EXCEPT ![row] = r]
    BY <1>3 DEF RebuildRow
  <2>3. r \in Row /\ \A j \in Ops : before[row][j] <= r.finds[j]
    BY <2>1, RowsReadBetween
  <2>4. \A j \in Ops : tables[row].finds[j] <= before[row][j] /\ before[row][j] \in Nat
    <3>1. row >= row
      BY <2>1 DEF Ops
    <3>2. \A j \in Ops : tables[row].finds[j] <= before[row][j]
      BY <2>1, <3>1 DEF Forward
    <3>3. \A j \in Ops : before[row][j] \in Nat
      BY <2>1 DEF TypeOK, Counts
    <3> QED
      BY <3>2, <3>3
  <2>5. \A j \in Ops : r.finds[j] \in Nat
    BY <2>3 DEF Row
  <2>6. \A i \in Ops : tables'[i] = IF i = row THEN r ELSE tables[i]
    BY <2>2 DEF TypeOK
  <2>7. \A j \in Ops : r.finds[j] >= tables[row].finds[j]
    BY <1>1, <2>1, <2>3, <2>4, <2>5
  <2> QED
    BY <1>1, <2>6, <2>7
<1> QED
  BY <1>2, <1>3
     DEF Next, Enter, UpdateWindow, UpdateMOpt, Count, Record, Reset, RebuildBegin, RebuildEnd,
         vars, tableVars

\* Rebuilds by any number of callers, one at a time, never take a find back.
THEOREM TablesAdvance == Spec => TablesOnlyAdvance
<1>1. TypeOK /\ Forward /\ [Next]_vars
        => [\A i, j \in Ops : tables'[i].finds[j] >= tables[i].finds[j]]_vars
  BY AdvanceStep
<1>2. Spec => []Forward
  BY HandsInvariant, ForwardInit, ForwardStep, PTL DEF Spec
<1> QED
  BY <1>1, <1>2, HandsInvariant, PTL DEF Spec, TablesOnlyAdvance

-----------------------------------------------------------------------------
(* Tables that follow.                                                     *)

\* How many are about to count changes with a caller that joins or leaves them.
LEMMA CountingMoves ==
  ASSUME TypeOK, NEW c \in Callers, NEW l \in Locations, Goto(c, l), pc[c] # l
  PROVE  /\ l = "count" => Cardinality(At("count"))' = Cardinality(At("count")) + 1
         /\ pc[c] = "count" => Cardinality(At("count")) = Cardinality(At("count"))' + 1
         /\ l # "count" /\ pc[c] # "count" =>
              Cardinality(At("count"))' = Cardinality(At("count"))
         /\ Cardinality(At("count")) \in Nat /\ Cardinality(At("count"))' \in Nat
<1> USE Places
<1>1. At("count") \in SUBSET Callers /\ (c \in At("count") <=> pc[c] = "count")
  BY DEF At
<1>2. At("count")' = IF l = "count" THEN At("count") \cup {c} ELSE At("count") \ {c}
  BY AtMoves DEF TypeOK
<1>3. At("count")' \in SUBSET Callers
  BY <1>1, <1>2
<1>4. Cardinality(At("count")) \in Nat /\ Cardinality(At("count"))' \in Nat
  BY <1>1, <1>3, CallersFinite
<1>5. CASE l = "count"
  BY <1>1, <1>2, <1>4, <1>5, CallerJoins
<1>6. CASE pc[c] = "count"
  BY <1>1, <1>2, <1>4, <1>6, CallerLeaves
<1>7. CASE l # "count" /\ pc[c] # "count"
  <2>1. At("count")' = At("count")
    BY <1>1, <1>2, <1>7
  <2> QED
    BY <1>4, <1>7, <2>1
<1> QED
  BY <1>4, <1>5, <1>6, <1>7

\* Nothing is missing at the start.
LEMMA BehindInit == Init => Behind
<1> SUFFICES ASSUME Init PROVE Behind
  OBVIOUS
<1>1. At("rebuild") = {} /\ At("count") = {}
  BY DEF Init, At
<1>2. Cardinality(At("count")) = 0
  BY <1>1, FS_EmptySet
<1> QED
  BY <1>1, <1>2 DEF Behind, OneRebuilds, Promised, Init

\* Every step keeps what is missing within what is counted.
LEMMA BehindStep ==
  ASSUME TypeOK, Behind, [Next]_vars
  PROVE  Behind'
<1> USE Places
<1> DEFINE n == Cardinality(At("count"))
<1>1. OneRebuilds'
  BY OneRebuildsStep DEF Behind
<1>2. /\ recorded \in Nat /\ since \in Nat /\ begun \in Nat /\ covered \in Nat
      /\ Promised \in Nat
  BY DEF TypeOK, Promised
<1>3. ASSUME UNCHANGED <<recorded, since, begun, covered, pc>> PROVE Behind'
  BY <1>1, <1>3 DEF Behind, Promised, At
\* A step from one place to another, of those where nothing is counted.
<1>4. ASSUME NEW c \in Callers, NEW l \in {"out", "window", "mopt", "markov"}, Goto(c, l),
             pc[c] \in {"out", "window", "mopt", "markov"}, pc[c] # l,
             UNCHANGED <<recorded, since, begun, covered>>
      PROVE  Behind'
  <2>1. n' = n
    BY <1>4, CountingMoves
  <2>2. At("lock")' = At("lock") /\ At("rebuild")' = At("rebuild")
    BY <1>4 DEF Goto, At, TypeOK
  <2> QED
    BY <1>1, <1>4, <2>1, <2>2 DEF Behind, Promised
<1>5. ASSUME NEW c \in Callers, NEW t \in Tasks, Enter(c, t) PROVE Behind'
  BY <1>4, <1>5 DEF Enter, tableVars, triggerVars
<1>6. ASSUME NEW c \in Callers, NEW e \in BOOLEAN, UpdateWindow(c, e) \/ UpdateMOpt(c, e)
      PROVE  Behind'
  BY <1>4, <1>6 DEF UpdateWindow, UpdateMOpt, Return, tableVars, triggerVars
<1>7. ASSUME NEW c \in Callers, NEW seq \in OpSequences, Record(c, seq) PROVE Behind'
  <2>1. /\ Goto(c, "count") /\ pc[c] = "markov" /\ recorded' = recorded + 1
        /\ since' = since /\ begun' = begun /\ covered' = covered
    BY <1>7 DEF Record, tableVars, triggerVars
  <2>2. n' = n + 1 /\ n \in Nat
    BY <2>1, CountingMoves
  <2>3. At("lock")' = At("lock") /\ At("rebuild")' = At("rebuild")
    BY <2>1 DEF Goto, At, TypeOK
  <2>4. Promised' = Promised
    BY <2>1, <2>3 DEF Promised
  <2> HIDE DEF n
  <2>5. At("lock") = {} => recorded <= Promised + since + n
    BY DEF Behind, n
  <2>6. At("lock")' = {} => recorded' <= Promised' + since' + n'
    BY <1>2, <2>1, <2>2, <2>3, <2>4, <2>5
  <2> QED
    BY <1>1, <2>6 DEF Behind, n
<1>8. ASSUME NEW c \in Callers, NEW e \in BOOLEAN, Count(c, e) PROVE Behind'
  <2>1. PICK l \in {"reset", "out"} : Goto(c, l)
    BY <1>8 DEF Count, Return
  <2>2. /\ pc[c] = "count" /\ since' = since + 1 /\ recorded' = recorded
        /\ begun' = begun /\ covered' = covered
    BY <1>8 DEF Count, tableVars
  <2>3. n = n' + 1 /\ n' \in Nat
    BY <2>1, <2>2, CountingMoves
  <2>4. At("lock")' = At("lock") /\ At("rebuild")' = At("rebuild")
    BY <2>1, <2>2 DEF Goto, At, TypeOK
  <2>5. Promised' = Promised
    BY <2>2, <2>4 DEF Promised
  <2> HIDE DEF n
  <2>6. At("lock") = {} => recorded <= Promised + since + n
    BY DEF Behind, n
  <2>7. At("lock")' = {} => recorded' <= Promised' + since' + n'
    <3> SUFFICES ASSUME At("lock") = {} PROVE recorded <= Promised + (since + 1) + n'
      BY <2>2, <2>4, <2>5
    <3>1. recorded <= Promised + since + n
      BY <2>6
    <3>2. Promised + since + n = Promised + (since + 1) + n'
      BY <1>2, <2>3
    <3> QED
      BY <3>1, <3>2
  <2> QED
    BY <1>1, <2>7 DEF Behind, n
<1>9. ASSUME NEW c \in Callers, Reset(c) PROVE Behind'
  <2>1. At("lock")' = At("lock") \cup {c}
    BY <1>9, AtMoves DEF Reset, TypeOK
  <2> QED
    BY <1>1, <2>1 DEF Behind
<1>10. ASSUME NEW c \in Callers, RebuildBegin(c) PROVE Behind'
  <2>1. /\ Goto(c, "rebuild") /\ pc[c] = "lock" /\ recorded' = recorded /\ begun' = recorded
        /\ since' = since
    BY <1>10 DEF RebuildBegin, triggerVars
  <2>2. n' \in Nat
    BY <2>1, CountingMoves
  <2>3. At("rebuild")' # {}
    <3>1. pc \in [Callers -> Locations]
      BY DEF TypeOK
    <3>2. At("rebuild")' = At("rebuild") \cup {c}
      BY <2>1, <3>1, AtMoves
    <3> QED
      BY <3>2
  <2>4. Promised' = recorded
    BY <2>1, <2>3 DEF Promised
  <2> QED
    BY <1>1, <1>2, <2>1, <2>2, <2>4 DEF Behind
<1>11. ASSUME NEW c \in Callers, RebuildRow(c) PROVE Behind'
  BY <1>3, <1>11 DEF RebuildRow, triggerVars
<1>12. ASSUME NEW c \in Callers, RebuildEnd(c) PROVE Behind'
  <2>1. /\ Goto(c, "out") /\ pc[c] = "rebuild" /\ recorded' = recorded /\ covered' = begun
        /\ since' = since
    BY <1>12 DEF RebuildEnd, Return, triggerVars
  <2>2. n' = n
    BY <2>1, CountingMoves
  <2>3. At("lock")' = At("lock") /\ c \in At("rebuild")
    BY <2>1 DEF Goto, At, TypeOK
  <2>4. At("rebuild")' = {}
    <3>1. At("rebuild")' = At("rebuild") \ {c}
      BY <2>1, AtMoves DEF TypeOK
    <3>2. \A d \in At("rebuild") : d = c
      BY <2>3 DEF Behind, OneRebuilds
    <3> QED
      BY <3>1, <3>2
  <2>5. Promised' = Promised
    BY <2>1, <2>3, <2>4 DEF Promised
  <2> QED
    BY <1>1, <2>1, <2>2, <2>3, <2>5 DEF Behind
<1>13. CASE UNCHANGED vars
  BY <1>3, <1>13 DEF vars, tableVars, triggerVars
<1> HIDE DEF n
<1> QED
  BY <1>5, <1>6, <1>7, <1>8, <1>9, <1>10, <1>11, <1>12, <1>13 DEF Next

\* However many callers reset since_update_, no result is lost for the next rebuild.
THEOREM NoResultForgotten == Spec => []TablesFollow
<1>1. ASSUME TypeOK, Behind PROVE TablesFollow
  <2>1. Cardinality(At("count")) \in Nat
    BY CallersFinite DEF At
  <2>2. At("lock") \cup At("rebuild") = {} =>
          recorded <= covered + since + Cardinality(At("count"))
    BY <1>1 DEF Behind, Promised
  <2>3. recorded \in Nat /\ covered \in Nat /\ since \in Nat
    BY <1>1 DEF TypeOK
  <2> QED
    BY <2>1, <2>2, <2>3 DEF TablesFollow
<1>2. TypeOK /\ Behind => TablesFollow
  BY <1>1
<1> QED
  BY <1>2, HandsInvariant, BehindInit, BehindStep, PTL DEF Spec

-----------------------------------------------------------------------------
(* Rebuilds that are paid for.                                             *)

\* When the counter is reset, the results it shows pay for the triggers it made.
LEMMA ResetPays ==
  ASSUME NEW k \in Nat, NEW least \in Nat, NEW f \in Nat, NEW s \in Nat,
         f <= k, f > 0 => least <= s
  PROVE  least * f <= k * s
<1>1. CASE f = 0
  BY <1>1
<1>2. CASE f > 0
  <2>1. least * f <= least * k
    BY SMT
  <2>2. least * k <= s * k
    BY <1>2
  <2> QED
    BY <2>1, <2>2
<1> QED
  BY <1>1, <1>2

\* The numbers of the invariant.
LEMMA PaidTypes ==
  ASSUME TypeOK, fresh \in SUBSET Callers
  PROVE  /\ Cardinality(Callers) \in Nat /\ Least \in Nat
         /\ IsFiniteSet(fresh) /\ Cardinality(fresh) \in Nat
         /\ Cardinality(fresh) <= Cardinality(Callers)
         /\ Cardinality(fresh) > 0 => fresh # {}
<1>1. Least \in Nat
  BY LearnerAssumption DEF Least
<1> QED
  BY <1>1, CallersFinite, FS_EmptySet

\* What the counter shows covers the triggers it made.
LEMMA PaidNow ==
  ASSUME TypeOK, Paid
  PROVE  Least * Cardinality(fresh) <= Cardinality(Callers) * since
<1>1. fresh \in SUBSET Callers /\ since \in Nat
  BY DEF TypeOK
<1>2. Cardinality(fresh) > 0 => Least <= since
  BY <1>1, PaidTypes DEF Paid
<1> QED
  BY <1>1, <1>2, PaidTypes, ResetPays

\* Every step keeps the triggers paid for.
LEMMA PaidStep ==
  ASSUME TypeOK, Paid, [Next]_vars
  PROVE  Paid'
<1> USE Places
<1> DEFINE k == Cardinality(Callers)
           f == Cardinality(fresh)
<1>1. /\ k \in Nat /\ Least \in Nat /\ f \in Nat /\ IsFiniteSet(fresh)
      /\ since \in Nat /\ counted \in Nat /\ triggers \in Nat
  BY PaidTypes DEF TypeOK
<1>2. triggers * Least + k * since <= k * counted + Least * f
  BY DEF Paid
<1>3. ASSUME UNCHANGED triggerVars, fresh \subseteq At("reset")' PROVE Paid'
  BY <1>3 DEF Paid, triggerVars, Least
<1>4. ASSUME NEW c \in Callers, NEW l \in Locations, Goto(c, l), pc[c] # "reset",
             UNCHANGED triggerVars
      PROVE  Paid'
  <2>1. c \notin At("reset") /\ fresh \subseteq At("reset")
    BY <1>4 DEF At, Paid
  <2>2. At("reset") \subseteq At("reset")'
    BY <1>4, <2>1, AtMoves DEF TypeOK
  <2> QED
    BY <1>3, <1>4, <2>1, <2>2
<1>5. ASSUME NEW c \in Callers, NEW t \in Tasks, Enter(c, t) PROVE Paid'
  BY <1>4, <1>5 DEF Enter
<1>6. ASSUME NEW c \in Callers, NEW e \in BOOLEAN, UpdateWindow(c, e) \/ UpdateMOpt(c, e)
      PROVE  Paid'
  BY <1>4, <1>6 DEF UpdateWindow, UpdateMOpt, Return
<1>7. ASSUME NEW c \in Callers, NEW seq \in OpSequences, Record(c, seq) PROVE Paid'
  BY <1>4, <1>7 DEF Record
<1>8. ASSUME NEW c \in Callers, RebuildBegin(c) \/ RebuildEnd(c) PROVE Paid'
  BY <1>4, <1>8 DEF RebuildBegin, RebuildEnd, Return
<1>9. CASE UNCHANGED <<triggerVars, pc>>
  BY <1>3, <1>9 DEF Paid, At
<1>10. ASSUME NEW c \in Callers, NEW e \in BOOLEAN, Count(c, e) PROVE Paid'
  <2>1. pc[c] = "count" /\ since' = since + 1 /\ counted' = counted + 1 /\ c \notin fresh
    BY <1>10 DEF Count, Paid, At
  <2>2. k * since' = k * since + k /\ k * counted' = k * counted + k
    <3> HIDE DEF k, f
    <3> QED
      BY <1>1, <2>1
  <2>3. CASE Due(since + 1, AliasInterval, MarkovMin, e)
             /\ triggers' = triggers + 1 /\ fresh' = fresh \cup {c} /\ Goto(c, "reset")
    <3>1. Least <= since'
      BY <1>1, <2>1, <2>3, LearnerAssumption DEF Due, Least
    <3>2. fresh' \subseteq At("reset")'
      <4>1. At("reset")' = At("reset") \cup {c}
        BY <2>3, AtMoves DEF TypeOK
      <4> QED
        BY <2>3, <4>1 DEF Paid
    <3>3. f' = f + 1
      BY <2>1, <2>3, <1>1, FS_AddElement
    <3>4. triggers' * Least = triggers * Least + Least /\ Least * f' = Least * f + Least
      <4> HIDE DEF k, f, Least
      <4> QED
        BY <1>1, <2>3, <3>3
    <3>5. triggers' * Least + k * since' <= k * counted' + Least * f'
      <4> DEFINE a == triggers * Least
                 b == k * since
                 d == k * counted
                 g == Least * f
      <4>1. a \in Nat /\ b \in Nat /\ d \in Nat /\ g \in Nat
        BY <1>1
      <4>2. a + b <= d + g
        BY <1>2
      <4> HIDE DEF a, b, d, g
      <4>3. (a + Least) + (b + k) <= (d + k) + (g + Least)
        BY <1>1, <4>1, <4>2
      <4> QED
        BY <2>2, <3>4, <4>3 DEF a, b, d, g
    <3> QED
      BY <3>1, <3>2, <3>5 DEF Paid, Least
  <2>4. CASE UNCHANGED <<triggers, fresh>> /\ Goto(c, "out")
    <3>1. fresh' \subseteq At("reset")'
      <4>1. At("reset")' = At("reset") \ {c}
        <5>1. pc \in [Callers -> Locations] /\ "reset" \in Locations \ {"out"}
          BY DEF TypeOK
        <5> QED
          BY <2>4, <5>1, AtMoves
      <4> QED
        BY <2>1, <2>4, <4>1 DEF Paid
    <3>2. fresh' # {} => Least <= since'
      BY <1>1, <2>1, <2>4 DEF Paid
    <3>3. triggers' * Least + k * since' <= k * counted' + Least * f'
      <4> DEFINE a == triggers * Least
                 b == k * since
                 d == k * counted
                 g == Least * f
      <4>1. a \in Nat /\ b \in Nat /\ d \in Nat /\ g \in Nat
        BY <1>1
      <4>2. a + b <= d + g
        BY <1>2
      <4> HIDE DEF a, b, d, g
      <4>3. a + (b + k) <= (d + k) + g
        BY <1>1, <4>1, <4>2
      <4> QED
        BY <2>2, <2>4, <4>3 DEF a, b, d, g
    <3> QED
      BY <3>1, <3>2, <3>3 DEF Paid, Least
  <2> QED
    BY <1>10, <2>3, <2>4 DEF Count, Return
<1>11. ASSUME NEW c \in Callers, Reset(c) PROVE Paid'
  <2>1. since' = 0 /\ fresh' = {} /\ triggers' = triggers /\ counted' = counted
    BY <1>11 DEF Reset
  <2>2. f' = 0 /\ k * since' = 0 /\ Least * f' = 0
    BY <1>1, <2>1, FS_EmptySet
  <2>3. Least * f <= k * since
    BY PaidNow
  <2>4. triggers * Least <= k * counted
    <3> DEFINE a == triggers * Least
               b == k * since
               d == k * counted
               g == Least * f
    <3>1. a \in Nat /\ b \in Nat /\ d \in Nat /\ g \in Nat
      BY <1>1
    <3>2. a + b <= d + g /\ g <= b
      BY <1>2, <2>3
    <3> HIDE DEF a, b, d, g
    <3>3. a <= d
      BY <3>1, <3>2
    <3> QED
      BY <3>3 DEF a, d
  <2>5. triggers' * Least + k * since' <= k * counted' + Least * f'
    <3>1. triggers * Least \in Nat /\ k * counted \in Nat
      BY <1>1
    <3> QED
      BY <2>1, <2>2, <2>4, <3>1
  <2> QED
    BY <2>1, <2>5 DEF Paid, Least
<1>12. ASSUME NEW c \in Callers, RebuildRow(c) PROVE Paid'
  BY <1>9, <1>12 DEF RebuildRow
<1>13. CASE UNCHANGED vars
  BY <1>9, <1>13 DEF vars
<1> QED
  BY <1>5, <1>6, <1>7, <1>8, <1>10, <1>11, <1>12, <1>13 DEF Next

\* Nothing has triggered at the start.
LEMMA PaidInit == Init => Paid
<1> SUFFICES ASSUME Init PROVE Paid
  OBVIOUS
<1>1. /\ fresh = {} /\ Cardinality(fresh) = 0 /\ triggers = 0 /\ since = 0 /\ counted = 0
  BY FS_EmptySet DEF Init
<1>2. Cardinality(Callers) \in Nat /\ Least \in Nat
  BY CallersFinite, LearnerAssumption DEF Least
<1> QED
  BY <1>1, <1>2 DEF Paid

\* No storm of rebuilds: triggers are bounded by the results, for any number of callers.
THEOREM RebuildsArePaid == Spec => []RebuildsAreBacked
<1>1. ASSUME TypeOK, Paid PROVE RebuildsAreBacked
  <2> DEFINE a == triggers * Least
             b == Cardinality(Callers) * since
             d == Cardinality(Callers) * counted
             g == Least * Cardinality(fresh)
  <2>1. a \in Nat /\ b \in Nat /\ d \in Nat /\ g \in Nat
    BY <1>1, PaidTypes DEF TypeOK
  <2>2. a + b <= d + g /\ g <= b
    BY <1>1, PaidNow DEF Paid
  <2> HIDE DEF a, b, d, g
  <2>3. a <= d
    BY <2>1, <2>2
  <2> QED
    BY <2>3 DEF RebuildsAreBacked, a, d
<1>2. TypeOK /\ Paid => RebuildsAreBacked
  BY <1>1
<1> QED
  BY <1>2, HandsInvariant, PaidInit, PaidStep, PTL DEF Spec
=============================================================================
