--------------------------- MODULE MCCorpusManager ---------------------------
(***************************************************************************)
(* CorpusManager on small instances. za is a followed by zeros; a and b    *)
(* have one hash.                                                          *)
(***************************************************************************)
EXTENDS CorpusManager, TLC

CONSTANTS t1, t2, a, za, b, ha, hz

MCHashOf == [d \in Data |-> IF d = za THEN hz ELSE ha]
MCTrimmed == [d \in Data |-> IF d = za THEN a ELSE d]

\* The threads are alike.
ThreadSymmetry == Permutations(Threads)
=============================================================================
