---------------------------- MODULE MCCrashArbiter ----------------------------
(***************************************************************************)
(* CrashArbiter on small instances.                                        *)
(***************************************************************************)
EXTENDS CrashArbiter, TLC

CONSTANTS t1, t2, bug, flake, race, hang

\* The threads are alike.
ThreadSymmetry == Permutations(Threads)
===============================================================================
