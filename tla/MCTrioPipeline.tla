---------------------------- MODULE MCTrioPipeline ----------------------------
(***************************************************************************)
(* TrioPipeline on small instances.                                        *)
(***************************************************************************)
EXTENDS TrioPipeline

\* Every worker's thread id hashes to the first result queue ...
SharedQueue == [w \in Workers |-> 0]

\* ... or to the one the first explorer uses.
ExplorersQueue == [w \in Workers |-> NumWorkers]
===============================================================================
