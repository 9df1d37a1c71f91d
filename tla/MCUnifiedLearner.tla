--------------------------- MODULE MCUnifiedLearner ---------------------------
(* An instance of UnifiedLearner for TLC.                                  *)
EXTENDS UnifiedLearner

CONSTANTS scheduler, explorer, havoc, moptArm, analysis

MCCallers == {scheduler, explorer}
MCArms == {havoc, moptArm, analysis}
MCMarkovArms == {havoc}
MCMOptArms == {moptArm}
MCOpSequences == {<<0, 1>>, <<0, 0, 2, 3>>}
=============================================================================
