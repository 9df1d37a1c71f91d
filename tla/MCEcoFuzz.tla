------------------------------ MODULE MCEcoFuzz ------------------------------
(* An instance of EcoFuzz for TLC.                                         *)
EXTENDS EcoFuzz

CONSTANTS scheduler, explorer

MCSelectors == {scheduler, explorer}
MCHashes == {3, 7}
MCEnergies == [c \in CycleIds |-> IF c = 1 THEN {2} ELSE {1}]
=============================================================================
