SPECIFICATION Spec
CONSTANTS
    scheduler = scheduler
    explorer = explorer
    Selectors <- MCSelectors
    Hashes <- MCHashes
    Energies <- MCEnergies
    MaxCycles = 5
    MaxFinds = 1
    MaxRestarts = 1
INVARIANT TypeOK
INVARIANT EnergyIsAccounted
INVARIANT WorkHasItsCycle
INVARIANT OnlyStopLeaksCycles
INVARIANT TotalsAgree
INVARIANT NoSeedStarves
PROPERTY LastEnergyCoversCycle
CHECK_DEADLOCK FALSE
