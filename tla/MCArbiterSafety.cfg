SPECIFICATION Spec
CONSTANTS
  t1 = t1
  t2 = t2
  bug = bug
  flake = flake
  race = race
  hang = hang
  NoInput = NoInput
  Threads = {t1, t2}
  Inputs = {bug, flake, race}
  Crashing = {bug}
  Flaky = {flake}
  Racy = {race}
  Hanging = {}
  EngineMayFault = TRUE
  CanFinish = TRUE
  Budget = 0
  HangLimit = 1
  GraceLimit = 0
  FastCrash = 1
  EscalateAfter = 2
  MaxRestarts = 0
  ReverifyEvery = 2
  ForkMayFail = FALSE
  VerdictLimit = 5
  Terminable = FALSE
SYMMETRY ThreadSymmetry
INVARIANT TypeOK
 
INVARIANT SavedReproduces
INVARIANT NegativesAreRechecked
INVARIANT SerializedHasNoRaces
PROPERTY BugsNeverSerialize
