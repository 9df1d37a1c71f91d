SPECIFICATION Spec
CONSTANTS
  t1 = t1
  t2 = t2
  bug = bug
  flake = flake
  race = race
  hang = hang
  NoInput = NoInput
  Threads = {t1}
  Inputs = {race}
  Crashing = {}
  Flaky = {}
  Racy = {race}
  Hanging = {}
  EngineMayFault = TRUE
  CanFinish = FALSE
  Budget = 0
  HangLimit = 0
  GraceLimit = 0
  FastCrash = 10
  EscalateAfter = 3
  MaxRestarts = 0
  ReverifyEvery = 8
  ForkMayFail = FALSE
  VerdictLimit = 200000
  Terminable = FALSE
PROPERTY EngineFaultsNeverSerialize
