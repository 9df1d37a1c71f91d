SPECIFICATION FairSpec
CONSTANTS
  t1 = t1
  t2 = t2
  bug = bug
  flake = flake
  race = race
  hang = hang
  NoInput = NoInput
  Threads = {t1}
  Inputs = {bug, hang}
  Crashing = {bug}
  Flaky = {}
  Racy = {}
  Hanging = {hang}
  EngineMayFault = FALSE
  CanFinish = FALSE
  Budget = 4
  HangLimit = 0
  GraceLimit = 0
  FastCrash = 1
  EscalateAfter = 1
  MaxRestarts = 2
  ReverifyEvery = 2
  ForkMayFail = TRUE
  VerdictLimit = 1
  Terminable = TRUE
PROPERTY BudgetIsKept
