SPECIFICATION FairSpec
CONSTANTS
  t1 = t1
  t2 = t2
  bug = bug
  flake = flake
  race = race
  hang = hang
  NoInput = NoInput
  Threads = {t1, t2}
  Inputs = {flake, hang}
  Crashing = {}
  Flaky = {flake}
  Racy = {}
  Hanging = {hang}
  EngineMayFault = FALSE
  CanFinish = TRUE
  Budget = 0
  HangLimit = 1
  GraceLimit = 2
  FastCrash = 1
  EscalateAfter = 1
  MaxRestarts = 0
  ReverifyEvery = 2
  ForkMayFail = FALSE
  VerdictLimit = 0
  Terminable = TRUE
PROPERTY CampaignSpec
PROPERTY TerminationObeyed
PROPERTY WedgedIsReplaced
PROPERTY CampaignGoesOn
