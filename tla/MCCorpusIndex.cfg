SPECIFICATION Spec
CONSTANTS
  t1 = t1
  t2 = t2
  a = a
  za = za
  b = b
  ha = ha
  hz = hz
  Nobody = Nobody
  Optimizer = Optimizer
  Threads = {t1}
  Data = {a, za, b}
  Hashes = {ha, hz}
  HashOf <- MCHashOf
  Trimmed <- MCTrimmed
  HighWater = 4
  LowWater = 2
  MinCorpus = 1
  Target = 1
  MaxLoaded = 0
INVARIANT FindsSeedsByTheirHash
CHECK_DEADLOCK FALSE
