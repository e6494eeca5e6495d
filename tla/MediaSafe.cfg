CONSTANTS
  Jobs = {j1, j2}
  Workers = {w1, w2}
  Reconcilers = {r1}
  NoJob = NoJob
  Videos = {}
  ImageLimit = 1
  SlowWorkers = FALSE
  MaxAttempts = 2
  MaxMessages = 1
  Profiles <- Tended
SPECIFICATION Spec
SYMMETRY Symmetric
INVARIANTS WithinImageLimit
