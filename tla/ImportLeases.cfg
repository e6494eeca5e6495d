CONSTANTS
  Jobs = {j1}
  Workers = {w1, w2}
  Reconcilers = {r1, r2}
  NoJob = NoJob
  NoWorker = NoWorker
  e1 = e1
  Entities = {e1}
  EntityOf <- SameEntity
  SlowWorkers = FALSE
  MaxAttempts = 3
  MaxMessages = 2
  Profiles <- NoRetry
SPECIFICATION Spec
SYMMETRY Symmetric
INVARIANT OneWorkerPerJob
PROPERTY KeepsThePromise
