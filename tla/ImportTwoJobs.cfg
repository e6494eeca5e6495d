CONSTANTS
  Jobs = {j1, j2}
  Workers = {w1, w2}
  Reconcilers = {r1}
  NoJob = NoJob
  NoWorker = NoWorker
  e1 = e1
  Entities = {e1}
  EntityOf <- SameEntity
  SlowWorkers = TRUE
  MaxAttempts = 2
  MaxMessages = 1
  Profiles <- Undisturbed
SPECIFICATION Spec
SYMMETRY Symmetric
INVARIANTS TypeOK OneDraftPerEntity
