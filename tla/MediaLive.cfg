CONSTANTS
  Jobs = {j1}
  Workers = {w1, w2}
  Reconcilers = {r1}
  NoJob = NoJob
  Videos = {j1}
  ImageLimit = 1
  SlowWorkers = FALSE
  MaxAttempts = 3
  MaxMessages = 2
  Profiles <- Survivable
SPECIFICATION FairSpec
INVARIANTS JobAndAssetAgree CleanedIsGone
PROPERTIES ServedVariantsStay EveryUploadSettles UploadsKeepThePromise
