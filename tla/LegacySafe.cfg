CONSTANTS
  b1 = b1
  b2 = b2
  i1 = i1
  i2 = i2
  m1 = m1
  Jobs = {b1, b2}
  Workers = {w1, w2}
  Reconcilers = {r1}
  NoJob = NoJob
  NoWorker = NoWorker
  NoCard = NoCard
  Contents <- TwoBundles
  Topic <- OneTopic
  Doubtful = {}
  ManualCards = {}
  ManualTopic <- ManualTopics
  MaxActive = 2
  MaxAttempts = 2
  MaxMessages = 1
  Profiles <- SafeProfiles
SPECIFICATION Spec
INVARIANTS OneCardPerIdentity AppliedAsConfirmed NothingPublishedUnreviewed CompletedIsSettled
CHECK_DEADLOCK FALSE
SYMMETRY Symmetric
PROPERTIES BundlesKeepThePromise
