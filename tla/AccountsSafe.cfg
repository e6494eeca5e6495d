CONSTANTS
  Users = {u1, u2}
  Clients = {c1}
  Requests = {r1, r2}
  Outdated = {u2}
  FailureLimit = 2
  Window = 2
  BlockTime = 2
  SessionTTL = 1
  RememberedTTL = 3
  MaxTime = 4
  RequestTime = 1
  RoleChoices <- Choices
  Profiles <- All
SPECIFICATION Spec
SYMMETRY Symmetric
INVARIANTS OneCurrentGrant EveryoneKeepsARole SessionsPostdateChanges FailuresStayBounded
PROPERTY AnAdministratorRemains
CHECK_DEADLOCK FALSE
