SPECIFICATION MCSpec
CHECK_DEADLOCK FALSE
CONSTANTS
  NTargets = 2
  Registries = {pypi, testpypi}
  None = none
  MaxAttempts = 2
  NoReport = noreport
  Wheels <- MCWheels
  Policies <- MCPolicies
  Fetches <- MCFetches
  DistOf <- MCDist
  TagOf <- PureTags
  HashForm = "hex"
INVARIANTS SuccessMeansLive LiveIsPrefix OwnToken  VerdictExact Tightening
