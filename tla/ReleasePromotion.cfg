SPECIFICATION Spec
CONSTANTS
  v1 = v1 v2 = v2 bytes = bytes changed = changed deploy = deploy
  Promotions <- TheReleases
  Workloads <- TheWorkloads
  Deploys = {deploy}
  MaxControllerReleases = 1
  MaxRuns = 2
  MaxStops = 1
  None = None
INVARIANTS PromotionInv
PROPERTIES ReleaseNeverChanges AloneIsAtomic
CHECK_DEADLOCK FALSE
