SPECIFICATION ServiceSpec
CONSTANTS
  a = a b = b c1 = c1 i1 = i1 k1 = k1 c = c d = d
  x = x z = z full = full changed = changed
  Installations = {i1}
  Controllers = {c1}
  ControllerKeys = {k1}
  Clients = {a, b}
  Residents <- TheHome
  Challenges = {c, d}
  Bootstrapped = {c}
  Uploads <- TheUploads
  Queries <- TheQueries
  Pushes <- ThePushes
  Requests <- TheRequests
  Workloads <- TheWorkloads
  TicksPerSecond = 2
  TTL = 2
  SendTimeout = 1
  ProviderLifetime = 3
  MaxTime = 4
  MaxEdits = 2
  NoRow = NoRow
  NoToken = NoToken
INVARIANTS ServiceInv AnsweredIsStored LatestWithinSecond ProviderAccepts
PROPERTIES ServesAgain
CHECK_DEADLOCK FALSE
