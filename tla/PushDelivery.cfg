SPECIFICATION FairSpec
CONSTANTS
  c1 = c1 k1 = k1 a = a b = b i1 = i1
  Installations = {i1}
  Controllers = {c1}
  ControllerKeys = {k1}
  Clients = {a, b}
  Residents <- TheHome
  Environments = {production}
  Devices = {d1, d2}
  Joins = {j1}
  Threads = {r1, r2}
  Tasks = {n1}
  NoRow = NoRow
  MaxEdits = 1
INVARIANTS OneOwner EveryTokenTried
PROPERTIES AlertsEnd
CHECK_DEADLOCK FALSE
