SPECIFICATION SightingSpec
CONSTANTS
  c1 = c1 k1 = k1 a = a i1 = i1
  Installations = {i1}
  Controllers = {c1}
  ControllerKeys = {k1, k2}
  Clients = {a}
  Residents <- TheHome
  Environments = {production}
  Devices = {d1}
  Joins = {}
  Threads = {r1}
  Tasks = {n1}
  NoRow = NoRow
  Boards = {x}
  Reporters = {p1, p2}
  Skew = 1
  Window = 2
  LockWait = 1
  MaxTime = 2
  MaxEdits = 1
SYMMETRY Symmetric
INVARIANTS AlertedOncePerWindow WindowInv
PROPERTIES AcceptedOnce
CHECK_DEADLOCK FALSE
