SPECIFICATION Spec
CONSTANTS
  c1 = c1 c2 = c2 k1 = k1 k2 = k2 a = a b = b i1 = i1 i2 = i2
  Installations = {i1, i2}
  Controllers = {c1, c2}
  ControllerKeys = {k1, k2}
  Clients = {a, b}
  Founders <- OneHome
  Threads = {r1, r2}
  Joins = {j1}
  Invitations = {v1}
  NoRow = NoRow
  JoinLife = 1
  InvitationLife = 1
  MaxTime = 1
  MaxEdits = 1
INVARIANTS OnboardingInv DecidedOnce
PROPERTIES AdmittedByAdmin KeepsPromise
SYMMETRY Symmetric
CHECK_DEADLOCK FALSE
