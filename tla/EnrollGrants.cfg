SPECIFICATION Spec
CONSTANTS
  c1 = c1 c2 = c2 k1 = k1 k2 = k2 kx = kx t1 = t1 t2 = t2 s1 = s1 s2 = s2
  Installations = {i1, i2}
  Controllers = {c1, c2}
  ControllerKeys = {k1, k2, kx}
  Clients = {a}
  Tags = {t1, t2, s1, s2}
  SyntheticTag <- MCSyntheticTag
  HeldKeys = {k1, k2}
  Presented <- TwoControllers
  Registered <- OnlySecond
  Threads = {r1, r2}
  Grants = {g1}
  Challenges = {h1, h2}
  NoRow = NoRow
  ChallengeLife = 1
  GrantLife = 1
  MaxTime = 1
  MaxEdits = 1
SYMMETRY Symmetric
INVARIANTS TypeOK SpentOnce
PROPERTIES EnrollsLiveMembers GrantSpentByAdmin
CHECK_DEADLOCK FALSE
