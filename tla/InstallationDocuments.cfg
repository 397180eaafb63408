SPECIFICATION Spec
CONSTANTS
  a = a b = b i1 = i1
  small = small large = large huge = huge vast = vast x = x y = y
  Installations = {i1}
  Controllers = {}
  ControllerKeys = {}
  Clients = {a, b}
  Residents <- TheHome
  DocumentKeys = {x, y}
  Interests <- Both
  Stored <- Beside
  Payloads = {small, large, huge, vast}
  Size <- Sizes
  MaxDocumentBytes = 3
  MaxInstallationBytes = 4
  Threads = {r1, r2}
  NoRow = NoRow
  MaxEvents = 5
  MaxEdits = 1
SYMMETRY Symmetric
INVARIANTS DocumentInv StorageBounded AnswerCovered
PROPERTIES NoLostUpdate
CHECK_DEADLOCK FALSE
