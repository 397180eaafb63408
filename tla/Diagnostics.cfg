SPECIFICATION Spec
CONSTANTS
  Sessions = {i1, i2}
  NoSession = NoSession
  Gone = Gone
  Lifetimes = {2, 3}
  MaxActive = 1
  MaxBuffered = 3
  MaxBatch = 2
  MaxPosts = 2
  Second = 2
  Limits = {1, 3}
  MaxLag = 1
  MaxLines = 5
  MaxTime = 4
INVARIANTS RateBounded BufferInv PollsEverything
CHECK_DEADLOCK FALSE
