SPECIFICATION Spec
CONSTANTS
  u1 = u1
  u2 = u2
  Users = {u1, u2}
  Watched = u1
  BufLen = 3
  Depth = 1
  ByteMod = 6
  MaxCount = 2
  JtagTimeouts = {2}
  LockTasks = {1, 2, 3}
  Nobody = Nobody
  MaxDepth = 2
  Alarms = {1, 2}
  TickMod = 5
  SongSize = 5
  Batch = 2
  FifoSize = 2
  Delay1 = 1
  Delay2 = 2
  FreqMax = 250
  FreqIncrement = 100
  Selections = {0, 3}
  Lab5Apps <- MCEnvApps
INVARIANT LockIsRecursive
CHECK_DEADLOCK FALSE
