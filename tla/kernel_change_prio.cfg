SPECIFICATION Spec
CONSTANTS
  t1 = t1
  t2 = t2
  t3 = t3
  e1 = e1
  e2 = e2
  e3 = e3
  g1 = g1
  m1 = m1
  m2 = m2
  a = a
  b = b
  Tasks <- MCTasks
  Events <- MCEvents
  FlagGroups <- MCGroups
  Flags <- MCFlags
  Msgs <- MCMsgs
  Idle = Idle
  NoTask = NoTask
  Reserved = Reserved
  NoEvent = NoEvent
  NoMsg = NoMsg
  LowestPrio = 4
  MaxNesting = 1
  MaxLock = 1
  SemMax = 1
  QSize = 2
  OSMemNBlks = 3
  Timeouts = {0, 1}
  Delays = {1}
  Apps <- MCChangePrioApps
INVARIANT NoGhostWaiter
