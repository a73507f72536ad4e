SPECIFICATION FairSpec
CONSTANTS
  a = a
  b = b
  v1 = v1
  v2 = v2
  Side <- MCSide
  First = a
  NoData = NoData
  Partial = Partial
  Arguments <- MCArguments
  Result <- MCResult
INVARIANTS
  TypeOK
  RequestsAreKept
  AnswerIsForTheAsker
  OvertakenOnce
  IInv
PROPERTY
  EveryRequestEnds
