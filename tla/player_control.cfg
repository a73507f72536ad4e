SPECIFICATION FairSpec
CONSTANTS
  AddressMax = 1
  NoWord = NoWord
  KeyCodes = {"E", "B", "D", "R"}
  MaxPending = 1
INVARIANTS
  TypeOK
  FlashInStep
  AnsweredSampleIsOfAddress
  IInv
  RestartIsApplied
PROPERTY
  EveryResetEnds
