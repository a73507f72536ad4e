SPECIFICATION Spec
CONSTANTS
  AddressMax = 1
  NoWord = NoWord
  KeyCodes = {"E", "B", "D", "F", "R"}
  MaxPending = 1
PROPERTY
  SecondByteWaits
