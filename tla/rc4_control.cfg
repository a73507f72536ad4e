SPECIFICATION Spec
CONSTANTS
  N = 4
  L = 2
  Keys <- MCKeys
  Encrypted <- MCEncrypted
  ByteXor <- MCXor
INVARIANTS
  TypeOK
  EngineOwnsMemory
  IdentityWhenShuffleStarts
  ReadsSeeAddressedCell
  PermutationBetweenSwaps
  IInv
PROPERTY ImplementsRC4
