SPECIFICATION SteadySpec
CONSTANTS
  N = 4
  L = 4
  Keys <- MCKeys
  Encrypted <- MCEncrypted
  ByteXor <- MCXor
INVARIANT MessageDecrypted
PROPERTY EveryRunEnds
