SPECIFICATION MCSpec
CONSTANTS
  BlockSize = 2
  BufSize = 6
  MaxLen = 9
  ByteBase = 2
  Rounds = 4
  InitSubkey <- MCInitSubkey
  InitSbox <- MCInitSbox
  XorWord <- MCXor
  Keys <- MCKeys
  ChunkSize = 6
  LengthSize = 2
  WordBase = 64
  MaxBytes = 20
  MaxLate = 6
  HashSize = 2
  MaxSaltSize = 3
  DefaultRound = 2
  MinRound = 1
  MaxRound = 4
  Settings <- MCSettings
  Passwords <- MCPasswords
INVARIANTS
  SameText
  RoundTrip
  PrefixOnly
  Inverts
  DigestOfMessage
  PreDigest
  BcryptRight
\* The programs stop when the message is decrypted, the block or the password
\* is checked.
CHECK_DEADLOCK FALSE
