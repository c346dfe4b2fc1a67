\* A small directory, with names that run together and an empty name.
SPECIFICATION Spec
CONSTANTS
  a = a
  b = b
  x = x
  m = m
  Pieces = {a, b, x, m}
  Names <- MCNames
  Existing <- MCExisting
  Broken <- MCBroken
  Uninit = Uninit
  Auth = TRUE
  None = None
INVARIANTS TypeOK SocketHasOneOwner DescribedFileIsPlayed PlayedFileExists ReplyPrecedesRtp
