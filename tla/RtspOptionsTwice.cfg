\* A client repeats OPTIONS.
SPECIFICATION Spec
CONSTANTS
  a = a
  b = b
  x = x
  m = m
  Pieces = {a, b, x, m}
  Names <- MCNames
  Existing <- MCExisting
  Broken <- MCBroken
  Uninit = Uninit
  Auth = TRUE
  None = None
INVARIANT NotFoundMeansMissing
