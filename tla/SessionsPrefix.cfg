\* The path of one request is a prefix of the path being played.
SPECIFICATION Spec
CONSTANTS
  c1 = c1
  c2 = c2
  c3 = c3
  f = f
  g = g
  h = h
  Null = Null
  Conns <- Conns2
  Files <- PrefixPaths
  Prefixes <- MCPrefixes
  FILEMAX = 2
  CLIENTMAX = 2
  Unopenable = {}
INVARIANT ClientGetsItsFile
