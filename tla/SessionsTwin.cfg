\* Two handlers scan before either adds its session.
SPECIFICATION Spec
CONSTANTS
  c1 = c1
  c2 = c2
  c3 = c3
  f = f
  g = g
  h = h
  Null = Null
  Conns <- Conns2
  Files <- SamePath
  Prefixes <- MCPrefixes
  FILEMAX = 1
  CLIENTMAX = 2
  Unopenable = {}
INVARIANT OneSessionPerFile
