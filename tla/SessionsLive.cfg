\* Two viewers of the same or of two files, one entry: the registry can be full.
\* The second may fail to open.  Under the fairness of the threads; no peer owes
\* the server any reading.
SPECIFICATION FairSpec
CONSTANTS
  c1 = c1
  c2 = c2
  c3 = c3
  f = f
  g = g
  h = h
  Null = Null
  Conns <- Conns2
  Files <- TwoPaths
  Prefixes <- MCPrefixes
  FILEMAX = 1
  CLIENTMAX = 2
  Unopenable <- OtherPath
PROPERTIES DeletionCompletes PlayCompletes GonePeerReleased EmptySessionDeleted
