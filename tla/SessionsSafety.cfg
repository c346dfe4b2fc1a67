\* Three clients arrive, leave and meet deletions in every order, racing for
\* the sessions of one file or of two.  Two slots per session, so the third
\* client of a file is refused.
SPECIFICATION MixedSpec
CONSTANTS
  c1 = c1
  c2 = c2
  c3 = c3
  f = f
  g = g
  h = h
  Null = Null
  Conns <- Conns3
  Files <- TwoPaths
  Prefixes <- MCPrefixes
  Unopenable = {}
  FILEMAX = 2
  CLIENTMAX = 2
SYMMETRY ConnSymmetry
CONSTRAINT LeavingBound
INVARIANTS TypeOK CountIsOccupancy OneOwnerPerSocket EpollWatchesClients SumClientExact RegistrySound
  MediaStopsBeforeFree NoOrphanSession DeletedSessionRanEmpty ViewersShareSession
PROPERTIES ImplementsClientLife
