\* Fragments of 2 bytes: NALUs of 1 to 6 bytes are sent whole, in two to three
\* fragments, with a remainder and without; sequence numbers wrap at 4, rtp_len16
\* at 32; units of 22 bytes run over data.  It stops where behaviour is undefined.
SPECIFICATION FairSpec
CONSTANTS
  Media <- MCMedia
  Mtu = 2
  LenMod = 32
  DataMax = 21
  Stale = 256
  SeqSpace = 4
  MaxQueue = 2
  NoNode = NoNode
  Longest = 4
  LongestOfTwo = 2
INVARIANTS TypeOK  StreamIntact EveryNaluFound
PROPERTIES ReaderReturns
CHECK_DEADLOCK FALSE
