\* Both programs, two clients that send up to two requests each.  The server may
\* have ended, and clients may have nothing left to send.
SPECIFICATION Spec
CONSTANTS
  c1 = c1
  c2 = c2
  Peers = {c1, c2}
  MaxSent = 2
  SeqMod = 4
  None = None
INVARIANTS TypeOK
PROPERTIES StreamIsNumbered RequestIsHandled
CHECK_DEADLOCK FALSE
