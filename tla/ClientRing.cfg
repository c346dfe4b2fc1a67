\* One packet of each track makes the order in a shared ring visible; rings that
\* start with 1 slot and grow by 2 wrap, fill and grow twice below 5 packets.
SPECIFICATION FairSpec
CONSTANTS
  v1 = v1
  a1 = a1
  Packets = {v1, a1}
  Video = {v1}
  Audio = {a1}
  Blank = Blank
  NoPacket = NoPacket
  InitSize = 1
  GrowStep = 2
  MaxPackets = 5
INVARIANTS TypeOK RingsOK OnlySetupTracks
PROPERTIES ImplementsQueue QueuedIsServed
