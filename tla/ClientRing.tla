----------------------------- MODULE ClientRing -----------------------------
(***************************************************************************)
(* One client slot (clientinfo_st) of session.c and the data path through  *)
(* it: the media thread's sendData fills the slot's rings, the epoll       *)
(* thread pops a packet into its local node and sends it after it dropped  *)
(* the locks, so that sendData runs between a pop and its send.  Both      *)
(* sides hold session->mut around what is one action here.                 *)
(***************************************************************************)
EXTENDS PacketRing

CONSTANTS
  Video,      \* the packets of the video track
  Audio,      \* the packets of the audio track
  NoPacket,   \* node.size == 0
  MaxPackets  \* bound on the packets of both rings together

ASSUME ClientAssumption ==
  /\ Packets = Video \cup Audio
  /\ Video \cap Audio = {}
  /\ NoPacket \notin Packets
  /\ MaxPackets \in Nat

Tracks == {"video", "audio"}

VARIABLES
  transport,  \* clientinfo.transport; "none" is sd == -1, a free slot
  tracks,     \* video: sig_0 or client_rtp_port set; audio: sig_2 or client_rtp_port_1
  ring,       \* packet_list and its indexes
  ring_1,     \* packet_list_1 and its indexes
  node,       \* the packet epollLoop copied out and has not sent yet
  stalled     \* the socket takes nothing more, or a send blocks the epoll thread

vars == <<transport, tracks, ring, ring_1, node, stalled>>

-----------------------------------------------------------------------------
(* initClient: the counters and pointers of a fresh slot.                  *)
Init ==
  /\ transport = "none" /\ tracks = {}
  /\ ring = NoRing /\ ring_1 = NoRing
  /\ node = NoPacket /\ stalled = FALSE

(* addClient and addSession fill a free slot.                              *)
AddClient(tr, ts) ==
  /\ transport = "none"
  /\ transport' = tr /\ tracks' = ts
  /\ ring' = Allocated(ring) /\ ring_1' = Allocated(ring_1)
  /\ UNCHANGED <<node, stalled>>

(* sendData: first both rings get room, whichever one the packet is for;   *)
(* then a packet of a track that was set up is appended to its ring.       *)
UsesRing1(p) == p \in Audio /\ transport = "udp"

\* Slip: any SETUP will do for either track.
Wanted_AnyTrack(p) == tracks # {}

Wanted(p) == \/ p \in Video /\ "video" \in tracks
             \/ p \in Audio /\ "audio" \in tracks

SendData(p) ==
  /\ transport # "none"
  /\ ring.num + ring_1.num < MaxPackets
  /\ ring' = IF Wanted(p) /\ ~UsesRing1(p) THEN Put(Grown(ring), p) ELSE Grown(ring)
  /\ ring_1' = IF Wanted(p) /\ UsesRing1(p) THEN Put(Grown(ring_1), p) ELSE Grown(ring_1)
  /\ UNCHANGED <<transport, tracks, node, stalled>>

(* epollLoop serves a ready descriptor: the TCP socket or the video UDP    *)
(* socket pops packet_list, the audio UDP socket pops packet_list_1.       *)
PopTcp ==
  /\ transport = "tcp" /\ tracks # {}
  /\ ~stalled /\ node = NoPacket /\ CanTake(ring)
  /\ node' = First(ring) /\ ring' = Taken(ring)
  /\ UNCHANGED <<transport, tracks, ring_1, stalled>>

PopUdpVideo ==
  /\ transport = "udp" /\ "video" \in tracks
  /\ ~stalled /\ node = NoPacket /\ CanTake(ring)
  /\ node' = First(ring) /\ ring' = Taken(ring)
  /\ UNCHANGED <<transport, tracks, ring_1, stalled>>

PopUdpAudio ==
  /\ transport = "udp" /\ "audio" \in tracks
  /\ ~stalled /\ node = NoPacket /\ CanTake(ring_1)
  /\ node' = First(ring_1) /\ ring_1' = Taken(ring_1)
  /\ UNCHANGED <<transport, tracks, ring, stalled>>

(* The unlocked rtpSend...Frame call succeeds.                             *)
SendNode ==
  /\ ~stalled /\ node # NoPacket /\ node' = NoPacket
  /\ UNCHANGED <<transport, tracks, ring, ring_1, stalled>>

(* clearClient frees a ring and zeroes its counters.                       *)
Cleared(r) == [list |-> <<>>, size |-> 0, pos_list |-> 0, num |-> 0, pos_last |-> 0]

(* clearClient: after a failed send, or in delSession's loop over slots.   *)
ClearClient ==
  /\ transport # "none" /\ transport' = "none" /\ tracks' = {}
  /\ ring' = Cleared(ring) /\ ring_1' = Cleared(ring_1)
  /\ node' = NoPacket /\ UNCHANGED stalled

(* The peers and their networks.  Sockets are blocking and one thread      *)
(* serves them all: a peer that stays and does not read fills its socket,  *)
(* which then is not writable, or keeps the thread in a send, this         *)
(* client's or another's.  It may go on reading later, or never.           *)
Stall == stalled' = ~stalled /\ UNCHANGED <<transport, tracks, ring, ring_1, node>>

Next ==
  \/ \E tr \in {"tcp", "udp"}, ts \in SUBSET Tracks : AddClient(tr, ts)
  \/ \E p \in Packets : SendData(p)
  \/ PopTcp \/ PopUdpVideo \/ PopUdpAudio
  \/ SendNode \/ ClearClient \/ Stall

Spec == Init /\ [][Next]_vars

(* Every round of epollLoop walks all ready descriptors, and a socket with *)
(* room keeps it until the next send: if the thread and the socket are     *)
(* free again and again, a descriptor with packets is served again and     *)
(* again and a send gets through.  Nothing is owed while they stay stalled.*)
Fairness ==
  /\ SF_vars(PopTcp) /\ SF_vars(PopUdpVideo) /\ SF_vars(PopUdpAudio)
  /\ SF_vars(SendNode)

FairSpec == Spec /\ Fairness

-----------------------------------------------------------------------------
(* A slot in use has two well-formed rings: the tail index that sendData   *)
(* writes through and the head index that epollLoop reads through agree    *)
(* with the count after any mix of wraps and growths, and everything       *)
(* between them was written; a free slot owns no ring memory.              *)
RingsOK ==
  IF transport = "none"
  THEN ring = NoRing /\ ring_1 = NoRing
  ELSE RingOK(ring) /\ RingOK(ring_1)

(* The type invariant of the slot.                                         *)
TypeOK ==
  /\ transport \in {"none", "tcp", "udp"}
  /\ tracks \subseteq Tracks
  /\ node \in Packets \cup {NoPacket} /\ stalled \in BOOLEAN
  /\ IsRing(ring) /\ IsRing(ring_1)

(* A slot serves only what its client set up: a packet of the other track, *)
(* or of the slot's previous client, is never queued, and the audio ring   *)
(* of a TCP client stays empty although sendData grows it.                 *)
OnlySetupTracks ==
  /\ \A i \in DOMAIN Contents(ring) :
       \/ Contents(ring)[i] \in Video /\ "video" \in tracks
       \/ Contents(ring)[i] \in Audio /\ "audio" \in tracks /\ transport = "tcp"
  /\ \A i \in DOMAIN Contents(ring_1) :
       Contents(ring_1)[i] \in Audio /\ "audio" \in tracks /\ transport = "udp"

(* The rings implement the queues of ClientQueue: growing, wrapping and    *)
(* reusing the memory never loses, repeats or reorders a packet.           *)
CQ == INSTANCE ClientQueue WITH queue <- Contents(ring), queue_1 <- Contents(ring_1)

ImplementsQueue == CQ!Spec

(* A queued packet is not forgotten: while its client stays, the epoll     *)
(* thread gets round to this very packet, over growths and wraps of its    *)
(* ring and in turn with the other ring, unless a peer that does not read  *)
(* stalls the socket or the thread for good.                               *)
Queued(p) ==
  \/ \E i \in DOMAIN Contents(ring) : Contents(ring)[i] = p
  \/ \E i \in DOMAIN Contents(ring_1) : Contents(ring_1)[i] = p

QueuedIsServed ==
  \A p \in Packets : Queued(p) ~> (node = p \/ transport = "none" \/ []stalled)

=============================================================================
