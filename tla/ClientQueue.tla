----------------------------- MODULE ClientQueue -----------------------------
(***************************************************************************)
(* What a client slot of session.c promises its peer, free of rings and    *)
(* indexes: from its admission on, the packets of the tracks it set up     *)
(* reach it in the order the media thread produced them, none lost, none   *)
(* repeated and none invented, until the client is cleared.  RTP over TCP  *)
(* has one queue for both tracks; RTP over UDP has one per track, and only *)
(* the order within a track is promised.                                   *)
(***************************************************************************)
EXTENDS Integers, Sequences

CONSTANTS Video, Audio, NoPacket, MaxPackets

Tracks == {"video", "audio"}

VARIABLES
  transport,  \* "none" while the slot is free, else the client's transport
  tracks,     \* the tracks the client set up
  queue,      \* packets on their way: both tracks (TCP) or video (UDP)
  queue_1,    \* audio packets on their way (UDP)
  node        \* the packet being sent

vars == <<transport, tracks, queue, queue_1, node>>

TypeOK ==
  /\ transport \in {"none", "tcp", "udp"}
  /\ tracks \subseteq Tracks
  /\ queue \in Seq(Video \cup Audio)
  /\ queue_1 \in Seq(Audio)
  /\ node \in Video \cup Audio \cup {NoPacket}

Init ==
  /\ transport = "none" /\ tracks = {}
  /\ queue = <<>> /\ queue_1 = <<>> /\ node = NoPacket

Admit(tr, ts) ==
  /\ transport = "none"
  /\ transport' = tr /\ tracks' = ts
  /\ UNCHANGED <<queue, queue_1, node>>

(* A packet of a track the client did not set up is not queued for it.     *)
Produce(p) ==
  /\ transport # "none"
  /\ LET wanted == \/ p \in Video /\ "video" \in tracks
                   \/ p \in Audio /\ "audio" \in tracks
         second == p \in Audio /\ transport = "udp"
     IN /\ queue'   = IF wanted /\ ~second THEN Append(queue, p) ELSE queue
        /\ queue_1' = IF wanted /\ second THEN Append(queue_1, p) ELSE queue_1
  /\ UNCHANGED <<transport, tracks, node>>

Take ==
  /\ node = NoPacket /\ queue # <<>>
  /\ node' = Head(queue) /\ queue' = Tail(queue)
  /\ UNCHANGED <<transport, tracks, queue_1>>

Take_1 ==
  /\ node = NoPacket /\ queue_1 # <<>>
  /\ node' = Head(queue_1) /\ queue_1' = Tail(queue_1)
  /\ UNCHANGED <<transport, tracks, queue>>

Sent ==
  /\ node # NoPacket /\ node' = NoPacket
  /\ UNCHANGED <<transport, tracks, queue, queue_1>>

Leave ==
  /\ transport # "none" /\ transport' = "none" /\ tracks' = {}
  /\ queue' = <<>> /\ queue_1' = <<>> /\ node' = NoPacket

Next ==
  \/ \E tr \in {"tcp", "udp"}, ts \in SUBSET Tracks : Admit(tr, ts)
  \/ \E p \in Video \cup Audio : Produce(p)
  \/ Take \/ Take_1 \/ Sent \/ Leave

Spec == Init /\ [][Next]_vars

=============================================================================
