----------------------------- MODULE MediaPath -----------------------------
(***************************************************************************)
(* The way of the media from the file to one interleaved (TCP) client:     *)
(* parseMp4SendDataThd reads the file over and over, splits the video's    *)
(* access units into NALUs and queues each for the client; epollLoop takes *)
(* the next unit and sends its RTP packets one by one.  The client, which  *)
(* has set up both tracks, may come, fail and come again at any point; it  *)
(* is in a slot that mediaCallBack's loop reaches (see Sessions).  The     *)
(* client's ring is the queue that ClientRing shows it to be; pacing and   *)
(* run_flag are left out (the life of the media thread is in Sessions).    *)
(***************************************************************************)
EXTENDS AnnexB, RtpPackets, SequencesExt

CONSTANTS
  Media,       \* the files: records of codecs and packets, see IsFile
  SeqSpace,    \* 2^16, the RTP sequence numbers
  DataMax,     \* 2 MiB, the size of MediaPacket_st.data
  MaxQueue,    \* bound: no access unit is read while so much is queued
  NoNode       \* node.size == 0

Units == [code : {3, 4}, nalu : Seq(0 .. 255)]
VideoPackets == [stream : {"video"}, units : Seq(Units)]
AudioPackets == [stream : {"audio"}, data : Seq(0 .. 255)]

(* External: what ffmpeg and the codecs guarantee.  A packet is not empty, *)
(* and an H.264 or H.265 NALU is clean and of a type of its own (not a     *)
(* fragment).  Nothing bounds a unit, and a stream may have a codec the    *)
(* server does not know ("none", VIDEO_NONE and AUDIO_NONE).               *)
IsUnit(codec, u) == codec # "none" => Clean(u.nalu) /\ ~IsFu(codec, u.nalu)

IsVideo(codec, p) ==
  p.stream = "video" /\ p.units # <<>> /\ \A k \in DOMAIN p.units : IsUnit(codec, p.units[k])

IsAudio(p) == p.stream = "audio" /\ p.data # <<>>

IsFile(m) ==
  /\ m.video \in {"h264", "h265", "none"} /\ m.audio \in {"aac", "pcma", "none"}
  /\ m.packets \in Seq(VideoPackets \cup AudioPackets) /\ m.packets # <<>>
  /\ \A i \in DOMAIN m.packets : IsVideo(m.video, m.packets[i]) \/ IsAudio(m.packets[i])

ASSUME MediaAssumption ==
  /\ \A m \in Media : IsFile(m)
  /\ SeqSpace \in Nat \ {0} /\ DataMax \in Nat /\ MaxQueue \in Nat
  /\ NoNode \notin [stream : {"video", "audio"}, data : Seq(0 .. 255)]

(* The files the server is written for: known video, units that fit data.  *)
FitsData(p) ==
  IF p.stream = "video" THEN \A k \in DOMAIN p.units : Len(p.units[k].nalu) <= DataMax
                        ELSE Len(p.data) <= DataMax

Ordinary(m) ==
  \A i \in DOMAIN m.packets :
    FitsData(m.packets[i]) /\ (m.packets[i].stream = "video" => m.video # "none")

VARIABLES
  up,      \* FALSE: undefined behaviour has ended the run, nothing follows
  file,    \* what the session plays
  next,    \* index of the packet av_read_frame returns next
  buf,     \* buffer.buf and buf_size: the access unit being parsed
  pos,     \* buffer.pos
  bstat,   \* buffer.stat
  rest,    \* history: the NALUs of buf that have not been delivered
  client,  \* a client is in the slot
  list,    \* the units queued for it
  node,    \* the unit being sent
  sent,    \* loop index of the sending function
  seqno,   \* sequence number of rtp_packet (video) and rtp_packet_1 (audio)
  due,     \* history: the file's units, from the client's coming on, that
           \*   its peer has not completed
  peer     \* external: what the peer has made of the packets

reader == <<file, next, buf, pos, bstat, rest>>
sender == <<client, list, node, sent, seqno, due, peer>>
vars == <<up, reader, sender>>

Streams == {"video", "audio"}

Codec(stream) == IF stream = "video" THEN file.video ELSE file.audio

(* External: the filter's output, a start code in front of every NALU.     *)
Coded(u) == (IF u.code = 3 THEN <<0, 0, 1>> ELSE <<0, 0, 0, 1>>) \o u.nalu

Filtered(units) == FlattenSeq([k \in DOMAIN units |-> Coded(units[k])])

-----------------------------------------------------------------------------
(* External: the peer.  It follows the sequence numbers, unpacks complete  *)
(* units and joins fragments.  last is the latest unit it completed, with  *)
(* the one that was due; intact turns FALSE when packets do not fit; cut   *)
(* turns TRUE with an audio frame whose length no header could hold.       *)
NewPeer ==
  [expect |-> [s \in Streams |-> 0], open |-> FALSE, part |-> <<>>,
   intact |-> TRUE, cut |-> FALSE, last |-> NoNode]

Arrived(got) ==
  [codec |-> Codec(node.stream), got |-> got, want |-> Head(due).data]

Completes(stream, packet) ==
  stream = "video" /\ IsFu(Codec(stream), packet.payload)
     => FuEnds(Codec(stream), packet.payload)

Receive(stream, n, packet) ==
  LET p     == packet.payload
      codec == Codec(stream)
      fu    == stream = "video" /\ IsFu(codec, p)
      whole == IF FuStarts(codec, p)
               THEN FuNaluHeader(codec, p) \o FuData(codec, p)
               ELSE peer.part \o FuData(codec, p)
      fits  == /\ n = peer.expect[stream]
               /\ packet.len16 = RTP_HEADER_SIZE + Len(p)
               /\ IF fu THEN FuStarts(codec, p) = ~peer.open ELSE ~peer.open
  IN [expect |-> [peer.expect EXCEPT ![stream] = (n + 1) % SeqSpace],
      open   |-> fu /\ ~FuEnds(codec, p),
      part   |-> IF fu /\ ~FuEnds(codec, p) THEN whole ELSE <<>>,
      intact |-> peer.intact /\ fits,
      cut    |-> peer.cut \/ ~HeadersHold(codec, node.data),
      last   |-> IF ~fu THEN Arrived(IF stream = "video" THEN p ELSE AudioData(codec, p))
                 ELSE IF FuEnds(codec, p) THEN Arrived(whole)
                 ELSE peer.last]

-----------------------------------------------------------------------------
(* rtpHeaderInit, for the video and the audio packet of a client.          *)
HeaderInit == [s \in Streams |-> 0]

(* creatMedia opened the file; no client is in the slot yet.               *)
Init ==
  /\ up = TRUE /\ file \in Media /\ next = 1
  /\ buf = <<>> /\ pos = 0 /\ bstat = "WRITE" /\ rest = <<>>
  /\ client = FALSE /\ list = <<>> /\ node = NoNode /\ sent = 0
  /\ seqno = HeaderInit /\ due = <<>> /\ peer = NewPeer

(* memcpy into MediaPacket_st.data, which nothing checks.  A unit too long *)
(* runs over size and type, which are assigned afterwards, so that nothing *)
(* may come of it, or over what lies behind them.                          *)
Copied(data) == IF Len(data) <= DataMax THEN {TRUE} ELSE BOOLEAN

\* Slip: the warning about a large ring is followed by a return.
Queue_DropsLarge(stream, data) ==
  IF client /\ Len(list) < MaxQueue
  THEN list' = Append(list, [stream |-> stream, data |-> data]) /\ up' \in Copied(data)
  ELSE UNCHANGED <<list, up>>

(* data_call_back and sendData: the unit is queued if there is a client.   *)
Queue(stream, data) ==
  IF client
  THEN list' = Append(list, [stream |-> stream, data |-> data]) /\ up' \in Copied(data)
  ELSE UNCHANGED <<list, up>>

(* History: the file's unit is due to the client.                          *)
Expect(stream, unit) ==
  due' = IF client THEN Append(due, [stream |-> stream, data |-> unit]) ELSE due

(* The loop at the end of the file: av_seek_frame to its beginning.        *)
Following == IF next = Len(file.packets) THEN 1 ELSE next + 1

ReadVideo ==
  /\ bstat = "WRITE" /\ Len(list) < MaxQueue
  /\ file.packets[next].stream = "video" /\ file.video # "none"
  /\ buf' = Filtered(file.packets[next].units) /\ pos' = 0 /\ bstat' = "READ"
  /\ rest' = [k \in DOMAIN file.packets[next].units |-> file.packets[next].units[k].nalu]
  /\ next' = Following
  /\ UNCHANGED <<up, file, sender>>

(* av_bsf_send_packet, where creatMedia has made no filter: a NULL context.*)
ReadUnfiltered ==
  /\ bstat = "WRITE" /\ Len(list) < MaxQueue
  /\ file.packets[next].stream = "video" /\ file.video = "none"
  /\ up' = FALSE
  /\ UNCHANGED <<reader, sender>>

ReadAudio ==
  /\ bstat = "WRITE" /\ Len(list) < MaxQueue
  /\ file.packets[next].stream = "audio"
  /\ Queue("audio", file.packets[next].data)
  /\ Expect("audio", file.packets[next].data)
  /\ next' = Following
  /\ UNCHANGED <<file, buf, pos, bstat, rest, client, node, sent, seqno, peer>>

(* One round of the inner loop: praseFrame, then the callback.             *)
ParseNalu ==
  /\ bstat = "READ"
  /\ Queue("video", Nalu(buf, pos))
  /\ Expect("video", IF rest = <<>> THEN <<>> ELSE Head(rest))
  /\ pos' = pos + FrameSize(buf, pos)
  /\ bstat' = IF pos' >= Len(buf) THEN "WRITE" ELSE "READ"
  /\ rest' = IF rest = <<>> THEN <<>> ELSE Tail(rest)
  /\ UNCHANGED <<file, next, buf, client, node, sent, seqno, peer>>

(* addClient or addSession: an empty ring, rtpHeaderInit with number 0.    *)
AddClient ==
  /\ ~client /\ client' = TRUE
  /\ seqno' = HeaderInit /\ due' = <<>> /\ peer' = NewPeer
  /\ UNCHANGED <<up, reader, list, node, sent>>

(* epollLoop copies the oldest unit out; an empty one is not sent.         *)
PopNode ==
  /\ client /\ node = NoNode /\ list # <<>>
  /\ node' = IF Head(list).data = <<>> THEN NoNode ELSE Head(list)
  /\ up' \in Copied(Head(list).data)
  /\ list' = Tail(list) /\ sent' = 0
  /\ UNCHANGED <<reader, client, seqno, due, peer>>

\* Slip: the number runs past its 16 bits.
NextSeqno_Wide(n) == n + 1
NextSeqno(n) == (n + 1) % SeqSpace

(* A packet of the unit is sent; the last one ends the sending function.   *)
SendPacket ==
  /\ node # NoNode /\ Codec(node.stream) # "none"
  /\ LET codec  == Codec(node.stream)
         packet == RtpPacket(codec, node.data, sent)
     IN /\ peer' = Receive(node.stream, seqno[node.stream], packet)
        /\ due' = IF Completes(node.stream, packet) THEN Tail(due) ELSE due
        /\ seqno' = [seqno EXCEPT ![node.stream] = NextSeqno(@)]
        /\ IF sent + 1 = PacketsOf(codec, node.data)
           THEN node' = NoNode /\ sent' = 0
           ELSE node' = node /\ sent' = sent + 1
  /\ UNCHANGED <<up, reader, client, list>>

(* No function sends a unit of an unknown codec and ret is not assigned.   *)
(* What it holds is above 0 here; the other case is SendFails.             *)
SendNothing ==
  /\ node # NoNode /\ Codec(node.stream) = "none"
  /\ node' = NoNode /\ sent' = 0 /\ due' = Tail(due)
  /\ UNCHANGED <<up, reader, client, list, seqno, peer>>

(* A send fails, perhaps between two fragments: the client is cleared.     *)
SendFails ==
  /\ node # NoNode
  /\ client' = FALSE /\ list' = <<>> /\ node' = NoNode /\ sent' = 0
  /\ seqno' = HeaderInit /\ due' = <<>> /\ peer' = NewPeer
  /\ UNCHANGED <<up, reader>>

Reader == up /\ (ReadVideo \/ ReadUnfiltered \/ ReadAudio \/ ParseNalu)
Sender == up /\ (AddClient \/ PopNode \/ SendPacket \/ SendNothing \/ SendFails)
Next == Reader \/ Sender

Spec == Init /\ [][Next]_vars

(* The media thread is scheduled; parsing waits for nothing else.          *)
FairSpec == Spec /\ WF_vars(Reader)

-----------------------------------------------------------------------------
(* The type invariant of the media path.  An ordinary file never leads to  *)
(* undefined behaviour.                                                    *)
TypeOK ==
  /\ up \in BOOLEAN /\ (Ordinary(file) => up)
  /\ file \in Media /\ next \in DOMAIN file.packets
  /\ pos \in 0 .. Len(buf) /\ bstat \in {"READ", "WRITE"}
  /\ client \in BOOLEAN /\ (client \/ (list = <<>> /\ node = NoNode))
  /\ seqno \in [Streams -> 0 .. SeqSpace - 1]
  /\ peer.intact \in BOOLEAN

(* Every unit of the file arrives, from the client's coming on and in the  *)
(* file's order: what the peer has not completed is the unit being sent    *)
(* and those queued, none lost and none twice, and what it completes is    *)
(* the unit that was due.  Parser, queue and packetizer together drop,     *)
(* split, join or alter no NALU and no audio frame.  Excepted are units of *)
(* an unknown codec, which nobody sends (SendNothing), and what a peer     *)
(* makes of the stream once a length was cut.  A fragmented NALU is        *)
(* followed by as many stale bytes as its header has, because the          *)
(* fragments' sizes add up to frame_size although the header is not among  *)
(* their data (h264_rtp.c:121-123, h265_rtp.c:91-93).                      *)
UnitsArrive ==
  /\ due = (IF node = NoNode THEN <<>> ELSE <<node>>) \o list
  /\ peer.last # NoNode /\ ~peer.cut =>
       LET l     == peer.last
           extra == IF ~Fragments(l.codec) \/ ~Fragmented(l.want) THEN 0
                    ELSE IF l.codec = "h264" THEN 1 ELSE 2
       IN l.got = l.want \o [k \in 1 .. extra |-> Stale]

(* The packets a peer receives follow each other without a gap in either   *)
(* sequence, across units, fragments and the wrap of the number; every     *)
(* fragmented unit is started and ended, and every interleaved header      *)
(* gives the length of what follows it, up to an audio frame whose length  *)
(* the 16 bits of rtp_len16 or the 13 of the AU-header cannot hold.        *)
StreamIntact == peer.intact \/ peer.cut

(* When the parser declares the buffer writable again, it has found every  *)
(* NALU of the access unit, and not before.                                *)
EveryNaluFound == (bstat = "WRITE") = (rest = <<>>)

(* Parsing ends: an access unit never keeps the media thread in the loop   *)
(* over its NALUs, so the file goes on, unless a copy that ran over its    *)
(* buffer ended everything.                                                *)
ReaderReturns == (bstat = "READ") ~> (bstat = "WRITE" \/ ~up)

=============================================================================
