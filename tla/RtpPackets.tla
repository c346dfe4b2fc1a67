----------------------------- MODULE RtpPackets -----------------------------
(***************************************************************************)
(* How rtp/h264_rtp.c, h265_rtp.c, aac_rtp.c and pcma_rtp.c cut a unit     *)
(* into RTP packets for an interleaved (TCP) client.  A packet is          *)
(*   len16    rtp_len16 of the $-header sent in front of it                *)
(*   payload  the bytes after the RTP header                               *)
(* The bits of the payload headers are computed as in the code; marker,    *)
(* timestamp, SSRC and payload type are left out.                          *)
(***************************************************************************)
EXTENDS Integers, Sequences

CONSTANTS
  Mtu,     \* PTK_RTP_TCP_MAX
  LenMod,  \* 2^16, rtp_len16 is a uint16_t
  Stale    \* a byte of node.data behind the unit, left by earlier packets

RTP_HEADER_SIZE == 12

(* A packet of Mtu bytes fits rtp_len16.                                   *)
ASSUME PacketAssumption ==
  /\ Mtu \in Nat \ {0} /\ LenMod \in Nat /\ RTP_HEADER_SIZE + (Mtu + 3) < LenMod
  /\ Stale \notin 0 .. 255

Bytes(f, from, n) ==
  [k \in 1 .. n |-> IF from + k <= Len(f) THEN f[from + k] ELSE Stale]

Packet(payload, n) == [len16 |-> (RTP_HEADER_SIZE + n) % LenMod, payload |-> payload]

(* FU indicator and FU header; start and end bits are in sebits.           *)
H264FuHeader(f, sebits) ==
  <<32 * (f[1] \div 32) + 28, sebits + (f[1] % 32)>>

H265FuHeader(f, sebits) ==
  <<128 * (f[1] \div 128) + 98 + (f[1] % 2), f[2],
    sebits + ((f[1] % 128) \div 2)>>

PktNum(f) == Len(f) \div Mtu
RemainPktSize(f) == Len(f) % Mtu

Fragmented(f) == Len(f) > Mtu

\* Slip: a last packet of full length ends nothing.
StartEndBits_NoFullEnd(f, i) ==
  IF i = 0 THEN 128 ELSE IF i = PktNum(f) THEN 64 ELSE 0

StartEndBits(f, i) ==
  IF i = 0 THEN 128
  ELSE IF i = PktNum(f) \/ (RemainPktSize(f) = 0 /\ i = PktNum(f) - 1) THEN 64
  ELSE 0

\* Slip: pos starts at the NALU header.
FragmentPos_Header(headerLen, i) == i * Mtu

(* The NALU header is not repeated in the fragments' data.                 *)
FragmentPos(headerLen, i) == headerLen + i * Mtu

(* The i-th fragment; number PktNum(f) is the remainder.                   *)
Fragment(f, i, fuHeader, pos) ==
  LET n == IF i < PktNum(f) THEN Mtu ELSE RemainPktSize(f)
  IN Packet(fuHeader \o Bytes(f, pos, n), n + Len(fuHeader))

H264Packet(f, i) ==
  IF Fragmented(f)
  THEN Fragment(f, i, H264FuHeader(f, StartEndBits(f, i)), FragmentPos(1, i))
  ELSE Packet(f, Len(f))

H265Packet(f, i) ==
  IF Fragmented(f)
  THEN Fragment(f, i, H265FuHeader(f, StartEndBits(f, i)), FragmentPos(2, i))
  ELSE Packet(f, Len(f))

(* AU-headers-length and one AU-header with 13 bits of size.               *)
AacPacket(f) ==
  LET size == Len(f)
  IN Packet(<<0, 16, (size % 8192) \div 32, (size % 32) * 8>> \o f, size + 4)

PcmaPacket(f) == Packet(f, Len(f))

Fragments(codec) == codec \in {"h264", "h265"}

PacketsOf(codec, f) ==
  IF Fragments(codec) /\ Fragmented(f)
  THEN PktNum(f) + (IF RemainPktSize(f) > 0 THEN 1 ELSE 0)
  ELSE 1

RtpPacket(codec, f, i) ==
  CASE codec = "h264" -> H264Packet(f, i)
    [] codec = "h265" -> H265Packet(f, i)
    [] codec = "aac"  -> AacPacket(f)
    [] codec = "pcma" -> PcmaPacket(f)

(* The 16 bits of rtp_len16 and the 13 bits of the AU-header hold the size *)
(* of an audio frame, which is never fragmented.  The code does not test   *)
(* it: a longer frame is sent under a length that was cut.                 *)
HeadersHold(codec, f) ==
  /\ codec = "aac"  => Len(f) < 8192 /\ RTP_HEADER_SIZE + (Len(f) + 4) < LenMod
  /\ codec = "pcma" => RTP_HEADER_SIZE + Len(f) < LenMod

-----------------------------------------------------------------------------
(* External: the peer takes a packet apart (RFC 6184, 7798, 3640, 3551).   *)
IsFu(codec, p) ==
  IF codec = "h264" THEN p[1] % 32 = 28 ELSE (p[1] \div 2) % 64 = 49

FuHeaderLen(codec) == IF codec = "h264" THEN 2 ELSE 3

FuStarts(codec, p) == p[FuHeaderLen(codec)] >= 128
FuEnds(codec, p) == (p[FuHeaderLen(codec)] \div 64) % 2 = 1

(* The NALU header a fragment stands for.                                  *)
FuNaluHeader(codec, p) ==
  IF codec = "h264"
  THEN <<32 * (p[1] \div 32) + (p[2] % 32)>>
  ELSE <<128 * (p[1] \div 128) + 2 * (p[3] % 64) + (p[1] % 2), p[2]>>

FuData(codec, p) == SubSeq(p, FuHeaderLen(codec) + 1, Len(p))

AudioData(codec, p) ==
  IF codec = "aac" THEN SubSeq(p, 5, 4 + p[3] * 32 + (p[4] \div 8)) ELSE p

=============================================================================
