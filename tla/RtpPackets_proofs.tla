-------------------------- MODULE RtpPackets_proofs --------------------------
(***************************************************************************)
(* What the peer makes of the packets of one unit, for every unit and every*)
(* Mtu.                                                                    *)
(***************************************************************************)
EXTENDS RtpPackets, SequenceTheorems, TLAPS

(* The bytes of a NALU header, which the fragments carry in their own.     *)
HeaderLen(codec) == IF codec = "h264" THEN 1 ELSE 2

Video == {"h264", "h265"}

(* How many bytes behind the header the first i fragments carry.           *)
Reach(codec, f, i) == IF i < PacketsOf(codec, f) THEN i * Mtu ELSE Len(f)

(* What a peer has assembled after i packets of a fragmented unit.         *)
Assembled(codec, f, i) == Bytes(f, 0, HeaderLen(codec) + Reach(codec, f, i))

(* The bytes in the i-th fragment.                                         *)
FragmentSize(f, i) == IF i < PktNum(f) THEN Mtu ELSE RemainPktSize(f)

-----------------------------------------------------------------------------
LEMMA Codecs ==
  ASSUME NEW f, NEW i
  PROVE  /\ RtpPacket("h264", f, i) = H264Packet(f, i)
         /\ RtpPacket("h265", f, i) = H265Packet(f, i)
         /\ RtpPacket("aac", f, i) = AacPacket(f)
         /\ RtpPacket("pcma", f, i) = PcmaPacket(f)
<1>1. RtpPacket("h264", f, i) = H264Packet(f, i)
  BY Zenon DEF RtpPacket
<1>2. RtpPacket("h265", f, i) = H265Packet(f, i)
  BY Zenon DEF RtpPacket
<1>3. RtpPacket("aac", f, i) = AacPacket(f)
  BY Zenon DEF RtpPacket
<1>4. RtpPacket("pcma", f, i) = PcmaPacket(f)
  BY Zenon DEF RtpPacket
<1> QED
  BY <1>1, <1>2, <1>3, <1>4

LEMMA Sizes == LenMod \in Nat /\ RTP_HEADER_SIZE \in Nat
BY PacketAssumption DEF RTP_HEADER_SIZE

LEMMA Length16 ==
  ASSUME NEW n \in Nat, RTP_HEADER_SIZE + n < LenMod, NEW p
  PROVE  Packet(p, n).len16 = RTP_HEADER_SIZE + n /\ Packet(p, n).payload = p
BY Sizes DEF Packet

LEMMA MtuFits == Mtu \in Nat \ {0} /\ RTP_HEADER_SIZE + (Mtu + 3) < LenMod
BY PacketAssumption

(* How many packets, and that only the last may be shorter.                *)
LEMMA Counting ==
  ASSUME NEW f, Len(f) \in Nat, Fragmented(f), NEW codec \in Video
  PROVE  /\ PktNum(f) \in Nat \ {0} /\ RemainPktSize(f) \in 0 .. Mtu - 1
         /\ Len(f) = PktNum(f) * Mtu + RemainPktSize(f)
         /\ PacketsOf(codec, f) = IF RemainPktSize(f) = 0 THEN PktNum(f) ELSE PktNum(f) + 1
         /\ PacketsOf(codec, f) \in Nat /\ PacketsOf(codec, f) >= 2
<1>1. Len(f) > Mtu /\ Mtu \in Nat \ {0}
  BY MtuFits DEF Fragmented
<1>2. /\ Len(f) \div Mtu \in Nat /\ Len(f) % Mtu \in 0 .. Mtu - 1
      /\ Len(f) = (Len(f) \div Mtu) * Mtu + (Len(f) % Mtu)
  BY <1>1
<1>3. PktNum(f) \in Nat /\ RemainPktSize(f) \in 0 .. Mtu - 1
      /\ Len(f) = PktNum(f) * Mtu + RemainPktSize(f)
  BY <1>2 DEF PktNum, RemainPktSize
<1>4. PktNum(f) # 0
  BY <1>1, <1>3
<1>5. PktNum(f) = 1 => RemainPktSize(f) # 0
  BY <1>1, <1>3
<1>6. PacketsOf(codec, f) = IF RemainPktSize(f) = 0 THEN PktNum(f) ELSE PktNum(f) + 1
  BY <1>3 DEF PacketsOf, Fragments, Video
<1> QED
  BY <1>3, <1>4, <1>5, <1>6

LEMMA BytesLength ==
  ASSUME NEW f, NEW from \in Nat, NEW n \in Nat
  PROVE  DOMAIN Bytes(f, from, n) = 1 .. n /\ Len(Bytes(f, from, n)) = n
BY DEF Bytes

LEMMA BytesJoin ==
  ASSUME NEW f \in Seq(0 .. 255), NEW a \in Nat, NEW n \in Nat
  PROVE  Bytes(f, 0, a) \o Bytes(f, a, n) = Bytes(f, 0, a + n)
BY DEF Bytes

(* Where the i-th fragment ends the next one begins, and the last one ends *)
(* as many bytes behind the unit as the NALU header has.                   *)
LEMMA Contiguous ==
  ASSUME NEW f, Len(f) \in Nat, Fragmented(f), NEW codec \in Video,
         NEW i \in 0 .. PacketsOf(codec, f) - 1
  PROVE  /\ i * Mtu \in Nat /\ FragmentSize(f, i) \in 0 .. Mtu
         /\ Reach(codec, f, i) = i * Mtu
         /\ Reach(codec, f, i + 1) = i * Mtu + FragmentSize(f, i)
         /\ (i = PktNum(f) \/ (RemainPktSize(f) = 0 /\ i = PktNum(f) - 1))
              <=> i = PacketsOf(codec, f) - 1
<1> DEFINE n == PktNum(f)
           r == RemainPktSize(f)
<1>1. /\ n \in Nat \ {0} /\ r \in 0 .. Mtu - 1 /\ Len(f) = n * Mtu + r
      /\ PacketsOf(codec, f) = IF r = 0 THEN n ELSE n + 1
      /\ Mtu \in Nat \ {0} /\ i \in Nat
  <2>1. /\ n \in Nat \ {0} /\ r \in 0 .. Mtu - 1 /\ Len(f) = n * Mtu + r
        /\ PacketsOf(codec, f) = IF r = 0 THEN n ELSE n + 1
        /\ PacketsOf(codec, f) \in Nat
    BY Counting, Zenon
  <2> QED
    BY <2>1, MtuFits
<1>2. i * Mtu \in Nat /\ (i + 1) * Mtu = i * Mtu + Mtu
  <2>1. i \in Nat /\ Mtu \in Nat
    BY <1>1
  <2>2. \A x, y \in Nat : x * y \in Nat /\ (x + 1) * y = x * y + y
    OBVIOUS
  <2> QED
    BY <2>1, <2>2
<1>3. i < n \/ (i = n /\ r # 0)
  BY <1>1
<1>4. FragmentSize(f, i) = IF i < n THEN Mtu ELSE r
  BY DEF FragmentSize
<1> HIDE DEF n, r
<1>5. Reach(codec, f, i) = i * Mtu
  BY <1>1 DEF Reach
<1>6. Reach(codec, f, i + 1) = i * Mtu + FragmentSize(f, i)
  <2>1. CASE i + 1 < PacketsOf(codec, f)
    BY <1>1, <1>2, <1>3, <1>4, <2>1 DEF Reach
  <2>2. CASE i + 1 = PacketsOf(codec, f)
    <3>1. Reach(codec, f, i + 1) = Len(f)
      BY <2>2 DEF Reach
    <3>2. CASE r = 0
      BY <1>1, <1>2, <1>4, <2>2, <3>1, <3>2
    <3>3. CASE r # 0
      BY <1>1, <1>2, <1>4, <2>2, <3>1, <3>3
    <3> QED
      BY <3>2, <3>3
  <2> QED
    BY <1>1, <2>1, <2>2
<1> QED
  BY <1>1, <1>2, <1>3, <1>4, <1>5, <1>6 DEF n, r

Byte8 == 0 .. 255
StartEnd == {0, 64, 128}

(* A fragment taken apart again: what H264FuHeader and H265FuHeader pack,  *)
(* the peer unpacks, and the data follow.                                  *)
H264Header(h, se, a, b) == a = 32 * (h \div 32) + 28 /\ b = se + (h % 32)

LEMMA H264Bits ==
  ASSUME NEW h \in Byte8, NEW se \in StartEnd, NEW a, NEW b, H264Header(h, se, a, b)
  PROVE  /\ a \in Int /\ b \in Int /\ a % 32 = 28
         /\ (b >= 128 <=> se = 128) /\ ((b \div 64) % 2 = 1 <=> se = 64)
         /\ 32 * (a \div 32) + (b % 32) = h
BY DEF H264Header, Byte8, StartEnd

LEMMA H264Taken ==
  ASSUME NEW h \in Byte8, NEW se \in StartEnd, NEW a, NEW b, H264Header(h, se, a, b),
         NEW f, NEW from \in Nat, NEW n \in Nat
  PROVE  LET p == <<a, b>> \o Bytes(f, from, n)
         IN /\ Len(p) = 2 + n /\ IsFu("h264", p)
            /\ (FuStarts("h264", p) <=> se = 128) /\ (FuEnds("h264", p) <=> se = 64)
            /\ FuNaluHeader("h264", p) = <<h>> /\ FuData("h264", p) = Bytes(f, from, n)
<1> DEFINE p == <<a, b>> \o Bytes(f, from, n)
<1>1. /\ a \in Int /\ b \in Int /\ a % 32 = 28
      /\ (b >= 128 <=> se = 128) /\ ((b \div 64) % 2 = 1 <=> se = 64)
      /\ 32 * (a \div 32) + (b % 32) = h
  BY H264Bits
<1>2. /\ Len(p) = 2 + n /\ p[1] = a /\ p[2] = b
      /\ SubSeq(p, 3, Len(p)) = Bytes(f, from, n)
  BY <1>1 DEF Bytes, Byte8
<1> HIDE DEF p
<1>3. /\ Len(p) = 2 + n /\ IsFu("h264", p)
      /\ (FuStarts("h264", p) <=> se = 128) /\ (FuEnds("h264", p) <=> se = 64)
      /\ FuNaluHeader("h264", p) = <<h>> /\ FuData("h264", p) = Bytes(f, from, n)
  BY <1>1, <1>2 DEF IsFu, FuStarts, FuEnds, FuHeaderLen, FuNaluHeader, FuData
<1> QED
  BY <1>3 DEF p

H265Header(h, se, a, c) ==
  a = 128 * (h \div 128) + 98 + (h % 2) /\ c = se + ((h % 128) \div 2)

LEMMA H265Bits ==
  ASSUME NEW h \in Byte8, NEW se \in StartEnd, NEW a, NEW c, H265Header(h, se, a, c)
  PROVE  /\ a \in Int /\ c \in Int /\ (a \div 2) % 64 = 49
         /\ (c >= 128 <=> se = 128) /\ ((c \div 64) % 2 = 1 <=> se = 64)
         /\ 128 * (a \div 128) + 2 * (c % 64) + (a % 2) = h
BY DEF H265Header, Byte8, StartEnd

LEMMA H265Taken ==
  ASSUME NEW h \in Byte8, NEW se \in StartEnd, NEW a, NEW c, H265Header(h, se, a, c),
         NEW g \in Byte8, NEW f, NEW from \in Nat, NEW n \in Nat
  PROVE  LET p == <<a, g, c>> \o Bytes(f, from, n)
         IN /\ Len(p) = 3 + n /\ IsFu("h265", p)
            /\ (FuStarts("h265", p) <=> se = 128) /\ (FuEnds("h265", p) <=> se = 64)
            /\ FuNaluHeader("h265", p) = <<h, g>> /\ FuData("h265", p) = Bytes(f, from, n)
<1> DEFINE p == <<a, g, c>> \o Bytes(f, from, n)
<1>1. /\ a \in Int /\ c \in Int /\ (a \div 2) % 64 = 49
      /\ (c >= 128 <=> se = 128) /\ ((c \div 64) % 2 = 1 <=> se = 64)
      /\ 128 * (a \div 128) + 2 * (c % 64) + (a % 2) = h
  BY H265Bits
<1>2. /\ Len(p) = 3 + n /\ p[1] = a /\ p[2] = g /\ p[3] = c
      /\ SubSeq(p, 4, Len(p)) = Bytes(f, from, n)
  BY <1>1 DEF Bytes, Byte8
<1> HIDE DEF p
<1>3. /\ Len(p) = 3 + n /\ IsFu("h265", p)
      /\ (FuStarts("h265", p) <=> se = 128) /\ (FuEnds("h265", p) <=> se = 64)
      /\ FuNaluHeader("h265", p) = <<h, g>> /\ FuData("h265", p) = Bytes(f, from, n)
  <2>1. FuHeaderLen("h265") = 3
    BY DEF FuHeaderLen
  <2>2. IsFu("h265", p)
    BY <1>1, <1>2 DEF IsFu
  <2>3. (FuStarts("h265", p) <=> se = 128) /\ (FuEnds("h265", p) <=> se = 64)
    BY <1>1, <1>2, <2>1 DEF FuStarts, FuEnds
  <2>4. FuNaluHeader("h265", p) = <<h, g>>
    BY <1>1, <1>2 DEF FuNaluHeader
  <2>5. FuData("h265", p) = Bytes(f, from, n)
    BY <1>2, <2>1 DEF FuData
  <2> QED
    BY <1>2, <2>2, <2>3, <2>4, <2>5
<1> QED
  BY <1>3 DEF p

(* The start and end bits: only the first fragment starts the unit and only *)
(* the last one ends it.                                                   *)
LEMMA Bits ==
  ASSUME NEW f, Len(f) \in Nat, Fragmented(f), NEW codec \in Video,
         NEW i \in 0 .. PacketsOf(codec, f) - 1
  PROVE  /\ StartEndBits(f, i) \in {0, 64, 128}
         /\ StartEndBits(f, i) = 128 <=> i = 0
         /\ StartEndBits(f, i) = 64 <=> i = PacketsOf(codec, f) - 1
<1>1. /\ PacketsOf(codec, f) \in Nat /\ PacketsOf(codec, f) >= 2
  BY Counting, Zenon
<1>2. (i = PktNum(f) \/ (RemainPktSize(f) = 0 /\ i = PktNum(f) - 1))
         <=> i = PacketsOf(codec, f) - 1
  BY Contiguous, Zenon
<1> QED
  BY <1>1, <1>2 DEF StartEndBits

LEMMA FirstBytes ==
  ASSUME NEW f \in Seq(0 .. 255)
  PROVE  /\ Len(f) >= 1 => f[1] \in 0 .. 255 /\ Bytes(f, 0, 1) = <<f[1]>>
         /\ Len(f) >= 2 => f[2] \in 0 .. 255 /\ Bytes(f, 0, 2) = <<f[1], f[2]>>
<1>1. Len(f) >= 1 => f[1] \in 0 .. 255 /\ Bytes(f, 0, 1) = <<f[1]>>
  BY DEF Bytes
<1>2. ASSUME Len(f) >= 2 PROVE f[2] \in 0 .. 255 /\ Bytes(f, 0, 2) = <<f[1], f[2]>>
  <2>1. Len(f) \in Nat /\ 1 \in 1 .. Len(f) /\ 2 \in 1 .. Len(f)
    BY <1>2
  <2>2. f[2] \in 0 .. 255
    BY <2>1, ElementOfSeq
  <2>3. /\ Len(Bytes(f, 0, 2)) = 2 /\ Bytes(f, 0, 2)[1] = f[1] /\ Bytes(f, 0, 2)[2] = f[2]
        /\ DOMAIN Bytes(f, 0, 2) = 1 .. 2
    BY <2>1 DEF Bytes
  <2>4. Bytes(f, 0, 2) = [k \in 1 .. 2 |-> IF k = 1 THEN f[1] ELSE f[2]]
    BY <2>1 DEF Bytes
  <2> QED
    BY <2>2, <2>4
<1> QED
  BY <1>1, <1>2

(* What the peer finds in the i-th fragment of a unit.                     *)
IsFragment(codec, f, i) ==
  LET packet == RtpPacket(codec, f, i)
      p      == packet.payload
  IN /\ packet.len16 = RTP_HEADER_SIZE + Len(p)
     /\ IsFu(codec, p)
     /\ FuStarts(codec, p) <=> i = 0
     /\ FuEnds(codec, p) <=> i = PacketsOf(codec, f) - 1
     /\ FuNaluHeader(codec, p) = Bytes(f, 0, HeaderLen(codec))
     /\ FuData(codec, p) = Bytes(f, HeaderLen(codec) + i * Mtu, FragmentSize(f, i))

LEMMA H264Fragments ==
  ASSUME NEW f \in Seq(0 .. 255), Fragmented(f), NEW i \in 0 .. PacketsOf("h264", f) - 1
  PROVE  IsFragment("h264", f, i)
<1>1. "h264" \in Video /\ Len(f) \in Nat
  BY DEF Video
<1>2. i * Mtu \in Nat /\ FragmentSize(f, i) \in 0 .. Mtu
  BY <1>1, Contiguous, Zenon
<1>3. PICK n \in 0 .. Mtu, from \in Nat : n = FragmentSize(f, i) /\ from = 1 + i * Mtu
  BY <1>2
<1>4. Len(f) >= 2
  BY <1>1, MtuFits DEF Fragmented
<1>5. PICK h \in Byte8 : f[1] = h /\ Bytes(f, 0, 1) = <<h>>
  <2>1. f[1] \in Byte8 /\ Bytes(f, 0, 1) = <<f[1]>>
    BY <1>1, <1>4, FirstBytes, SMTT(30) DEF Byte8
  <2> QED
    BY <2>1, Zenon
<1>6. PICK se \in StartEnd :
        /\ se = StartEndBits(f, i) /\ (se = 128 <=> i = 0)
        /\ se = 64 <=> i = PacketsOf("h264", f) - 1
  <2>1. /\ StartEndBits(f, i) \in StartEnd /\ (StartEndBits(f, i) = 128 <=> i = 0)
        /\ StartEndBits(f, i) = 64 <=> i = PacketsOf("h264", f) - 1
    BY <1>1, Bits DEF StartEnd
  <2> QED
    BY <2>1, Zenon
<1>7. PICK a, b : H264Header(h, se, a, b)
  BY DEF H264Header
<1> DEFINE p == <<a, b>> \o Bytes(f, from, n)
<1>8. RtpPacket("h264", f, i) = Packet(p, n + 2)
  <2>1. RtpPacket("h264", f, i) = H264Packet(f, i)
    BY Codecs
  <2>2. H264FuHeader(f, StartEndBits(f, i)) = <<a, b>>
    BY <1>5, <1>6, <1>7 DEF H264FuHeader, H264Header
  <2>3. Len(<<a, b>>) = 2
    OBVIOUS
  <2>4. H264Packet(f, i) = Fragment(f, i, <<a, b>>, from)
    BY <1>3, <2>2 DEF H264Packet, FragmentPos
  <2> QED
    BY <1>3, <2>1, <2>3, <2>4 DEF Fragment, FragmentSize
<1>9. /\ Len(p) = 2 + n /\ IsFu("h264", p)
      /\ (FuStarts("h264", p) <=> se = 128) /\ (FuEnds("h264", p) <=> se = 64)
      /\ FuNaluHeader("h264", p) = <<h>> /\ FuData("h264", p) = Bytes(f, from, n)
  <2>1. n \in Nat
    BY <1>3, MtuFits
  <2> QED
    BY <1>7, <2>1, H264Taken
<1> HIDE DEF p
<1>10. /\ RtpPacket("h264", f, i).len16 = RTP_HEADER_SIZE + Len(p)
       /\ RtpPacket("h264", f, i).payload = p
  <2>1. n + 2 \in Nat /\ RTP_HEADER_SIZE + (n + 2) < LenMod /\ 2 + n = n + 2
    BY <1>3, MtuFits, Sizes
  <2> QED
    BY <1>8, <1>9, <2>1, Length16
<1> QED
  BY <1>3, <1>5, <1>6, <1>9, <1>10 DEF IsFragment, HeaderLen

LEMMA H265Fragments ==
  ASSUME NEW f \in Seq(0 .. 255), Fragmented(f), NEW i \in 0 .. PacketsOf("h265", f) - 1
  PROVE  IsFragment("h265", f, i)
<1>1. "h265" \in Video /\ Len(f) \in Nat
  BY DEF Video
<1>2. i * Mtu \in Nat /\ FragmentSize(f, i) \in 0 .. Mtu
  BY <1>1, Contiguous, Zenon
<1>3. PICK n \in 0 .. Mtu, from \in Nat : n = FragmentSize(f, i) /\ from = 2 + i * Mtu
  BY <1>2
<1>4. Len(f) >= 2
  BY <1>1, MtuFits DEF Fragmented
<1>5. PICK h \in Byte8, g \in Byte8 : f[1] = h /\ f[2] = g /\ Bytes(f, 0, 2) = <<h, g>>
  <2>1. f[1] \in Byte8 /\ f[2] \in Byte8 /\ Bytes(f, 0, 2) = <<f[1], f[2]>>
    BY <1>1, <1>4, FirstBytes, SMTT(30) DEF Byte8
  <2> QED
    BY <2>1, Zenon
<1>6. PICK se \in StartEnd :
        /\ se = StartEndBits(f, i) /\ (se = 128 <=> i = 0)
        /\ se = 64 <=> i = PacketsOf("h265", f) - 1
  <2>1. /\ StartEndBits(f, i) \in StartEnd /\ (StartEndBits(f, i) = 128 <=> i = 0)
        /\ StartEndBits(f, i) = 64 <=> i = PacketsOf("h265", f) - 1
    BY <1>1, Bits DEF StartEnd
  <2> QED
    BY <2>1, Zenon
<1>7. PICK a, c : H265Header(h, se, a, c)
  BY DEF H265Header
<1> DEFINE p == <<a, g, c>> \o Bytes(f, from, n)
<1>8. RtpPacket("h265", f, i) = Packet(p, n + 3)
  <2>1. RtpPacket("h265", f, i) = H265Packet(f, i)
    BY Codecs
  <2>2. H265FuHeader(f, StartEndBits(f, i)) = <<a, g, c>>
    BY <1>5, <1>6, <1>7 DEF H265FuHeader, H265Header
  <2>3. Len(<<a, g, c>>) = 3
    OBVIOUS
  <2>4. H265Packet(f, i) = Fragment(f, i, <<a, g, c>>, from)
    BY <1>3, <2>2 DEF H265Packet, FragmentPos
  <2> QED
    BY <1>3, <2>1, <2>3, <2>4 DEF Fragment, FragmentSize
<1>9. /\ Len(p) = 3 + n /\ IsFu("h265", p)
      /\ (FuStarts("h265", p) <=> se = 128) /\ (FuEnds("h265", p) <=> se = 64)
      /\ FuNaluHeader("h265", p) = <<h, g>> /\ FuData("h265", p) = Bytes(f, from, n)
  <2>1. n \in Nat
    BY <1>3, MtuFits
  <2> QED
    BY <1>7, <2>1, H265Taken
<1> HIDE DEF p
<1>10. /\ RtpPacket("h265", f, i).len16 = RTP_HEADER_SIZE + Len(p)
       /\ RtpPacket("h265", f, i).payload = p
  <2>1. n + 3 \in Nat /\ RTP_HEADER_SIZE + (n + 3) < LenMod /\ 3 + n = n + 3
    BY <1>3, MtuFits, Sizes
  <2> QED
    BY <1>8, <1>9, <2>1, Length16
<1> QED
  BY <1>3, <1>5, <1>6, <1>9, <1>10 DEF IsFragment, HeaderLen

(* Every fragment of every unit is what it should be.                      *)
THEOREM FragmentsFit ==
  ASSUME NEW codec \in Video, NEW f \in Seq(0 .. 255), Fragmented(f),
         NEW i \in 0 .. PacketsOf(codec, f) - 1
  PROVE  IsFragment(codec, f, i)
BY H264Fragments, H265Fragments DEF Video

-----------------------------------------------------------------------------
(* Joining the fragments' data: after i fragments the peer has the header  *)
(* and all bytes up to Reach, after the last one the unit and as many      *)
(* stale bytes as its header has.                                          *)
LEMMA Assembling ==
  ASSUME NEW codec \in Video, NEW f \in Seq(0 .. 255), Fragmented(f),
         NEW i \in 0 .. PacketsOf(codec, f) - 1
  PROVE  /\ Assembled(codec, f, 0) = Bytes(f, 0, HeaderLen(codec))
         /\ Assembled(codec, f, i) \o Bytes(f, HeaderLen(codec) + i * Mtu, FragmentSize(f, i))
              = Assembled(codec, f, i + 1)
<1>1. Len(f) \in Nat /\ HeaderLen(codec) \in Nat
  BY DEF HeaderLen
<1>2. PacketsOf(codec, f) \in Nat /\ PacketsOf(codec, f) >= 2
  BY <1>1, Counting, Zenon
<1>3. Mtu \in Nat
  BY MtuFits
<1>4. /\ i * Mtu \in Nat /\ FragmentSize(f, i) \in 0 .. Mtu
      /\ Reach(codec, f, i) = i * Mtu
      /\ Reach(codec, f, i + 1) = i * Mtu + FragmentSize(f, i)
  BY <1>1, Contiguous, Zenon
<1>5. Assembled(codec, f, 0) = Bytes(f, 0, HeaderLen(codec))
  <2>1. Reach(codec, f, 0) = 0
    BY <1>2, <1>3 DEF Reach
  <2> QED
    BY <1>1, <2>1 DEF Assembled
<1>6. PICK a \in Nat, n \in Nat : a = HeaderLen(codec) + i * Mtu /\ n = FragmentSize(f, i)
  BY <1>1, <1>3, <1>4
<1>7. Assembled(codec, f, i) = Bytes(f, 0, a) /\ Assembled(codec, f, i + 1) = Bytes(f, 0, a + n)
  <2>1. HeaderLen(codec) + Reach(codec, f, i + 1) = a + n
    BY <1>1, <1>4, <1>6
  <2> QED
    BY <1>4, <1>6, <2>1 DEF Assembled
<1>8. Bytes(f, 0, a) \o Bytes(f, a, n) = Bytes(f, 0, a + n)
  BY BytesJoin
<1> QED
  BY <1>5, <1>6, <1>7, <1>8

LEMMA AllAssembled ==
  ASSUME NEW codec \in Video, NEW f \in Seq(0 .. 255), Fragmented(f)
  PROVE  Assembled(codec, f, PacketsOf(codec, f)) = f \o [k \in 1 .. HeaderLen(codec) |-> Stale]
<1>1. Len(f) \in Nat /\ HeaderLen(codec) \in Nat
  BY DEF HeaderLen
<1>2. PacketsOf(codec, f) \in Nat
  BY <1>1, Counting, Zenon
<1>3. Reach(codec, f, PacketsOf(codec, f)) = Len(f)
  BY <1>2 DEF Reach
<1>4. PICK h \in Nat : h = HeaderLen(codec)
  BY <1>1
<1>5. Bytes(f, 0, h + Len(f)) = f \o [k \in 1 .. h |-> Stale]
  BY <1>1 DEF Bytes
<1> QED
  BY <1>3, <1>4, <1>5 DEF Assembled

(* A unit that is not fragmented is one packet.                            *)
LEMMA Whole ==
  ASSUME NEW codec \in {"h264", "h265", "aac", "pcma"}, NEW f, Len(f) \in Nat,
         codec \in Video => ~Fragmented(f), NEW i
  PROVE  /\ PacketsOf(codec, f) = 1
         /\ codec # "aac" => RtpPacket(codec, f, i) = Packet(f, Len(f))
         /\ codec = "aac" => RtpPacket(codec, f, i) = AacPacket(f)
<1>1. PacketsOf(codec, f) = 1
  BY DEF PacketsOf, Fragments, Video
<1>2. CASE codec = "h264"
  BY <1>1, <1>2, Codecs DEF H264Packet, Video
<1>3. CASE codec = "h265"
  BY <1>1, <1>3, Codecs DEF H265Packet, Video
<1>4. CASE codec = "aac"
  BY <1>1, <1>4, Codecs
<1>5. CASE codec = "pcma"
  BY <1>1, <1>5, Codecs DEF PcmaPacket
<1> QED
  BY <1>2, <1>3, <1>4, <1>5

(* The AU-header's 13 bits hold every size of an AAC frame.                *)
LEMMA AuHeader ==
  ASSUME NEW n \in Nat, n < 8192
  PROVE  /\ (n % 8192) \div 32 \in Nat /\ (n % 32) * 8 \in Nat
         /\ ((n % 8192) \div 32) * 32 + (((n % 32) * 8) \div 8) = n
OBVIOUS

(* What the peer finds in the packet of an audio frame.                    *)
IsFrame(codec, f, i) ==
  LET packet == RtpPacket(codec, f, i)
  IN /\ PacketsOf(codec, f) = 1
     /\ packet.len16 = RTP_HEADER_SIZE + Len(packet.payload)
     /\ AudioData(codec, packet.payload) = f

LEMMA Holds ==
  ASSUME NEW f
  PROVE  /\ HeadersHold("aac", f) => Len(f) < 8192 /\ RTP_HEADER_SIZE + (Len(f) + 4) < LenMod
         /\ HeadersHold("pcma", f) => RTP_HEADER_SIZE + Len(f) < LenMod
BY DEF HeadersHold

(* An audio frame whose size the headers hold arrives as it is.            *)
LEMMA AudioArrives ==
  ASSUME NEW codec \in {"aac", "pcma"}, NEW f \in Seq(0 .. 255),
         NEW i, HeadersHold(codec, f)
  PROVE  IsFrame(codec, f, i)
<1>1. Len(f) \in Nat
  OBVIOUS
<1>2. CASE codec = "pcma"
  <2>0. RTP_HEADER_SIZE + Len(f) < LenMod
    BY <1>2, Holds
  <2>1. PacketsOf(codec, f) = 1 /\ RtpPacket(codec, f, i) = Packet(f, Len(f))
    BY <1>1, <1>2, Whole DEF Video
  <2> QED
    BY <1>1, <1>2, <2>0, <2>1, Length16 DEF IsFrame, AudioData
<1>3. CASE codec = "aac"
  <2> DEFINE a == (Len(f) % 8192) \div 32
             b == (Len(f) % 32) * 8
             p == <<0, 16, a, b>> \o f
  <2>1. PacketsOf(codec, f) = 1 /\ RtpPacket(codec, f, i) = Packet(p, Len(f) + 4)
    BY <1>1, <1>3, Whole DEF Video, AacPacket
  <2>2. a \in Nat /\ b \in Nat /\ a * 32 + (b \div 8) = Len(f)
    <3>1. Len(f) < 8192
      BY <1>3, Holds
    <3> QED
      BY <1>1, <3>1, AuHeader
  <2> HIDE DEF a, b
  <2>3. Len(p) = Len(f) + 4 /\ p[3] = a /\ p[4] = b /\ SubSeq(p, 5, 4 + Len(f)) = f
    BY <1>1, <2>2
  <2> HIDE DEF p
  <2>4. AudioData(codec, p) = f
    <3>1. AudioData(codec, p) = SubSeq(p, 5, 4 + p[3] * 32 + (p[4] \div 8))
      BY <1>3 DEF AudioData
    <3>2. 4 + a * 32 + (b \div 8) = 4 + Len(f)
      BY <1>1, <2>2
    <3> QED
      BY <2>3, <3>1, <3>2
  <2> QED
    <3>0. RTP_HEADER_SIZE + (Len(f) + 4) < LenMod
      BY <1>3, Holds
    <3>1. Len(f) + 4 \in Nat /\ RTP_HEADER_SIZE + (Len(f) + 4) < LenMod
      BY <1>1, <3>0
    <3> QED
      BY <2>1, <2>3, <2>4, <3>1, Length16 DEF IsFrame
<1> QED
  BY <1>2, <1>3

=============================================================================
