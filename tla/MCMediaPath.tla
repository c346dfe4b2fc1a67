---------------------------- MODULE MCMediaPath ----------------------------
(***************************************************************************)
(* Files for MediaPath.  With Mtu = 2 (of 1400), the NALUs have up to      *)
(* Longest bytes after their header, taken from the bytes that make up     *)
(* start codes and one other, as far as H.264 and H.265 allow: no 0 0 x    *)
(* with x <= 3 inside, no 0 at the end.  Short ones share an access unit.  *)
(***************************************************************************)
EXTENDS MediaPath

CONSTANTS Longest, LongestOfTwo

Legal(p) ==
  /\ \A i \in 1 .. Len(p) - 2 : ~(p[i] = 0 /\ p[i + 1] = 0 /\ p[i + 2] <= 3)
  /\ p # <<>> => p[Len(p)] # 0

Nalus(header, n) ==
  {q \in {header \o p : p \in BoundedSeq({0, 1, 255}, n)} : Legal(q)}

(* IDR slices and non-reference slices, whose header is 1 or 0 1.          *)
Headers(codec) == IF codec = "h264" THEN {<<101>>, <<1>>} ELSE {<<38, 1>>, <<0, 1>>}

NalusOf(codec, n) == UNION {Nalus(h, n) : h \in Headers(codec)}

Unit(c, u) == [code |-> c, nalu |-> u]
VideoPacket(units) == [stream |-> "video", units |-> units]
AudioPacket(d) == [stream |-> "audio", data |-> d]

(* One NALU and an audio frame.                                            *)
Plain ==
  UNION {{[video |-> v, audio |-> IF v = "h264" THEN "aac" ELSE "pcma",
           packets |-> <<VideoPacket(<<Unit(4, u)>>), AudioPacket(<<0, 1, 255>>)>>] :
          u \in NalusOf(v, Longest)} : v \in {"h264", "h265"}}

(* Access units of two NALUs, the second behind either start code.         *)
JoinedOf(v, h) ==
  {[video |-> v, audio |-> "aac",
    packets |-> <<VideoPacket(<<Unit(4, u), Unit(c, w)>>)>>] :
     u \in Nalus(h, LongestOfTwo), w \in Nalus(h, LongestOfTwo), c \in {3, 4}}

Joined == UNION {UNION {JoinedOf(v, h) : h \in Headers(v)} : v \in {"h264", "h265"}}

(* Ends(n) is n bytes that a codec may make.                               *)
Ends(n) == [k \in 1 .. n |-> IF k = n THEN 255 ELSE 1]

(* Audio frames at the limit of rtp_len16 and of data, and behind it; and  *)
(* of a codec the server does not know.                                    *)
LongAudio ==
  {[video |-> "h264", audio |-> a, packets |-> <<AudioPacket(Ends(n)), AudioPacket(<<7>>)>>] :
     a \in {"aac", "pcma", "none"},
     n \in {LenMod - RTP_HEADER_SIZE - k : k \in {0, 1, 4, 5}} \cup {DataMax, DataMax + 1}}

(* NALUs at the limit of data and behind it, in the middle of the file.    *)
LongVideo ==
  {[video |-> v, audio |-> "aac",
    packets |-> <<VideoPacket(<<Unit(4, Ends(n)), Unit(3, Ends(2))>>), AudioPacket(<<7>>)>>] :
     v \in {"h264", "h265", "none"}, n \in {DataMax, DataMax + 1}}

MCMedia == Plain \cup Joined \cup LongAudio \cup LongVideo

=============================================================================
