------------------------------- MODULE AnnexB -------------------------------
(***************************************************************************)
(* The byte stream of an access unit as ffmpeg's mp4toannexb filter emits  *)
(* it, and media.c's search for the NALUs in it.  Offsets count from 0 as  *)
(* in the code; a byte is a number.                                        *)
(***************************************************************************)
EXTENDS Integers, Sequences, FiniteSetsExt

(* ffmpeg pads every packet with zero bytes, which the search runs into.   *)
Byte(b, i) == IF i < Len(b) THEN b[i + 1] ELSE 0

StartCode3(b, i) == Byte(b, i) = 0 /\ Byte(b, i + 1) = 0 /\ Byte(b, i + 2) = 1

StartCode4(b, i) ==
  /\ Byte(b, i) = 0 /\ Byte(b, i + 1) = 0
  /\ Byte(b, i + 2) = 0 /\ Byte(b, i + 3) = 1

\* Slip: the filter's three-byte codes are forgotten.
StartsNalu_Long(b, i) == StartCode4(b, i)

StartsNalu(b, i) == StartCode3(b, i) \/ StartCode4(b, i)

StartCodeLen(b, i) == IF StartCode3(b, i) THEN 3 ELSE 4

(* getNALUFromBuf looks for the next start code from behind the one at pos *)
(* and takes at most buf_size - pos - 3 steps.                             *)
\* Slip: the search starts at the NALU's own start code.
Searched_FromPos(b, pos) == pos .. Len(b) - 4

Searched(b, pos) ==
  LET from == pos + StartCodeLen(b, pos)
  IN from .. from + (Len(b) - pos - 3) - 1

(* frame_size, the start code included.                                    *)
FrameSize(b, pos) ==
  LET found == {i \in Searched(b, pos) : StartsNalu(b, i)}
  IN IF found = {} THEN Len(b) - pos ELSE Min(found) - pos

(* What getVideoNALUWithoutStartCode makes of it.                          *)
Nalu(b, pos) ==
  SubSeq(b, pos + StartCodeLen(b, pos) + 1, pos + FrameSize(b, pos))

(* External: what a codec makes of a NALU.  It has no start code inside    *)
(* (emulation prevention) and no zero byte at its end (the stop bit).      *)
Clean(u) ==
  /\ u \in Seq(0 .. 255) /\ Len(u) > 0 /\ u[Len(u)] # 0
  /\ \A i \in 1 .. Len(u) - 2 : ~(u[i] = 0 /\ u[i + 1] = 0 /\ u[i + 2] = 1)

=============================================================================
