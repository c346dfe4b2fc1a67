---------------------------- MODULE AnnexB_proofs ----------------------------
(***************************************************************************)
(* The search for NALUs finds them, whatever they hold: for every buffer,  *)
(* every length and both start codes.                                      *)
(***************************************************************************)
EXTENDS AnnexB, TLAPS

(* The bytes of u stand at pos in b, behind a start code of c bytes, and   *)
(* either end b or are followed by another NALU.                           *)
CodeAt(b, pos, c) ==
  /\ c \in {3, 4}
  /\ \A i \in 1 .. c - 1 : b[pos + i] = 0
  /\ b[pos + c] = 1

UnitAt(b, pos, c, u) ==
  /\ CodeAt(b, pos, c)
  /\ pos + c + Len(u) <= Len(b)
  /\ \A i \in 1 .. Len(u) : b[pos + c + i] = u[i]
  /\ \/ pos + c + Len(u) = Len(b)
     \/ /\ pos + c + Len(u) + 4 <= Len(b)
        /\ \E d \in {3, 4} : CodeAt(b, pos + c + Len(u), d)

-----------------------------------------------------------------------------
LEMMA CodeLength ==
  ASSUME NEW b \in Seq(0 .. 255), NEW pos \in Nat, NEW c, CodeAt(b, pos, c), pos + c <= Len(b)
  PROVE  StartCodeLen(b, pos) = c
BY DEF CodeAt, StartCodeLen, StartCode3, Byte

(* No start code begins inside a clean NALU.                               *)
LEMMA NoneInside ==
  ASSUME NEW b \in Seq(0 .. 255), NEW pos \in Nat, NEW c, NEW u, Clean(u), UnitAt(b, pos, c, u),
         NEW i \in pos + c .. pos + c + Len(u) - 1
  PROVE  ~StartsNalu(b, i)
<1>1. c \in {3, 4} /\ Len(u) \in Nat \ {0} /\ Len(b) \in Nat
  BY DEF UnitAt, CodeAt, Clean
<1>2. PICK k \in 1 .. Len(u) : i = pos + c + k - 1
  <2>1. i - (pos + c) + 1 \in 1 .. Len(u) /\ i = pos + c + (i - (pos + c) + 1) - 1
    BY <1>1
  <2> QED
    BY <2>1
<1>3. \A j \in 1 .. Len(u) : Byte(b, pos + c + j - 1) = u[j]
  BY <1>1 DEF UnitAt, Byte
<1>4. /\ Byte(b, i) = u[k]
      /\ k < Len(u) => Byte(b, i + 1) = u[k + 1]
      /\ k + 1 < Len(u) => Byte(b, i + 2) = u[k + 2]
      /\ k + 2 < Len(u) => Byte(b, i + 3) = u[k + 3]
  <2>1. \A j \in 0 .. 3 : k + j <= Len(u) => Byte(b, i + j) = u[k + j]
    <3>1. ASSUME NEW j \in 0 .. 3, k + j <= Len(u) PROVE Byte(b, i + j) = u[k + j]
      <4>1. k + j \in 1 .. Len(u) /\ pos + c + (k + j) - 1 = i + j
        BY <1>1, <1>2, <3>1
      <4> QED
        BY <1>3, <4>1
    <3> QED
      BY <3>1
  <2>2. i + 0 = i /\ k + 0 = k
    BY <1>1, <1>2
  <2> QED
    BY <1>1, <2>1, <2>2
<1>5. /\ u[Len(u)] # 0
      /\ \A j \in 1 .. Len(u) - 2 : ~(u[j] = 0 /\ u[j + 1] = 0 /\ u[j + 2] = 1)
  BY DEF Clean
<1>6. ~StartCode3(b, i)
  <2>1. CASE k + 1 < Len(u)
    <3>1. k \in 1 .. Len(u) - 2
      BY <1>1, <2>1
    <3>2. ~(u[k] = 0 /\ u[k + 1] = 0 /\ u[k + 2] = 1)
      BY <1>5, <3>1
    <3> QED
      BY <1>1, <1>4, <2>1, <3>2 DEF StartCode3
  <2>2. CASE k + 1 = Len(u)
    BY <1>1, <1>4, <1>5, <2>2 DEF StartCode3
  <2>3. CASE k = Len(u)
    BY <1>1, <1>4, <1>5, <2>3 DEF StartCode3
  <2> QED
    BY <1>1, <2>1, <2>2, <2>3
<1>7. ~StartCode4(b, i)
  <2>1. CASE k + 2 < Len(u)
    <3>1. k + 1 \in 1 .. Len(u) - 2 /\ (k + 1) + 1 = k + 2 /\ (k + 1) + 2 = k + 3
      BY <1>1, <2>1
    <3> QED
      BY <1>1, <1>4, <1>5, <2>1, <3>1 DEF StartCode4
  <2>2. CASE k + 2 >= Len(u)
    BY <1>1, <1>4, <1>5, <2>2 DEF StartCode4
  <2> QED
    BY <1>1, <2>1, <2>2
<1> QED
  BY <1>6, <1>7 DEF StartsNalu

(* getNALUFromBuf finds the NALU it stands on, whole and without the bytes *)
(* of the next one or of the next start code.  The search cannot stop      *)
(* early (NoneInside); it ends at the next start code or runs out, because *)
(* behind the end of the buffer there are only zeros.                      *)
THEOREM FindsFrame ==
  ASSUME NEW b \in Seq(0 .. 255), NEW pos \in Nat, NEW c, NEW u, Clean(u), UnitAt(b, pos, c, u)
  PROVE  FrameSize(b, pos) = c + Len(u) /\ Nalu(b, pos) = u
<1> DEFINE e == pos + c + Len(u)
           found == {i \in Searched(b, pos) : StartsNalu(b, i)}
<1>1. c \in {3, 4} /\ Len(u) \in Nat \ {0} /\ Len(b) \in Nat /\ e <= Len(b)
  BY DEF UnitAt, CodeAt, Clean
<1>2. StartCodeLen(b, pos) = c
  BY <1>1, CodeLength DEF UnitAt
<1>3. Searched(b, pos) = pos + c .. c + Len(b) - 4
  BY <1>1, <1>2 DEF Searched
<1>4. \A i \in found : i >= e
  BY <1>1, <1>3, NoneInside
<1>5. FrameSize(b, pos) = e - pos
  <2>1. CASE e = Len(b)
    <3>1. found = {}
      <4>1. ASSUME NEW i \in found PROVE FALSE
        <5>1. i \in Nat /\ i >= Len(b)
          BY <1>1, <1>3, <1>4, <2>1
        <5>2. Byte(b, i + 2) = 0 /\ Byte(b, i + 3) = 0
          BY <1>1, <5>1 DEF Byte
        <5> QED
          BY <5>2 DEF StartsNalu, StartCode3, StartCode4
      <4> QED
        BY <4>1
    <3> QED
      BY <1>1, <2>1, <3>1 DEF FrameSize
  <2>2. CASE e # Len(b)
    <3>1. e + 4 <= Len(b) /\ \E d \in {3, 4} : CodeAt(b, e, d)
      BY <2>2 DEF UnitAt
    <3>2. StartsNalu(b, e)
      BY <1>1, <3>1 DEF CodeAt, StartsNalu, StartCode3, StartCode4, Byte
    <3>3. e \in found
      BY <1>1, <1>3, <3>1, <3>2
    <3>4. found \subseteq Int
      BY <1>1, <1>3
    <3>5. Min(found) = e
      <4>1. e \in found /\ \A y \in found : e =< y
        BY <1>4, <3>3
      <4>2. \A x \in found : (\A y \in found : x =< y) => x = e
        BY <1>1, <3>3, <3>4, <4>1
      <4> HIDE DEF found, e
      <4> QED
        BY <4>1, <4>2 DEF Min
    <3> QED
      BY <1>1, <3>3, <3>5 DEF FrameSize
  <2> QED
    BY <2>1, <2>2
<1>6. Nalu(b, pos) = SubSeq(b, pos + c + 1, e)
  BY <1>1, <1>2, <1>5 DEF Nalu
<1>7. SubSeq(b, pos + c + 1, e) = u
  <2>1. Len(SubSeq(b, pos + c + 1, e)) = Len(u)
    BY <1>1
  <2>2. \A i \in 1 .. Len(u) : SubSeq(b, pos + c + 1, e)[i] = u[i]
    BY <1>1 DEF UnitAt
  <2> QED
    BY <1>1, <2>1, <2>2 DEF Clean
<1> QED
  BY <1>1, <1>5, <1>6, <1>7

=============================================================================
