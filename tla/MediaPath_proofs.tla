-------------------------- MODULE MediaPath_proofs --------------------------
(***************************************************************************)
(* The proofs about MediaPath: for all files IsFile admits, every Mtu and  *)
(* every limit of rtp_len16, of a packet's data and of the queue.          *)
(***************************************************************************)
EXTENDS MediaPath, AnnexB_proofs, RtpPackets_proofs, WellFoundedInduction, TLAPS

-----------------------------------------------------------------------------
(* Every number is reached from 0 by steps of 1.                           *)
LEMMA Reached ==
  ASSUME NEW T, 0 \in T, \A n \in Nat : n \in T => n + 1 \in T
  PROVE  Nat \subseteq T
<1> SUFFICES ASSUME NEW k \in Nat, k \notin T PROVE FALSE
  OBVIOUS
<1> DEFINE D == Nat \ T
           R == {ss \in Nat \X Nat : ss[1] < ss[2]}
<1>1. IsWellFoundedOn(R, Nat)
  BY NatLessThanWellFounded, Zenon DEF OpToRel
<1>2. D \subseteq Nat /\ D # {}
  OBVIOUS
<1>3. PICK n \in D : \A m \in D : ~(<<m, n>> \in R)
  <2> HIDE DEF R, D
  <2> QED
    BY <1>1, <1>2, WFMin
<1>4. n \in Nat /\ n # 0
  BY <1>3
<1>5. n - 1 \in Nat /\ <<n - 1, n>> \in R
  BY <1>4
<1>6. n - 1 \in T
  BY <1>3, <1>5
<1>7. n \in T
  BY <1>4, <1>5, <1>6
<1> QED
  BY <1>3, <1>7

(* flatten of FlattenSeq, for the first n of s.                            *)
Flat(s, n, g) == g = [i \in 1 .. n |-> IF i = 1 THEN s[i] ELSE g[i - 1] \o s[i]]

LEMMA FlatStep ==
  ASSUME NEW s, NEW n \in Nat, NEW g, Flat(s, n, g)
  PROVE  \E h : Flat(s, n + 1, h)
<1> DEFINE h == [i \in 1 .. n + 1 |->
                   IF i <= n THEN g[i] ELSE IF n = 0 THEN s[1] ELSE g[n] \o s[n + 1]]
<1>1. \A i \in 1 .. n : g[i] = IF i = 1 THEN s[i] ELSE g[i - 1] \o s[i]
  BY DEF Flat
<1>2. \A i \in 1 .. n + 1 : h[i] = IF i = 1 THEN s[i] ELSE h[i - 1] \o s[i]
  <2>1. SUFFICES ASSUME NEW i \in 1 .. n + 1
                 PROVE  h[i] = IF i = 1 THEN s[i] ELSE h[i - 1] \o s[i]
    OBVIOUS
  <2>2. CASE i <= n
    BY <1>1, <2>2
  <2>3. CASE i = n + 1
    BY <2>3
  <2> QED
    BY <2>2, <2>3
<1>3. h = [i \in 1 .. n + 1 |-> h[i]]
  OBVIOUS
<1> HIDE DEF h
<1>4. h = [i \in 1 .. n + 1 |-> IF i = 1 THEN s[i] ELSE h[i - 1] \o s[i]]
  BY <1>2, <1>3
<1> QED
  BY <1>4 DEF Flat

Flattens(s, n) == \E g : Flat(s, n, g)

LEMMA FlatExists ==
  ASSUME NEW s, NEW n \in Nat
  PROVE  Flattens(s, n)
<1> DEFINE T == {k \in Nat : Flattens(s, k)}
<1>1. 0 \in T
  <2>1. Flat(s, 0, <<>>)
    BY DEF Flat
  <2> QED
    BY <2>1 DEF Flattens
<1>2. \A k \in Nat : k \in T => k + 1 \in T
  BY FlatStep DEF Flattens
<1> HIDE DEF T
<1>3. Nat \subseteq T
  BY <1>1, <1>2, Reached
<1> QED
  BY <1>3 DEF T

LEMMA FlatIsFlattenSeq ==
  ASSUME NEW s, Len(s) \in Nat \ {0}
  PROVE  \E h : Flat(s, Len(s), h) /\ FlattenSeq(s) = h[Len(s)]
<1> DEFINE h == CHOOSE gg : Flat(s, Len(s), gg)
<1>1. Flat(s, Len(s), h)
  BY FlatExists, Zenon DEF Flattens
<1>2. FlattenSeq(s) = h[Len(s)]
  BY DEF FlattenSeq, Flat
<1> HIDE DEF h
<1> QED
  BY <1>1, <1>2

-----------------------------------------------------------------------------
(* An access unit as the reader meets it.  front[j] is the byte stream of  *)
(* its first j units.                                                      *)
Fronts(us, front) ==
  /\ front \in [0 .. Len(us) -> Seq(0 .. 255)] /\ front[0] = <<>>
  /\ \A i \in 1 .. Len(us) : front[i] = front[i - 1] \o Coded(us[i])

CleanUnits(us) == us \in Seq(Units) /\ \A k \in DOMAIN us : Clean(us[k].nalu)

LEMMA CodedUnit ==
  ASSUME NEW u \in Units
  PROVE  /\ Coded(u) \in Seq(0 .. 255) /\ u.code \in {3, 4} /\ u.nalu \in Seq(0 .. 255)
         /\ Len(Coded(u)) = u.code + Len(u.nalu)
         /\ \A i \in 1 .. u.code - 1 : Coded(u)[i] = 0
         /\ Coded(u)[u.code] = 1
         /\ \A i \in 1 .. Len(u.nalu) : Coded(u)[u.code + i] = u.nalu[i]
<1>1. u.code \in {3, 4} /\ u.nalu \in Seq(0 .. 255)
  BY DEF Units
<1>2. CASE u.code = 3
  BY <1>1, <1>2 DEF Coded
<1>3. CASE u.code = 4
  BY <1>1, <1>3 DEF Coded
<1> QED
  BY <1>1, <1>2, <1>3

LEMMA FilteredFronts ==
  ASSUME NEW us \in Seq(Units), us # <<>>
  PROVE  \E front : Fronts(us, front) /\ Filtered(us) = front[Len(us)]
<1> DEFINE s == [k \in DOMAIN us |-> Coded(us[k])]
<1>1. Len(us) \in Nat \ {0} /\ DOMAIN us = 1 .. Len(us) /\ Len(s) = Len(us)
  OBVIOUS
<1>2. \A k \in 1 .. Len(us) : us[k] \in Units /\ s[k] = Coded(us[k]) /\ s[k] \in Seq(0 .. 255)
  BY <1>1, CodedUnit
<1>3. Filtered(us) = FlattenSeq(s)
  BY DEF Filtered
<1> HIDE DEF s
<1>4. PICK h : Flat(s, Len(us), h) /\ FlattenSeq(s) = h[Len(us)]
  BY <1>1, FlatIsFlattenSeq
<1>5. /\ h = [i \in 1 .. Len(us) |-> h[i]]
      /\ \A i \in 1 .. Len(us) : h[i] = IF i = 1 THEN s[i] ELSE h[i - 1] \o s[i]
  BY <1>4 DEF Flat
<1> DEFINE T == {n \in Nat : 1 <= n /\ n <= Len(us) => h[n] \in Seq(0 .. 255)}
<1>6. 0 \in T
  OBVIOUS
<1>7. ASSUME NEW n \in Nat, n \in T PROVE n + 1 \in T
  <2>1. CASE n + 1 > Len(us)
    BY <1>1, <2>1
  <2>2. CASE n + 1 <= Len(us)
    <3>1. PICK m \in 1 .. Len(us) : m = n + 1 /\ m - 1 = n
      BY <1>1, <2>2
    <3>2. s[m] \in Seq(0 .. 255) /\ h[m] = IF m = 1 THEN s[m] ELSE h[m - 1] \o s[m]
      BY <1>2, <1>5
    <3>3. n # 0 => h[n] \in Seq(0 .. 255)
      BY <1>1, <1>7, <2>2
    <3>4. h[m] \in Seq(0 .. 255)
      <4>1. CASE n = 0
        BY <3>1, <3>2, <4>1
      <4>2. CASE n # 0
        <5>1. PICK x \in Seq(0 .. 255), y \in Seq(0 .. 255) : x = h[n] /\ y = s[m]
          BY <3>2, <3>3, <4>2
        <5>2. m # 1 /\ h[m - 1] = x
          BY <3>1, <4>2, <5>1
        <5>3. h[m] = x \o y
          BY <3>2, <5>1, <5>2
        <5> QED
          BY <5>3
      <4> QED
        BY <4>1, <4>2
    <3> QED
      BY <3>1, <3>4
  <2> QED
    BY <1>1, <2>1, <2>2
<1>8. \A n \in 1 .. Len(us) : h[n] \in Seq(0 .. 255)
  <2> HIDE DEF T
  <2>1. Nat \subseteq T
    BY <1>6, <1>7, Reached
  <2> QED
    BY <1>1, <2>1 DEF T
<1> DEFINE front == [i \in 0 .. Len(us) |-> IF i = 0 THEN <<>> ELSE h[i]]
<1>9. front \in [0 .. Len(us) -> Seq(0 .. 255)] /\ front[0] = <<>>
  BY <1>1, <1>8
<1>10. \A i \in 1 .. Len(us) : front[i] = front[i - 1] \o Coded(us[i])
  <2>1. SUFFICES ASSUME NEW i \in 1 .. Len(us)
                 PROVE  front[i] = front[i - 1] \o Coded(us[i])
    OBVIOUS
  <2>2. CASE i = 1
    <3>1. front[i] = h[i] /\ front[i - 1] = <<>>
      BY <1>1, <2>2
    <3>2. h[i] = s[i]
      BY <1>5, <2>2
    <3>3. PICK x \in Seq(0 .. 255) : x = s[i] /\ x = Coded(us[i])
      BY <1>2
    <3>4. <<>> \o x = x
      OBVIOUS
    <3> HIDE DEF front
    <3> QED
      BY <3>1, <3>2, <3>3, <3>4
  <2>3. CASE i # 1
    <3>1. front[i] = h[i] /\ front[i - 1] = h[i - 1]
      BY <1>1, <2>3
    <3> QED
      BY <1>2, <1>5, <2>3, <3>1
  <2> QED
    BY <2>2, <2>3
<1>11. Filtered(us) = front[Len(us)]
  BY <1>1, <1>3, <1>4
<1> HIDE DEF front
<1> QED
  BY <1>9, <1>10, <1>11 DEF Fronts

(* Earlier fronts are prefixes of later ones.                              *)
LEMMA FrontIsPrefix ==
  ASSUME NEW us \in Seq(Units), NEW front, Fronts(us, front),
         NEW j \in 0 .. Len(us), NEW l \in j .. Len(us)
  PROVE  /\ Len(front[j]) <= Len(front[l])
         /\ \A x \in 1 .. Len(front[j]) : front[l][x] = front[j][x]
<1> DEFINE Prefix(m) == /\ Len(front[j]) <= Len(front[m])
                        /\ \A x \in 1 .. Len(front[j]) : front[m][x] = front[j][x]
           T == {n \in Nat : j + n <= Len(us) => Prefix(j + n)}
<1>1. Len(us) \in Nat /\ j \in Nat /\ l \in Nat
  OBVIOUS
<1>2. \A i \in 0 .. Len(us) : front[i] \in Seq(0 .. 255) /\ Len(front[i]) \in Nat
  BY DEF Fronts
<1>3. 0 \in T
  BY <1>1, <1>2
<1>4. ASSUME NEW n \in Nat, n \in T PROVE n + 1 \in T
  <2>1. SUFFICES ASSUME j + (n + 1) <= Len(us) PROVE Prefix(j + (n + 1))
    OBVIOUS
  <2>2. Prefix(j + n)
    BY <1>1, <1>4, <2>1
  <2>3. /\ j + n \in 0 .. Len(us) /\ j + (n + 1) \in 1 .. Len(us) /\ (j + (n + 1)) - 1 = j + n
    BY <1>1, <2>1
  <2>4. front[j + (n + 1)] = front[j + n] \o Coded(us[j + (n + 1)])
    BY <2>3 DEF Fronts
  <2>5. us[j + (n + 1)] \in Units
    BY <2>3
  <2>6. Coded(us[j + (n + 1)]) \in Seq(0 .. 255)
    BY <2>5, CodedUnit
  <2>7. /\ Len(front[j + (n + 1)]) >= Len(front[j + n])
        /\ \A x \in 1 .. Len(front[j + n]) : front[j + (n + 1)][x] = front[j + n][x]
    <3>1. PICK p \in Seq(0 .. 255), q \in Seq(0 .. 255) :
            p = front[j + n] /\ q = Coded(us[j + (n + 1)])
      BY <1>2, <2>3, <2>6
    <3>2. Len(p \o q) >= Len(p) /\ \A x \in 1 .. Len(p) : (p \o q)[x] = p[x]
      OBVIOUS
    <3> QED
      BY <2>4, <3>1, <3>2
  <2>8. Len(front[j]) \in Nat /\ Len(front[j + n]) \in Nat /\ Len(front[j + (n + 1)]) \in Nat
    BY <1>1, <1>2, <2>3
  <2> QED
    BY <2>2, <2>7, <2>8
<1>5. Nat \subseteq T
  <2> HIDE DEF T
  <2> QED
    BY <1>3, <1>4, Reached
<1>6. l - j \in Nat /\ j + (l - j) = l
  BY <1>1
<1>7. Prefix(j + (l - j))
  BY <1>1, <1>5, <1>6
<1> QED
  BY <1>6, <1>7

(* y is a start code of c bytes and the NALU v.                            *)
Codes(y, c, v) ==
  /\ Len(y) = c + Len(v) /\ (\A x \in 1 .. c - 1 : y[x] = 0) /\ y[c] = 1
  /\ \A x \in 1 .. Len(v) : y[c + x] = v[x]

Begins(q, b) == Len(q) <= Len(b) /\ \A x \in 1 .. Len(q) : b[x] = q[x]

(* ... which stand in b behind p.                                          *)
Stands(b, p, y, c, v) ==
  /\ CodeAt(b, Len(p), c) /\ Len(p) + c + Len(v) = Len(p \o y)
  /\ Len(p \o y) <= Len(b)
  /\ \A x \in 1 .. Len(v) : b[Len(p) + c + x] = v[x]

LEMMA Embedded ==
  ASSUME NEW p \in Seq(Byte8), NEW y \in Seq(Byte8), NEW b \in Seq(Byte8),
         NEW c \in 3 .. 4, NEW v \in Seq(Byte8), Codes(y, c, v), Begins(p \o y, b)
  PROVE  Stands(b, p, y, c, v)
<1>1. Len(p) \in Nat /\ Len(y) \in Nat /\ Len(b) \in Nat /\ Len(v) \in Nat
  OBVIOUS
<1>2. PICK l \in Nat, n \in Nat, k \in Nat : l = Len(p) /\ n = Len(y) /\ k = Len(v)
  BY <1>1
<1>3. /\ n = c + k /\ Len(p \o y) = l + n
      /\ \A x \in 1 .. n : (p \o y)[l + x] = y[x]
  <2>1. n = c + k
    BY <1>2 DEF Codes
  <2>2. Len(p \o y) = Len(p) + Len(y)
    OBVIOUS
  <2>3. \A x \in 1 .. Len(y) : (p \o y)[Len(p) + x] = y[x]
    OBVIOUS
  <2> QED
    BY <1>2, <2>1, <2>2, <2>3
<1>4. ASSUME NEW x \in 1 .. n PROVE b[l + x] = y[x]
  <2>1. l + x \in 1 .. Len(p \o y)
    BY <1>3
  <2> QED
    BY <1>3, <2>1 DEF Begins
<1>5. CodeAt(b, l, c)
  <2>1. \A x \in 1 .. c : x \in 1 .. n
    BY <1>3
  <2>2. b[l + c] = 1
    <3>1. y[c] = 1
      BY DEF Codes
    <3>2. c \in 1 .. n
      BY <1>3
    <3> QED
      BY <1>4, <3>1, <3>2
  <2>3. ASSUME NEW x \in 1 .. c - 1 PROVE b[l + x] = 0
    <3>1. x \in 1 .. n
      BY <2>1
    <3>2. y[x] = 0
      BY DEF Codes
    <3> QED
      BY <1>4, <3>1, <3>2
  <2>4. c \in {3, 4}
    OBVIOUS
  <2> QED
    BY <2>2, <2>3, <2>4 DEF CodeAt
<1>6. ASSUME NEW x \in 1 .. k PROVE b[l + c + x] = v[x]
  <2>1. c + x \in 1 .. n /\ l + (c + x) = l + c + x
    BY <1>3
  <2>2. b[l + (c + x)] = y[c + x]
    BY <1>4, <2>1
  <2>3. y[c + x] = v[x]
    BY <1>2 DEF Codes
  <2> QED
    BY <2>1, <2>2, <2>3
<1>7. Len(p \o y) <= Len(b)
  BY DEF Begins
<1> QED
  BY <1>2, <1>3, <1>5, <1>6, <1>7 DEF Stands

(* At the end of front[j] stands unit j + 1.                               *)
LEMMA UnitStands ==
  ASSUME NEW us, CleanUnits(us), NEW front, Fronts(us, front), NEW j \in 0 .. Len(us) - 1
  PROVE  /\ UnitAt(front[Len(us)], Len(front[j]), us[j + 1].code, us[j + 1].nalu)
         /\ Len(front[j + 1]) = Len(front[j]) + us[j + 1].code + Len(us[j + 1].nalu)
<1>1. Len(us) \in Nat /\ j + 1 \in 1 .. Len(us) /\ us \in Seq(Units) /\ (j + 1) - 1 = j
  BY DEF CleanUnits
<1>2. \A i \in 0 .. Len(us) : front[i] \in Seq(0 .. 255) /\ Len(front[i]) \in Nat
  <2>1. \A i \in 0 .. Len(us) : front[i] \in Seq(0 .. 255)
    BY <1>1 DEF Fronts
  <2> QED
    BY <2>1
<1>3. ASSUME NEW i \in 0 .. Len(us) - 1
      PROVE  /\ CodeAt(front[Len(us)], Len(front[i]), us[i + 1].code)
             /\ Len(front[i + 1]) = Len(front[i]) + us[i + 1].code + Len(us[i + 1].nalu)
             /\ Len(front[i + 1]) <= Len(front[Len(us)])
             /\ \A x \in 1 .. Len(us[i + 1].nalu) :
                  front[Len(us)][Len(front[i]) + us[i + 1].code + x] = us[i + 1].nalu[x]
             /\ us[i + 1].code \in {3, 4} /\ Len(us[i + 1].nalu) \in Nat \ {0}
  <2>1. i + 1 \in 1 .. Len(us) /\ (i + 1) - 1 = i /\ i \in 0 .. Len(us) /\ i + 1 \in 0 .. Len(us)
        /\ Len(us) \in i + 1 .. Len(us)
    BY <1>1
  <2>2. PICK u : u = us[i + 1] /\ u \in Units /\ Clean(u.nalu)
    BY <1>1, <2>1 DEF CleanUnits
  <2>3. /\ Coded(u) \in Seq(0 .. 255) /\ u.code \in {3, 4} /\ u.nalu \in Seq(0 .. 255)
        /\ Len(Coded(u)) = u.code + Len(u.nalu)
        /\ \A x \in 1 .. u.code - 1 : Coded(u)[x] = 0
        /\ Coded(u)[u.code] = 1
        /\ \A x \in 1 .. Len(u.nalu) : Coded(u)[u.code + x] = u.nalu[x]
    BY <2>2, CodedUnit, Zenon
  <2>4. front[i + 1] = front[i] \o Coded(u)
    BY <2>1, <2>2 DEF Fronts
  <2>5. PICK p \in Seq(Byte8), y \in Seq(Byte8), b \in Seq(Byte8) :
          p = front[i] /\ y = Coded(u) /\ b = front[Len(us)]
    BY <1>1, <1>2, <2>1, <2>3 DEF Byte8
  <2>6. front[i + 1] = p \o y
    BY <2>4, <2>5
  <2>7. Begins(p \o y, b)
    <3>1. PICK m \in 0 .. Len(us) : m = i + 1 /\ Len(us) \in m .. Len(us)
      BY <2>1
    <3>2. /\ Len(front[m]) <= Len(front[Len(us)])
          /\ \A x \in 1 .. Len(front[m]) : front[Len(us)][x] = front[m][x]
      BY <1>1, <3>1, FrontIsPrefix
    <3>3. front[m] = p \o y
      BY <2>6, <3>1
    <3> QED
      BY <2>5, <3>2, <3>3 DEF Begins
  <2>8. Len(u.nalu) \in Nat \ {0}
    BY <2>2, <2>3 DEF Clean
  <2>9. PICK c \in 3 .. 4, v \in Seq(Byte8) : c = u.code /\ v = u.nalu
    BY <2>3 DEF Byte8
  <2>10. Codes(y, c, v)
    BY <2>3, <2>5, <2>9 DEF Codes
  <2>11. Stands(b, p, y, c, v)
    BY <2>7, <2>10, Embedded
  <2> QED
    BY <2>2, <2>3, <2>5, <2>6, <2>8, <2>9, <2>11 DEF Stands
<1>u. PICK u : u = us[j + 1].nalu
  OBVIOUS
<1>4. PICK c \in {3, 4} : c = us[j + 1].code
  BY <1>3
<1>5. PICK b \in Seq(0 .. 255) : b = front[Len(us)]
  BY <1>1, <1>2
<1>6. PICK p \in Nat, e \in Nat : p = Len(front[j]) /\ e = Len(front[j + 1])
  <2>1. Len(front[j]) \in Nat /\ Len(front[j + 1]) \in Nat
    <3>1. j \in 0 .. Len(us) /\ j + 1 \in 0 .. Len(us)
      BY <1>1
    <3> QED
      BY <1>2, <3>1
  <2> QED
    BY <2>1
<1>7. /\ CodeAt(b, p, c) /\ e = p + c + Len(u) /\ e <= Len(b) /\ Len(u) \in Nat \ {0}
      /\ \A x \in 1 .. Len(u) : b[p + c + x] = u[x]
  BY <1>3, <1>4, <1>u, <1>5, <1>6
<1>8. CASE j + 1 = Len(us)
  <2>1. e = Len(b)
    BY <1>5, <1>6, <1>8
  <2> QED
    BY <1>4, <1>u, <1>5, <1>6, <1>7, <2>1 DEF UnitAt
<1>9. CASE j + 1 # Len(us)
  <2>1. j + 1 \in 0 .. Len(us) - 1
    BY <1>1, <1>9
  <2>2. /\ CodeAt(front[Len(us)], Len(front[j + 1]), us[(j + 1) + 1].code)
        /\ Len(front[(j + 1) + 1])
             = Len(front[j + 1]) + us[(j + 1) + 1].code + Len(us[(j + 1) + 1].nalu)
        /\ Len(front[(j + 1) + 1]) <= Len(front[Len(us)])
        /\ us[(j + 1) + 1].code \in {3, 4} /\ Len(us[(j + 1) + 1].nalu) \in Nat \ {0}
    BY <1>3, <2>1, Zenon
  <2>3. CodeAt(b, e, us[(j + 1) + 1].code)
    BY <1>5, <1>6, <2>2
  <2>4. PICK d \in {3, 4}, n \in Nat \ {0} :
          d = us[(j + 1) + 1].code /\ n = Len(us[(j + 1) + 1].nalu)
    BY <2>2
  <2>5. e + 4 <= Len(b)
    <3>1. e + d + n <= Len(b)
      BY <1>5, <1>6, <2>2, <2>4
    <3>2. Len(b) \in Nat
      BY <1>5
    <3> QED
      BY <3>1, <3>2
  <2> QED
    BY <1>4, <1>u, <1>5, <1>6, <1>7, <2>3, <2>4, <2>5 DEF UnitAt
<1> QED
  BY <1>8, <1>9

-----------------------------------------------------------------------------
(* The inductive invariant.  The reader: buf is the byte stream of some    *)
(* clean units, pos is where the first j of them end, and rest holds those *)
(* behind; parsing goes on exactly while there are any.                    *)
Reading(us, front, j) ==
  /\ us \in Seq(Units) /\ (us # <<>> => file.video # "none")
  /\ \A k \in DOMAIN us : IsUnit(file.video, us[k])
  /\ Ordinary(file) => \A k \in DOMAIN us : Len(us[k].nalu) <= DataMax
  /\ Fronts(us, front) /\ j \in 0 .. Len(us)
  /\ buf = front[Len(us)] /\ pos = Len(front[j])
  /\ rest = [k \in 1 .. Len(us) - j |-> us[j + k].nalu]
  /\ bstat = IF j = Len(us) THEN "WRITE" ELSE "READ"

ReaderOK ==
  /\ file \in Media /\ next \in DOMAIN file.packets
  /\ \E us, front, j : Reading(us, front, j)

(* What is queued and sent is a unit of the file.                          *)
Nodes ==
  {n \in [stream : Streams, data : Seq(0 .. 255)] :
     /\ n.data # <<>> /\ (Ordinary(file) => Len(n.data) <= DataMax)
     /\ n.stream = "video" => file.video # "none" /\ ~IsFu(file.video, n.data)}

QueueOK ==
  /\ up \in BOOLEAN /\ (Ordinary(file) => up)
  /\ client \in BOOLEAN /\ list \in Seq(Nodes) /\ (node = NoNode \/ node \in Nodes)
  /\ client \/ (list = <<>> /\ node = NoNode)
  /\ sent \in Nat /\ (node = NoNode => sent = 0)
  /\ node # NoNode => sent < PacketsOf(Codec(node.stream), node.data)

(* The peer knows the numbers the sender goes on with, and of the unit     *)
(* being sent exactly what was sent of it.                                 *)
PeerOK ==
  /\ seqno \in [Streams -> 0 .. SeqSpace - 1] /\ peer.expect = seqno
  /\ peer.intact \in BOOLEAN /\ peer.cut \in BOOLEAN /\ StreamIntact
  /\ peer.open \in BOOLEAN /\ (peer.open <=> sent > 0)
  /\ sent > 0 => peer.part = Assembled(file.video, node.data, sent)
  /\ UnitsArrive

IInv == ReaderOK /\ QueueOK /\ PeerOK

LEMMA FileFacts ==
  ASSUME file \in Media
  PROVE  /\ file.video \in {"h264", "h265", "none"} /\ file.audio \in {"aac", "pcma", "none"}
         /\ file.packets \in Seq(VideoPackets \cup AudioPackets)
         /\ Len(file.packets) \in Nat \ {0} /\ DOMAIN file.packets = 1 .. Len(file.packets)
         /\ \A i \in DOMAIN file.packets :
              IsVideo(file.video, file.packets[i]) \/ IsAudio(file.packets[i])
<1>1. IsFile(file)
  BY MediaAssumption
<1>2. file.packets \in Seq(VideoPackets \cup AudioPackets) /\ file.packets # <<>>
  BY <1>1 DEF IsFile
<1>3. Len(file.packets) \in Nat \ {0} /\ DOMAIN file.packets = 1 .. Len(file.packets)
  BY <1>2
<1> QED
  BY <1>1, <1>2, <1>3 DEF IsFile

LEMMA NewPeerOK ==
  /\ HeaderInit \in [Streams -> 0 .. SeqSpace - 1] /\ NewPeer.expect = HeaderInit
  /\ NewPeer.intact = TRUE /\ NewPeer.cut = FALSE /\ NewPeer.open \in BOOLEAN /\ ~NewPeer.open /\ NewPeer.last = NoNode
BY MediaAssumption DEF NewPeer, HeaderInit

LEMMA InitOK == Init => IInv
<1> SUFFICES ASSUME Init PROVE IInv
  OBVIOUS
<1>1. ReaderOK
  <2>1. file \in Media /\ next \in DOMAIN file.packets
    BY FileFacts DEF Init
  <2>2. Reading(<<>>, [i \in 0 .. 0 |-> <<>>], 0)
    <3>1. /\ buf = <<>> /\ pos = 0 /\ bstat = "WRITE" /\ rest = <<>>
      BY DEF Init
    <3> QED
      BY <3>1 DEF Reading, Fronts
  <2> QED
    BY <2>1, <2>2 DEF ReaderOK
<1>2. QueueOK
  <2>1. up = TRUE /\ client = FALSE /\ list = <<>> /\ node = NoNode /\ sent = 0
    BY DEF Init
  <2>2. <<>> \in Seq(Nodes)
    OBVIOUS
  <2> QED
    BY <2>1, <2>2 DEF QueueOK
<1>3. PeerOK
  <2>1. /\ seqno = HeaderInit /\ peer = NewPeer /\ sent = 0
        /\ due = <<>> /\ list = <<>> /\ node = NoNode
    BY DEF Init
  <2>2. UnitsArrive /\ StreamIntact
    BY <2>1, NewPeerOK DEF UnitsArrive, StreamIntact
  <2>3. peer.open \in BOOLEAN /\ (peer.open <=> sent > 0)
    BY <2>1, NewPeerOK
  <2> QED
    BY <2>1, <2>2, <2>3, NewPeerOK DEF PeerOK
<1> QED
  BY <1>1, <1>2, <1>3 DEF IInv

LEMMA FirstAndRest ==
  ASSUME NEW S, NEW r \in Seq(S), Len(r) # 0
  PROVE  r # <<>> /\ Head(r) = r[1] /\ Tail(r) = [k \in 1 .. Len(r) - 1 |-> r[k + 1]]
<1>1. r # <<>> /\ Len(r) \in Nat
  OBVIOUS
<1>2. /\ Head(r) = r[1] /\ Tail(r) \in Seq(S) /\ Len(Tail(r)) = Len(r) - 1
      /\ \A k \in 1 .. Len(Tail(r)) : Tail(r)[k] = r[k + 1]
  BY <1>1, HeadTailProperties
<1>3. PICK t \in Seq(S) : t = Tail(r)
  BY <1>2
<1>4. t = [k \in 1 .. Len(t) |-> t[k]]
  OBVIOUS
<1>5. t = [k \in 1 .. Len(r) - 1 |-> r[k + 1]]
  BY <1>2, <1>3, <1>4
<1> QED
  BY <1>1, <1>2, <1>3, <1>5

(* What a round of parsing delivers, and where it leaves the reader.       *)
LEMMA ParsedUnit ==
  ASSUME NEW us, NEW front, NEW j, Reading(us, front, j), bstat = "READ"
  PROVE  /\ rest # <<>> /\ Nalu(buf, pos) = Head(rest)
         /\ Head(rest) \in Seq(0 .. 255) /\ Head(rest) # <<>>
         /\ file.video # "none" /\ ~IsFu(file.video, Head(rest))
         /\ Ordinary(file) => Len(Head(rest)) <= DataMax
         /\ pos + FrameSize(buf, pos) = Len(front[j + 1])
         /\ j + 1 \in 0 .. Len(us)
         /\ Len(front[j + 1]) >= Len(buf) <=> j + 1 = Len(us)
         /\ Tail(rest) = [k \in 1 .. Len(us) - (j + 1) |-> us[(j + 1) + k].nalu]
<1>1. /\ us \in Seq(Units) /\ Len(us) \in Nat /\ j \in 0 .. Len(us) - 1
      /\ j + 1 \in 1 .. Len(us) /\ j + 1 \in 0 .. Len(us)
  BY DEF Reading
<1>2. CleanUnits(us) /\ Fronts(us, front) /\ file.video # "none"
  <2>1. us # <<>>
    BY <1>1
  <2> QED
    BY <1>1, <2>1 DEF Reading, CleanUnits, IsUnit
<1>3. /\ UnitAt(buf, pos, us[j + 1].code, us[j + 1].nalu)
      /\ Len(front[j + 1]) = pos + us[j + 1].code + Len(us[j + 1].nalu)
  BY <1>1, <1>2, UnitStands DEF Reading
<1>4. \A i \in 0 .. Len(us) : front[i] \in Seq(0 .. 255) /\ Len(front[i]) \in Nat
  <2>1. \A i \in 0 .. Len(us) : front[i] \in Seq(0 .. 255)
    BY <1>1, <1>2 DEF Fronts
  <2> QED
    BY <2>1
<1>5. buf \in Seq(0 .. 255) /\ pos \in Nat
  BY <1>1, <1>4 DEF Reading
<1>6. PICK u : /\ u = us[j + 1] /\ u \in Units /\ Clean(u.nalu) /\ ~IsFu(file.video, u.nalu)
               /\ Ordinary(file) => Len(u.nalu) <= DataMax
  BY <1>1, <1>2 DEF Reading, IsUnit
<1>7. FrameSize(buf, pos) = u.code + Len(u.nalu) /\ Nalu(buf, pos) = u.nalu
  BY <1>3, <1>5, <1>6, FindsFrame
<1>8. u.code \in Nat /\ u.nalu \in Seq(0 .. 255) /\ Len(u.nalu) \in Nat \ {0}
  BY <1>6 DEF Units, Clean
<1>9. pos + FrameSize(buf, pos) = Len(front[j + 1])
  BY <1>3, <1>5, <1>6, <1>7, <1>8
<1>10. /\ rest # <<>> /\ Head(rest) = u.nalu
       /\ Tail(rest) = [k \in 1 .. Len(us) - (j + 1) |-> us[(j + 1) + k].nalu]
  <2>1. rest = [k \in 1 .. Len(us) - j |-> us[j + k].nalu] /\ Len(us) - j >= 1
        /\ rest \in Seq(Seq(0 .. 255))
    <3>1. rest = [k \in 1 .. Len(us) - j |-> us[j + k].nalu] /\ Len(us) - j >= 1
      BY <1>1 DEF Reading
    <3>2. \A k \in 1 .. Len(us) - j : us[j + k].nalu \in Seq(0 .. 255)
      <4>1. \A k \in 1 .. Len(us) - j : j + k \in 1 .. Len(us)
        BY <1>1
      <4>2. \A k \in 1 .. Len(us) - j : us[j + k] \in Units
        BY <1>1, <4>1
      <4> QED
        BY <4>2 DEF Units
    <3> QED
      BY <1>1, <3>1, <3>2
  <2>2. Len(rest) = Len(us) - j
    BY <1>1, <2>1
  <2>3. rest[1] = us[j + 1].nalu /\ Len(rest) # 0
    BY <1>1, <2>1, <2>2
  <2>4. rest # <<>> /\ Head(rest) = rest[1] /\ Tail(rest) = [k \in 1 .. Len(rest) - 1 |-> rest[k + 1]]
    BY <2>1, <2>3, FirstAndRest, Zenon
  <2>5. ASSUME NEW k \in 1 .. Len(us) - (j + 1) PROVE rest[k + 1] = us[(j + 1) + k].nalu
    <3>1. k + 1 \in 1 .. Len(us) - j /\ j + (k + 1) = (j + 1) + k
      BY <1>1
    <3> QED
      BY <2>1, <3>1
  <2>6. Len(rest) - 1 = Len(us) - (j + 1)
    BY <1>1, <2>2
  <2> QED
    BY <1>6, <2>3, <2>4, <2>5, <2>6
<1>11. Len(front[j + 1]) >= Len(buf) <=> j + 1 = Len(us)
  <2>1. CASE j + 1 = Len(us)
    BY <1>1, <1>4, <2>1 DEF Reading
  <2>2. CASE j + 1 # Len(us)
    <3>1. j + 1 \in 0 .. Len(us) - 1
      BY <1>1, <2>2
    <3>2. /\ Len(front[(j + 1) + 1])
               = Len(front[j + 1]) + us[(j + 1) + 1].code + Len(us[(j + 1) + 1].nalu)
      BY <1>2, <3>1, UnitStands
    <3>3. PICK v : v = us[(j + 1) + 1] /\ v \in Units /\ Clean(v.nalu)
      BY <1>1, <1>2, <3>1 DEF CleanUnits
    <3>4. v.code \in Nat \ {0} /\ Len(v.nalu) \in Nat
      BY <3>3 DEF Units
    <3>5. (j + 1) + 1 \in 0 .. Len(us) /\ Len(us) \in (j + 1) + 1 .. Len(us)
      BY <1>1, <3>1
    <3>6. Len(front[(j + 1) + 1]) <= Len(front[Len(us)])
      BY <1>1, <1>2, <3>5, FrontIsPrefix
    <3>7. /\ Len(front[j + 1]) \in Nat /\ Len(front[(j + 1) + 1]) \in Nat
          /\ Len(front[Len(us)]) \in Nat
      BY <1>1, <1>4, <3>5
    <3>8. Len(front[j + 1]) < Len(front[Len(us)])
      <4>1. PICK x \in Nat, y \in Nat, z \in Nat, c \in Nat \ {0}, n \in Nat :
              /\ x = Len(front[j + 1]) /\ y = Len(front[(j + 1) + 1])
              /\ z = Len(front[Len(us)]) /\ c = v.code /\ n = Len(v.nalu)
        BY <3>4, <3>7, Zenon
      <4>2. y = x + c + n
        BY <3>2, <3>3, <4>1, Zenon
      <4>3. y <= z
        BY <3>6, <4>1, Zenon
      <4>4. x < z
        BY <4>2, <4>3
      <4> QED
        BY <4>1, <4>4, Zenon
    <3> QED
      BY <2>2, <3>7, <3>8 DEF Reading
  <2> QED
    BY <2>1, <2>2
<1>12. u.nalu # <<>>
  BY <1>8
<1> QED
  BY <1>1, <1>2, <1>6, <1>7, <1>8, <1>9, <1>10, <1>11, <1>12

-----------------------------------------------------------------------------
LEMMA PeerStays ==
  ASSUME PeerOK, UNCHANGED <<file, list, node, sent, seqno, due, peer>>
  PROVE  PeerOK'
<1>1. UnitsArrive' /\ StreamIntact'
  BY DEF PeerOK, UnitsArrive, StreamIntact
<1> QED
  BY <1>1 DEF PeerOK

(* What is queued or being sent, in front of what is appended.             *)
Underway == IF node = NoNode THEN <<>> ELSE <<node>>

LEMMA Appending ==
  ASSUME list \in Seq(Nodes), Underway \in Seq(Nodes), NEW n \in Nodes
  PROVE  Append(Underway \o list, n) = Underway \o Append(list, n)
OBVIOUS

(* A copy of a unit that fits data leaves the program defined.             *)
LEMMA CopyFits ==
  ASSUME QueueOK, file' = file, NEW n \in Nodes, up' \in Copied(n.data)
  PROVE  up' \in BOOLEAN /\ (Ordinary(file') => up')
BY DEF Nodes, Copied

(* Queueing keeps what is queued a unit of the file and due.               *)
LEMMA Queued ==
  ASSUME IInv, UNCHANGED <<file, client, node, sent, seqno, peer>>,
         NEW stream, NEW f, Queue(stream, f), Expect(stream, f),
         [stream |-> stream, data |-> f] \in Nodes
  PROVE  QueueOK' /\ PeerOK'
<1> DEFINE n == [stream |-> stream, data |-> f]
<1>1. n \in Nodes /\ n.data = f
  OBVIOUS
<1>2. Nodes' = Nodes
  BY DEF Nodes
<1>3. /\ client = TRUE => list' = Append(list, n) /\ due' = Append(due, n) /\ up' \in Copied(f)
      /\ client = FALSE => list' = list /\ due' = due /\ up' = up
  BY DEF Queue, Expect
<1> HIDE DEF n
<1>4. client \in BOOLEAN /\ list \in Seq(Nodes) /\ Underway \in Seq(Nodes) /\ due = Underway \o list
  BY DEF IInv, QueueOK, PeerOK, UnitsArrive, Underway
<1>5. list' \in Seq(Nodes) /\ (~client => list' = list) /\ due' = Underway \o list'
  <2>1. CASE client = TRUE
    <3>1. list' = Append(list, n) /\ due' = Append(due, n) /\ n \in Nodes
      BY <1>1, <1>3, <2>1
    <3>2. Append(list, n) \in Seq(Nodes)
      BY <1>4, <3>1
    <3>3. Append(Underway \o list, n) = Underway \o Append(list, n)
      BY <1>4, <3>1, Appending
    <3> QED
      BY <1>4, <2>1, <3>1, <3>2, <3>3
  <2>2. CASE client = FALSE
    BY <1>3, <1>4, <2>2
  <2> QED
    BY <1>4, <2>1, <2>2
<1>6. up' \in BOOLEAN /\ (Ordinary(file') => up')
  <2>1. CASE client = TRUE
    BY <1>1, <1>3, <2>1, CopyFits DEF IInv
  <2>2. CASE client = FALSE
    BY <1>3, <2>2 DEF IInv, QueueOK
  <2> QED
    BY <1>4, <2>1, <2>2
<1>7. QueueOK'
  <2>1. node # NoNode => Codec(node.stream)' = Codec(node.stream)
    BY DEF Codec
  <2> QED
    BY <1>2, <1>5, <1>6, <2>1 DEF IInv, QueueOK
<1>8. PeerOK'
  <2>1. UnitsArrive'
    BY <1>5 DEF IInv, PeerOK, UnitsArrive, Underway
  <2>2. StreamIntact'
    BY DEF IInv, PeerOK, StreamIntact
  <2> QED
    BY <2>1, <2>2 DEF IInv, PeerOK
<1> QED
  BY <1>7, <1>8

LEMMA FollowingOK ==
  ASSUME ReaderOK
  PROVE  Following \in DOMAIN file.packets
BY FileFacts DEF ReaderOK, Following

LEMMA ReadVideoStep ==
  ASSUME IInv, ReadVideo
  PROVE  IInv'
<1>1. /\ file \in Media /\ next \in DOMAIN file.packets
      /\ file' = file /\ next' = Following /\ sender' = sender /\ up' = up
      /\ file.video # "none"
  BY DEF IInv, ReaderOK, ReadVideo
<1>2. PICK us :
        /\ us = file.packets[next].units /\ us \in Seq(Units) /\ us # <<>>
        /\ \A k \in DOMAIN us : IsUnit(file.video, us[k])
        /\ Ordinary(file) => \A k \in DOMAIN us : Len(us[k].nalu) <= DataMax
  <2>1. file.packets[next] \in VideoPackets \cup AudioPackets
    BY <1>1, FileFacts
  <2>2. file.packets[next].stream = "video"
    BY DEF ReadVideo
  <2>3. IsVideo(file.video, file.packets[next])
    BY <1>1, <2>2, FileFacts DEF IsAudio
  <2>4. file.packets[next].units \in Seq(Units)
    BY <2>1, <2>2 DEF VideoPackets, AudioPackets
  <2>5. Ordinary(file) => \A k \in DOMAIN file.packets[next].units :
                            Len(file.packets[next].units[k].nalu) <= DataMax
    BY <1>1, <2>2 DEF Ordinary, FitsData
  <2> QED
    BY <2>3, <2>4, <2>5 DEF IsVideo
<1>3. PICK front : Fronts(us, front) /\ Filtered(us) = front[Len(us)]
  BY <1>2, FilteredFronts
<1>4. Reading(us, front, 0)'
  <2>1. /\ buf' = Filtered(us) /\ pos' = 0 /\ bstat' = "READ"
        /\ rest' = [k \in DOMAIN us |-> us[k].nalu]
    BY <1>2 DEF ReadVideo
  <2>2. Len(us) \in Nat \ {0} /\ DOMAIN us = 1 .. Len(us)
    BY <1>2
  <2>3. Len(front[0]) = 0
    BY <1>3 DEF Fronts
  <2>4. rest' = [k \in 1 .. Len(us) - 0 |-> us[0 + k].nalu]
    BY <2>1, <2>2
  <2>5. file' = file /\ file.video # "none"
    BY <1>1
  <2>6. (us \in Seq(Units) /\ (us # <<>> => file.video # "none"))'
    BY <1>2, <2>5
  <2>7. (\A k \in DOMAIN us : IsUnit(file.video, us[k]))'
    BY <1>2, <2>5
  <2>8. (Ordinary(file) => \A k \in DOMAIN us : Len(us[k].nalu) <= DataMax)'
    BY <1>2, <2>5
  <2>9. (Fronts(us, front) /\ 0 \in 0 .. Len(us))'
    BY <1>3, <2>2
  <2>10. buf' = front[Len(us)] /\ pos' = Len(front[0])
    BY <1>3, <2>1, <2>3
  <2>11. bstat' = IF 0 = Len(us) THEN "WRITE" ELSE "READ"
    BY <2>1, <2>2
  <2> QED
    BY <2>4, <2>6, <2>7, <2>8, <2>9, <2>10, <2>11 DEF Reading
<1>5. ReaderOK'
  BY <1>1, <1>4, FollowingOK DEF ReaderOK, IInv
<1>6. PeerOK'
  BY <1>1, PeerStays DEF IInv, sender
<1>7. QueueOK'
  <2>1. Nodes' = Nodes
    BY <1>1 DEF Nodes
  <2>2. Codec(node.stream)' = Codec(node.stream)
    BY <1>1 DEF Codec, sender
  <2> QED
    BY <1>1, <2>1, <2>2 DEF IInv, QueueOK, sender
<1> QED
  BY <1>5, <1>6, <1>7 DEF IInv

LEMMA ReaderStays ==
  ASSUME IInv, UNCHANGED reader
  PROVE  ReaderOK'
BY DEF IInv, ReaderOK, Reading, reader

(* The reader takes the run down only with video of an unknown codec.      *)
LEMMA ReadUnfilteredStep ==
  ASSUME IInv, ReadUnfiltered
  PROVE  IInv'
<1>1. UNCHANGED reader /\ UNCHANGED <<file, client, list, node, sent, seqno, due, peer>>
  BY DEF ReadUnfiltered, reader, sender
<1>2. up' = FALSE /\ ~Ordinary(file)
  BY DEF ReadUnfiltered, IInv, ReaderOK, Ordinary
<1>3. ReaderOK' /\ PeerOK'
  BY <1>1, ReaderStays, PeerStays DEF IInv
<1>4. Nodes' = Nodes /\ PacketsOf(Codec(node.stream), node.data)'
                          = PacketsOf(Codec(node.stream), node.data)
  BY <1>1 DEF Nodes, Codec
<1>5. QueueOK'
  BY <1>1, <1>2, <1>4 DEF IInv, QueueOK
<1> QED
  BY <1>3, <1>5 DEF IInv

LEMMA ReadAudioStep ==
  ASSUME IInv, ReadAudio
  PROVE  IInv'
<1>1. /\ file \in Media /\ next \in DOMAIN file.packets
      /\ file' = file /\ next' = Following
      /\ UNCHANGED <<buf, pos, bstat, rest, client, node, sent, seqno, peer>>
  BY DEF IInv, ReaderOK, ReadAudio
<1>2. PICK f : /\ f = file.packets[next].data /\ f \in Seq(0 .. 255)
               /\ f # <<>> /\ (Ordinary(file) => Len(f) <= DataMax)
  <2>1. file.packets[next] \in VideoPackets \cup AudioPackets
    BY <1>1, FileFacts
  <2>2. file.packets[next].stream = "audio"
    BY DEF ReadAudio
  <2>3. IsAudio(file.packets[next])
    BY <1>1, <2>2, FileFacts DEF IsVideo
  <2>4. file.packets[next].data \in Seq(0 .. 255)
    BY <2>1, <2>2 DEF VideoPackets, AudioPackets
  <2>5. Ordinary(file) => Len(file.packets[next].data) <= DataMax
    BY <1>1, <2>2 DEF Ordinary, FitsData
  <2> QED
    BY <2>3, <2>4, <2>5 DEF IsAudio
<1>3. Queue("audio", f) /\ Expect("audio", f)
  BY <1>2 DEF ReadAudio
<1>4. QueueOK' /\ PeerOK'
  <2>1. [stream |-> "audio", data |-> f] \in Nodes
    BY <1>2 DEF Nodes, Streams
  <2> QED
    BY <1>1, <1>3, <2>1, Queued
<1>5. ReaderOK'
  BY <1>1, FollowingOK DEF ReaderOK, IInv, Reading
<1> QED
  BY <1>4, <1>5 DEF IInv

LEMMA ParseNaluStep ==
  ASSUME IInv, ParseNalu
  PROVE  IInv'
<1>1. PICK us, front, j : Reading(us, front, j)
  BY DEF IInv, ReaderOK
<1>2. bstat = "READ" /\ UNCHANGED <<file, next, buf, client, node, sent, seqno, peer>>
  BY DEF ParseNalu
<1>3. /\ rest # <<>> /\ Nalu(buf, pos) = Head(rest)
      /\ Head(rest) \in Seq(0 .. 255) /\ Head(rest) # <<>>
      /\ file.video # "none" /\ ~IsFu(file.video, Head(rest))
      /\ Ordinary(file) => Len(Head(rest)) <= DataMax
      /\ pos + FrameSize(buf, pos) = Len(front[j + 1])
      /\ j + 1 \in 0 .. Len(us)
      /\ Len(front[j + 1]) >= Len(buf) <=> j + 1 = Len(us)
      /\ Tail(rest) = [k \in 1 .. Len(us) - (j + 1) |-> us[(j + 1) + k].nalu]
  BY <1>1, <1>2, ParsedUnit
<1>4. Reading(us, front, j + 1)'
  <2>1. pos' = Len(front[j + 1])
    BY <1>3 DEF ParseNalu
  <2>2. bstat' = IF j + 1 = Len(us) THEN "WRITE" ELSE "READ"
    BY <1>2, <1>3, <2>1 DEF ParseNalu
  <2>3. rest' = [k \in 1 .. Len(us) - (j + 1) |-> us[(j + 1) + k].nalu]
    BY <1>3 DEF ParseNalu
  <2> QED
    BY <1>1, <1>2, <1>3, <2>1, <2>2, <2>3 DEF Reading
<1>5. ReaderOK'
  BY <1>2, <1>4 DEF IInv, ReaderOK
<1>6. Queue("video", Head(rest)) /\ Expect("video", Head(rest))
  BY <1>3 DEF ParseNalu
<1>7. QueueOK' /\ PeerOK'
  <2>1. [stream |-> "video", data |-> Head(rest)] \in Nodes
    BY <1>3 DEF Nodes, Streams
  <2> QED
    BY <1>2, <1>6, <2>1, Queued
<1> QED
  BY <1>5, <1>7 DEF IInv

LEMMA AddClientStep ==
  ASSUME IInv, AddClient
  PROVE  IInv'
<1>1. ReaderOK'
  BY ReaderStays DEF AddClient
<1>2. /\ client = FALSE /\ client' = TRUE /\ seqno' = HeaderInit /\ peer' = NewPeer
      /\ due' = <<>> /\ UNCHANGED <<up, file, list, node, sent>>
  BY DEF AddClient, reader, IInv, QueueOK
<1>3. list = <<>> /\ node = NoNode /\ sent = 0
  BY <1>2 DEF IInv, QueueOK
<1>4. Nodes' = Nodes
  BY <1>2 DEF Nodes
<1>5. QueueOK'
  BY <1>2, <1>3, <1>4 DEF IInv, QueueOK
<1>6. UnitsArrive' /\ StreamIntact'
  BY <1>2, <1>3, NewPeerOK DEF UnitsArrive, StreamIntact
<1>7. PeerOK'
  <2>1. peer'.intact \in BOOLEAN /\ peer'.cut \in BOOLEAN
    BY <1>2, NewPeerOK
  <2>2. peer'.open \in BOOLEAN /\ (peer'.open <=> sent' > 0)
    BY <1>2, <1>3, NewPeerOK
  <2>3. seqno' \in [Streams -> 0 .. SeqSpace - 1] /\ peer'.expect = seqno'
    BY <1>2, NewPeerOK
  <2>4. sent' > 0 => peer'.part = Assembled(file.video, node.data, sent)'
    BY <1>2, <1>3
  <2> QED
    BY <1>6, <2>1, <2>2, <2>3, <2>4 DEF PeerOK
<1> QED
  BY <1>1, <1>5, <1>7 DEF IInv

LEMMA SendFailsStep ==
  ASSUME IInv, SendFails
  PROVE  IInv'
<1>1. ReaderOK'
  BY ReaderStays DEF SendFails
<1>2. /\ client' = FALSE /\ list' = <<>> /\ node' = NoNode /\ sent' = 0
      /\ seqno' = HeaderInit /\ peer' = NewPeer /\ due' = <<>> /\ file' = file /\ up' = up
  BY DEF SendFails, reader
<1>3. <<>> \in Seq(Nodes')
  OBVIOUS
<1>4. QueueOK'
  BY <1>2, <1>3 DEF IInv, QueueOK
<1>5. UnitsArrive' /\ StreamIntact'
  BY <1>2, NewPeerOK DEF UnitsArrive, StreamIntact
<1>6. PeerOK'
  <2>1. peer'.intact \in BOOLEAN /\ peer'.cut \in BOOLEAN
    BY <1>2, NewPeerOK
  <2>2. peer'.open \in BOOLEAN /\ (peer'.open <=> sent' > 0)
    BY <1>2, NewPeerOK
  <2>3. seqno' \in [Streams -> 0 .. SeqSpace - 1] /\ peer'.expect = seqno'
    BY <1>2, NewPeerOK
  <2>4. sent' > 0 => peer'.part = Assembled(file.video, node.data, sent)'
    BY <1>2
  <2> QED
    BY <1>5, <2>1, <2>2, <2>3, <2>4 DEF PeerOK
<1> QED
  BY <1>1, <1>4, <1>6 DEF IInv

LEMMA HeadTailJoin ==
  ASSUME NEW S, NEW l \in Seq(S), l # <<>>
  PROVE  l = <<Head(l)>> \o Tail(l)
OBVIOUS

LEMMA JoinHeadTail ==
  ASSUME NEW S, NEW x \in S, NEW l \in Seq(S)
  PROVE  Head(<<x>> \o l) = x /\ Tail(<<x>> \o l) = l
OBVIOUS

(* A unit has at least one packet.                                         *)
LEMMA SomePacket ==
  ASSUME file \in Media, NEW n \in Nodes
  PROVE  /\ PacketsOf(Codec(n.stream), n.data) \in Nat \ {0}
         /\ PacketsOf(Codec(n.stream), n.data) > 1 =>
              n.stream = "video" /\ Fragmented(n.data)
<1>1. n.data \in Seq(0 .. 255) /\ n.stream \in Streams /\ Len(n.data) \in Nat
  BY DEF Nodes
<1>2. /\ n.stream = "video" => file.video \in Video
      /\ file.audio \in {"aac", "pcma", "none"}
  BY FileFacts DEF Video, Nodes
<1>3. CASE n.stream = "video" /\ Fragmented(n.data)
  <2>1. Codec(n.stream) = file.video
    BY <1>3 DEF Codec
  <2>2. PacketsOf(file.video, n.data) \in Nat /\ PacketsOf(file.video, n.data) >= 2
    BY <1>1, <1>2, <1>3, Counting, Zenon
  <2> QED
    BY <1>3, <2>1, <2>2
<1>4. CASE ~(n.stream = "video" /\ Fragmented(n.data))
  <2>1. PacketsOf(Codec(n.stream), n.data) = 1
    BY <1>1, <1>2, <1>4 DEF PacketsOf, Fragments, Codec, Streams
  <2> QED
    BY <2>1
<1> QED
  BY <1>3, <1>4

LEMMA PopNodeStep ==
  ASSUME IInv, PopNode
  PROVE  IInv'
<1>1. ReaderOK'
  BY ReaderStays DEF PopNode
<1>2. /\ client /\ node = NoNode /\ list # <<>> /\ list' = Tail(list) /\ sent' = 0
      /\ node' = IF Head(list).data = <<>> THEN NoNode ELSE Head(list)
      /\ up' \in Copied(Head(list).data)
      /\ UNCHANGED <<file, client, seqno, due, peer>>
  BY DEF PopNode, reader
<1>3. Nodes' = Nodes
  BY <1>2 DEF Nodes
<1>4. Head(list) \in Nodes /\ Tail(list) \in Seq(Nodes)
  BY <1>2, HeadTailProperties DEF IInv, QueueOK
<1>5. QueueOK'
  <2>1. node' # NoNode => 0 < PacketsOf(Codec(node.stream), node.data)'
    <3>1. SUFFICES ASSUME node' # NoNode PROVE 0 < PacketsOf(Codec(node.stream), node.data)'
      OBVIOUS
    <3>2. PICK n \in Nodes : n = Head(list) /\ node' = n
      BY <1>2, <1>4, <3>1
    <3>3. Codec(node.stream)' = Codec(n.stream)
      BY <1>2, <3>2 DEF Codec
    <3>4. PacketsOf(Codec(n.stream), n.data) \in Nat \ {0}
      BY SomePacket DEF IInv, ReaderOK
    <3> QED
      BY <3>2, <3>3, <3>4
  <2>2. up' \in BOOLEAN /\ (Ordinary(file') => up')
    BY <1>2, <1>4, CopyFits DEF IInv
  <2> QED
    BY <1>2, <1>3, <1>4, <2>1, <2>2 DEF IInv, QueueOK
<1>6. sent = 0
  BY <1>2 DEF IInv, QueueOK
<1>7. UnitsArrive' /\ StreamIntact'
  <2>1. node' = Head(list) /\ node' # NoNode
    BY <1>2, <1>4, MediaAssumption DEF Nodes, Streams
  <2>2. list \in Seq(Nodes) /\ due = list
    BY <1>2 DEF IInv, QueueOK, PeerOK, UnitsArrive
  <2>3. list = <<Head(list)>> \o Tail(list)
    BY <1>2, <2>2, HeadTailJoin
  <2>4. due' = <<node'>> \o list'
    BY <1>2, <2>1, <2>2, <2>3
  <2> QED
    BY <1>2, <2>1, <2>4 DEF IInv, PeerOK, UnitsArrive, StreamIntact
<1>8. PeerOK'
  BY <1>2, <1>6, <1>7 DEF IInv, PeerOK
<1> QED
  BY <1>1, <1>5, <1>8 DEF IInv

-----------------------------------------------------------------------------
(* What a peer must have after the packet that is sent now.                *)
Arrives(l) ==
  l # NoNode =>
    LET extra == IF ~Fragments(l.codec) \/ ~Fragmented(l.want) THEN 0
                 ELSE IF l.codec = "h264" THEN 1 ELSE 2
    IN l.got = l.want \o [k \in 1 .. extra |-> Stale]

Received(r) ==
  /\ r.expect = [peer.expect EXCEPT ![node.stream] = NextSeqno(seqno[node.stream])]
  /\ r.intact \in BOOLEAN /\ r.cut \in BOOLEAN /\ (r.intact \/ r.cut)
  /\ r.open \in BOOLEAN
  /\ r.open <=> sent + 1 < PacketsOf(Codec(node.stream), node.data)
  /\ r.open => r.part = Assembled(file.video, node.data, sent + 1)
  /\ ~r.cut => Arrives(r.last)

Sent == RtpPacket(Codec(node.stream), node.data, sent)

Sending == Receive(node.stream, seqno[node.stream], Sent)

(* The last packet of a unit, and no other, completes it.                  *)
Completed ==
  Completes(node.stream, Sent) <=> sent + 1 = PacketsOf(Codec(node.stream), node.data)

(* What is due first is the unit being sent, and then what is queued.      *)
LEMMA DueFirst ==
  ASSUME IInv, node # NoNode
  PROVE  Head(due) = node /\ Tail(due) = list
<1>1. node \in Nodes /\ list \in Seq(Nodes) /\ due = <<node>> \o list
  BY DEF IInv, QueueOK, PeerOK, UnitsArrive
<1> QED
  BY <1>1, JoinHeadTail

LEMMA SendingFacts ==
  ASSUME IInv, node # NoNode
  PROVE  /\ node \in Nodes /\ node.stream \in Streams /\ Head(due).data = node.data
         /\ node.data \in Seq(0 .. 255) /\ Len(node.data) \in Nat
         /\ sent \in Nat /\ sent < PacketsOf(Codec(node.stream), node.data)
         /\ PacketsOf(Codec(node.stream), node.data) \in Nat
         /\ node.stream = "video" => file.video \in Video
         /\ file.audio \in {"aac", "pcma", "none"}
         /\ seqno[node.stream] = peer.expect[node.stream]
         /\ peer.intact \in BOOLEAN /\ peer.cut \in BOOLEAN /\ (peer.intact \/ peer.cut)
         /\ peer.open \in BOOLEAN /\ (peer.open <=> sent > 0)
         /\ sent > 0 => peer.part = Assembled(file.video, node.data, sent)
         /\ ~peer.cut => Arrives(peer.last)
<1>1. file \in Media /\ node \in Nodes
  BY DEF IInv, ReaderOK, QueueOK
<1>2. PacketsOf(Codec(node.stream), node.data) \in Nat
  BY <1>1, SomePacket
<1>3. /\ node.stream = "video" => file.video \in Video
      /\ file.audio \in {"aac", "pcma", "none"}
  BY <1>1, FileFacts DEF Video, Nodes
<1>4. node.stream \in Streams /\ node.data \in Seq(0 .. 255) /\ Head(due).data = node.data
  BY <1>1, DueFirst DEF Nodes
<1>5. Len(node.data) \in Nat
  BY <1>4
<1>6. sent \in Nat /\ sent < PacketsOf(Codec(node.stream), node.data)
  BY DEF IInv, QueueOK
<1>7. ~peer.cut => Arrives(peer.last)
  BY DEF IInv, PeerOK, UnitsArrive, Arrives
<1>8. /\ seqno[node.stream] = peer.expect[node.stream]
      /\ peer.intact \in BOOLEAN /\ peer.cut \in BOOLEAN /\ (peer.intact \/ peer.cut)
      /\ peer.open \in BOOLEAN /\ (peer.open <=> sent > 0)
      /\ sent > 0 => peer.part = Assembled(file.video, node.data, sent)
  BY DEF IInv, PeerOK, StreamIntact
<1> QED
  BY <1>1, <1>2, <1>3, <1>4, <1>5, <1>6, <1>7, <1>8

LEMMA VideoHolds ==
  ASSUME NEW codec \in Video, NEW f
  PROVE  HeadersHold(codec, f)
BY DEF Video, HeadersHold

(* A fragment of a NALU.                                                   *)
LEMMA FragmentReceived ==
  ASSUME IInv, node # NoNode, node.stream = "video", Fragmented(node.data)
  PROVE  Received(Sending) /\ Completed
<1> DEFINE codec  == file.video
           f      == node.data
           packet == RtpPacket(codec, f, sent)
           p      == packet.payload
           r      == Sending
           whole  == IF FuStarts(codec, p)
                     THEN FuNaluHeader(codec, p) \o FuData(codec, p)
                     ELSE peer.part \o FuData(codec, p)
<1>1. /\ codec \in Video /\ f \in Seq(0 .. 255) /\ Len(f) \in Nat /\ Head(due).data = f
      /\ sent \in Nat /\ PacketsOf(codec, f) \in Nat /\ sent < PacketsOf(codec, f)
      /\ seqno["video"] = peer.expect["video"]
      /\ peer.intact \in BOOLEAN /\ peer.cut \in BOOLEAN /\ (peer.intact \/ peer.cut)
      /\ peer.open \in BOOLEAN /\ (peer.open <=> sent > 0)
      /\ sent > 0 => peer.part = Assembled(codec, f, sent)
      /\ (~peer.cut => Arrives(peer.last)) /\ Codec(node.stream) = codec
  BY SendingFacts DEF Codec
<1>2. sent \in 0 .. PacketsOf(codec, f) - 1
  BY <1>1
<1>3. IsFragment(codec, f, sent)
  BY <1>1, <1>2, FragmentsFit
<1>4. /\ packet.len16 = RTP_HEADER_SIZE + Len(p) /\ IsFu(codec, p)
      /\ FuStarts(codec, p) <=> sent = 0
      /\ FuEnds(codec, p) <=> sent = PacketsOf(codec, f) - 1
      /\ FuNaluHeader(codec, p) = Bytes(f, 0, HeaderLen(codec))
      /\ FuData(codec, p) = Bytes(f, HeaderLen(codec) + sent * Mtu, FragmentSize(f, sent))
  BY <1>3 DEF IsFragment
<1>5. whole = Assembled(codec, f, sent + 1)
  <2>1. /\ Assembled(codec, f, 0) = Bytes(f, 0, HeaderLen(codec))
        /\ Assembled(codec, f, sent) \o Bytes(f, HeaderLen(codec) + sent * Mtu, FragmentSize(f, sent))
             = Assembled(codec, f, sent + 1)
    BY <1>1, <1>2, Assembling
  <2>2. CASE sent = 0
    BY <1>4, <2>1, <2>2
  <2>3. CASE sent # 0
    <3>1. peer.part = Assembled(codec, f, sent)
      BY <1>1, <2>3
    <3> QED
      BY <1>4, <2>1, <2>3, <3>1
  <2> QED
    BY <2>2, <2>3
<1>6. /\ r.expect = [peer.expect EXCEPT !["video"] = NextSeqno(seqno["video"])]
      /\ r.open = (TRUE /\ ~FuEnds(codec, p))
      /\ r.part = IF ~FuEnds(codec, p) THEN whole ELSE <<>>
      /\ r.intact = (peer.intact /\ seqno["video"] = peer.expect["video"]
                       /\ packet.len16 = RTP_HEADER_SIZE + Len(p)
                       /\ FuStarts(codec, p) = ~peer.open)
      /\ r.cut = (peer.cut \/ ~HeadersHold(codec, f))
      /\ r.last = IF FuEnds(codec, p) THEN Arrived(whole) ELSE peer.last
  BY <1>1, <1>4 DEF Sending, Sent, Receive, NextSeqno
<1>7. Arrives(Arrived(Assembled(codec, f, PacketsOf(codec, f))))
  <2> DEFINE l == Arrived(Assembled(codec, f, PacketsOf(codec, f)))
  <2>1. /\ l.codec = codec /\ l.want = f
        /\ l.got = f \o [k \in 1 .. HeaderLen(codec) |-> Stale]
    BY <1>1, AllAssembled DEF Arrived
  <2>2. Fragments(codec)
    BY <1>1 DEF Fragments, Video
  <2> HIDE DEF l
  <2>3. HeaderLen(l.codec) = IF ~Fragments(l.codec) \/ ~Fragmented(l.want) THEN 0
                             ELSE IF l.codec = "h264" THEN 1 ELSE 2
    BY <2>1, <2>2 DEF HeaderLen
  <2>4. l.got = l.want \o [k \in 1 .. HeaderLen(l.codec) |-> Stale]
    BY <2>1, Zenon
  <2>5. Arrives(l)
    BY <2>3, <2>4 DEF Arrives
  <2> QED
    BY <2>5 DEF l
<1>8. r.intact \in BOOLEAN /\ r.cut \in BOOLEAN /\ (r.intact \/ r.cut) /\ (r.cut <=> peer.cut)
  <2>1. FuStarts(codec, p) \in BOOLEAN
    BY <1>1 DEF FuStarts
  <2>2. FuStarts(codec, p) = ~peer.open
    BY <1>1, <1>4, <2>1
  <2>3. r.intact = peer.intact
    BY <1>1, <1>4, <1>6, <2>2
  <2>4. HeadersHold(codec, f)
    BY <1>1, VideoHolds
  <2>5. r.cut = peer.cut
    BY <1>1, <1>6, <2>4
  <2> QED
    BY <1>1, <2>3, <2>5
<1>9. r.open \in BOOLEAN /\ (r.open <=> sent + 1 < PacketsOf(codec, f))
  <2>1. r.open \in BOOLEAN /\ (r.open <=> ~FuEnds(codec, p))
    BY <1>6
  <2>2. sent = PacketsOf(codec, f) - 1 <=> ~(sent + 1 < PacketsOf(codec, f))
    BY <1>1
  <2> QED
    BY <1>4, <2>1, <2>2, Zenon
<1>10. r.open => r.part = Assembled(codec, f, sent + 1)
  BY <1>5, <1>6
<1>11. ~r.cut => Arrives(r.last)
  <2>1. CASE FuEnds(codec, p)
    <3>1. sent + 1 = PacketsOf(codec, f)
      BY <1>1, <1>4, <2>1
    <3>2. r.last = Arrived(Assembled(codec, f, PacketsOf(codec, f)))
      BY <1>5, <1>6, <2>1, <3>1
    <3> QED
      BY <1>7, <3>2
  <2>2. CASE ~FuEnds(codec, p)
    BY <1>1, <1>6, <1>8, <2>2
  <2> QED
    BY <2>1, <2>2
<1>12. Completed
  <2>1. Completes(node.stream, Sent) <=> FuEnds(codec, p)
    BY <1>1, <1>4 DEF Completes, Sent
  <2>2. sent = PacketsOf(codec, f) - 1 <=> sent + 1 = PacketsOf(codec, f)
    BY <1>1
  <2> QED
    BY <1>1, <1>4, <2>1, <2>2 DEF Completed
<1> QED
  BY <1>1, <1>6, <1>8, <1>9, <1>10, <1>11, <1>12 DEF Received

(* A NALU or an audio frame that is one packet.                            *)
LEMMA WholeReceived ==
  ASSUME IInv, node # NoNode, ~(node.stream = "video" /\ Fragmented(node.data)),
         Codec(node.stream) # "none"
  PROVE  Received(Sending) /\ Completed
<1> DEFINE codec  == Codec(node.stream)
           stream == node.stream
           f      == node.data
           packet == RtpPacket(codec, f, sent)
           p      == packet.payload
           r      == Sending
<1>1. /\ f \in Seq(0 .. 255) /\ Len(f) \in Nat /\ Head(due).data = f /\ stream \in Streams
      /\ sent \in Nat /\ PacketsOf(codec, f) \in Nat /\ sent < PacketsOf(codec, f)
      /\ seqno[stream] = peer.expect[stream]
      /\ peer.intact \in BOOLEAN /\ peer.cut \in BOOLEAN /\ (peer.intact \/ peer.cut)
      /\ peer.open \in BOOLEAN /\ (peer.open <=> sent > 0)
      /\ node \in Nodes
  BY SendingFacts
<1>2. \/ stream = "video" /\ codec \in Video /\ codec = file.video
      \/ stream = "audio" /\ codec \in {"aac", "pcma"} /\ codec = file.audio
  BY <1>1, SendingFacts DEF Codec, Streams
<1> DEFINE got == IF stream = "video" THEN p ELSE AudioData(codec, p)
<1>3. /\ PacketsOf(codec, f) = 1 /\ ~(stream = "video" /\ IsFu(codec, p))
      /\ HeadersHold(codec, f) => packet.len16 = RTP_HEADER_SIZE + Len(p) /\ got = f
  <2>1. CASE stream = "video"
    <3>1. /\ codec \in {"h264", "h265", "aac", "pcma"} /\ codec # "aac" /\ codec = file.video
          /\ ~Fragmented(f)
      BY <1>2, <2>1 DEF Video
    <3>2. PacketsOf(codec, f) = 1 /\ packet = Packet(f, Len(f))
      BY <1>1, <3>1, Whole
    <3>3. ~IsFu(codec, f)
      BY <1>1, <2>1, <3>1 DEF Nodes
    <3>4. packet.len16 = RTP_HEADER_SIZE + Len(p) /\ p = f
      <4>1. RTP_HEADER_SIZE + Len(f) < LenMod
        BY <1>1, <3>1, MtuFits, Sizes DEF Fragmented
      <4>2. Packet(f, Len(f)).len16 = RTP_HEADER_SIZE + Len(f) /\ Packet(f, Len(f)).payload = f
        BY <1>1, <4>1, Length16
      <4> QED
        BY <3>2, <4>2
    <3> QED
      BY <2>1, <3>2, <3>3, <3>4
  <2>2. CASE stream = "audio"
    <3>1. codec \in {"aac", "pcma"}
      BY <1>2, <2>2
    <3>2. /\ PacketsOf(codec, f) = 1
          /\ HeadersHold(codec, f) => /\ packet.len16 = RTP_HEADER_SIZE + Len(p)
                                      /\ AudioData(codec, p) = f
      <4>1. HeadersHold(codec, f) => IsFrame(codec, f, sent)
        BY <1>1, <3>1, AudioArrives
      <4>2. PacketsOf(codec, f) = 1
        BY <1>1, <3>1, Whole DEF Video
      <4> QED
        BY <4>1, <4>2 DEF IsFrame
    <3> QED
      BY <2>2, <3>2
  <2> QED
    BY <1>2, <2>1, <2>2
<1>4. sent = 0 /\ ~peer.open
  BY <1>1, <1>3
<1>5. /\ r.expect = [peer.expect EXCEPT ![stream] = NextSeqno(seqno[stream])]
      /\ r.open = FALSE
      /\ r.intact = (peer.intact /\ seqno[stream] = peer.expect[stream]
                       /\ packet.len16 = RTP_HEADER_SIZE + Len(p) /\ ~peer.open)
      /\ r.cut = (peer.cut \/ ~HeadersHold(codec, f))
      /\ r.last = Arrived(got)
  BY <1>3 DEF Sending, Sent, Receive, NextSeqno
<1>6. r.intact \in BOOLEAN /\ r.cut \in BOOLEAN /\ (r.intact \/ r.cut)
  <2>1. CASE HeadersHold(codec, f)
    BY <1>1, <1>3, <1>4, <1>5, <2>1
  <2>2. CASE ~HeadersHold(codec, f)
    BY <1>1, <1>5, <2>2
  <2> QED
    BY <2>1, <2>2
<1>7. ~r.cut => Arrives(r.last)
  <2>0. SUFFICES ASSUME ~r.cut PROVE Arrives(r.last)
    OBVIOUS
  <2>h. HeadersHold(codec, f)
    BY <1>5, <2>0
  <2> DEFINE l == Arrived(f)
  <2>1. l.codec = codec /\ l.want = f /\ l.got = f
    BY <1>1 DEF Arrived
  <2>2. ~Fragments(codec) \/ ~Fragmented(f)
    BY <1>2 DEF Fragments
  <2>3. f \o [k \in 1 .. 0 |-> Stale] = f
    BY <1>1
  <2> HIDE DEF l
  <2>4. Arrives(l)
    BY <2>1, <2>2, <2>3 DEF Arrives
  <2> QED
    BY <1>3, <1>5, <2>h, <2>4 DEF l
<1>8. r.open \in BOOLEAN /\ (r.open <=> sent + 1 < PacketsOf(codec, f)) /\ ~r.open
  <2>1. r.open \in BOOLEAN /\ ~r.open
    BY <1>5
  <2>2. ~(sent + 1 < PacketsOf(codec, f))
    BY <1>1, <1>3
  <2> QED
    BY <2>1, <2>2
<1>9. Completed
  <2>1. Completes(node.stream, Sent)
    BY <1>3 DEF Completes, Sent
  <2>2. sent + 1 = PacketsOf(codec, f)
    BY <1>3, <1>4, <1>1
  <2> QED
    BY <2>1, <2>2 DEF Completed
<1> QED
  BY <1>5, <1>6, <1>7, <1>8, <1>9 DEF Received

LEMMA SendPacketStep ==
  ASSUME IInv, SendPacket
  PROVE  IInv'
<1> DEFINE n == PacketsOf(Codec(node.stream), node.data)
<1>1. ReaderOK'
  BY ReaderStays DEF SendPacket
<1>2. /\ node # NoNode /\ UNCHANGED <<up, file, client, list>> /\ peer' = Sending
      /\ Codec(node.stream) # "none"
      /\ seqno' = [seqno EXCEPT ![node.stream] = NextSeqno(@)]
      /\ due' = IF Completes(node.stream, Sent) THEN Tail(due) ELSE due
      /\ \/ sent + 1 = n /\ node' = NoNode /\ sent' = 0
         \/ sent + 1 # n /\ node' = node /\ sent' = sent + 1
  BY DEF SendPacket, Sending, Sent, reader
<1>3. /\ node \in Nodes /\ node.stream \in Streams /\ sent \in Nat /\ n \in Nat /\ sent < n
  BY <1>2, SendingFacts
<1>4. Received(Sending) /\ Completed
  BY <1>2, FragmentReceived, WholeReceived
<1>5. QueueOK'
  <2>1. Nodes' = Nodes
    BY <1>2 DEF Nodes
  <2>2. CASE sent + 1 = n
    BY <1>2, <2>1, <2>2 DEF IInv, QueueOK
  <2>3. CASE sent + 1 # n
    <3>1. PacketsOf(Codec(node.stream), node.data)' = n
      BY <1>2, <2>3 DEF Codec
    <3>2. sent' \in Nat /\ sent' < n
      BY <1>2, <1>3, <2>3
    <3> HIDE DEF n
    <3> QED
      BY <1>2, <2>1, <2>3, <3>1, <3>2 DEF IInv, QueueOK
  <2> QED
    BY <2>2, <2>3
<1>6. seqno' \in [Streams -> 0 .. SeqSpace - 1] /\ peer'.expect = seqno'
  <2>1. seqno \in [Streams -> 0 .. SeqSpace - 1] /\ peer.expect = seqno
    BY DEF IInv, PeerOK
  <2>2. seqno[node.stream] \in Nat
    BY <1>3, <2>1
  <2>3. NextSeqno(seqno[node.stream]) \in 0 .. SeqSpace - 1
    BY <2>2, MediaAssumption DEF NextSeqno
  <2>4. seqno' = [seqno EXCEPT ![node.stream] = NextSeqno(seqno[node.stream])]
    BY <1>2
  <2> QED
    BY <1>2, <1>4, <2>1, <2>3, <2>4 DEF Received
<1>7. UnitsArrive' /\ StreamIntact'
  <2>1. ~peer'.cut => Arrives(peer'.last)
    BY <1>2, <1>4 DEF Received
  <2>2. due' = (IF node' = NoNode THEN <<>> ELSE <<node'>>) \o list'
    <3>1. /\ due = <<node>> \o list /\ Tail(due) = list /\ list \in Seq(Nodes)
          /\ Completes(node.stream, Sent) <=> sent + 1 = n
      BY <1>2, <1>4, DueFirst DEF IInv, QueueOK, PeerOK, UnitsArrive, Completed
    <3> HIDE DEF n
    <3>2. CASE sent + 1 = n
      <4>1. due' = list' /\ node' = NoNode /\ list' \in Seq(Nodes)
        BY <1>2, <3>1, <3>2
      <4> QED
        BY <4>1
    <3>3. CASE sent + 1 # n
      BY <1>2, <3>1, <3>3
    <3> QED
      BY <3>2, <3>3
  <2>3. StreamIntact'
    BY <1>2, <1>4 DEF Received, StreamIntact
  <2> QED
    BY <2>1, <2>2, <2>3 DEF UnitsArrive, Arrives
<1>8. /\ peer'.intact \in BOOLEAN /\ peer'.cut \in BOOLEAN
      /\ peer'.open \in BOOLEAN /\ (peer'.open <=> sent' > 0)
      /\ sent' > 0 => peer'.part = Assembled(file'.video, node'.data, sent')
  <2>1. /\ peer'.intact \in BOOLEAN /\ peer'.cut \in BOOLEAN
        /\ peer'.open \in BOOLEAN /\ (peer'.open <=> sent + 1 < n)
        /\ peer'.open => peer'.part = Assembled(file.video, node.data, sent + 1)
    BY <1>2, <1>4 DEF Received
  <2> HIDE DEF n
  <2> QED
    BY <1>2, <1>3, <2>1
<1> QED
  BY <1>1, <1>5, <1>6, <1>7, <1>8 DEF IInv, PeerOK

-----------------------------------------------------------------------------
LEMMA SendNothingStep ==
  ASSUME IInv, SendNothing
  PROVE  IInv'
<1>1. ReaderOK'
  BY ReaderStays DEF SendNothing
<1>2. /\ node # NoNode /\ Codec(node.stream) = "none"
      /\ node' = NoNode /\ sent' = 0 /\ due' = Tail(due)
      /\ UNCHANGED <<up, file, client, list, seqno, peer>>
  BY DEF SendNothing, reader
<1>3. sent = 0
  <2>1. node \in Nodes /\ sent \in Nat /\ sent < PacketsOf(Codec(node.stream), node.data)
    BY <1>2, SendingFacts
  <2>2. PacketsOf("none", node.data) = 1
    BY DEF PacketsOf, Fragments
  <2> QED
    BY <1>2, <2>1, <2>2
<1>4. QueueOK'
  <2>1. Nodes' = Nodes
    BY <1>2 DEF Nodes
  <2> QED
    BY <1>2, <2>1 DEF IInv, QueueOK
<1>5. UnitsArrive' /\ StreamIntact'
  <2>1. due' = list' /\ list' \in Seq(Nodes)
    BY <1>2, DueFirst DEF IInv, QueueOK
  <2>2. due' = <<>> \o list'
    BY <2>1
  <2> QED
    BY <1>2, <2>2 DEF IInv, PeerOK, UnitsArrive, StreamIntact
<1>6. PeerOK'
  BY <1>2, <1>3, <1>5 DEF IInv, PeerOK
<1> QED
  BY <1>1, <1>4, <1>6 DEF IInv

(* The invariant holds in every reachable state.                           *)
THEOREM MediaInvariant == Spec => []IInv
<1>1. IInv /\ [Next]_vars => IInv'
  <2> SUFFICES ASSUME IInv, [Next]_vars PROVE IInv'
    OBVIOUS
  <2>1. CASE ReadVideo
    BY <2>1, ReadVideoStep
  <2>2. CASE ReadAudio
    BY <2>2, ReadAudioStep
  <2>3. CASE ParseNalu
    BY <2>3, ParseNaluStep
  <2>4. CASE AddClient
    BY <2>4, AddClientStep
  <2>5. CASE PopNode
    BY <2>5, PopNodeStep
  <2>6. CASE SendPacket
    BY <2>6, SendPacketStep
  <2>7. CASE SendFails
    BY <2>7, SendFailsStep
  <2>9. CASE ReadUnfiltered
    BY <2>9, ReadUnfilteredStep
  <2>10. CASE SendNothing
    BY <2>10, SendNothingStep
  <2>8. CASE UNCHANGED vars
    <3>1. UNCHANGED reader /\ UNCHANGED <<up, file, client, list, node, sent, seqno, due, peer>>
      BY <2>8 DEF vars, reader, sender
    <3>2. ReaderOK' /\ PeerOK'
      BY <3>1, ReaderStays, PeerStays DEF IInv
    <3>3. Nodes' = Nodes /\ PacketsOf(Codec(node.stream), node.data)'
                              = PacketsOf(Codec(node.stream), node.data)
      BY <3>1 DEF Nodes, Codec
    <3>4. QueueOK'
      BY <3>1, <3>3 DEF IInv, QueueOK
    <3> QED
      BY <3>2, <3>4 DEF IInv
  <2> QED
    BY <2>1, <2>2, <2>3, <2>4, <2>5, <2>6, <2>7, <2>8, <2>9, <2>10 DEF Next, Reader, Sender
<1> QED
  BY <1>1, InitOK, PTL DEF Spec

(* The types: pos never leaves the access unit, the file's index stays in  *)
(* the file, no unit is queued or sent while the slot is empty, and a file *)
(* with known video and units that fit data keeps the run defined.         *)
THEOREM MediaTypeOK == Spec => []TypeOK
<1>1. IInv => TypeOK
  <2> SUFFICES ASSUME IInv PROVE TypeOK
    OBVIOUS
  <2>1. PICK us, front, j : Reading(us, front, j)
    BY DEF IInv, ReaderOK
  <2>2. us \in Seq(Units) /\ Fronts(us, front) /\ j \in 0 .. Len(us) /\ Len(us) \in j .. Len(us)
    BY <2>1 DEF Reading
  <2>3. Len(front[j]) <= Len(front[Len(us)])
    BY <2>2, FrontIsPrefix
  <2>4. front[j] \in Seq(0 .. 255) /\ front[Len(us)] \in Seq(0 .. 255)
    BY <2>2 DEF Fronts
  <2>5. pos \in 0 .. Len(buf) /\ bstat \in {"READ", "WRITE"}
    BY <2>1, <2>3, <2>4 DEF Reading
  <2> QED
    BY <2>5 DEF TypeOK, IInv, ReaderOK, QueueOK, PeerOK
<1> QED
  BY <1>1, MediaInvariant, PTL

(* For every file, Mtu and queue: what a peer lacks of the file, from its  *)
(* coming on, is the unit being sent and those queued, in their order; and *)
(* each unit it completes is the one that was due (with its header's       *)
(* length of stale bytes if it was fragmented).  So praseFrame, the queue  *)
(* and the packetizers drop, split, join or alter none, but for audio of   *)
(* an unknown codec and behind a length that no header could hold.         *)
THEOREM EveryUnitArrives == Spec => []UnitsArrive
<1>1. IInv => UnitsArrive
  BY DEF IInv, PeerOK
<1> QED
  BY <1>1, MediaInvariant, PTL

(* No gap in a sequence of numbers, across units, fragments, the wrap of   *)
(* the number and a client that comes back into the slot; every fragmented *)
(* unit is started and ended; rtp_len16 is the length of what follows, up  *)
(* to an audio frame whose length it or the AU-header cannot hold.         *)
THEOREM StreamStaysIntact == Spec => []StreamIntact
<1>1. IInv => StreamIntact
  BY DEF IInv, PeerOK
<1> QED
  BY <1>1, MediaInvariant, PTL

(* The loop over an access unit ends when praseFrame has found all of its  *)
(* NALUs, and not before, whatever the units and their start codes are.    *)
THEOREM FindsEveryNalu == Spec => []EveryNaluFound
<1>1. IInv => EveryNaluFound
  <2> SUFFICES ASSUME IInv PROVE EveryNaluFound
    OBVIOUS
  <2>1. PICK us, front, j : Reading(us, front, j)
    BY DEF IInv, ReaderOK
  <2>2. /\ rest = [k \in 1 .. Len(us) - j |-> us[j + k].nalu]
        /\ bstat = IF j = Len(us) THEN "WRITE" ELSE "READ"
        /\ j \in 0 .. Len(us) /\ Len(us) \in Nat
    BY <2>1 DEF Reading
  <2>3. CASE j = Len(us)
    BY <2>2, <2>3 DEF EveryNaluFound
  <2>4. CASE j # Len(us)
    <3>1. 1 \in DOMAIN rest
      BY <2>2, <2>4
    <3>2. rest # <<>>
      BY <3>1
    <3> QED
      BY <2>2, <2>4, <3>2 DEF EveryNaluFound
  <2> QED
    BY <2>3, <2>4
<1> QED
  BY <1>1, MediaInvariant, PTL

=============================================================================
