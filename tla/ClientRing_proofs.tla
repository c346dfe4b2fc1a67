-------------------------- MODULE ClientRing_proofs --------------------------
(***************************************************************************)
(* Theorems about the rings of a client slot, for every set of packets,    *)
(* every initial size, every growth step and every bound: the rings stay   *)
(* well formed, hold only packets the client asked for, and implement the  *)
(* queues of ClientQueue.                                                  *)
(***************************************************************************)
EXTENDS ClientRing, SequenceTheorems, TLAPS

(* Wrapping an index around s slots: the positions from p on have a slot   *)
(* of their own each, and stepping to the next slot is adding one.         *)
LEMMA WrapFacts ==
  ASSUME NEW s \in Nat \ {0}, NEW p \in 0 .. s - 1
  PROVE  /\ \A i \in 1 .. s : Wrap(s, p + i - 1) \in 0 .. s - 1
         /\ \A n \in 0 .. s : Wrap(s, p + n) \in 0 .. s - 1
         /\ \A n \in 0 .. s - 1, i \in 1 .. s :
              i <= n => Wrap(s, p + i - 1) # Wrap(s, p + n)
         /\ \A n \in 0 .. s - 1 :
              Wrap(s, p + (n + 1)) = IF Wrap(s, p + n) + 1 >= s THEN 0 ELSE Wrap(s, p + n) + 1
         /\ Wrap(s, p + s) = p /\ Wrap(s, p + 0) = p
BY DEF Wrap

(* Moving the head one slot on renumbers the positions by one.             *)
Step(s, p) == IF p + 1 >= s THEN 0 ELSE p + 1

LEMMA WrapShift ==
  ASSUME NEW s \in Nat \ {0}, NEW p \in 0 .. s - 1
  PROVE  LET q == Step(s, p)
         IN  /\ q \in 0 .. s - 1
             /\ \A i \in 1 .. s - 1 : Wrap(s, q + i - 1) = Wrap(s, p + (i + 1) - 1)
             /\ \A n \in 1 .. s : Wrap(s, q + (n - 1)) = Wrap(s, p + n)
BY DEF Wrap, Step

(* Where the new slots go: the i-th packet of a full ring moves with the   *)
(* part from pos_list on, and stays if it lies in front of it.             *)
LEMMA WrapGrow ==
  ASSUME NEW s \in Nat \ {0}, NEW p \in 0 .. s - 1, NEW k \in Nat \ {0}
  PROVE  /\ \A i \in 1 .. s :
              /\ Wrap(s + k, p + k + i - 1) \in 0 .. s + k - 1
              /\ Wrap(s + k, p + k + i - 1) = IF Wrap(s, p + i - 1) < p
                                              THEN Wrap(s, p + i - 1)
                                              ELSE Wrap(s, p + i - 1) + k
         /\ Wrap(s + k, p + k + s) = p
BY DEF Wrap

(* The parts of RingOK the lemmas below quote.                             *)
LEMMA RingParts ==
  ASSUME NEW r, RingOK(r)
  PROVE  /\ r.size \in Nat \ {0} /\ r.list \in [0 .. r.size - 1 -> Slots]
         /\ r.pos_list \in 0 .. r.size - 1 /\ r.pos_last \in 0 .. r.size - 1
         /\ r.num \in 0 .. r.size
         /\ r.pos_last = Wrap(r.size, r.pos_list + r.num)
         /\ \A i \in 1 .. r.num : r.list[SlotOf(r, i)] \in Packets
BY DEF RingOK

(* The contents of a well-formed ring are a sequence of packets.           *)
LEMMA ContentsSeq ==
  ASSUME NEW r, RingOK(r)
  PROVE  /\ Contents(r) \in Seq(Packets) /\ Len(Contents(r)) = r.num
         /\ \A i \in 1 .. r.num : Contents(r)[i] = r.list[SlotOf(r, i)]
<1>1. r.num \in Nat /\ \A i \in 1 .. r.num : r.list[SlotOf(r, i)] \in Packets
  BY RingParts
<1> QED BY <1>1 DEF Contents

(* What the fields of the ring an operation returns must satisfy for it to *)
(* be well formed.                                                         *)
LEMMA MakeRing ==
  ASSUME NEW s \in Nat \ {0}, NEW l \in [0 .. s - 1 -> Slots], NEW p \in 0 .. s - 1,
         NEW n \in 0 .. s, NEW t \in 0 .. s - 1, t = Wrap(s, p + n),
         NEW r, r = [list |-> l, size |-> s, pos_list |-> p, num |-> n, pos_last |-> t],
         \A i \in 1 .. n : l[Wrap(s, p + i - 1)] \in Packets
  PROVE  IsRing(r) /\ RingOK(r)
BY DEF IsRing, RingOK, SlotOf

(* Allocating the slots of a cleared ring gives an empty well-formed one.  *)
LEMMA AllocatedOK ==
  RingOK(Allocated(NoRing)) /\ IsRing(Allocated(NoRing)) /\ Contents(Allocated(NoRing)) = <<>>
<1> DEFINE r == Allocated(NoRing)
           l == [i \in 0 .. InitSize - 1 |-> Blank]
<1>1. r = [list |-> l, size |-> InitSize, pos_list |-> 0, num |-> 0, pos_last |-> 0]
  BY DEF Allocated, NoRing
<1>2. InitSize \in Nat \ {0} /\ l \in [0 .. InitSize - 1 -> Slots]
  BY RingAssumption DEF Slots
<1> HIDE DEF r, l
<1>3. RingOK(r) /\ IsRing(r)
  <2>1. 0 = Wrap(InitSize, 0 + 0) /\ 0 \in 0 .. InitSize - 1 /\ 0 \in 0 .. InitSize
    BY <1>2 DEF Wrap
  <2> QED BY <1>1, <1>2, <2>1, MakeRing
<1>4. Contents(r) = <<>>
  BY <1>1 DEF Contents
<1> QED BY <1>3, <1>4 DEF r

(* increaseClientList keeps the packets and their order, and makes room.   *)
LEMMA GrownOK ==
  ASSUME NEW r, IsRing(r), RingOK(r)
  PROVE  /\ IsRing(Grown(r)) /\ RingOK(Grown(r))
         /\ Grown(r).num = r.num /\ Grown(r).num < Grown(r).size
         /\ Contents(Grown(r)) = Contents(r)
<1> DEFINE s == r.size  p == r.pos_list  n == r.num  t == r.pos_last  l == r.list
           k == GrowStep
           gl == [i \in 0 .. s + k - 1 |-> MovedSlot(r, i)]
           g == Grown(r)
<1>1. /\ s \in Nat \ {0} /\ l \in [0 .. s - 1 -> Slots] /\ p \in 0 .. s - 1
      /\ n \in 0 .. s /\ t \in 0 .. s - 1 /\ t = Wrap(s, p + n)
      /\ \A i \in 1 .. n : l[Wrap(s, p + i - 1)] \in Packets
      /\ k \in Nat \ {0}
  BY RingParts, RingAssumption DEF SlotOf
<1>2. Contents(r) = [i \in 1 .. n |-> l[Wrap(s, p + i - 1)]]
  BY DEF Contents, SlotOf
<1>3. n < s => g = r
  BY <1>1 DEF Grown
<1>4. n >= s => g = [list |-> gl, size |-> s + k, pos_list |-> p + k,
                     num |-> n, pos_last |-> t]
  BY DEF Grown
<1>5. \A i : MovedSlot(r, i) = IF i < p THEN l[i] ELSE IF i < p + k THEN Blank ELSE l[i - k]
  BY DEF MovedSlot
<1>6. CASE n < s
  BY <1>3, <1>6
<1>7. CASE n >= s
  <2> HIDE DEF s, p, n, t, l, k
  <2>0. Wrap(s, p + s) = p /\ \A i \in 1 .. s : Wrap(s, p + i - 1) \in 0 .. s - 1
    BY <1>1, WrapFacts
  <2>1. n = s /\ t = p
    <3>1. n = s BY <1>1, <1>7
    <3> QED BY <1>1, <2>0, <3>1
  <2>w. /\ \A i \in 1 .. s :
              /\ Wrap(s + k, p + k + i - 1) \in 0 .. s + k - 1
              /\ Wrap(s + k, p + k + i - 1) = IF Wrap(s, p + i - 1) < p
                                              THEN Wrap(s, p + i - 1)
                                              ELSE Wrap(s, p + i - 1) + k
        /\ Wrap(s + k, p + k + s) = p
    BY <1>1, WrapGrow
  <2>2. \A i \in 0 .. s + k - 1 : MovedSlot(r, i) \in Slots
    <3>1. Blank \in Slots BY DEF Slots
    <3> TAKE i \in 0 .. s + k - 1
    <3>2. i < p => l[i] \in Slots
      BY <1>1
    <3>3. i >= p + k => l[i - k] \in Slots
      BY <1>1
    <3> QED BY <1>1, <1>5, <3>1, <3>2, <3>3
  <2>3. gl \in [0 .. s + k - 1 -> Slots]
    BY <2>2
  <2>4. \A i \in 1 .. n : gl[Wrap(s + k, p + k + i - 1)] = l[Wrap(s, p + i - 1)]
    <3> TAKE i \in 1 .. n
    <3> DEFINE old == Wrap(s, p + i - 1)
               new == Wrap(s + k, p + k + i - 1)
    <3>1. i \in 1 .. s
      BY <2>1
    <3>2. old \in 0 .. s - 1 /\ new \in 0 .. s + k - 1
          /\ new = IF old < p THEN old ELSE old + k
      BY <2>0, <2>w, <3>1
    <3> HIDE DEF old, new
    <3>3. gl[new] = MovedSlot(r, new)
      BY <3>2
    <3>4. MovedSlot(r, new) = l[old]
      BY <1>1, <1>5, <3>2
    <3> QED BY <3>3, <3>4 DEF old, new
  <2> HIDE DEF gl
  <2>5. g = [list |-> gl, size |-> s + k, pos_list |-> p + k, num |-> n, pos_last |-> t]
    BY <1>4, <1>7
  <2> HIDE DEF g
  <2>6. IsRing(g) /\ RingOK(g)
    <3>1. s + k \in Nat \ {0} /\ p + k \in 0 .. s + k - 1 /\ n \in 0 .. s + k
          /\ t \in 0 .. s + k - 1
      BY <1>1
    <3>2. t = Wrap(s + k, p + k + n)
      BY <2>1, <2>w
    <3>3. \A i \in 1 .. n : gl[Wrap(s + k, p + k + i - 1)] \in Packets
      BY <1>1, <2>4
    <3> DEFINE gs == s + k  gp == p + k
    <3>4. /\ gs \in Nat \ {0} /\ gp \in 0 .. gs - 1
          /\ n \in 0 .. gs /\ t \in 0 .. gs - 1
      BY <1>1, <3>1
    <3>7. gl \in [0 .. gs - 1 -> Slots]
      BY <1>1, <2>3
    <3>8. t = Wrap(gs, gp + n)
      BY <3>2
    <3>5. g = [list |-> gl, size |-> gs, pos_list |-> gp, num |-> n, pos_last |-> t]
      BY <2>5
    <3>6. \A i \in 1 .. n : gl[Wrap(gs, gp + i - 1)] \in Packets
      BY <3>3
    <3> HIDE DEF gs, gp
    <3> QED BY <3>4, <3>5, <3>6, <3>7, <3>8, MakeRing
  <2>7. Contents(g) = [i \in 1 .. n |-> gl[Wrap(s + k, p + k + i - 1)]]
    BY <2>5 DEF Contents, SlotOf
  <2>8. Contents(g) = Contents(r)
    BY <1>2, <2>4, <2>7
  <2>9. g.num = n /\ g.num < g.size
    BY <1>1, <2>1, <2>5
  <2> QED BY <2>6, <2>8, <2>9 DEF g, n
<1> QED BY <1>1, <1>6, <1>7

(* Writing a packet into a ring with room appends it to the contents.      *)
LEMMA PutOK ==
  ASSUME NEW r, IsRing(r), RingOK(r), r.num < r.size, NEW x \in Packets
  PROVE  /\ IsRing(Put(r, x)) /\ RingOK(Put(r, x))
         /\ Contents(Put(r, x)) = Append(Contents(r), x)
<1> DEFINE s == r.size  p == r.pos_list  n == r.num  t == r.pos_last  l == r.list
           nl == [l EXCEPT ![t] = x]
           m == Next0(r, t)
           c == Contents(r)
           g == Put(r, x)
<1>1. /\ s \in Nat \ {0} /\ l \in [0 .. s - 1 -> Slots] /\ p \in 0 .. s - 1
      /\ n \in 0 .. s /\ n < s /\ t \in 0 .. s - 1 /\ t = Wrap(s, p + n)
      /\ \A i \in 1 .. n : l[Wrap(s, p + i - 1)] \in Packets
      /\ x \in Slots
  BY RingParts DEF SlotOf, Slots
<1>2. /\ c \in Seq(Packets) /\ Len(c) = n
      /\ \A i \in 1 .. n : c[i] = l[Wrap(s, p + i - 1)]
  BY ContentsSeq DEF SlotOf
<1>3. g = [list |-> nl, size |-> s, pos_list |-> p, num |-> n + 1, pos_last |-> m]
  BY DEF Put
<1>4. m = IF t + 1 >= s THEN 0 ELSE t + 1
  BY DEF Next0
<1> HIDE DEF s, p, n, t, l, m, c, g
<1>5. n \in 0 .. s - 1 /\ n + 1 \in 0 .. s
  BY <1>1
<1>w. /\ \A i \in 1 .. s : Wrap(s, p + i - 1) \in 0 .. s - 1
      /\ \A j \in 0 .. s : Wrap(s, p + j) \in 0 .. s - 1
      /\ \A j \in 0 .. s - 1, i \in 1 .. s :
           i <= j => Wrap(s, p + i - 1) # Wrap(s, p + j)
      /\ \A j \in 0 .. s - 1 :
           Wrap(s, p + (j + 1)) = IF Wrap(s, p + j) + 1 >= s THEN 0 ELSE Wrap(s, p + j) + 1
  BY <1>1, WrapFacts
<1>6. m \in 0 .. s - 1 /\ m = Wrap(s, p + (n + 1))
  <2>1. m = Wrap(s, p + (n + 1))
    BY <1>1, <1>4, <1>5, <1>w
  <2> QED BY <2>1, <1>5, <1>w
<1>7. \A i \in 1 .. n + 1 : nl[Wrap(s, p + i - 1)] = IF i <= n THEN c[i] ELSE x
  <2> TAKE i \in 1 .. n + 1
  <2>1. CASE i <= n
    <3>1. i \in 1 .. n /\ i \in 1 .. s
      BY <1>1, <2>1
    <3>2. Wrap(s, p + i - 1) # t /\ Wrap(s, p + i - 1) \in 0 .. s - 1
      BY <1>1, <1>5, <2>1, <3>1, <1>w
    <3> QED BY <1>1, <1>2, <2>1, <3>1, <3>2
  <2>2. CASE i = n + 1
    <3>1. p + i - 1 = p + n
      BY <1>1, <2>2
    <3> QED BY <1>1, <2>2, <3>1
  <2> QED BY <1>1, <2>1, <2>2
<1>8. nl \in [0 .. s - 1 -> Slots]
  BY <1>1
<1> HIDE DEF nl
<1>9. \A i \in 1 .. n + 1 : nl[Wrap(s, p + i - 1)] \in Packets
  <2> TAKE i \in 1 .. n + 1
  <2>1. i <= n => c[i] \in Packets
    BY <1>1, <1>2
  <2> QED BY <1>7, <2>1
<1>10. IsRing(g) /\ RingOK(g)
  BY <1>1, <1>3, <1>5, <1>6, <1>8, <1>9, MakeRing
<1>11. Contents(g) = Append(c, x)
  <2>1. /\ Contents(g) \in Seq(Packets) /\ Len(Contents(g)) = n + 1
        /\ \A i \in 1 .. n + 1 : Contents(g)[i] = nl[Wrap(s, p + i - 1)]
    BY <1>3, <1>10, ContentsSeq DEF SlotOf
  <2>2. \A i \in 1 .. n + 1 : Contents(g)[i] = IF i <= n THEN c[i] ELSE x
    BY <1>7, <2>1
  <2>3. /\ Append(c, x) \in Seq(Packets) /\ Len(Append(c, x)) = n + 1
        /\ \A i \in 1 .. n : Append(c, x)[i] = c[i]
        /\ Append(c, x)[n + 1] = x
    BY <1>2, AppendProperties
  <2>4. \A i \in 1 .. n + 1 : i \in 1 .. n \/ (i = n + 1 /\ ~(i <= n))
    BY <1>1
  <2>5. \A i \in 1 .. n + 1 : Contents(g)[i] = Append(c, x)[i]
    BY <2>2, <2>3, <2>4
  <2> QED BY <2>1, <2>3, <2>5, SeqEqual
<1> QED BY <1>10, <1>11 DEF g, c

(* Taking the packet at pos_list removes the head of the contents.         *)
LEMMA TakenOK ==
  ASSUME NEW r, IsRing(r), RingOK(r), CanTake(r)
  PROVE  /\ IsRing(Taken(r)) /\ RingOK(Taken(r))
         /\ First(r) \in Packets
         /\ Contents(r) # <<>> /\ First(r) = Head(Contents(r))
         /\ Contents(Taken(r)) = Tail(Contents(r))
<1> DEFINE s == r.size  p == r.pos_list  n == r.num  t == r.pos_last  l == r.list
           q == Next0(r, p)
           c == Contents(r)
           g == Taken(r)
<1>1. /\ s \in Nat \ {0} /\ l \in [0 .. s - 1 -> Slots] /\ p \in 0 .. s - 1
      /\ n \in 1 .. s /\ t \in 0 .. s - 1 /\ t = Wrap(s, p + n)
      /\ \A i \in 1 .. n : l[Wrap(s, p + i - 1)] \in Packets
  BY RingParts DEF SlotOf, CanTake
<1>2. /\ c \in Seq(Packets) /\ Len(c) = n
      /\ \A i \in 1 .. n : c[i] = l[Wrap(s, p + i - 1)]
  BY ContentsSeq DEF SlotOf
<1>3. g = [list |-> l, size |-> s, pos_list |-> q, num |-> n - 1, pos_last |-> t]
  BY DEF Taken
<1>4. q = Step(s, p)
  BY DEF Next0, Step
<1>5. First(r) = l[p]
  BY DEF First
<1> HIDE DEF s, p, n, t, l, q, c, g
<1>6. /\ q \in 0 .. s - 1 /\ n - 1 \in 0 .. s
      /\ t = Wrap(s, q + (n - 1))
      /\ \A i \in 1 .. n - 1 : /\ Wrap(s, q + i - 1) = Wrap(s, p + (i + 1) - 1)
                               /\ i + 1 \in 1 .. n
  <2>1. /\ q \in 0 .. s - 1
        /\ \A i \in 1 .. s - 1 : Wrap(s, q + i - 1) = Wrap(s, p + (i + 1) - 1)
        /\ \A j \in 1 .. s : Wrap(s, q + (j - 1)) = Wrap(s, p + j)
    BY <1>1, <1>4, WrapShift
  <2>2. n - 1 \in 0 .. s /\ \A i \in 1 .. n - 1 : i \in 1 .. s - 1 /\ i + 1 \in 1 .. n
    BY <1>1
  <2>3. t = Wrap(s, q + (n - 1))
    BY <1>1, <2>1
  <2> QED BY <2>1, <2>2, <2>3
<1>7. \A i \in 1 .. n - 1 : l[Wrap(s, q + i - 1)] = c[i + 1]
  BY <1>2, <1>6
<1>8. \A i \in 1 .. n - 1 : l[Wrap(s, q + i - 1)] \in Packets
  BY <1>1, <1>6
<1>9. IsRing(g) /\ RingOK(g)
  BY <1>1, <1>3, <1>6, <1>8, MakeRing
<1>10. First(r) = c[1] /\ First(r) \in Packets
  <2>1. Wrap(s, p + 1 - 1) = p /\ 1 \in 1 .. n
    BY <1>1 DEF Wrap
  <2> QED BY <1>1, <1>2, <1>5, <2>1
<1>11. Contents(g) = Tail(c)
  <2>1. /\ Contents(g) \in Seq(Packets) /\ Len(Contents(g)) = n - 1
        /\ \A i \in 1 .. n - 1 : Contents(g)[i] = l[Wrap(s, q + i - 1)]
    BY <1>3, <1>9, ContentsSeq DEF SlotOf
  <2>2. c # <<>>
    BY <1>1, <1>2
  <2>3. /\ Tail(c) \in Seq(Packets) /\ Len(Tail(c)) = n - 1
        /\ \A i \in 1 .. n - 1 : Tail(c)[i] = c[i + 1]
    BY <1>2, <2>2, HeadTailProperties
  <2> QED BY <1>7, <2>1, <2>3, SeqEqual
<1>12. c # <<>> /\ First(r) = Head(c)
  BY <1>1, <1>2, <1>10
<1> QED BY <1>9, <1>10, <1>11, <1>12 DEF g, c

-----------------------------------------------------------------------------
(* The invariant: it is inductive as it stands, because the guard of       *)
(* sendData and of the pops (a slot in use) is what RingsOK asks about.    *)
Inv == TypeOK /\ RingsOK

LEMMA NoRingFacts == IsRing(NoRing) /\ Contents(NoRing) = <<>> /\ ~CanTake(NoRing)
BY DEF IsRing, NoRing, Contents, CanTake

(* What sendData does to one ring, seen through the operators.             *)
LEMMA SendDataRing ==
  ASSUME Inv, NEW p \in Packets, SendData(p)
  PROVE  /\ RingOK(ring) /\ RingOK(ring_1) /\ IsRing(ring) /\ IsRing(ring_1)
         /\ IsRing(ring') /\ RingOK(ring') /\ IsRing(ring_1') /\ RingOK(ring_1')
         /\ Contents(ring') = IF Wanted(p) /\ ~UsesRing1(p)
                              THEN Append(Contents(ring), p) ELSE Contents(ring)
         /\ Contents(ring_1') = IF Wanted(p) /\ UsesRing1(p)
                                THEN Append(Contents(ring_1), p) ELSE Contents(ring_1)
<1>1. /\ RingOK(ring) /\ RingOK(ring_1) /\ IsRing(ring) /\ IsRing(ring_1)
  BY DEF Inv, TypeOK, RingsOK, SendData
<1>2. \A r : IsRing(r) /\ RingOK(r) =>
         /\ IsRing(Grown(r)) /\ RingOK(Grown(r)) /\ Contents(Grown(r)) = Contents(r)
         /\ IsRing(Put(Grown(r), p)) /\ RingOK(Put(Grown(r), p))
         /\ Contents(Put(Grown(r), p)) = Append(Contents(r), p)
  <2> TAKE r
  <2> HAVE IsRing(r) /\ RingOK(r)
  <2>1. /\ IsRing(Grown(r)) /\ RingOK(Grown(r)) /\ Contents(Grown(r)) = Contents(r)
        /\ Grown(r).num < Grown(r).size
    BY GrownOK
  <2>2. /\ IsRing(Put(Grown(r), p)) /\ RingOK(Put(Grown(r), p))
        /\ Contents(Put(Grown(r), p)) = Append(Contents(Grown(r)), p)
    BY <2>1, PutOK
  <2> QED BY <2>1, <2>2
<1> QED BY <1>1, <1>2 DEF SendData

LEMMA InvInit == Init => Inv
BY NoRingFacts DEF Init, Inv, TypeOK, RingsOK, Tracks

LEMMA InvNext == Inv /\ [Next]_vars => Inv'
<1> SUFFICES ASSUME Inv, [Next]_vars PROVE Inv'
  OBVIOUS
<1> USE DEF Inv
<1>1. ASSUME NEW tr \in {"tcp", "udp"}, NEW ts \in SUBSET Tracks, AddClient(tr, ts)
      PROVE  Inv'
  <2>1. ring = NoRing /\ ring_1 = NoRing
    BY <1>1 DEF AddClient, RingsOK
  <2>2. /\ IsRing(ring') /\ IsRing(ring_1') /\ RingOK(ring') /\ RingOK(ring_1')
    BY <1>1, <2>1, AllocatedOK DEF AddClient
  <2> QED BY <1>1, <2>2 DEF AddClient, TypeOK, RingsOK
<1>2. ASSUME NEW p \in Packets, SendData(p) PROVE Inv'
  <2>1. IsRing(ring') /\ RingOK(ring') /\ IsRing(ring_1') /\ RingOK(ring_1')
    BY <1>2, SendDataRing
  <2> QED BY <1>2, <2>1 DEF SendData, TypeOK, RingsOK
<1>3. CASE PopTcp \/ PopUdpVideo
  <2>1. /\ RingOK(ring) /\ IsRing(ring) /\ CanTake(ring) /\ transport # "none"
        /\ ring' = Taken(ring) /\ node' = First(ring)
        /\ UNCHANGED <<transport, tracks, ring_1, stalled>>
    BY <1>3 DEF PopTcp, PopUdpVideo, TypeOK, RingsOK
  <2>2. RingOK(ring') /\ IsRing(ring') /\ node' \in Packets
    BY <2>1, TakenOK
  <2> QED BY <2>1, <2>2 DEF TypeOK, RingsOK
<1>4. CASE PopUdpAudio
  <2>1. /\ RingOK(ring_1) /\ IsRing(ring_1) /\ CanTake(ring_1) /\ transport # "none"
        /\ ring_1' = Taken(ring_1) /\ node' = First(ring_1)
        /\ UNCHANGED <<transport, tracks, ring, stalled>>
    BY <1>4 DEF PopUdpAudio, TypeOK, RingsOK
  <2>2. RingOK(ring_1') /\ IsRing(ring_1') /\ node' \in Packets
    BY <2>1, TakenOK
  <2> QED BY <2>1, <2>2 DEF TypeOK, RingsOK
<1>5. CASE SendNode
  BY <1>5 DEF SendNode, TypeOK, RingsOK
<1>6. CASE ClearClient
  <2>1. ring' = NoRing /\ ring_1' = NoRing
    BY <1>6 DEF ClearClient, Cleared, NoRing
  <2> QED BY <1>6, <2>1, NoRingFacts DEF ClearClient, TypeOK, RingsOK
<1>7. CASE UNCHANGED vars
  BY <1>7 DEF vars, TypeOK, RingsOK
<1>8. CASE Stall
  <2>1. stalled' \in BOOLEAN
    BY <1>8, Zenon DEF Stall
  <2> QED BY <1>8, <2>1 DEF Stall, TypeOK, RingsOK
<1> QED BY <1>1, <1>2, <1>3, <1>4, <1>5, <1>6, <1>7, <1>8 DEF Next

(* The slot's variables stay of their types and its rings well formed: the *)
(* head and tail indexes of sendData and epollLoop never leave the         *)
(* allocation and never meet a slot nobody wrote.                          *)
THEOREM RingSafety == Spec => [](TypeOK /\ RingsOK)
<1>1. Inv => TypeOK /\ RingsOK BY DEF Inv
<1> QED BY InvInit, InvNext, <1>1, PTL DEF Spec

(* The types alone: transport, tracks, the packet being sent and the rings'*)
(* fields, pos_list and pos_last among them, keep their ranges.            *)
THEOREM RingTypeOK == Spec => []TypeOK
<1>1. TypeOK /\ RingsOK => TypeOK OBVIOUS
<1> QED BY <1>1, RingSafety, PTL

-----------------------------------------------------------------------------
(* What appending and taking do to the elements of a queue.                *)
LEMMA AppendElements ==
  ASSUME NEW c \in Seq(Packets), NEW x \in Packets, NEW i \in DOMAIN Append(c, x)
  PROVE  Append(c, x)[i] = x \/ \E j \in DOMAIN c : Append(c, x)[i] = c[j]
<1>1. i \in 1 .. Len(c) + 1 /\ DOMAIN c = 1 .. Len(c)
  OBVIOUS
<1>2. Append(c, x)[i] = IF i = Len(c) + 1 THEN x ELSE c[i]
  BY <1>1
<1> QED BY <1>1, <1>2

LEMMA TailElements ==
  ASSUME NEW c \in Seq(Packets), c # <<>>, NEW i \in DOMAIN Tail(c)
  PROVE  \E j \in DOMAIN c : Tail(c)[i] = c[j]
<1>1. i \in 1 .. Len(c) - 1 /\ DOMAIN c = 1 .. Len(c) /\ Tail(c)[i] = c[i + 1]
  BY HeadTailProperties
<1> QED BY <1>1

(* OnlySetupTracks says of each queue that its elements are allowed by the *)
(* tracks ts and the transport tr of its client.                           *)
Allowed(p, ts, tr) ==
  \/ p \in Video /\ "video" \in ts
  \/ p \in Audio /\ "audio" \in ts /\ tr = "tcp"
Allowed_1(p, ts, tr) == p \in Audio /\ "audio" \in ts /\ tr = "udp"

LEMMA OnlySetupNext == Inv /\ OnlySetupTracks /\ [Next]_vars => OnlySetupTracks'
<1> SUFFICES ASSUME Inv, OnlySetupTracks, [Next]_vars PROVE OnlySetupTracks'
  OBVIOUS
<1> DEFINE c == Contents(ring)
           c1 == Contents(ring_1)
<1>1. /\ \A i \in DOMAIN c : Allowed(c[i], tracks, transport)
      /\ \A i \in DOMAIN c1 : Allowed_1(c1[i], tracks, transport)
  BY DEF OnlySetupTracks, Allowed, Allowed_1
<1>2. ASSUME /\ \A i \in DOMAIN c' : Allowed(c'[i], tracks', transport')
             /\ \A i \in DOMAIN c1' : Allowed_1(c1'[i], tracks', transport')
      PROVE  OnlySetupTracks'
  BY <1>2 DEF OnlySetupTracks, Allowed, Allowed_1
<1>3. c' = <<>> /\ c1' = <<>> => OnlySetupTracks'
  BY DEF OnlySetupTracks
<1>4. ASSUME NEW tr \in {"tcp", "udp"}, NEW ts \in SUBSET Tracks, AddClient(tr, ts)
      PROVE  OnlySetupTracks'
  <2>1. ring = NoRing /\ ring_1 = NoRing
    BY <1>4 DEF AddClient, RingsOK, Inv
  <2> QED BY <1>3, <1>4, <2>1, AllocatedOK DEF AddClient
<1>5. ASSUME NEW p \in Packets, SendData(p) PROVE OnlySetupTracks'
  <2>1. /\ c \in Seq(Packets) /\ c1 \in Seq(Packets)
        /\ c' = IF Wanted(p) /\ ~UsesRing1(p) THEN Append(c, p) ELSE c
        /\ c1' = IF Wanted(p) /\ UsesRing1(p) THEN Append(c1, p) ELSE c1
    BY <1>5, SendDataRing, ContentsSeq
  <2>2. tracks' = tracks /\ transport' = transport
    BY <1>5 DEF SendData
  <2>3. transport \in {"tcp", "udp"}
    BY <1>5 DEF SendData, Inv, TypeOK
  <2>4. /\ Wanted(p) /\ ~UsesRing1(p) => Allowed(p, tracks, transport)
        /\ Wanted(p) /\ UsesRing1(p) => Allowed_1(p, tracks, transport)
    BY <2>3, ClientAssumption DEF Wanted, UsesRing1, Allowed, Allowed_1
  <2> HIDE DEF c, c1
  <2>5. \A i \in DOMAIN c' : Allowed(c'[i], tracks, transport)
    BY <1>1, <2>1, <2>4, AppendElements
  <2>6. \A i \in DOMAIN c1' : Allowed_1(c1'[i], tracks, transport)
    BY <1>1, <2>1, <2>4, AppendElements
  <2> QED BY <2>2, <2>5, <2>6, <1>2
<1>6. CASE PopTcp \/ PopUdpVideo
  <2>1. /\ RingOK(ring) /\ IsRing(ring) /\ CanTake(ring)
        /\ ring' = Taken(ring) /\ UNCHANGED <<transport, tracks, ring_1>>
    BY <1>6 DEF PopTcp, PopUdpVideo, TypeOK, RingsOK, Inv
  <2>2. c \in Seq(Packets) /\ c # <<>> /\ c' = Tail(c) /\ c1' = c1
    BY <2>1, TakenOK, ContentsSeq
  <2> HIDE DEF c, c1
  <2>3. \A i \in DOMAIN c' : Allowed(c'[i], tracks, transport)
    BY <1>1, <2>2, TailElements
  <2> QED BY <1>1, <1>2, <2>1, <2>2, <2>3
<1>7. CASE PopUdpAudio
  <2>1. /\ RingOK(ring_1) /\ IsRing(ring_1) /\ CanTake(ring_1)
        /\ ring_1' = Taken(ring_1) /\ UNCHANGED <<transport, tracks, ring>>
    BY <1>7 DEF PopUdpAudio, TypeOK, RingsOK, Inv
  <2>2. c1 \in Seq(Packets) /\ c1 # <<>> /\ c1' = Tail(c1) /\ c' = c
    BY <2>1, TakenOK, ContentsSeq
  <2> HIDE DEF c, c1
  <2>3. \A i \in DOMAIN c1' : Allowed_1(c1'[i], tracks, transport)
    BY <1>1, <2>2, TailElements
  <2> QED BY <1>1, <1>2, <2>1, <2>2, <2>3
<1>8. CASE SendNode \/ Stall \/ UNCHANGED vars
  BY <1>8 DEF SendNode, Stall, vars, OnlySetupTracks
<1>9. CASE ClearClient
  <2>1. ring' = NoRing /\ ring_1' = NoRing
    BY <1>9 DEF ClearClient, Cleared, NoRing
  <2> QED BY <1>3, <2>1, NoRingFacts
<1> QED BY <1>4, <1>5, <1>6, <1>7, <1>8, <1>9 DEF Next

(* A slot never queues a packet of a track its client did not set up, nor  *)
(* one meant for the client that had the slot before.                      *)
THEOREM ServesOnlySetupTracks == Spec => []OnlySetupTracks
<1>1. Init => OnlySetupTracks
  BY NoRingFacts DEF Init, OnlySetupTracks
<1> QED BY InvInit, InvNext, OnlySetupNext, <1>1, PTL DEF Spec

-----------------------------------------------------------------------------
(* A clean slot and a clean queue: the initial states agree.               *)
LEMMA QueueInit == Init => CQ!Init
BY NoRingFacts DEF Init, CQ!Init

(* Every step on the rings is one step on the queues: a growth is no       *)
(* change, a write an Append, a pop a Tail.                                *)
LEMMA QueueStep == Inv /\ [Next]_vars => [CQ!Next]_CQ!vars
<1> SUFFICES ASSUME Inv, [Next]_vars PROVE [CQ!Next]_CQ!vars
  OBVIOUS
<1> USE DEF CQ!Tracks, Tracks
<1>1. ASSUME NEW tr \in {"tcp", "udp"}, NEW ts \in SUBSET Tracks, AddClient(tr, ts)
      PROVE  CQ!Next
  <2>1. ring = NoRing /\ ring_1 = NoRing
    BY <1>1 DEF AddClient, RingsOK, Inv
  <2>2. /\ Contents(ring') = Contents(ring) /\ Contents(ring_1') = Contents(ring_1)
    BY <1>1, <2>1, AllocatedOK, NoRingFacts DEF AddClient
  <2>3. CQ!Admit(tr, ts)
    BY <1>1, <2>2 DEF AddClient, CQ!Admit
  <2> QED BY <2>3 DEF CQ!Next
<1>2. ASSUME NEW p \in Packets, SendData(p) PROVE CQ!Next
  <2>1. /\ Contents(ring') = IF Wanted(p) /\ ~UsesRing1(p)
                             THEN Append(Contents(ring), p) ELSE Contents(ring)
        /\ Contents(ring_1') = IF Wanted(p) /\ UsesRing1(p)
                               THEN Append(Contents(ring_1), p) ELSE Contents(ring_1)
    BY <1>2, SendDataRing
  <2>2. CQ!Produce(p)
    BY <1>2, <2>1 DEF SendData, Wanted, UsesRing1, CQ!Produce
  <2> QED BY <2>2, ClientAssumption DEF CQ!Next
<1>3. CASE PopTcp \/ PopUdpVideo
  <2>1. /\ RingOK(ring) /\ IsRing(ring) /\ CanTake(ring) /\ node = NoPacket
        /\ ring' = Taken(ring) /\ node' = First(ring)
        /\ UNCHANGED <<transport, tracks, ring_1>>
    BY <1>3 DEF PopTcp, PopUdpVideo, TypeOK, RingsOK, Inv
  <2>2. /\ Contents(ring) # <<>> /\ First(ring) = Head(Contents(ring))
        /\ Contents(ring') = Tail(Contents(ring))
    BY <2>1, TakenOK
  <2>3. CQ!Take
    BY <2>1, <2>2 DEF CQ!Take
  <2> QED BY <2>3 DEF CQ!Next
<1>4. CASE PopUdpAudio
  <2>1. /\ RingOK(ring_1) /\ IsRing(ring_1) /\ CanTake(ring_1) /\ node = NoPacket
        /\ ring_1' = Taken(ring_1) /\ node' = First(ring_1)
        /\ UNCHANGED <<transport, tracks, ring>>
    BY <1>4 DEF PopUdpAudio, TypeOK, RingsOK, Inv
  <2>2. /\ Contents(ring_1) # <<>> /\ First(ring_1) = Head(Contents(ring_1))
        /\ Contents(ring_1') = Tail(Contents(ring_1))
    BY <2>1, TakenOK
  <2>3. CQ!Take_1
    BY <2>1, <2>2 DEF CQ!Take_1
  <2> QED BY <2>3 DEF CQ!Next
<1>5. CASE SendNode
  <2>1. CQ!Sent
    BY <1>5 DEF SendNode, CQ!Sent
  <2> QED BY <2>1 DEF CQ!Next
<1>6. CASE ClearClient
  <2>1. ring' = NoRing /\ ring_1' = NoRing
    BY <1>6 DEF ClearClient, Cleared, NoRing
  <2>2. CQ!Leave
    BY <1>6, <2>1, NoRingFacts DEF ClearClient, CQ!Leave
  <2> QED BY <2>2 DEF CQ!Next
<1>7. CASE UNCHANGED vars
  BY <1>7 DEF vars, CQ!vars, Contents, SlotOf
<1>8. CASE Stall
  BY <1>8 DEF Stall, CQ!vars, Contents, SlotOf
<1> QED BY <1>1, <1>2, <1>3, <1>4, <1>5, <1>6, <1>7, <1>8 DEF Next

(* The rings implement the per-client queues: for every mix of growing,    *)
(* wrapping and reuse of a slot, no packet is lost, repeated or reordered. *)
THEOREM RingsImplementQueue == Spec => ImplementsQueue
<1>1. Inv /\ [Next]_vars => [CQ!Next]_CQ!vars
  BY QueueStep
<1>2. ImplementsQueue <=> CQ!Init /\ [][CQ!Next]_CQ!vars
  BY DEF ImplementsQueue, CQ!Spec
<1> QED BY InvInit, InvNext, QueueInit, <1>1, <1>2, PTL DEF Spec

=============================================================================
