----------------------------- MODULE PacketRing -----------------------------
(***************************************************************************)
(* The growable ring buffer of media packets that every client slot of     *)
(* session.c keeps twice (packet_list and packet_list_1).  It is a data    *)
(* module: a ring is one record,                                           *)
(*                                                                         *)
(*   list      packet_list, the allocated slots 0 .. size-1                *)
(*   size      packet_list_size                                            *)
(*   pos_list  pos_list, the slot of the next packet to send               *)
(*   num       packet_num, the number of packets in the ring               *)
(*   pos_last  pos_last_packet, the slot the next packet is written to     *)
(*                                                                         *)
(* A slot that realloc or malloc made available and nobody has written     *)
(* since holds Blank: the code never clears it, so a Blank that is sent    *)
(* is a read of memory that no producer wrote.                             *)
(***************************************************************************)
EXTENDS Integers, Sequences

CONSTANTS
  Packets,   \* the media packets (one NALU or one audio frame each)
  Blank,     \* the content of a slot that was never written
  InitSize,  \* RING_BUFFER_MAX / 4, the slots of a new client
  GrowStep   \* 4, the slots that increaseClientList adds

ASSUME RingAssumption ==
  /\ InitSize \in Nat \ {0}
  /\ GrowStep \in Nat \ {0}
  /\ Blank \notin Packets

Slots == Packets \cup {Blank}

(* The ring of a cleared slot: no memory, every counter 0.                 *)
NoRing == [list |-> <<>>, size |-> 0, pos_list |-> 0, num |-> 0, pos_last |-> 0]

(* addClient and addSession allocate the slots and set the size; the       *)
(* counters keep what initClient or clearClient left in them.              *)
Allocated(r) ==
  [list |-> [i \in 0 .. InitSize - 1 |-> Blank], size |-> InitSize,
   pos_list |-> r.pos_list, num |-> r.num, pos_last |-> r.pos_last]

(* increaseClientList: a full ring gets GrowStep more slots, in front of   *)
(* the oldest packet; the packets from pos_list to the end move up.        *)
\* Slip: realloc alone, nothing moves.
MovedSlot_Stay(r, i) == IF i < r.size THEN r.list[i] ELSE Blank

MovedSlot(r, i) == IF i < r.pos_list THEN r.list[i]
                   ELSE IF i < r.pos_list + GrowStep THEN Blank
                   ELSE r.list[i - GrowStep]

\* Slip: pos_list is not moved with the packets.
Grown_HeadStays(r) ==
  IF r.num >= r.size
  THEN [list |-> [i \in 0 .. r.size + GrowStep - 1 |-> MovedSlot(r, i)],
        size |-> r.size + GrowStep, pos_list |-> r.pos_list,
        num |-> r.num, pos_last |-> r.pos_last]
  ELSE r

Grown(r) ==
  IF r.num >= r.size
  THEN [list |-> [i \in 0 .. r.size + GrowStep - 1 |-> MovedSlot(r, i)],
        size |-> r.size + GrowStep, pos_list |-> r.pos_list + GrowStep,
        num |-> r.num, pos_last |-> r.pos_last]
  ELSE r

(* An index that ran off the end of the ring restarts at slot 0.           *)
Next0(r, i) == IF i + 1 >= r.size THEN 0 ELSE i + 1

(* sendData writes a packet at the tail of a ring that has room.           *)
Put(r, p) ==
  [list |-> [r.list EXCEPT ![r.pos_last] = p], size |-> r.size,
   pos_list |-> r.pos_list, num |-> r.num + 1, pos_last |-> Next0(r, r.pos_last)]

(* epollLoop takes the packet at pos_list.                                 *)
\* Slip: the test of packet_num is missing.
CanTake_Empty(r) == r.pos_list < r.size
\* Slip: the last packet is kept back.
CanTake_KeepLast(r) == r.num > 1 /\ r.pos_list < r.size

CanTake(r) == r.num > 0 /\ r.pos_list < r.size

First(r) == r.list[r.pos_list]

Taken(r) ==
  [list |-> r.list, size |-> r.size,
   pos_list |-> Next0(r, r.pos_list), num |-> r.num - 1, pos_last |-> r.pos_last]

-----------------------------------------------------------------------------
(* The slot of the i-th packet and the packets a ring holds, oldest first. *)
Wrap(size, x) == IF x < size THEN x ELSE x - size

SlotOf(r, i) == Wrap(r.size, r.pos_list + i - 1)

Contents(r) == [i \in 1 .. r.num |-> r.list[SlotOf(r, i)]]

(* A ring is a record of exactly these five fields; counters are naturals. *)
IsRing(r) ==
  r \in [list : {r.list}, size : Nat, pos_list : Nat, num : Nat, pos_last : Nat]

(* What the code relies on: the tail index is always pos_list + packet_num *)
(* wrapped around, it is inside the allocation, and every packet between   *)
(* the two indexes was written by sendData.                                *)
RingOK(r) ==
  /\ r.size \in Nat \ {0}
  /\ r.list \in [0 .. r.size - 1 -> Slots]
  /\ r.pos_list \in 0 .. r.size - 1
  /\ r.pos_last \in 0 .. r.size - 1
  /\ r.num \in 0 .. r.size
  /\ r.pos_last = Wrap(r.size, r.pos_list + r.num)
  /\ \A i \in 1 .. r.num : r.list[SlotOf(r, i)] \in Packets

=============================================================================
