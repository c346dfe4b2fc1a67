------------------------ MODULE CameraServer_proofs ------------------------
(***************************************************************************)
(* Theorems about the camera server, for any number of clients, of         *)
(* requests and of sequence numbers: at most one client is streamed to at  *)
(* a time, and its packets are numbered without a gap although every       *)
(* session numbers with the same counter.                                  *)
(***************************************************************************)
EXTENDS CameraServer, SequenceTheorems, TLAPS

(* The stream of one client keeps the thread from starting another.        *)
OneViewer ==
  \A c, d \in Peers : conn[c] = "streaming" /\ conn[d] = "streaming" => c = d

(* A number is remembered of a stream that runs, and while its client is   *)
(* there the counter stands on the one that follows.                       *)
CounterFollows ==
  \A c \in Peers :
    last[c] # None => /\ conn[c] = "streaming"
                      /\ c \in present => sequence_number = (last[c] + 1) % SeqMod

IInv == TypeOK /\ OneViewer /\ CounterFollows

LEMMA InitIInv == Init => IInv
<1> SUFFICES ASSUME Init PROVE IInv
  OBVIOUS
<1>1. up \in BOOLEAN /\ accepting \in BOOLEAN /\ large \in BOOLEAN
  BY Zenon DEF Init
<1>2. TypeOK
  BY <1>1, CameraAssumption DEF Init, TypeOK, Programs, Requests
<1> QED
  BY <1>2 DEF Init, IInv, OneViewer, CounterFollows

LEMMA NextNumberOK ==
  ASSUME TypeOK
  PROVE  NextNumber \in 0 .. SeqMod - 1
BY CameraAssumption DEF TypeOK, NextNumber

(* The end of the server closes everything.                                *)
LEMMA ExitIInv == ASSUME IInv, Exit PROVE IInv'
<1>1. up' \in BOOLEAN /\ accepting' \in BOOLEAN
  BY Zenon DEF Exit
<1>2. inbox' \in [Peers -> Seq(Requests)] /\ \A c \in Peers : Len(inbox'[c]) <= sent'[c]
  BY CameraAssumption DEF IInv, TypeOK, Exit, peerVars
<1>3. TypeOK'
  BY <1>1, <1>2 DEF IInv, TypeOK, Exit, peerVars
<1> QED
  BY <1>3 DEF IInv, OneViewer, CounterFollows, Exit

(* What a read leaves of what a client sent.                               *)
LEMMA RestOfInbox ==
  ASSUME TypeOK, NEW c \in Peers, NEW n \in 1 .. Len(inbox[c])
  PROVE  LET rest == SubSeq(inbox[c], n + 1, Len(inbox[c]))
         IN  rest \in Seq(Requests) /\ Len(rest) <= sent[c]
<1> DEFINE s == inbox[c]  rest == SubSeq(s, n + 1, Len(s))
<1>1. s \in Seq(Requests) /\ Len(s) \in Nat /\ Len(s) <= sent[c] /\ sent[c] \in Nat
  BY CameraAssumption DEF TypeOK
<1>2. \A i \in n + 1 .. Len(s) : s[i] \in Requests
  BY <1>1
<1>3. rest \in Seq(Requests) /\ Len(rest) = IF n + 1 <= Len(s) THEN Len(s) - (n + 1) + 1 ELSE 0
  BY <1>1, <1>2, SubSeqProperties
<1>4. Len(rest) <= sent[c]
  BY <1>1, <1>3
<1> QED
  BY <1>3, <1>4

LEMMA HandleIInv ==
  ASSUME IInv, NEW c \in Peers, NEW n \in 1 .. Len(inbox[c]), NEW m,
         Polling, conn[c] = "reading", Handle(c, n, m)
  PROVE  IInv'
<1>1. CASE Exit
  BY <1>1, ExitIInv
<1>2. CASE /\ inbox' = [inbox EXCEPT ![c] = SubSeq(@, n + 1, Len(@))]
           /\ conn' = [conn EXCEPT ![c] = "streaming"] \/ conn' = conn
           /\ UNCHANGED <<last, program, up, peerVars, accepting, sequence_number>>
  <2>1. TypeOK'
    BY <1>2, RestOfInbox DEF IInv, TypeOK, peerVars
  <2>2. OneViewer'
    BY <1>2 DEF IInv, TypeOK, OneViewer, Polling, Viewers
  <2>3. CounterFollows'
    BY <1>2 DEF IInv, TypeOK, CounterFollows, peerVars
  <2> QED
    BY <2>1, <2>2, <2>3 DEF IInv
<1> QED
  BY <1>1, <1>2 DEF Handle, StartStreaming

THEOREM CameraInvariant == Spec => []IInv
<1>1. IInv /\ [Next]_vars => IInv'
  <2> SUFFICES ASSUME IInv, [Next]_vars PROVE IInv'
    OBVIOUS
  <2>1. ASSUME NEW c \in Peers, Connect(c) PROVE IInv'
    BY <2>1 DEF IInv, TypeOK, OneViewer, CounterFollows, Connect, peerVars
  <2>2. ASSUME NEW c \in Peers, Send(c) PROVE IInv'
    <3> PICK r \in Requests : /\ inbox' = [inbox EXCEPT ![c] = Append(@, r)]
                             /\ large' = (large \/ r = "LARGE")
      BY <2>2 DEF Send
    <3>0. large' \in BOOLEAN
      BY Zenon
    <3>1. Append(inbox[c], r) \in Seq(Requests) /\ Len(Append(inbox[c], r)) = Len(inbox[c]) + 1
      BY AppendProperties DEF IInv, TypeOK
    <3>2. sent' = [sent EXCEPT ![c] = @ + 1] /\ sent[c] + 1 \in 0 .. MaxSent
      BY <2>2, CameraAssumption DEF Send, IInv, TypeOK
    <3>3. \A d \in Peers : Len(inbox'[d]) <= sent'[d]
      BY <3>1, <3>2, CameraAssumption DEF IInv, TypeOK
    <3>4. TypeOK'
      BY <2>2, <3>0, <3>1, <3>2, <3>3 DEF IInv, TypeOK, Send
    <3> QED
      BY <2>2, <3>4 DEF IInv, OneViewer, CounterFollows, Send
  <2>3. ASSUME NEW c \in Peers, Leave(c) PROVE IInv'
    BY <2>3 DEF IInv, TypeOK, OneViewer, CounterFollows, Leave
  <2>4. ASSUME NEW c \in Peers, Accept(c) PROVE IInv'
    <3>1. accepting' \in BOOLEAN
      BY <2>4, Zenon DEF Accept, AcceptsAgain
    <3>2. inbox' \in [Peers -> Seq(Requests)] /\ \A d \in Peers : Len(inbox'[d]) <= sent'[d]
      <4>1. inbox' = inbox \/ inbox' = [inbox EXCEPT ![c] = <<>>]
        BY <2>4 DEF Accept
      <4>2. sent' = sent /\ sent[c] >= 0
        BY <2>4, CameraAssumption DEF IInv, TypeOK, Accept, peerVars
      <4> QED
        BY <4>1, <4>2, EmptySeq DEF IInv, TypeOK
    <3>3. conn' \in [Peers -> {"away", "queued", "reading", "streaming", "closed"}]
      BY <2>4 DEF IInv, TypeOK, Accept
    <3>4. TypeOK'
      BY <2>4, <3>1, <3>2, <3>3 DEF IInv, TypeOK, Accept, peerVars
    <3>5. \A d \in Peers : conn'[d] = "streaming" <=> conn[d] = "streaming"
      BY <2>4 DEF IInv, TypeOK, Accept
    <3>6. OneViewer'
      BY <3>5 DEF IInv, OneViewer
    <3>7. CounterFollows'
      BY <2>4, <3>5 DEF IInv, CounterFollows, Accept, peerVars
    <3> QED
      BY <3>4, <3>6, <3>7 DEF IInv
  <2>5. ASSUME NEW c \in Peers, Read(c) PROVE IInv'
    <3>1. CASE \E n \in 1 .. Len(inbox[c]) : HandleRequest(c, n) \/ HandleRequestCamera(c, n)
      BY <2>5, <3>1, ExitIInv, HandleIInv DEF Read, HandleRequest, HandleRequestCamera
    <3>2. CASE /\ conn' = [conn EXCEPT ![c] = "closed"]
               /\ inbox' = [inbox EXCEPT ![c] = <<>>]
               /\ UNCHANGED <<program, up, peerVars, accepting, sequence_number, last>>
      <4>1. TypeOK'
        BY <3>2 DEF IInv, TypeOK, peerVars
      <4> QED
        BY <2>5, <3>2, <4>1 DEF Read, IInv, TypeOK, OneViewer, CounterFollows, peerVars
    <3> QED
      BY <2>5, <3>1, <3>2 DEF Read
  <2>6. ASSUME NEW c \in Peers, Frame(c) PROVE IInv'
    <3>1. CASE SendRtpPacket(c)
      <4>1. TypeOK'
        BY <3>1, NextNumberOK DEF IInv, TypeOK, SendRtpPacket, peerVars
      <4>2. OneViewer' /\ conn' = conn /\ present' = present
        BY <3>1 DEF IInv, OneViewer, SendRtpPacket, peerVars
      <4>3. CounterFollows'
        BY <2>6, <3>1, CameraAssumption
           DEF IInv, TypeOK, OneViewer, CounterFollows, Frame, SendRtpPacket, NextNumber, peerVars
      <4> QED
        BY <4>1, <4>2, <4>3 DEF IInv
    <3>2. CASE Exit
      BY <3>2, ExitIInv
    <3> QED
      BY <2>6, <3>1, <3>2 DEF Frame, SendPacketCamera
  <2>7. ASSUME NEW c \in Peers, EndStream(c) PROVE IInv'
    BY <2>7 DEF IInv, TypeOK, OneViewer, CounterFollows, EndStream, peerVars
  <2>8. CASE UNCHANGED vars
    BY <2>8 DEF IInv, TypeOK, OneViewer, CounterFollows, vars, peerVars
  <2> QED
    BY <2>1, <2>2, <2>3, <2>4, <2>5, <2>6, <2>7, <2>8 DEF Next
<1> QED
  BY <1>1, InitIInv, PTL DEF Spec

(* The types, among them that the counter keeps its width and that the     *)
(* server never waits to read more than was sent.                          *)
THEOREM CameraTypeOK == Spec => []TypeOK
<1>1. IInv => TypeOK
  BY DEF IInv
<1> QED
  BY <1>1, CameraInvariant, PTL

(* A client receives consecutive numbers as long as its stream lasts,      *)
(* whoever else was streamed to before (send_rtp_packet's static counter). *)
THEOREM StreamNumbering == Spec => StreamIsNumbered
<1>1. IInv /\ [Next]_vars => [NoGap]_vars
  <2> SUFFICES ASSUME IInv, Next PROVE NoGap
    OBVIOUS
  <2> SUFFICES ASSUME NEW d \in Peers, last[d] # None
               PROVE  last'[d] \in {None, last[d], (last[d] + 1) % SeqMod}
    BY DEF NoGap
  <2>1. CASE Exit
    BY <2>1 DEF Exit
  <2>2. CASE last' = last
    BY <2>2
  <2>3. ASSUME NEW c \in Peers, EndStream(c)
        PROVE  last'[d] \in {None, last[d], (last[d] + 1) % SeqMod}
    BY <2>3 DEF EndStream, IInv, TypeOK
  <2>4. ASSUME NEW c \in Peers, Frame(c), SendRtpPacket(c)
        PROVE  last'[d] \in {None, last[d], (last[d] + 1) % SeqMod}
    BY <2>4 DEF Frame, SendRtpPacket, IInv, TypeOK, CounterFollows
  <2>5. ASSUME NEW c \in Peers, Connect(c) \/ Send(c) \/ Leave(c) \/ Accept(c)
        PROVE  last' = last
    BY <2>5 DEF Connect, Send, Leave, Accept
  <2>6. ASSUME NEW c \in Peers, Read(c)
        PROVE  last' = last \/ Exit
    BY <2>6 DEF Read, HandleRequest, HandleRequestCamera, Handle, StartStreaming
  <2>7. ASSUME NEW c \in Peers, Frame(c)
        PROVE  SendRtpPacket(c) \/ Exit
    BY <2>7 DEF Frame, SendPacketCamera
  <2>8. PICK c \in Peers : \/ Connect(c) \/ Send(c) \/ Leave(c)
                           \/ Accept(c) \/ Read(c) \/ Frame(c) \/ EndStream(c)
    BY DEF Next
  <2>9. CASE Frame(c)
    BY <2>1, <2>4, <2>7, <2>9
  <2>10. CASE Read(c)
    BY <2>1, <2>2, <2>6, <2>10
  <2>11. CASE Connect(c) \/ Send(c) \/ Leave(c) \/ Accept(c)
    BY <2>2, <2>5, <2>11
  <2> QED
    BY <2>3, <2>8, <2>9, <2>10, <2>11
<1> QED
  BY <1>1, CameraInvariant, PTL DEF Spec, StreamIsNumbered

=============================================================================
