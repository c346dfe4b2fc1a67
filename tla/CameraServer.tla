---------------------------- MODULE CameraServer ----------------------------
(***************************************************************************)
(* camera_rtsp/simple-rtsp.cc and its older sister simple-rtsp-camera.cc:  *)
(* an RTSP server with one thread, which runs an asio io_context, and one  *)
(* camera.  Accepting and reading are asynchronous; answering and          *)
(* streaming are not: start_streaming is a loop inside a handler, so while *)
(* somebody watches nothing else runs.  A handler that throws ends         *)
(* io_context::run, and with it the server.                                *)
(*                                                                         *)
(* Requests are read as they come: handle_request looks for a method       *)
(* anywhere in what one read returned, whatever the requests in it.        *)
(***************************************************************************)
EXTENDS Integers, Sequences

CONSTANTS
  Peers,    \* the clients
  MaxSent,  \* a bound: the requests a client sends
  SeqMod,   \* the values of sequence_number, 2^16 in the code
  None      \* no packet

ASSUME CameraAssumption == MaxSent \in Nat /\ SeqMod \in Nat \ {0} /\ None \notin Int

Programs == {"simple-rtsp", "simple-rtsp-camera"}

(* What a client sends, in the pieces it may be read in.  OPTIONS stands   *)
(* for DESCRIBE as well and holds, like SETUP and PLAY, a CSeq that fits   *)
(* an int.  LARGE is text with a CSeq that does not, TEARDOWN all that has *)
(* neither a method nor a CSeq, such as the rest of a request whose        *)
(* beginning has been read.                                                *)
Requests == {"OPTIONS", "SETUP", "PLAY", "LARGE", "TEARDOWN"}

VARIABLES
  program,    \* which of the two programs runs
  up,         \* whether io_context::run goes on
  present,    \* the clients that have not gone away
  conn,       \* "away", "queued" (to be accepted), "reading", "streaming", "closed"
  accepting,  \* whether an async_accept is outstanding
  inbox,      \* what a client sent and the server did not read
  sent,       \* the number of requests each client sent
  large,      \* history: a client has sent a CSeq beyond INT_MAX
  sequence_number,
  last        \* the number of the last packet of the stream a client received

peerVars == <<present, sent, large>>
vars == <<program, up, peerVars, conn, accepting, inbox, sequence_number, last>>

Init ==
  /\ program \in Programs /\ up = TRUE /\ present = Peers
  /\ conn = [c \in Peers |-> "away"] /\ accepting = TRUE
  /\ inbox = [c \in Peers |-> <<>>] /\ sent = [c \in Peers |-> 0]
  /\ large = FALSE
  /\ sequence_number = 0 /\ last = [c \in Peers |-> None]

Viewers == {c \in Peers : conn[c] = "streaming"}

(* The thread is in io_context::run and in no handler.                     *)
\* Slip: frames are sent from a handler of their own, one at a time.
Polling_Always == up

Polling == up /\ Viewers = {}

-----------------------------------------------------------------------------
(* The clients.                                                            *)
Connect(c) ==
  /\ up /\ c \in present /\ conn[c] = "away"
  /\ conn' = [conn EXCEPT ![c] = "queued"]
  /\ UNCHANGED <<program, up, peerVars, accepting, inbox, sequence_number, last>>

Send(c) ==
  /\ up /\ c \in present /\ conn[c] \in {"queued", "reading", "streaming"}
  /\ sent[c] < MaxSent /\ sent' = [sent EXCEPT ![c] = @ + 1]
  /\ \E r \in Requests : /\ inbox' = [inbox EXCEPT ![c] = Append(@, r)]
                        /\ large' = (large \/ r = "LARGE")
  /\ UNCHANGED <<program, up, present, conn, accepting, sequence_number, last>>

Leave(c) ==
  /\ c \in present /\ conn[c] # "away" /\ present' = present \ {c}
  /\ UNCHANGED <<program, up, conn, accepting, inbox, sent, large, sequence_number, last>>

-----------------------------------------------------------------------------
(* The exception reaches main, which returns.                              *)
Exit ==
  /\ up' = FALSE /\ conn' = [c \in Peers |-> "closed"] /\ accepting' = FALSE
  /\ inbox' = [c \in Peers |-> <<>>] /\ last' = [c \in Peers |-> None]
  /\ UNCHANGED <<program, peerVars, sequence_number>>

(* start_accept's handler starts the session unless the accept failed,     *)
(* and accepts again in any case.                                          *)
\* Slip: after an error it does not.
AcceptsAgain_Ok(c) == c \in present

AcceptsAgain(c) == TRUE

Accept(c) ==
  /\ Polling /\ accepting /\ conn[c] = "queued" /\ accepting' = AcceptsAgain(c)
  /\ \/ conn' = [conn EXCEPT ![c] = "reading"] /\ UNCHANGED inbox
     \/ /\ c \notin present
        /\ conn' = [conn EXCEPT ![c] = "closed"] /\ inbox' = [inbox EXCEPT ![c] = <<>>]
  /\ UNCHANGED <<program, up, peerVars, sequence_number, last>>

(* start_streaming up to its loop: the camera and the encoder open, or     *)
(* there is nothing to see.                                                *)
StartStreaming(c) ==
  /\ conn' = [conn EXCEPT ![c] = "streaming"] \/ UNCHANGED conn
  /\ UNCHANGED last

(* The first of the methods handle_request looks for.                      *)
Method(data) ==
  IF data \cap {"OPTIONS", "SETUP", "PLAY"} = {} THEN "none"
  ELSE IF "OPTIONS" \in data THEN "OPTIONS"
  ELSE IF "SETUP" \in data THEN "SETUP" ELSE "PLAY"

(* handle_request, for what a read returned, n pieces of what was sent.  A *)
(* known method is answered with a blocking send, which throws if the      *)
(* client is known to be gone; one of the methods starts the stream.  Then *)
(* the session reads on.                                                   *)
Handle(c, n, streams) ==
  LET m == Method({inbox[c][i] : i \in 1 .. n})
  IN  \/ m # "none" /\ c \notin present /\ Exit
      \/ /\ inbox' = [inbox EXCEPT ![c] = SubSeq(@, n + 1, Len(@))]
         /\ IF m = streams THEN StartStreaming(c) ELSE UNCHANGED <<conn, last>>
         /\ UNCHANGED <<program, up, peerVars, accepting, sequence_number>>

(* std::stoi throws on the first CSeq of what was read.                    *)
CSeqTooLarge(c, n) ==
  \E i \in 1 .. n : /\ inbox[c][i] = "LARGE"
                    /\ \A j \in 1 .. i - 1 : inbox[c][j] = "TEARDOWN"

HandleRequest(c, n) ==
  \/ CSeqTooLarge(c, n) /\ Exit
  \/ ~CSeqTooLarge(c, n) /\ Handle(c, n, "PLAY")

(* The older program keeps the CSeq a string.                              *)
HandleRequestCamera(c, n) == Handle(c, n, "SETUP")

(* The handler of do_read; on an error nobody keeps the session.           *)
Read(c) ==
  /\ Polling /\ conn[c] = "reading"
  /\ \/ \E n \in 1 .. Len(inbox[c]) :
          \/ program = "simple-rtsp" /\ HandleRequest(c, n)
          \/ program = "simple-rtsp-camera" /\ HandleRequestCamera(c, n)
     \/ /\ c \notin present
        /\ conn' = [conn EXCEPT ![c] = "closed"] /\ inbox' = [inbox EXCEPT ![c] = <<>>]
        /\ UNCHANGED <<program, up, peerVars, accepting, sequence_number, last>>

-----------------------------------------------------------------------------
(* The loop of start_streaming sends the packets of a frame ...            *)
\* Slip: the number does not wrap.
NextNumber_Wide == sequence_number + 1

NextNumber == (sequence_number + 1) % SeqMod

(* ... with an RTP header numbered by a static counter of the program.     *)
(* What a write throws is caught: to a client that is gone the stream goes *)
(* on.                                                                     *)
SendRtpPacket(c) ==
  /\ sequence_number' = NextNumber
  /\ last' = [last EXCEPT ![c] = IF c \in present THEN sequence_number ELSE @]
  /\ UNCHANGED <<program, up, peerVars, conn, accepting, inbox>>

(* The older program writes what the encoder made, and catches nothing.    *)
SendPacketCamera(c) == c \notin present /\ Exit

Frame(c) ==
  /\ up /\ conn[c] = "streaming"
  /\ \/ program = "simple-rtsp" /\ SendRtpPacket(c)
     \/ program = "simple-rtsp-camera" /\ SendPacketCamera(c)

(* The camera has no frame, or somebody presses Esc at the server.         *)
EndStream(c) ==
  /\ up /\ conn[c] = "streaming"
  /\ conn' = [conn EXCEPT ![c] = "reading"] /\ last' = [last EXCEPT ![c] = None]
  /\ UNCHANGED <<program, up, peerVars, accepting, inbox, sequence_number>>

Next == \E c \in Peers : \/ Connect(c) \/ Send(c) \/ Leave(c)
                         \/ Accept(c) \/ Read(c) \/ Frame(c) \/ EndStream(c)

(* io_context runs the handlers that are ready in turn.  A stream need not *)
(* end, nor get any further: a client may stop reading.                    *)
Spec == Init /\ [][Next]_vars /\ \A c \in Peers : SF_vars(Accept(c)) /\ SF_vars(Read(c))

-----------------------------------------------------------------------------
(* The type invariant; sequence_number keeps its width.                    *)
TypeOK ==
  /\ program \in Programs /\ up \in BOOLEAN /\ accepting \in BOOLEAN
  /\ present \subseteq Peers /\ large \in BOOLEAN
  /\ conn \in [Peers -> {"away", "queued", "reading", "streaming", "closed"}]
  /\ sent \in [Peers -> 0 .. MaxSent]
  /\ inbox \in [Peers -> Seq(Requests)] /\ \A c \in Peers : Len(inbox[c]) <= sent[c]
  /\ sequence_number \in 0 .. SeqMod - 1
  /\ last \in [Peers -> 0 .. SeqMod - 1 \cup {None}]

(* The packets of a stream are numbered one after the other, although all  *)
(* sessions number theirs with the same static variable: to a receiver a   *)
(* gap is a lost packet.                                                   *)
NoGap ==
  \A c \in Peers : \/ last[c] = None
                    \/ last'[c] \in {None, last[c], (last[c] + 1) % SeqMod}

StreamIsNumbered == [][NoGap]_vars

(* A client that connects or asks is served in the end, unless it leaves,  *)
(* or somebody watches for ever, or the server has ended; and that happens *)
(* only after a client has left, or, in the newer program alone, after one *)
(* has sent a CSeq that std::stoi throws on, with everybody still there.   *)
Waiting(c) == up /\ c \in present /\ (conn[c] = "queued" \/ inbox[c] # <<>>)

RequestIsHandled ==
  \A c \in Peers :
    Waiting(c) ~> \/ up /\ conn[c] # "queued" /\ inbox[c] = <<>>
                  \/ c \notin present
                  \/ ~up /\ (present # Peers \/ (program = "simple-rtsp" /\ large))
                  \/ [](Viewers # {})

=============================================================================
