--------------------------- MODULE RtspConnection ---------------------------
(***************************************************************************)
(* One connection of the RTSP server: the handler thread doClientThd of    *)
(* rtsp_server.c from its first recv to the end of the thread.  A request  *)
(* is handled in one action, except PLAY: its reply is sent first, then    *)
(* the client goes to addClient, the point at which Sessions takes over.   *)
(*                                                                         *)
(* A string is a sequence of pieces and strcat is \o.  A path is what      *)
(* follows mp4path/ in it: <<>> is the directory, which open() opens like  *)
(* a file, and two names appended to one another may be the name of a      *)
(* third file.  The lengths of the arrays are left out.                    *)
(*                                                                         *)
(* A request names what follows the last slash of its URL (the empty name  *)
(* if nothing does), the track, the transport it offers and what its       *)
(* Authorization header is worth: "none", or a response that               *)
(* authorization_verify accepts ("good") or not ("bad").                   *)
(***************************************************************************)
EXTENDS Integers, Sequences

CONSTANTS
  Pieces,    \* what names and paths are put together from
  Names,     \* the names a URL can end in
  Existing,  \* the paths open() can open
  Broken,    \* the existing paths generateSDP fails on
  Uninit,    \* content of the array filename before anything is written
  Auth,      \* the flag auth
  None       \* no SDP sent, nothing handed over

Tracks     == {"video", "audio"}   \* track0 and every other track
Transports == {"tcp", "udp", "none"} \* RTP/AVP/TCP; RTP/AVP/UDP or RTP/AVP; no such line
Methods    == {"OPTIONS", "DESCRIBE", "SETUP", "PLAY", "other"}

Request == [method : Methods, name : Names, track : Tracks, transport : Transports,
            auth : {"none", "bad", "good"}]

(* What addClient is called with, and whether it admits the client.        *)
HandOver == [path : Names \cup {Uninit}, tracks : SUBSET Tracks, tcp : BOOLEAN,
             admitted : BOOLEAN]

ASSUME ConnectionAssumption ==
  /\ Names \subseteq Seq(Pieces) /\ Existing \subseteq Seq(Pieces)
  /\ Broken \subseteq Existing
  /\ <<>> \in Existing /\ <<>> \in Broken  \* the directory mp4path is there, and is no file
  /\ Uninit \notin Names
  /\ Auth \in BOOLEAN
  /\ None \notin HandOver

VARIABLES
  pc,        \* "recv", "add" (PLAY answered, addClient next), "out", "over",
             \* "fault" (the process has died)
  open,      \* client_sock_fd is open
  path_tmp,  \* what follows mp4path/ in path_tmp
  filename,
  findflag,
  sig,       \* the tracks whose sig_0 or sig_2 is set
  rtp_port,  \* the tracks whose client_rtp_port or client_rtp_port_1 is set
  ture_of_rtp_tcp,
  reply,     \* the reply sent last
  sdp,       \* the path the last SDP was generated from
  handed     \* the arguments of addClient and whether it admitted the client

vars == <<pc, open, path_tmp, filename, findflag, sig, rtp_port, ture_of_rtp_tcp,
          reply, sdp, handed>>

setup == <<sig, rtp_port, ture_of_rtp_tcp>>
found == <<path_tmp, filename, findflag>>

Init ==
  /\ pc = "recv" /\ open = TRUE
  /\ path_tmp = <<>> /\ filename = Uninit /\ findflag = FALSE
  /\ sig = {} /\ rtp_port = {} /\ ture_of_rtp_tcp = TRUE
  /\ reply = [code |-> 0, to |-> "none", name |-> Uninit]
  /\ sdp = None /\ handed = None

-----------------------------------------------------------------------------
(* The label out: the handler closes the socket and ends.                  *)
Out == pc' = "out" /\ open' = FALSE

\* Slip: the connection stays up after a 404.
OutOn404_Stay == UNCHANGED <<pc, open>>

OutOn404 == Out

Stay == UNCHANGED <<pc, open>>

Reply(code, r) == reply' = [code |-> code, to |-> r.method, name |-> r.name]

(* recv returns 0 or an error, or the request is no RTSP request.          *)
HangUp ==
  /\ pc = "recv" /\ Out
  /\ UNCHANGED <<found, setup, reply, sdp, handed>>

(* getLineFromBuf never looks for the end of the request, and      *)
(* nobody looks for the NULL of strrchr: a request without a CSeq line, or *)
(* whose URL has no slash, can run past recv_buf and fault.  It can also   *)
(* meet the CSeq line of an earlier request in the buffer, and is then     *)
(* handled as if the line were its own.                                    *)
Fault == pc' = "fault" /\ open' = FALSE

Unreadable ==
  /\ pc = "recv" /\ Fault
  /\ UNCHANGED <<found, setup, reply, sdp, handed>>

(* The Authorization header is checked before anything else.               *)
Guarded(r) == Auth /\ r.method \in {"SETUP", "DESCRIBE", "PLAY"}

Unauthorized(r) ==
  /\ pc = "recv" /\ Guarded(r) /\ r.auth = "none"
  /\ Reply(401, r) /\ Stay
  /\ UNCHANGED <<found, setup, sdp, handed>>

Denied(r) ==
  /\ pc = "recv" /\ Guarded(r) /\ r.auth = "bad"
  /\ Out
  /\ UNCHANGED <<found, setup, reply, sdp, handed>>

Accepts(r, m) == pc = "recv" /\ r.method = m /\ (Guarded(r) => r.auth = "good")

(* The name of the URL is appended to path_tmp, whatever that holds.       *)
Locate(r) == filename' = r.name /\ path_tmp' = path_tmp \o r.name

(* OPTIONS locates its file every time.                                    *)
Options(r) ==
  /\ Accepts(r, "OPTIONS") /\ Locate(r) /\ findflag' = TRUE
  /\ IF path_tmp' \in Existing THEN Reply(200, r) /\ Stay ELSE Reply(404, r) /\ OutOn404
  /\ UNCHANGED <<setup, sdp, handed>>

(* DESCRIBE locates it unless it was located before, and generates the SDP *)
(* from path_tmp, whatever its own URL says.                               *)
\* Slip: DESCRIBE describes the file of its own URL, PLAY the one found.
DescribedPath_Url(r) == IF findflag THEN r.name ELSE path_tmp \o r.name

DescribedPath(r) == IF findflag THEN path_tmp ELSE path_tmp \o r.name

Describe(r) ==
  /\ Accepts(r, "DESCRIBE")
  /\ IF findflag THEN UNCHANGED <<path_tmp, filename>> ELSE Locate(r)
  /\ LET path == DescribedPath(r) IN
     /\ findflag' = (findflag \/ path \in Existing)
     /\ IF path \notin Existing THEN Reply(404, r) /\ OutOn404 /\ sdp' = sdp
        ELSE IF path \in Broken THEN Reply(500, r) /\ Out /\ sdp' = sdp
        ELSE Reply(200, r) /\ Stay /\ sdp' = path
  /\ UNCHANGED <<setup, handed>>

(* SETUP notes the channel of an interleaved transport or the port of a    *)
(* UDP transport.  The branch for UDP needs ture_of_rtp_tcp == 0, which no *)
(* statement establishes: it has no action here.                           *)
SetupAs(r, transport) ==
  /\ \/ /\ transport = "tcp"
        /\ sig' = sig \cup {r.track} /\ ture_of_rtp_tcp' = TRUE /\ UNCHANGED rtp_port
     \/ /\ transport = "udp"
        /\ rtp_port' = rtp_port \cup {r.track} /\ UNCHANGED <<sig, ture_of_rtp_tcp>>
  /\ Reply(200, r) /\ Stay
  /\ UNCHANGED <<found, sdp, handed>>

(* A SETUP with no transport known to it is taken for whatever transport   *)
(* line the loop finds behind the request, or the loop faults.             *)
Setup(r) ==
  /\ Accepts(r, "SETUP") /\ ture_of_rtp_tcp
  /\ SetupAs(r, r.transport)

SetupPastEnd(r) ==
  /\ Accepts(r, "SETUP") /\ ture_of_rtp_tcp /\ r.transport = "none"
  /\ \/ \E transport \in {"tcp", "udp"} : SetupAs(r, transport)
     \/ Fault /\ UNCHANGED <<found, setup, reply, sdp, handed>>

(* PLAY is answered before the client is added, so that the reply leaves   *)
(* on the socket before the first interleaved packet.                      *)
\* Slip: the reply is left to the code behind addClient.
Play_ReplyLast(r) ==
  /\ Accepts(r, "PLAY")
  /\ pc' = "add"
  /\ UNCHANGED <<open, reply, found, setup, sdp, handed>>

Play(r) ==
  /\ Accepts(r, "PLAY")
  /\ Reply(200, r) /\ pc' = "add"
  /\ UNCHANGED <<open, found, setup, sdp, handed>>

(* Any other method.                                                       *)
Unknown(r) ==
  /\ Accepts(r, "other") /\ Out
  /\ UNCHANGED <<found, setup, reply, sdp, handed>>

(* addClient either takes the socket over or refuses the client.           *)
\* Slip: a refused client's handler ends at the label over.
AddClient_Keep(admitted) ==
  /\ pc = "add"
  /\ handed' = [path |-> filename, tracks |-> sig, tcp |-> ture_of_rtp_tcp,
                admitted |-> admitted]
  /\ pc' = "over" /\ open' = open
  /\ UNCHANGED <<found, setup, reply, sdp>>

AddClient(admitted) ==
  /\ pc = "add"
  /\ handed' = [path |-> filename, tracks |-> sig, tcp |-> ture_of_rtp_tcp,
                admitted |-> admitted]
  /\ IF admitted THEN pc' = "over" /\ open' = open ELSE Out
  /\ UNCHANGED <<found, setup, reply, sdp>>

Ended == pc \in {"out", "over", "fault"} /\ UNCHANGED vars

Next ==
  \/ HangUp
  \/ Unreadable
  \/ \E r \in Request :
       \/ Unauthorized(r) \/ Denied(r) \/ Options(r) \/ Describe(r)
       \/ Setup(r) \/ SetupPastEnd(r) \/ Play(r) \/ Unknown(r)
  \/ \E admitted \in BOOLEAN : AddClient(admitted)
  \/ Ended

Spec == Init /\ [][Next]_vars

-----------------------------------------------------------------------------
(* What path_tmp can hold: a path that was opened, or one name behind it.  *)
Tried(string) ==
  string \in Existing \/ \E path \in Existing, name \in Names : string = path \o name

(* The type invariant.  However often a client asks, path_tmp holds a path *)
(* that exists as long as the handler goes on.                             *)
TypeOK ==
  /\ pc \in {"recv", "add", "out", "over", "fault"}
  /\ open \in BOOLEAN /\ findflag \in BOOLEAN /\ ture_of_rtp_tcp \in BOOLEAN
  /\ Tried(path_tmp)
  /\ pc \in {"recv", "add"} => path_tmp \in Existing
  /\ filename \in Names \cup {Uninit}
  /\ sig \subseteq Tracks /\ rtp_port \subseteq Tracks
  /\ reply \in [code : {0, 200, 401, 404, 500}, to : Methods \cup {"none"},
               name : Names \cup {Uninit}]
  /\ handed \in HandOver \cup {None}

(* Somebody owns the socket until it is closed, and nobody after: the      *)
(* handler while it runs, the session once addClient admitted the client.  *)
SocketHasOneOwner ==
  open <=> \/ pc \in {"recv", "add"}
           \/ pc = "over" /\ handed # None /\ handed.admitted

(* The two ways in which path_tmp and mp4path/ + filename part: the name   *)
(* located last is empty, or the names of three files run together, two of *)
(* them appended to one another making the third.                          *)
Strays ==
  \/ filename = <<>>
  \/ \E path \in Existing \ {<<>>}, name \in Names \ {<<>>} :
       filename = name /\ path_tmp = path \o name /\ path_tmp \in Existing

(* The client plays the file its SDP describes, whatever URLs it sent in   *)
(* between and however often it asked, unless its names strayed: then PLAY *)
(* may hand addClient another file, or the directory, without a word.      *)
DescribedFileIsPlayed ==
  handed # None /\ sdp # None => handed.path = sdp \/ Strays

(* Unless the client located nothing before PLAY, or strayed, addClient    *)
(* gets the path of a file that open() opened.                             *)
PlayedFileExists ==
  handed # None =>
    \/ filename = Uninit
    \/ handed.path \in Existing \ {<<>>}
    \/ Strays

(* No packet can precede the reply to PLAY on an interleaved connection:   *)
(* the client is handed to the epoll thread after the reply was sent.      *)
ReplyPrecedesRtp ==
  handed # None => reply.code = 200 /\ reply.to = "PLAY"

-----------------------------------------------------------------------------
(* What comments and the README say and the code does not do.              *)

(* "The requested resource does not exist: return 404"                     *)
(* (rtsp_server.c:269).                                                    *)
NotFoundMeansMissing == reply.code = 404 => reply.name \notin Existing

(* "Supports RTP over UDP" (README.md:3): a client that set up its tracks  *)
(* over UDP plays over UDP.                                                *)
UdpClientPlaysOverUdp ==
  handed # None /\ rtp_port # {} /\ sig = {} => ~handed.tcp

=============================================================================
