----------------------- MODULE RtspConnection_proofs -----------------------
(***************************************************************************)
(* Theorems about one connection, for every set of names and paths, those  *)
(* that run together and the empty name included, and with or without      *)
(* authentication.                                                         *)
(***************************************************************************)
EXTENDS RtspConnection, TLAPS

Handling == pc \in {"recv", "add"}

(* While the handler runs it has located nothing, or path_tmp is a path    *)
(* that exists, put together from the names located so far.  It is the     *)
(* name located last, and the path of any SDP, unless names strayed; it is *)
(* not the bare directory once there is an SDP.                            *)
NothingLocated == findflag = FALSE /\ path_tmp = <<>> /\ filename = Uninit /\ sdp = None

FileLocated ==
  /\ findflag = TRUE /\ filename \in Names /\ path_tmp \in Existing
  /\ sdp # None => path_tmp # <<>>
  /\ Strays \/ (path_tmp = filename /\ sdp \in {None, path_tmp})

Located == Handling => NothingLocated \/ FileLocated

(* Nothing is handed over before the end, and what is handed over is the   *)
(* name located last.                                                      *)
HandedOver ==
  handed # None =>
    /\ pc \in {"out", "over"} /\ handed.path = filename
    /\ NothingLocated \/ FileLocated

(* The client goes to addClient with its PLAY answered.                    *)
Answered == pc = "add" \/ handed # None => reply.code = 200 /\ reply.to = "PLAY"

IInv == TypeOK /\ SocketHasOneOwner /\ Located /\ HandedOver /\ Answered

LEMMA InitIInv == Init => IInv
<1> SUFFICES ASSUME Init PROVE IInv
  OBVIOUS
<1>1. open \in BOOLEAN /\ findflag \in BOOLEAN /\ ture_of_rtp_tcp \in BOOLEAN
  BY Zenon DEF Init
<1>2. TypeOK
  <2>1. path_tmp \in Existing /\ Tried(path_tmp)
    BY ConnectionAssumption DEF Init, Tried
  <2> QED
    BY <1>1, <2>1 DEF Init, TypeOK, Methods
<1>3. SocketHasOneOwner
  BY DEF Init, SocketHasOneOwner
<1>4. Located /\ HandedOver /\ Answered
  BY DEF Init, Located, Handling, NothingLocated, HandedOver, Answered
<1> QED
  BY <1>2, <1>3, <1>4 DEF IInv

(* A handler that gives up closes the socket and hands nothing over.       *)
LEMMA OutOwner ==
  ASSUME IInv, pc = "recv", Out \/ Fault, UNCHANGED handed
  PROVE  SocketHasOneOwner' /\ Located' /\ HandedOver' /\ (handed' = None) /\ Answered'
BY DEF IInv, HandedOver, Out, Fault, SocketHasOneOwner, Located, Handling, Answered

(* A handler that goes on, having located at most the file it had.         *)
LEMMA StayOwner ==
  ASSUME IInv, pc = "recv", Stay, UNCHANGED handed,
         (NothingLocated \/ FileLocated)'
  PROVE  SocketHasOneOwner' /\ Located' /\ HandedOver' /\ Answered'
BY DEF IInv, HandedOver, Stay, SocketHasOneOwner, Located, Handling, Answered

(* The types of what a request and its reply leave behind.                 *)
LEMMA ReplyOK ==
  ASSUME NEW r \in Request, NEW code \in {0, 200, 401, 404, 500}, Reply(code, r)
  PROVE  reply' \in [code : {0, 200, 401, 404, 500}, to : Methods \cup {"none"},
                     name : Names \cup {Uninit}]
BY DEF Reply, Request

LEMMA OutStayOK ==
  ASSUME TypeOK, Out \/ Fault \/ Stay
  PROVE  pc' \in {"recv", "add", "out", "over", "fault"} /\ open' \in BOOLEAN
<1>1. open' \in BOOLEAN
  BY Zenon DEF TypeOK, Out, Fault, Stay
<1> QED
  BY <1>1 DEF TypeOK, Out, Fault, Stay

(* Whoever receives has handed nothing over and goes on from a path that   *)
(* exists.                                                                 *)
LEMMA Receiving ==
  ASSUME IInv, pc = "recv"
  PROVE  (NothingLocated \/ FileLocated) /\ handed = None /\ path_tmp \in Existing
<1>1. NothingLocated \/ FileLocated
  BY DEF IInv, Located, Handling
<1>2. handed = None
  BY DEF IInv, HandedOver
<1>3. path_tmp \in Existing
  BY DEF IInv, TypeOK
<1> QED
  BY <1>1, <1>2, <1>3

(* A name is appended behind a path that exists; if the outcome exists it  *)
(* is that name, or the names strayed.                                     *)
LEMMA Locating ==
  ASSUME IInv, pc = "recv", NEW r \in Request, Locate(r)
  PROVE  /\ Tried(path_tmp') /\ filename' \in Names
         /\ path_tmp' \in Existing /\ sdp' = sdp /\ findflag' = TRUE => FileLocated'
<1>1. r.name \in Names /\ path_tmp \in Existing
  BY Receiving DEF Request
<1>2. path_tmp' = path_tmp \o r.name /\ filename' = r.name
  BY DEF Locate
<1>3. Tried(path_tmp')
  BY <1>1, <1>2 DEF Tried
<1>4. r.name \in Seq(Pieces) /\ path_tmp \in Seq(Pieces)
  BY <1>1, ConnectionAssumption
<1>5. ASSUME path_tmp' \in Existing, sdp' = sdp, findflag' = TRUE
      PROVE  FileLocated'
  <2>1. CASE r.name = <<>>
    <3>1. path_tmp' = path_tmp
      BY <1>2, <1>4, <2>1
    <3>2. sdp # None => path_tmp # <<>>
      BY Receiving DEF NothingLocated, FileLocated
    <3>3. Strays'
      BY <1>2, <2>1 DEF Strays
    <3> QED
      BY <1>1, <1>2, <1>5, <3>1, <3>2, <3>3 DEF FileLocated
  <2>2. CASE r.name # <<>> /\ path_tmp # <<>>
    <3>1. Strays'
      BY <1>1, <1>2, <1>5, <2>2 DEF Strays
    <3>2. path_tmp' # <<>>
      BY <1>2, <1>4, <2>2
    <3> QED
      BY <1>1, <1>2, <1>5, <3>1, <3>2 DEF FileLocated
  <2>3. CASE r.name # <<>> /\ path_tmp = <<>>
    <3>1. sdp = None
      BY <2>3, Receiving DEF NothingLocated, FileLocated
    <3>2. path_tmp' = r.name
      BY <1>2, <1>4, <2>3
    <3> QED
      BY <1>1, <1>2, <1>5, <2>3, <3>1, <3>2 DEF FileLocated
  <2> QED
    BY <2>1, <2>2, <2>3
<1> QED
  BY <1>1, <1>2, <1>3, <1>5

(* One step per action.                                                    *)
LEMMA OutIInv ==
  ASSUME IInv, pc = "recv", Out \/ Fault, UNCHANGED <<found, setup, reply, sdp, handed>>
  PROVE  IInv'
<1>1. open' \in BOOLEAN /\ findflag' \in BOOLEAN /\ ture_of_rtp_tcp' \in BOOLEAN
  BY Zenon DEF IInv, TypeOK, Out, Fault, found, setup
<1>2. TypeOK'
  BY <1>1 DEF IInv, TypeOK, Out, Fault, found, setup
<1> QED
  BY <1>2, OutOwner DEF IInv

LEMMA UnauthorizedIInv ==
  ASSUME IInv, NEW r \in Request, Unauthorized(r)
  PROVE  IInv'
<1>1. open' \in BOOLEAN /\ findflag' \in BOOLEAN /\ ture_of_rtp_tcp' \in BOOLEAN
  BY Zenon DEF IInv, TypeOK, Unauthorized, Stay, found, setup
<1>2. TypeOK'
  BY <1>1, ReplyOK DEF IInv, TypeOK, Unauthorized, Stay, found, setup
<1>3. (NothingLocated \/ FileLocated)'
  BY Receiving DEF Unauthorized, found, NothingLocated, FileLocated, Strays
<1> QED
  BY <1>2, <1>3, StayOwner DEF IInv, Unauthorized

LEMMA OptionsIInv ==
  ASSUME IInv, NEW r \in Request, Options(r)
  PROVE  IInv'
<1>1. open' \in BOOLEAN /\ findflag' \in BOOLEAN /\ ture_of_rtp_tcp' \in BOOLEAN
  BY OutStayOK, Zenon DEF IInv, TypeOK, Options, Accepts, OutOn404, setup
<1>2. /\ pc = "recv" /\ Locate(r) /\ findflag' = TRUE
      /\ UNCHANGED <<setup, sdp, handed>>
  BY DEF Options, Accepts
<1>3. reply' \in [code : {0, 200, 401, 404, 500}, to : Methods \cup {"none"},
                  name : Names \cup {Uninit}]
  BY ReplyOK DEF Options
<1>4. CASE path_tmp' \in Existing
  <2>1. Stay /\ FileLocated'
    BY <1>2, <1>4, Locating DEF Options
  <2>2. TypeOK'
    BY <1>1, <1>2, <1>3, <1>4, <2>1, Locating, OutStayOK DEF IInv, TypeOK, setup
  <2> QED
    BY <1>2, <2>1, <2>2, StayOwner DEF IInv
<1>5. CASE path_tmp' \notin Existing
  <2>1. Out
    BY <1>5 DEF Options, OutOn404
  <2>2. TypeOK'
    BY <1>1, <1>2, <1>3, <2>1, Locating DEF IInv, TypeOK, setup, Out
  <2> QED
    BY <1>2, <2>1, <2>2, OutOwner DEF IInv
<1> QED
  BY <1>4, <1>5

LEMMA DescribeIInv ==
  ASSUME IInv, NEW r \in Request, Describe(r)
  PROVE  IInv'
<1> DEFINE path == DescribedPath(r)
<1>1. pc = "recv" /\ UNCHANGED <<setup, handed>>
  BY DEF Describe, Accepts
<1>2. \/ Out /\ sdp' = sdp
      \/ Stay /\ sdp' = path /\ path \in Existing /\ path \notin Broken
  BY DEF Describe, OutOn404
<1>3. reply' \in [code : {0, 200, 401, 404, 500}, to : Methods \cup {"none"},
                  name : Names \cup {Uninit}]
  BY ReplyOK DEF Describe
<1>4. findflag' \in BOOLEAN
  BY Zenon DEF Describe, IInv, TypeOK
<1>5. open' \in BOOLEAN /\ ture_of_rtp_tcp' \in BOOLEAN
  BY <1>1, <1>2, OutStayOK, Zenon DEF IInv, TypeOK, setup
<1>6. /\ Tried(path_tmp') /\ filename' \in Names \cup {Uninit}
      /\ path = path_tmp'
  <2>1. CASE findflag
    BY <2>1 DEF Describe, DescribedPath, IInv, TypeOK
  <2>2. CASE ~findflag
    <3>1. Locate(r) /\ path = path_tmp'
      BY <2>2 DEF Describe, DescribedPath, Locate
    <3> QED
      BY <1>1, <3>1, Locating
  <2> QED
    BY <2>1, <2>2
<1>7. CASE Out /\ sdp' = sdp
  <2>1. TypeOK'
    BY <1>1, <1>3, <1>4, <1>5, <1>6, <1>7 DEF IInv, TypeOK, setup, Out
  <2> QED
    BY <1>1, <1>7, <2>1, OutOwner DEF IInv
<1>8. CASE Stay /\ sdp' = path /\ path \in Existing /\ path \notin Broken
  <2>1. TypeOK'
    BY <1>1, <1>3, <1>4, <1>5, <1>6, <1>8, OutStayOK DEF IInv, TypeOK, setup
  <2>2. path # <<>>
    BY <1>8, ConnectionAssumption
  <2>3. FileLocated'
    <3>1. CASE findflag
      <4>1. FileLocated
        BY <1>1, <3>1, Receiving DEF NothingLocated
      <4>2. UNCHANGED <<path_tmp, filename>> /\ findflag' = TRUE
        BY <3>1, <4>1 DEF Describe, FileLocated
      <4> QED
        BY <1>6, <1>8, <2>2, <4>1, <4>2 DEF FileLocated, Strays
    <3>2. CASE ~findflag
      <4>1. Locate(r) /\ NothingLocated
        BY <1>1, <3>2, Receiving DEF Describe, FileLocated
      <4>2. r.name \in Names /\ r.name \in Seq(Pieces)
        BY ConnectionAssumption DEF Request
      <4>3. path_tmp' = filename' /\ filename' \in Names
        BY <4>1, <4>2 DEF Locate, NothingLocated
      <4>4. findflag' = TRUE
        BY <1>8 DEF Describe
      <4> QED
        BY <1>6, <1>8, <2>2, <4>3, <4>4 DEF FileLocated
    <3> QED
      BY <3>1, <3>2
  <2> QED
    BY <1>1, <1>8, <2>1, <2>3, StayOwner DEF IInv
<1> QED
  BY <1>2, <1>7, <1>8

LEMMA SetupAsIInv ==
  ASSUME IInv, NEW r \in Request, NEW transport, SetupAs(r, transport),
         Accepts(r, "SETUP"), ture_of_rtp_tcp
  PROVE  IInv'
<1>1. r.track \in Tracks
  BY DEF Request
<1>2. /\ pc = "recv" /\ Stay /\ UNCHANGED <<found, sdp, handed>>
      /\ Reply(200, r)
  BY DEF SetupAs, Accepts
<1>3. open' \in BOOLEAN /\ findflag' \in BOOLEAN
  BY <1>2, Zenon DEF IInv, TypeOK, Stay, found
<1>4. sig' \subseteq Tracks /\ rtp_port' \subseteq Tracks /\ ture_of_rtp_tcp' = TRUE
  <2>1. ture_of_rtp_tcp = TRUE
    BY Zenon DEF IInv, TypeOK
  <2>2. sig \subseteq Tracks /\ rtp_port \subseteq Tracks
    BY DEF IInv, TypeOK
  <2> QED
    BY <1>1, <2>1, <2>2 DEF SetupAs
<1>5. TypeOK'
  BY <1>2, <1>3, <1>4, ReplyOK DEF IInv, TypeOK, Stay, found
<1>6. (NothingLocated \/ FileLocated)'
  BY <1>2, Receiving DEF found, NothingLocated, FileLocated, Strays
<1> QED
  BY <1>2, <1>5, <1>6, StayOwner DEF IInv

LEMMA SetupIInv ==
  ASSUME IInv, NEW r \in Request, Setup(r) \/ SetupPastEnd(r)
  PROVE  IInv'
<1>1. CASE Setup(r)
  BY <1>1, SetupAsIInv DEF Setup
<1>2. CASE SetupPastEnd(r)
  <2>1. pc = "recv"
    BY <1>2 DEF SetupPastEnd, Accepts
  <2> QED
    BY <1>2, <2>1, SetupAsIInv, OutIInv DEF SetupPastEnd
<1> QED
  BY <1>1, <1>2

LEMMA PlayIInv ==
  ASSUME IInv, NEW r \in Request, Play(r)
  PROVE  IInv'
<1>1. open' \in BOOLEAN /\ findflag' \in BOOLEAN /\ ture_of_rtp_tcp' \in BOOLEAN
  BY Zenon DEF IInv, TypeOK, Play, found, setup
<1>2. TypeOK'
  <2>1. path_tmp \in Existing
    BY Receiving DEF Play, Accepts
  <2> QED
    BY <1>1, <2>1, ReplyOK DEF IInv, TypeOK, Play, found, setup
<1>3. Located'
  BY Receiving DEF Play, Accepts, found, Located, NothingLocated, FileLocated, Strays
<1>4. Answered' /\ HandedOver'
  BY Receiving DEF Play, Accepts, Answered, HandedOver, Reply
<1>5. SocketHasOneOwner'
  BY DEF Play, Accepts, IInv, SocketHasOneOwner
<1> QED
  BY <1>2, <1>3, <1>4, <1>5 DEF IInv

LEMMA AddClientIInv ==
  ASSUME IInv, NEW admitted \in BOOLEAN, AddClient(admitted)
  PROVE  IInv'
<1> DEFINE h == [path |-> filename, tracks |-> sig, tcp |-> ture_of_rtp_tcp,
                 admitted |-> admitted]
<1>1. open' \in BOOLEAN /\ findflag' \in BOOLEAN /\ ture_of_rtp_tcp' \in BOOLEAN
  BY Zenon DEF IInv, TypeOK, AddClient, Out, found, setup
<1>2. h \in HandOver
  BY DEF IInv, TypeOK, HandOver
<1>3. handed' = h /\ handed' # None
  BY <1>2, ConnectionAssumption DEF AddClient
<1>4. TypeOK'
  BY <1>1, <1>2, <1>3 DEF IInv, TypeOK, AddClient, Out, found, setup
<1>5. SocketHasOneOwner'
  <2>1. handed'.admitted = admitted
    BY <1>3
  <2>2. CASE admitted
    <3>1. open
      BY DEF AddClient, IInv, SocketHasOneOwner
    <3>2. open' /\ pc' = "over"
      BY <2>2, <3>1, Zenon DEF AddClient
    <3> QED
      BY <1>3, <2>1, <2>2, <3>2, Zenon DEF SocketHasOneOwner
  <2>3. CASE ~admitted
    BY <2>3 DEF AddClient, Out, SocketHasOneOwner
  <2> QED
    BY <2>2, <2>3
<1>6. Located'
  BY DEF AddClient, Out, Located, Handling
<1>7. HandedOver'
  <2>1. (NothingLocated \/ FileLocated)'
    BY DEF AddClient, IInv, Located, Handling, NothingLocated, FileLocated, Strays, found
  <2> QED
    BY <1>3, <2>1 DEF AddClient, Out, HandedOver, found
<1>8. Answered'
  BY DEF AddClient, Out, IInv, Answered
<1> QED
  BY <1>4, <1>5, <1>6, <1>7, <1>8 DEF IInv

LEMMA NextIInv == IInv /\ [Next]_vars => IInv'
<1> SUFFICES ASSUME IInv, [Next]_vars PROVE IInv'
  OBVIOUS
<1>1. CASE HangUp
  BY <1>1, OutIInv DEF HangUp
<1>6. CASE Unreadable
  BY <1>6, OutIInv DEF Unreadable
<1>2. ASSUME NEW r \in Request, Denied(r) PROVE IInv'
  BY <1>2, OutIInv DEF Denied
<1>3. ASSUME NEW r \in Request, Unknown(r) PROVE IInv'
  BY <1>3, OutIInv DEF Unknown, Accepts
<1>4. CASE UNCHANGED vars
  <2>1. open' \in BOOLEAN /\ findflag' \in BOOLEAN /\ ture_of_rtp_tcp' \in BOOLEAN
    BY <1>4, Zenon DEF IInv, TypeOK, vars
  <2>2. TypeOK'
    BY <1>4, <2>1 DEF IInv, TypeOK, vars
  <2> QED
    BY <1>4, <2>2 DEF IInv, SocketHasOneOwner, Located, Handling, NothingLocated,
                      FileLocated, Strays, HandedOver, Answered, vars
<1>5. CASE Ended
  BY <1>4, <1>5 DEF Ended
<1> QED
  BY <1>1, <1>2, <1>3, <1>4, <1>5, <1>6, UnauthorizedIInv, OptionsIInv, DescribeIInv,
     SetupIInv, PlayIInv, AddClientIInv DEF Next

THEOREM ConnectionInvariant == Spec => []IInv
  BY InitIInv, NextIInv, PTL DEF Spec

(* The variables keep their types, and while the handler goes on path_tmp  *)
(* holds a path that exists, whatever names it was put together from.      *)
THEOREM ConnectionTypeOK == Spec => []TypeOK
<1>1. IInv => TypeOK
  BY DEF IInv
<1> QED
  BY <1>1, ConnectionInvariant, PTL

(* The socket of a connection is open exactly while the handler or an      *)
(* admitted client owns it.                                                *)
THEOREM SocketOwnership == Spec => []SocketHasOneOwner
<1>1. IInv => SocketHasOneOwner
  BY DEF IInv
<1> QED
  BY <1>1, ConnectionInvariant, PTL

(* Whatever a client asks in between, it plays the file it was described,  *)
(* unless the name located last was empty or names ran together.           *)
THEOREM DescribedIsPlayed == Spec => []DescribedFileIsPlayed
<1>1. IInv => DescribedFileIsPlayed
  BY DEF IInv, HandedOver, NothingLocated, FileLocated, DescribedFileIsPlayed
<1> QED
  BY <1>1, ConnectionInvariant, PTL

(* addClient gets a file that exists, unless no name was ever located, the *)
(* name located last was empty, or names ran together.                     *)
THEOREM PlayedExists == Spec => []PlayedFileExists
<1>1. IInv => PlayedFileExists
  BY DEF IInv, HandedOver, NothingLocated, FileLocated, Strays, PlayedFileExists
<1> QED
  BY <1>1, ConnectionInvariant, PTL

(* The reply to PLAY is the last thing the handler sends.                  *)
THEOREM ReplyFirst == Spec => []ReplyPrecedesRtp
<1>1. IInv => ReplyPrecedesRtp
  BY DEF IInv, Answered, ReplyPrecedesRtp
<1> QED
  BY <1>1, ConnectionInvariant, PTL

=============================================================================
