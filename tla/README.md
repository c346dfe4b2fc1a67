# simple-rtsp-server in TLA+

Models of the RTSP file server in this repository, the TLC runs that check them
and the TLAPS proofs about them. Line numbers refer to `src/`.

## The system

`rtsp_server` accepts RTSP connections on port 8554 and plays media files from
`mp4path/`, over and over, to any number of viewers. All viewers of one file
share a *session*, which reads the file once and feeds every viewer.

| part | threads | state it keeps | operations |
|---|---|---|---|
| connection handler, `rtsp_server.c` | one per connection (`doClientThd`) | socket, `path_tmp`, `filename`, `findflag`, channels and ports of the tracks | OPTIONS, DESCRIBE, SETUP, PLAY; ends by closing the socket or by handing it to `addClient` |
| session registry, `session.c` | called by the handlers and by the epoll thread | `session_arr`, each session's `count`, `pos` and client slots, `sum_client` | `addClient`, `addSession`, `delSession`, `getClientNum`, `moduleInit`, `moduleDel` |
| client slot, `session.c` | media thread writes, epoll thread reads | two growable rings of packets and their indexes | `initClient`, `sendData`, `increaseClientList`, the pops of `epollLoop`, `clearClient` |
| epoll thread, `session.c` | one (`epollLoop`) | the ready events, `count`, the client it serves | waits, pops and sends, drops clients whose send fails, deletes empty sessions |
| media reader, `media.c` | one per session (`parseMp4SendDataThd`) | `run_flag`, current packet and NALU | reads, waits until the packet is due, calls `mediaCallBack`; `creatMedia` starts it, `destroyMedia` joins it |
| packetizers, `rtp/` | epoll thread | sequence number and timestamp per client | `rtpSendH264Frame`, `...H265...`, `...AAC...`, `...PCMA...` |
| messages, SDP, digest, `common.c` | handlers | none | replies, `generateSDP`, `authorization_verify` |
| `camera_rtsp/simple-rtsp.cc` and `simple-rtsp-camera.cc` | a program of its own with one thread (asio) | sockets, a static `sequence_number`, who is being streamed to | accepts, reads, answers, streams the camera |
| rest of `camera_rtsp/`, `demo_external/` | own programs | | demos around closed or large libraries |

Interaction: a handler's PLAY enters `addClient`, which puts the socket into a
slot of a session (creating the session if nobody plays the file) and registers
it with epoll. The media thread of the session calls `mediaCallBack`, which
queues the frame in the ring of every slot. The epoll thread pops packets of
writable sockets and sends them with no lock held. A failed send is the only
way a departed viewer is noticed: the epoll thread then clears the slot and,
when the session has run empty, joins its media thread and frees it.

Locks, in the order the comment at session.c:114 prescribes: `mut_session`
(registry), `session->mut` (one session), `mut_list` (one slot's rings);
`mut_epoll` and `mut_clientcount` are separate.

What is hard about it: the registry lock is released between the scan for a
file and the creation of its session; the decision to delete is taken under a
lock that is released before the deletion; the media thread runs before its
session is initialised and may be inside a callback when the session is
deleted; sends happen outside the locks; a client is counted and uncounted by
different threads under a lock of its own. `PROJECT.json` lists each of these
hazards at its line.

## Modules

| module | models |
|---|---|
| `PacketRing` | the ring of `clientinfo_st` as pure operators on a record: growing in front of the oldest packet, wrapping, writing, taking |
| `ClientQueue` | abstract: a client slot is one FIFO queue (TCP) or one per track (UDP) |
| `ClientRing` | one slot: `addClient`/`addSession` filling it, `sendData`, the three pops of `epollLoop`, the unlocked send, `clearClient`; refines `ClientQueue` |
| `ClientRing_proofs` | the proofs about the two above |
| `ClientLife` | abstract: what the server promises one viewer: asking, playing, refused, over |
| `Sessions` | registry, handlers from `addClient` on, media threads, epoll thread, deletion; refines `ClientLife` |
| `MCSessions` | the small instances of `Sessions` |
| `Sessions_proofs` | the proofs about the two above |
| `AnnexB`, `RtpPackets` | media.c's search for NALUs in a byte stream; the packets the four functions of `rtp/` make of a unit: pure operators |
| `AnnexB_proofs`, `RtpPackets_proofs` | the proofs about them: what the search finds, what a peer makes of the packets of one unit |
| `MediaPath` | file, parser, queue, packetizers and peer of one interleaved client |
| `MediaPath_proofs` | the proofs about it |
| `MCMediaPath` | the files of `MediaPath`'s instance |
| `Locks` | every lock, unlock and join call of `session.c`, as one program per function; SIGINT and `moduleDel` |
| `Locks_proofs` | the proofs about it |
| `RtspConnection` | `doClientThd`, one connection from its first request to the hand-over |
| `MCRtspConnection` | the directory of its instances |
| `RtspConnection_proofs` | the proofs about it |
| `CameraServer` | the asio server of `camera_rtsp/`, both programs |
| `CameraServer_proofs` | the proofs about it |

**PacketRing, ClientRing.** A ring is `[list, size, pos_list, num, pos_last]`;
the fields are `packet_list`, `packet_list_size`, `pos_list`, `packet_num` and
`pos_last_packet`. Memory nobody has written holds `Blank`, so that reading
past what was written shows. Packets are atoms; `node` is the packet
`epollLoop` copied out, so `sendData` may run between a pop and its send.
`transport = "none"` is `sd == -1`. `stalled` is the environment's: a peer that
stays and does not read fills its own socket, which is then no longer writable,
or blocks the only epoll thread in a send; it may read on later, or never. A NALU of length 0 (which `epollLoop`
cannot tell from "nothing to send") is left out. The server always passes
`ture_of_tcp = 1`; the slot's UDP half is modelled as written, for the
transport `session.c` implements.

**Sessions.** One action per critical section. `mut_session` is a variable
because `addSession` holds it across steps in which its media thread already
runs; the other locks are taken and released inside one action (what happens
inside them is the subject of `Locks`). `epc` walks the epoll thread through a
round: `serve`, `send` (unlocked), `drop` (eventDel done), `uncount`, then
`delete`, `join`, `purge`, `settle` for `delSession`. A session is named after
the connection that created it. Reading freed memory or a mutex that does not
exist yet is a choice between going unnoticed and the end of the process, with
the cause in `fault`. Assumed: clients use TCP and set up the tracks of their
file, and `gone` makes every later send fail. Files in `Unopenable` make
`creatMedia` return NULL; `addSession` goes on with a session whose media is
`"null"`: it admits clients, delivers nothing, and so never notices that they
left. The sockets are blocking, so a send to a peer that stays and does not read
may never end (`InSend`). Two variables are history that no guard reads:
`overlap` holds the pairs of connections whose handlers were between their scan
and the end of `addSession` at one time, `victim` is the session that ran empty
and is being deleted. Handlers run in every order. A session whose creation
overlapped another (`Overlapped`) can lose its entry, be orphaned, be freed in the
other's place with its media thread running, or be the second of its file
(`SessionsTwin` shows the first steps); the properties say that nothing else has
this effect: no join, drop or deletion, and no creation before or after.

**ClientLife** is the view from outside, one state per viewer. A viewer is
refused only when as many viewers as a session holds are playing, is released
after it has left, and never loses its place otherwise, except with a session
that ran empty just before it joined (`EndSession`; the window between
`epollLoop`'s decision and `delSession`'s lock). The mapping reads a viewer's
state off `hpc` and `open`; `emptied` is the stretch of `epc` from the decision
to the deletion.

**AnnexB, RtpPackets, MediaPath.** Here the bytes matter, so units are
sequences of numbers and the bits of FU and AU headers are computed as in the
code. `Nalu(b, pos)` is what `praseFrame` and `getVideoNALUWithoutStartCode`
deliver; `RtpPacket(codec, f, i)` is the `i`-th packet of unit `f`. A packet
carries the length of its `$`-header, its payload and (in `Receive`) its
sequence number. The peer is external: it unpacks as RFC 6184, 7798, 3640 and
3551 say and keeps the latest unit it completed with the one that was due. `due`
is history, fed by the file and not by the queue: the units since the client came
that its peer has not completed; that it equals the unit being sent and those
queued is what "none lost" means. `Stale` is a byte of `node.data`
behind the unit, left there by earlier packets: the code sends one (H.264) or
two (H.265) of them behind every fragmented NALU, because the fragments' sizes
add up to `frame_size` although the NALU header is not among their data;
`UnitsArrive` says exactly this. The file is a fixed list of packets chosen in
`Init` and read in a circle. What the code relies on and cannot check is stated
in `IsFile`, an assumption about the constant `Media` that TLC evaluates for the
instance: no NALU has a start code inside or a zero byte at its end (`Clean`), or
the type of a fragment; a packet is not empty. (In a buffer without any start
code `praseFrame` would stand still for ever, media.c's "statrcode err"; the
bitstream filter writes one in front of every NALU.) Nothing is assumed of lengths
and codecs. A unit longer than the 2 MiB of a packet (`DataMax`) may end the run
(`Copied`, `up = FALSE`) or go unnoticed, as the overwritten `size` and `type` are
assigned afterwards. Video of an unknown codec ends it where the filter that was
never made is used (`ReadUnfiltered`), audio of one is queued and sent by nobody
(`SendNothing`; what the unassigned `ret` holds decides whether the client is
dropped). An audio frame whose length the 16 bits of `rtp_len16` or the 13 of the
AU-header cannot hold (`HeadersHold`; ffmpeg bounds neither the blocks of a
Matroska file nor what another server wrote) sets `cut`, and what the peer makes
of the stream from there on is not looked at. The callback also waits for
`session->mut`; that wait is in `Locks`. The UDP branches of the packetizers send
the same packets to another address and are not repeated.

**Locks.** A program is a sequence of lock, unlock, `spawn`, `stop`, `join`,
`enter` and `remove` operations; `todo` is what is left of it. What decides
which program runs next (is the file in the registry, is the session full, did
the send fail) is a free choice among the registered sessions. The loop over
slots is represented by one slot. `Delete` is `delSession` up to its NULL check,
`Purge` the rest. `mut_list` is a lock throughout here. In the code it is destroyed
with the slot's first client (`clearClient`, session.c:356) and not initialised
for the next one (840-879), so that locking it then is undefined; where nothing worse
comes of it, the rings stay protected because `mediaCallBack` and the pops of
`epollLoop` take it under `session->mut`.

Shutdown is part of `Locks` because locks and joins are what it hangs on.
`SigHandler(t)` replaces the program of whichever thread takes the signal by
`moduleDel`, for good; what the thread held stays held. `SigHandlerMedia` is the
handler the media threads install for the whole process, which exits at once;
either may be in force, since every connection handler installs `sig_handler`
again. A session `delSession` joins may be the interrupted thread's own, or one
the epoll thread is joining at the same moment: such a join returns an error and
what `destroyMedia` frees next is in use (`JoinReturns`). `moduleDel` visits all
entries, and `delSession` dereferences an empty one (`ReadEmptyEntry`): with
fewer sessions than `FILEMAX` an orderly shutdown ends in a fault once the
sessions in front of the first empty entry are deleted. All of these are `ended`,
after which nothing is claimed.

**RtspConnection.** A request is a record of method, name, track, transport
and the worth of its Authorization header. One action handles a request; PLAY
is two, because the reply is sent before `addClient`. Strings are sequences of
pieces and `strcat` is `\o`, so that a name may be empty (a URL that ends in a
slash; `open` opens the directory `mp4path/` like a file) and two names appended
to one another may be the name of a third file. `Strays` says when `path_tmp`
and the path PLAY builds part for one of these reasons: OPTIONS `a`, OPTIONS
with an empty name, DESCRIBE and PLAY describe `a` and hand `addClient` the bare
directory (which, being a prefix of every path, joins the first session there
is, or starts one whose file does not open). The properties about files except
`Strays` and nothing else.

`getLineFromBuf` never looks for the end of the request. A request without a
`CSeq` line and a SETUP without a transport the server knows are handled with
what lies behind them in the buffer or end the process (`Unreadable`,
`SetupPastEnd`, `pc = "fault"`). The UDP branch of SETUP needs
`ture_of_rtp_tcp == 0`, which no statement establishes, so it has no action. Not
modelled: the lengths of the arrays, the value of `CSeq`, the text of replies, a
`send` that fails.

`RtspConnection` ends where `Sessions` starts: a connection in `pc = "add"` is
a connection with `hpc = "play"` there, and `admitted` is the result of
`JoinSession`/`InitSession` against `RefuseClient`. `SocketHasOneOwner` and
`OneOwnerPerSocket` are the two halves of one claim.

**CameraServer.** One thread runs all handlers, so a handler is an action; the
exception is `start_streaming`, a loop inside the handler of a request:
`conn[c] = "streaming"` while it runs, and `Polling`, the guard of every other
handler, is false. `program` says which of the two programs runs. `simple-rtsp`
streams on PLAY, numbers its packets with a function-static counter and swallows
what a write throws; `simple-rtsp-camera` streams on SETUP, writes the encoder's
output without a header and catches nothing, so a viewer that leaves ends the
server (`Exit`), as does an answer to any client that has just left, in both.
`simple-rtsp` also ends, whoever is there, when the first CSeq of what it has
read does not fit an int (`CSeqTooLarge`, std::stoi throws at line 69).
Requests are not delimited: `Handle` reads some prefix of what has arrived and
answers the first method it finds there, once. Not modelled: an accept that
fails while the client is still there, an answer that blocks, the size of a
packet (its length field has 16 bits and a frame is one packet).

Definitions whose names end in `_Something` under a comment "Slip" are what a
plausible mistake would turn the next definition into; each property is known
to fail for one of them (`PROJECT.json`, `mutants`). They are not used by the
specifications.

## Runs that pass

| run | bounds | shows |
|---|---|---|
| `ClientRing.cfg` | a video packet, an audio packet, rings of 1 slot growing by 2, at most 5 packets queued, fairness | rings well formed, only the client's tracks queued, refinement of `ClientQueue`, each queued packet is served while its client stays, unless a peer stalls the thread or the socket for good |
| `SessionsSafety.cfg` | 3 connections, 2 slots, 2 files, 2 entries; three viewers of one file, of whom two may leave, or two of one and one of the other (`LeavingBound`) | counts, sockets, epoll set, `sum_client` and registry stay consistent in every interleaving; refinement of `ClientLife`; but for sessions whose creation overlapped another: one session per file, none lost, the one that ran empty is the one deleted, its media thread joined before it is freed |
| `SessionsLive.cfg` | 2 connections, 2 files one of which may not open, 1 entry, fairness | deletions and PLAYs end, departed peers are released, empty sessions are deleted, unless a peer blocks the epoll thread or the session never delivered; the registry runs full |
| `Locks.cfg` | 1 handler, epoll thread, 2 sessions (1 session and 1 entry if SIGINT comes), fairness | no circular wait, one lock order, nothing held across the join; PLAYs and deletions get their locks; SIGINT at a thread without locks ends the process |
| `MediaPath.cfg` | fragments of 2 bytes, NALUs of 1 to 6 bytes, alone or in pairs, audio up to what the headers and the buffer hold and beyond, known and unknown codecs (968 files), sequence numbers modulo 4, `rtp_len16` modulo 32, packets of 21 bytes, 2 queued units | every unit arrives in order and none is lost, packets follow each other without a gap, the parser finds every NALU and comes to an end; a run stops where behaviour is undefined, which files of known codecs and lengths never reach |
| `CameraServer.cfg` | 2 clients, 2 requests each, both programs, numbers modulo 4, fairness | the stream's numbers have no gap; whoever connects or asks is served unless somebody watches for ever or the server has ended; it ends only after a departure, `simple-rtsp` also after a CSeq beyond INT_MAX |
| `RtspConnection.cfg` | 4 files: two sound, one whose name is theirs run together, one without SDP; a name that is missing and the empty name; authentication on | one owner of the socket, described file = played file and it exists (unless the names stray), PLAY's reply precedes RTP |

The bounds are the smallest at which the interesting cases happen. A ring of 1
slot growing by 2 wraps, grows at offset 0 and elsewhere, and grows twice.
Three connections on two slots join, are refused, leave a hole below an
occupied slot and meet a deletion. One handler suffices for `Locks`: a handler
that holds any lock but `mut_clientcount`, which is innermost, holds
`mut_session`, so two handlers cannot hold locks of the hierarchy at once.
NALUs of up to three fragments of 2 bytes are sent whole, with a remainder and
without one; their bytes range over everything a start code is made of and one
other value, as far as the codecs allow. The connections are a symmetry set in
the safety runs, where they are interchangeable; the liveness runs use no
symmetry. `MixedInit` leaves out the initial states of `Sessions` that are the
image of another under exchanging the two files, and `LeavingBound` lets two of
three viewers of one file leave, one if creators overlapped; with two files, one
viewer of each comes and leaves freely, or the single viewer of its file is the
only one to leave and no creators overlapped (without that bound the run takes
longer than a few minutes; the proofs below need none). In `Locks` the bound `Few` halves
the sessions when SIGINT comes: one session being created, played and deleted
meets `moduleDel` in each of its steps, on every thread.

Fairness. `EpollLoop`, `Media` and the handlers past `play` are threads that
the system scheduler runs (weak fairness); clients owe nothing: while the epoll
thread is in a send to a peer that is there (`InSend`) nothing is promised of it.
`DeletionCompletes` and `PlayCompletes` do not need more; `GonePeerReleased`
says what a stuck send costs. In
`ClientRing`, every round of `epollLoop` walks all ready descriptors, and only
the server's own sends fill a socket, so a pop that is possible again and again
happens and a send to a peer that reads again and again ends (strong fairness of
the pops and of `SendNode`, all of which need `~stalled`); while `stalled` lasts
nothing is owed, and `QueuedIsServed` excepts the client for which it lasts for
ever. In `Locks`, strong
fairness of `Step` says that a mutex released again and again is obtained in
the end; POSIX does not promise this of its default mutexes, so `HandlersFinish`,
`EpollReturns` and `ShutdownEnds` hold up to that assumption. Contention is low in the code: the
epoll thread and the media threads sleep between rounds without a lock.

`io_context` takes ready handlers in turn, which is strong fairness of `Accept`
and `Read` in `CameraServer`, where a stream may shut them out for a while. A
stream owes nothing: neither the camera nor the peer it writes to need end it.

`Reader` in `MediaPath` is the media thread; `ReaderReturns` needs nothing of
the client or the epoll thread.

## Disagreements between the code and its comments

Each is a run that TLC answers with a counterexample, kept beside the code it
is about.

| run | what happens | what is said |
|---|---|---|
| `SessionsTwin` | two first viewers create two sessions of one file, at one entry; the first is lost from `session_arr` and never deleted | README.md:3, viewers are in step |
| `SessionsStarve` | slot 0's client leaves, slot 1's client gets no frames (`i < count`) | session.c:395, data goes to all clients |
| `SessionsPrefix` | `strncmp` over the requested path's length joins the session of another file | README.md:28, the URL names the file |
| `RtspOptionsTwice` | the second OPTIONS answers 404 for a file that exists | rtsp_server.c:269, 404 when it does not exist |
| `RtspUdp` | a UDP client is handed over as a TCP client without channels | README.md:3, RTP over UDP is supported |

Other states the models reach, which the properties of the passing runs
account for: `sum_client` is transiently below the number of clients, even
negative, when a client is dropped before it was counted (the corrections in
`SumClientExact`); a client that joins between the decision to delete a session
and the deletion is disconnected; a deletion meets a NULL entry when two
handlers created sessions at one entry, a frame is delivered before
`session->mut` exists, the entry behind a full registry is written, and events
or media of a deleted session are used (each a `fault` of `Sessions`, after
which nothing is claimed). The comment at session.c:124 forbids nesting
`mut_epoll` with the session locks, yet `addClient`, `addSession` and
`delSession` do so; `Locks.cfg` shows that this is harmless, since `mut_epoll`
is always the innermost lock. Stale bytes behind fragmented NALUs, units that
overrun a packet's buffer, codecs nobody sends and lengths no header holds: see
`MediaPath` above.

## Proofs

`ClientRing_proofs.tla`, checked by TLAPS for every set of packets and every
positive `InitSize` and `GrowStep` (assumptions `RingAssumption`,
`ClientAssumption`):

- `RingSafety`: `Spec => [](TypeOK /\ RingsOK)`. The heart of `RingsOK` is
  `pos_last = Wrap(size, pos_list + num)`: the index the producer writes
  through is determined by the consumer's index and the count. It is inductive
  together with `TypeOK`. `GrownOK` is the interesting step: growing happens
  only at `num = size`, where head and tail coincide, and inserting the new
  slots there moves the head by `GrowStep` and leaves the tail at the first new
  slot. `PutOK` and `TakenOK` do the wraps (`WrapFacts`, `WrapShift`,
  `WrapGrow`).
- `RingsImplementQueue`: `Spec => ImplementsQueue`. Each ring operation is
  related to one on `Contents(ring)`: growing leaves it unchanged, `Put`
  appends, `Taken` takes the tail. Then every step of `ClientRing` is a step of
  `ClientQueue` or a stutter, given `RingsOK`.

- `ServesOnlySetupTracks`: `Spec => []OnlySetupTracks`, from `RingSafety`'s
  invariant and the same view of the rings as queues: what `Put` appends is
  `Wanted`, and a new client starts with empty queues.

`RtspConnection_proofs.tla`, for every set of names and paths, with and without
authentication (`ConnectionAssumption`: names and paths are strings, and the
directory itself opens but has no SDP): `ConnectionInvariant` is
`Spec => []IInv`, and `DescribedIsPlayed`, `PlayedExists`, `SocketOwnership`,
`ReplyFirst` and `ConnectionTypeOK` follow from it. What makes it inductive is
`Located`: while the handler runs, either nothing was located, or `path_tmp` is
a path that exists and either is the name located last, with any SDP made from
it, or the names strayed; and it is not the bare directory once there is an SDP.
`OPTIONS` appends a name every time it is asked; `Locating` goes through what
that can make: the same path (the name was empty), a longer one behind a path
that was not empty (names run together), or the name itself. Anything else does
not exist, and the thread ends at the 404. `HandedOver` carries what was located
beyond the hand-over.

`CameraServer_proofs.tla`, for any number of clients, requests and sequence
numbers (`CameraAssumption`): `CameraInvariant` is `Spec => []IInv`, and
`StreamNumbering` and `CameraTypeOK` follow. The counter is shared by all
sessions; `OneViewer` (a stream keeps the only thread from starting another)
and `CounterFollows` (while the client is there, the counter stands on the
number after the last one it got) are why no session sees a gap.

`RingTypeOK` states the type invariant of a run by itself.

`Sessions_proofs.tla`, for any number of connections, files, entries and
client slots (`SessionsAssumption` only): `SessionsInvariant` is
`Spec => []IInv`, and every safety invariant of the `Sessions` run follows.
The invariants of the run are not inductive alone. What they need:

- `SocketsOwned`, `ClientsAdmitted`, `SlotsDistinct`, `OnlyLiveOccupied`:
  `OneOwnerPerSocket` counts owners, and a counting argument breaks at every
  step unless one knows which handlers still own their socket, that placed
  clients were admitted, that no client is in two slots, and that a session that
  is not live holds nobody.
- `Creators`: a session is raw exactly while its handler holds `mut_session`.
- `Serving`: what the epoll thread sends to or drops is still in a slot although
  it released the locks in between, because nobody but this thread clears slots;
  `client_num` is 0 but for the corrections that are still to be made, on which
  `SumClientExact` depends.
- What concurrent creators do to each other and to nobody else: two that create
  at one time are in `overlap` (`CreatorsOverlap`); whoever takes the entry a
  creator found free is in `overlap` with it (`EntryStaysFree`), and so is whoever
  plays the file it found unplayed, unless that session is in no entry
  (`FileStaysUnplayed`, `StrayKept`). From the last client's end to the free,
  `victim` is live at `delpos`, and what the entry holds is the session whose media
  was joined or one that overlapped (`SessionBeingDeleted`). `NoOrphanSession`,
  `MediaStopsBeforeFree` and `ViewersShareSession` are inductive with these; no
  assumption on the order of handlers is made.

`CountExact` and `SumExact` are about cardinalities (`CountTaken`, `TakeSlot` and
the lemmas for leaving and deleting say how a slot taken or cleared changes
them); `IInv` was model-checked on the bounds of `SessionsSafety` before it was
proved. `SessionsImplementLife` is the refinement of `ClientLife`, step by step:
each action is a step of one viewer, of the viewers of a deleted session, or a
stutter. `RefuseClient` is the step that needs `LeastOf`: a handler refuses when
the *first* entry that plays its file is full.

`Locks_proofs.tla`, for any number of handlers, sessions and entries
(`LocksAssumption`): a thread's state is a program, so the invariant is one of
programs. `Fits(x, A, B)` says that operation `x` is in order for a thread that
holds the locks `A`, and leaves it with `B`; `Runs(p, A, B)` that the operations of
`p` fit one after the other. Each program of `session.c` runs from the locks
held where it is chosen to those it keeps; `LocksInvariant` is that what a thread
holds is what the rest of its program counts on, also after `sig_handler` took
the thread over (it counts only on what it locks itself).
`OrderedLocks` and `JoinsUnlocked` read this off the next operation.
`NobodyWaitsInCircle` follows: in a circle of waiting threads whoever waits for a
lock waits for one that wants a higher one (its owner cannot be in a join, which
holds nothing), and there are five ranks; whoever waits in a join waits for a
media thread, and those only lock. The thread that SIGINT interrupted, whose
locks stay held, is excepted.

`AnnexB_proofs.tla`, `RtpPackets_proofs.tla`, `MediaPath_proofs.tla`, for every
file `IsFile` admits, every `Mtu` that fits `rtp_len16` of any width `LenMod`,
every `DataMax`, every space of sequence numbers and every bound of the queue
(`PacketAssumption`, `MediaAssumption`):

- `FindsFrame`: if a clean NALU stands at `pos`, at the end of the buffer or in
  front of another start code, `praseFrame` delivers exactly it. `NoneInside`
  is why a clean NALU hides no start code, not even one made of its last bytes
  and the next code.
- `FragmentsFit`, `Assembling`, `AllAssembled`: each fragment of a NALU carries
  the right length, header and bits (`H264Bits`, `H265Bits`: what the code packs
  into the FU header the peer unpacks) and goes on where the one before it ended
  (`Contiguous`); all of them give the unit and its header's length of stale bytes.
- `MediaInvariant` is `Spec => []IInv`. `Reading` says that the buffer is the
  byte stream of some clean units, `pos` the end of the first `j` of them and
  `rest` those behind; `Fronts` names the ends (`FlattenSeq`, the bitstream
  filter, is recursive: `Reached` replaces the induction by a least
  counterexample). `QueueOK`: what is queued and sent is a unit of the file, and
  fits a packet if the file is `Ordinary`.
  `PeerOK`: the peer expects the numbers the sender goes on with, has of the
  unit being sent exactly the fragments that were sent, and what is `due` is that
  unit and the queue (`Queued`, `DueFirst`). `EveryUnitArrives`,
  `StreamStaysIntact`, `FindsEveryNalu` and `MediaTypeOK` follow.

So every invariant and refinement the passing runs check is also proved. Only
model-checked are the liveness properties, which are out of the prover's reach:
`QueuedIsServed`, `DeletionCompletes`, `PlayCompletes`, `GonePeerReleased`,
`EmptySessionDeleted`, `HandlersFinish`, `EpollReturns`, `ShutdownEnds`,
`ReaderReturns` and `RequestIsHandled`. The runs that end in a counterexample
need one instance only.

## Not modelled

- MD5 (vendored), the text of messages and SDP, file decoding (ffmpeg).
- `demo_external/`: a straight line of calls into closed camera, codec and RTSP
  libraries. Its hazards (a camera buffer given back while the encoder may still
  read it, a codec buffer kept when a queue is full) depend on contracts the
  repository does not hold; `main` never reaches `StopPush`.
- `main.cc`, `ffh264.cc`, `ffh2642.cc`, `h264test.cc` of `camera_rtsp/`: loops of
  library calls without state of their own.
- `main` of the file server ends when one `accept` fails, without `moduleDel`.
- The entry a session is in, its clients and `sum_client` during a shutdown:
  `Locks` knows a session's locks, its media thread and whether it is registered.

## Plan

In order of importance; the first block is what exists.

1. done: `PacketRing`, `ClientQueue`, `ClientRing`; `Sessions` and
   `ClientLife`; `Locks` with the shutdown; `RtspConnection`; `AnnexB`,
   `RtpPackets`, `MediaPath`; `CameraServer`.
2. done: proofs of every invariant and of both refinements.
3. Proofs that bear on liveness: what a fairness argument needs of the steps
   (`EmptySessionDeleted`, `DeletionCompletes`) stated as action properties.
4. `Server`: `RtspConnection` for each connection composed with `Sessions`.
5. RTP timestamps and pacing in `MediaPath`.
