------------------------------ MODULE Sessions ------------------------------
(***************************************************************************)
(* The session registry of session.c and every thread that works on it:    *)
(*                                                                         *)
(*   - one handler thread per connection, which ends in addClient (and     *)
(*     addSession when no session plays the file yet);                     *)
(*   - one media thread per session, which reads the file and calls        *)
(*     mediaCallBack for every frame;                                      *)
(*   - the epoll thread, which sends what is queued, drops clients whose   *)
(*     send fails and deletes sessions that ran empty (delSession).        *)
(*                                                                         *)
(* One action is one critical section, or one step taken with no lock.     *)
(* mut_session is a variable because addSession holds it while the media   *)
(* thread it has just started is already running; every other critical     *)
(* section is one action.  A session is named after the connection whose   *)
(* handler created it, a client after its connection, which also stands    *)
(* for its socket.  The rings of ClientRing are reduced to "has a packet". *)
(* Clients are RTP over TCP and set up the tracks their file has.          *)
(*                                                                         *)
(* Undefined behaviour (a NULL or freed object used, a mutex used before   *)
(* its initialisation) is a choice: the access goes unnoticed, or the      *)
(* process dies with the cause in fault.  A local variable that went out   *)
(* of scope and a field of freed memory return to their initial values, so *)
(* that they cannot tell states apart.                                     *)
(***************************************************************************)
EXTENDS Integers, FiniteSets

CONSTANTS
  Conns,      \* the connections clients make
  Files,      \* the paths a PLAY can name
  Prefixes,   \* pairs <<p, n>> of paths where p is a prefix of n
  FILEMAX,    \* the entries of session_arr
  CLIENTMAX,  \* the client slots of a session
  Null,       \* no session, no client, no thread
  Unopenable  \* the paths creatMedia may fail to open

ASSUME SessionsAssumption ==
  /\ FILEMAX \in Nat \ {0} /\ CLIENTMAX \in Nat \ {0}
  /\ Prefixes \subseteq Files \X Files
  /\ \A f \in Files : <<f, f>> \in Prefixes
  /\ Null \notin Conns
  /\ Unopenable \subseteq Files
  /\ IsFiniteSet(Conns)

Entries == 0 .. FILEMAX - 1
Index   == 0 .. CLIENTMAX - 1

VARIABLES
  file,         \* the path each connection asks for; never changes
  gone,         \* the connections whose peer has left: a send fails
  open,         \* the connections whose client_sock_fd is open
  hpc,          \* where each handler thread is
  freepos,      \* addClient's min_free_pos
  mut_session,  \* the holder of mut_session between two actions
  session_arr,  \* the registry
  sstate,       \* a session_st: "none", "raw" (malloc'ed), "live", "freed"
  pos,          \* session->pos
  count,        \* session->count
  slot,         \* session->clientinfo[i].sd, Null for -1
  media,        \* the media thread of a session
  run_flag,     \* the media's run_flag
  epoll,        \* the sockets registered with epoll
  queued,       \* the clients whose ring is not empty
  sum_client,
  epc,          \* where the epoll thread is
  batch,        \* the ready events it has not looked at yet
  cur,          \* clientinfo of the event it serves
  left,         \* epollLoop's count: the clients left in cur's session
  delpos,       \* delSession's pos
  delmed,       \* the session whose media delSession destroys
  client_num,   \* delSession's client_num
  fault,        \* what killed the process, "none" while it runs
  overlap,      \* history, read by no guard: the pairs of connections whose
                \* handlers were between their scan and the end of
                \* addSession at one time
  victim        \* history, read by no guard: the session that ran empty
                \* and is being deleted

clientVars  == <<open, epoll, queued, sum_client>>
handlerVars == <<hpc, freepos>>
sessionVars == <<session_arr, sstate, pos, count, slot>>
mediaVars   == <<media, run_flag>>
epollVars   == <<epc, batch, cur, left, delpos, delmed, client_num, victim>>
vars == <<file, overlap, gone, mut_session, fault, clientVars, handlerVars, sessionVars,
          mediaVars, epollVars>>

Faults == {"raw_session", "freed_session", "freed_media", "freed_client",
           "null_session", "out_of_bounds"}

-----------------------------------------------------------------------------
(* Reading the state.                                                      *)
Occupied(s) == {i \in Index : slot[s][i] # Null}

Clients(s) == {slot[s][i] : i \in Occupied(s)}

Live == {s \in Conns : sstate[s] = "live"}

(* The connections whose handler is on its way from a scan that found no   *)
(* session to the end of addSession.                                       *)
Creating == {c \in Conns : hpc[c] \in {"create", "init"}}

(* The session is the one its entry of session_arr names.                  *)
InItsEntry(s) == session_arr[pos[s]] = s

(* Another handler scanned while this session was being created, or the    *)
(* session's own handler while another was: nothing orders the two, and    *)
(* they may have chosen the same entry, or play the same file.             *)
Overlapped(s) == \E t \in Conns \ {s} : {s, t} \in overlap

(* The session a client is in: clientinfo->session of its slot.            *)
In(c, s) == s \in Live /\ c \in Clients(s)

Placed == {c \in Conns : \E s \in Conns : In(c, s)}

(* strncmp(session->filename, path, strlen(path)) == 0                     *)
\* Slip: the scan looks at the first entry only.
Plays_FirstEntry(i, c) ==
  /\ i = 0 /\ session_arr[i] # Null
  /\ <<file[c], file[session_arr[i]]>> \in Prefixes

Plays(i, c) ==
  /\ session_arr[i] # Null
  /\ <<file[c], file[session_arr[i]]>> \in Prefixes

IsFirst(n, S) == n \in S /\ \A m \in S : n <= m

(* addClient's min_free_pos: the lowest free entry, FILEMAX without one.   *)
\* Slip: the scan does not skip entries in use.
MinFreePos_Used(p) == p = 0

MinFreePos(p) == IsFirst(p, {i \in Entries : session_arr[i] = Null} \cup {FILEMAX})

(* get_free_clientinfo: the lowest slot with sd == -1.                     *)
\* Slip: the number of clients taken for a free slot.
FreeSlot_AtCount(s, k) == k = count[s]
\* Slip: the last slot is never used.
FreeSlot_NotLast(s, k) == k < CLIENTMAX - 1 /\ IsFirst(k, {j \in Index : slot[s][j] = Null})
\* Slip: always slot 0.
FreeSlot_Zero(s, k) == k = 0

FreeSlot(s, k) == IsFirst(k, {j \in Index : slot[s][j] = Null})

(* mediaCallBack's loop bound is count, the number of clients, and not the *)
(* highest slot in use.                                                    *)
\* Slip: off by one.
Served_OffByOne(s) == {slot[s][i] : i \in {j \in Index : j + 1 < count[s] /\ slot[s][j] # Null}}

Served(s) == {slot[s][i] : i \in {j \in Index : j < count[s] /\ slot[s][j] # Null}}

(* eventAdd and eventDel change epoll's interest list under mut_epoll.     *)
EventAdd(c) == epoll' = epoll \cup {c}

\* Slip: the socket was set to -1 before, so eventDel returns at once.
EventDel_Late(C) == epoll' = epoll

EventDel(C) == epoll' = epoll \ C

(* clearClient closes the socket and frees the rings.                      *)
\* Slip: the socket is forgotten without close.
ClearClients_NoClose(C) == open' = open /\ queued' = queued \ C

ClearClients(C) == open' = open \ C /\ queued' = queued \ C

(* addSession's last statement.                                            *)
\* Slip: a return that skips it.
UnlockSession_Missing == UNCHANGED mut_session

UnlockSession == mut_session' = Null

(* delSession's session_arr[pos] = NULL.                                   *)
\* Slip: the pointer stays.
EmptyEntry_Missing(p) == UNCHANGED session_arr

EmptyEntry(p) == session_arr' = [session_arr EXCEPT ![p] = Null]

(* epollLoop's test before it calls delSession.                            *)
\* Slip: the count before the decrement.
RanEmpty_Late(n) == n < 0

RanEmpty(n) == n = 0

-----------------------------------------------------------------------------
(* A process that died takes no step.                                      *)
Running == fault = "none"

Init ==
  /\ file \in [Conns -> Files]
  /\ gone = {} /\ open = Conns
  /\ hpc = [c \in Conns |-> "play"] /\ freepos = [c \in Conns |-> FILEMAX]
  /\ mut_session = Null
  /\ session_arr = [i \in Entries |-> Null]
  /\ sstate = [s \in Conns |-> "none"]
  /\ pos = [s \in Conns |-> 0] /\ count = [s \in Conns |-> 0]
  /\ slot = [s \in Conns |-> [i \in Index |-> Null]]
  /\ media = [s \in Conns |-> "none"] /\ run_flag = [s \in Conns |-> FALSE]
  /\ epoll = {} /\ queued = {} /\ sum_client = 0
  /\ epc = "wait" /\ batch = {} /\ cur = Null /\ left = 0
  /\ delpos = 0 /\ delmed = Null /\ client_num = 0
  /\ fault = "none"
  /\ overlap = {} /\ victim = Null

(* The peer closes its connection or resets it.  Nothing notices before    *)
(* the client is in a slot, so one that left earlier leaves then.          *)
PeerLeaves(c) ==
  /\ Running /\ c \in Placed \ gone /\ gone' = gone \cup {c}
  /\ UNCHANGED <<file, overlap, mut_session, fault, clientVars, handlerVars, sessionVars,
                 mediaVars, epollVars>>

-----------------------------------------------------------------------------
(* The handler thread: addClient's scan of the registry.                   *)
MayScan(c) ==
  /\ Running /\ hpc[c] = "play" /\ mut_session = Null

(* A session plays the file and has a free slot: the client takes the      *)
(* lowest one and its socket is registered with epoll.  getAudioType reads *)
(* the media, which delSession may already have destroyed.                 *)
JoinSession(c) ==
  /\ MayScan(c)
  /\ \E i \in Entries, k \in Index :
       LET s == session_arr[i] IN
       /\ IsFirst(i, {j \in Entries : Plays(j, c)})
       /\ FreeSlot(s, k)
       /\ slot' = [slot EXCEPT ![s][k] = c]
       /\ count' = [count EXCEPT ![s] = @ + 1]
       /\ fault' \in IF media[s] = "destroyed" THEN {"none", "freed_media"} ELSE {"none"}
  /\ EventAdd(c)
  /\ hpc' = [hpc EXCEPT ![c] = "admitted"]
  /\ UNCHANGED <<file, overlap, gone, mut_session, open, queued, sum_client, freepos,
                 session_arr, sstate, pos, mediaVars, epollVars>>

(* The session that plays the file is full: addClient returns -1 and       *)
(* doClientThd closes the socket.                                          *)
RefuseClient(c) ==
  /\ MayScan(c)
  /\ \E i \in Entries :
       /\ IsFirst(i, {j \in Entries : Plays(j, c)})
       /\ \A k \in Index : ~FreeSlot(session_arr[i], k)
  /\ hpc' = [hpc EXCEPT ![c] = "refused"]
  /\ open' = open \ {c}
  /\ UNCHANGED <<file, overlap, gone, mut_session, fault, epoll, queued, sum_client, freepos,
                 sessionVars, mediaVars, epollVars>>

(* Nobody plays the file: addClient keeps the lowest free entry, FILEMAX   *)
(* when there is none, and releases mut_session.                           *)
ScanMisses(c) ==
  /\ MayScan(c)
  /\ \A i \in Entries : ~Plays(i, c)
  /\ \E p \in 0 .. FILEMAX :
       /\ MinFreePos(p)
       /\ freepos' = [freepos EXCEPT ![c] = p]
  /\ hpc' = [hpc EXCEPT ![c] = "create"]
  /\ overlap' = overlap \cup {{c, d} : d \in Creating}
  /\ UNCHANGED <<file, gone, mut_session, fault, clientVars, sessionVars, mediaVars,
                 epollVars>>

(* addSession takes mut_session again, allocates the session and starts    *)
(* its media thread before the session's mutex and count are initialised.  *)
(* creatMedia returns NULL when the file does not open, which nobody       *)
(* checks: the session exists and has no media thread.                     *)
CreateSession(c) ==
  /\ Running /\ hpc[c] = "create" /\ mut_session = Null
  /\ mut_session' = c
  /\ sstate' = [sstate EXCEPT ![c] = "raw"]
  /\ \E opened \in IF file[c] \in Unopenable THEN BOOLEAN ELSE {TRUE} :
       /\ media' = [media EXCEPT ![c] = IF opened THEN "reading" ELSE "null"]
       /\ run_flag' = [run_flag EXCEPT ![c] = opened]
  /\ hpc' = [hpc EXCEPT ![c] = "init"]
  /\ UNCHANGED <<file, overlap, gone, fault, clientVars, freepos, session_arr, pos, count, slot,
                 epollVars>>

(* ... then it fills the session, enters it in session_arr at the entry    *)
(* addClient found free and puts the client into slot 0.                   *)
InitSession(c) ==
  /\ Running /\ hpc[c] = "init" /\ freepos[c] \in Entries
  /\ session_arr' = [session_arr EXCEPT ![freepos[c]] = c]
  /\ sstate' = [sstate EXCEPT ![c] = "live"]
  /\ pos' = [pos EXCEPT ![c] = freepos[c]]
  /\ count' = [count EXCEPT ![c] = 1]
  /\ slot' = [slot EXCEPT ![c][0] = c]
  /\ EventAdd(c)
  /\ UnlockSession
  /\ hpc' = [hpc EXCEPT ![c] = "admitted"]
  /\ freepos' = [freepos EXCEPT ![c] = FILEMAX]
  /\ UNCHANGED <<file, overlap, gone, fault, open, queued, sum_client, mediaVars, epollVars>>

(* With no free entry addSession writes session_arr[FILEMAX].              *)
InitOutOfBounds(c) ==
  /\ Running /\ hpc[c] = "init" /\ freepos[c] \notin Entries
  /\ fault' = "out_of_bounds"
  /\ UNCHANGED <<file, overlap, gone, mut_session, clientVars, handlerVars, sessionVars, mediaVars,
                 epollVars>>

(* addClient's last critical section.                                      *)
CountClient(c) ==
  /\ Running /\ hpc[c] = "admitted"
  /\ sum_client' = sum_client + 1
  /\ hpc' = [hpc EXCEPT ![c] = "done"]
  /\ UNCHANGED <<file, overlap, gone, mut_session, fault, open, epoll, queued, freepos, sessionVars,
                 mediaVars, epollVars>>

-----------------------------------------------------------------------------
(* The media thread: while run_flag holds it reads a frame ...             *)
\* Slip: the loop never looks at run_flag.
MediaReads_Forever(s) ==
  /\ Running /\ media[s] = "reading"
  /\ media' = [media EXCEPT ![s] = "frame"]
  /\ UNCHANGED <<file, overlap, gone, mut_session, fault, clientVars, handlerVars, sessionVars,
                 run_flag, epollVars>>

MediaReads(s) ==
  /\ Running /\ media[s] = "reading"
  /\ media' = [media EXCEPT ![s] = IF run_flag[s] THEN "frame" ELSE "exited"]
  /\ UNCHANGED <<file, overlap, gone, mut_session, fault, clientVars, handlerVars, sessionVars,
                 run_flag, epollVars>>

(* ... and mediaCallBack queues it for the clients of its session.  On a   *)
(* session that is not initialised yet, or freed, the callback locks and   *)
(* walks memory that is no session.                                        *)
MediaCallBack(s) ==
  /\ Running /\ media[s] = "frame"
  /\ media' = [media EXCEPT ![s] = "reading"]
  /\ CASE sstate[s] = "raw"   -> queued' = queued /\ fault' \in {"none", "raw_session"}
       [] sstate[s] = "freed" -> queued' = queued /\ fault' \in {"none", "freed_session"}
       [] OTHER               -> queued' = queued \cup Served(s) /\ fault' = fault
  /\ UNCHANGED <<file, overlap, gone, mut_session, open, epoll, sum_client, handlerVars, sessionVars,
                 run_flag, epollVars>>

-----------------------------------------------------------------------------
(* The epoll thread: epoll_wait returns some of the writable sockets; the  *)
(* socket of a peer that left is always ready.                             *)
PollWait ==
  /\ Running /\ epc = "wait" /\ epc' = "serve"
  /\ batch' \in {B \in SUBSET epoll : gone \cap epoll \subseteq B}
  /\ UNCHANGED <<file, overlap, gone, mut_session, fault, clientVars, handlerVars, sessionVars,
                 mediaVars, cur, left, delpos, delmed, client_num, victim>>

EndRound ==
  /\ Running /\ epc = "serve" /\ batch = {} /\ epc' = "wait"
  /\ UNCHANGED <<file, overlap, gone, mut_session, fault, clientVars, handlerVars, sessionVars,
                 mediaVars, batch, cur, left, delpos, delmed, client_num, victim>>

(* An event whose client was cleared together with its session since       *)
(* epoll_wait returned: epoll_data points into a freed session_st.         *)
ServeStale(c) ==
  /\ Running /\ epc = "serve" /\ c \in batch \ Placed
  /\ batch' = batch \ {c}
  /\ fault' \in {"none", "freed_client"}
  /\ UNCHANGED <<file, overlap, gone, mut_session, clientVars, handlerVars, sessionVars,
                 mediaVars, epc, cur, left, delpos, delmed, client_num, victim>>

(* Nothing is queued for the client: node.size stays 0.                    *)
ServeNothing(c) ==
  /\ Running /\ epc = "serve" /\ c \in (batch \cap Placed) \ queued
  /\ batch' = batch \ {c}
  /\ UNCHANGED <<file, overlap, gone, mut_session, fault, clientVars, handlerVars, sessionVars,
                 mediaVars, epc, cur, left, delpos, delmed, client_num, victim>>

(* A packet is popped under the locks; more may be left.                   *)
PopPacket(c) ==
  /\ Running /\ epc = "serve" /\ c \in batch \cap Placed \cap queued
  /\ batch' = batch \ {c} /\ cur' = c /\ epc' = "send"
  /\ queued' \in {queued, queued \ {c}}
  /\ UNCHANGED <<file, overlap, gone, mut_session, fault, open, epoll, sum_client, handlerVars,
                 sessionVars, mediaVars, left, delpos, delmed, client_num, victim>>

(* The unlocked send first asks the media for its codec; a send to a peer  *)
(* that left fails, and eventDel takes the socket off epoll.               *)
SendPacket ==
  /\ Running /\ epc = "send"
  /\ \E s \in Conns :
       /\ In(cur, s)
       /\ fault' \in IF media[s] = "destroyed" THEN {"none", "freed_media"} ELSE {"none"}
  /\ IF cur \in gone
     THEN epc' = "drop" /\ cur' = cur /\ EventDel({cur})
     ELSE epc' = "serve" /\ cur' = Null /\ UNCHANGED epoll
  /\ UNCHANGED <<file, overlap, gone, mut_session, open, queued, sum_client, handlerVars,
                 sessionVars, mediaVars, batch, left, delpos, delmed, client_num, victim>>

(* Under session->mut: clearClient, count--, and a copy of the count.      *)
DropClient ==
  /\ Running /\ epc = "drop" /\ epc' = "uncount"
  /\ \E s \in Conns, i \in Index :
       /\ s \in Live /\ slot[s][i] = cur
       /\ slot' = [slot EXCEPT ![s][i] = Null]
       /\ count' = [count EXCEPT ![s] = @ - 1]
       /\ left' = count[s] - 1
       /\ delpos' = pos[s] /\ victim' = s
  /\ ClearClients({cur})
  /\ UNCHANGED <<file, overlap, gone, mut_session, fault, epoll, sum_client, handlerVars,
                 session_arr, sstate, pos, mediaVars, batch, cur, delmed, client_num>>

UncountClient ==
  /\ Running /\ epc = "uncount" /\ epc' = IF RanEmpty(left) THEN "delete" ELSE "serve"
  /\ sum_client' = sum_client - 1
  /\ cur' = Null /\ left' = 0
  /\ delpos' = IF RanEmpty(left) THEN delpos ELSE 0
  /\ victim' = IF RanEmpty(left) THEN victim ELSE Null
  /\ UNCHANGED <<file, overlap, gone, mut_session, fault, open, epoll, queued, handlerVars,
                 sessionVars, mediaVars, batch, delmed, client_num>>

(* delSession reads session_arr[pos] with no lock and tells its media      *)
(* thread to stop; without a media destroyMedia returns at once ...        *)
DestroyMedia ==
  /\ Running /\ epc = "delete"
  /\ LET s == session_arr[delpos] IN
     CASE s = Null ->
            fault' = "null_session" /\ UNCHANGED <<run_flag, delmed, epc>>
       [] s # Null /\ media[s] = "null" ->
            epc' = "purge" /\ UNCHANGED <<run_flag, delmed, fault>>
       [] OTHER ->
            /\ run_flag' = [run_flag EXCEPT ![s] = FALSE]
            /\ delmed' = s /\ epc' = "join" /\ fault' = fault
  /\ UNCHANGED <<file, overlap, gone, mut_session, clientVars, handlerVars, sessionVars, media,
                 batch, cur, left, delpos, client_num, victim>>

(* ... pthread_join waits for it and frees the media ...                   *)
\* Slip: pthread_detach in place of pthread_join.
JoinMedia_Detach ==
  /\ Running /\ epc = "join" /\ epc' = "purge" /\ delmed' = Null
  /\ UNCHANGED <<file, overlap, gone, mut_session, fault, clientVars, handlerVars, sessionVars,
                 mediaVars, batch, cur, left, delpos, client_num, victim>>

JoinMedia ==
  /\ Running /\ epc = "join" /\ media[delmed] = "exited"
  /\ media' = [media EXCEPT ![delmed] = "destroyed"]
  /\ epc' = "purge" /\ delmed' = Null
  /\ UNCHANGED <<file, overlap, gone, mut_session, fault, clientVars, handlerVars, sessionVars,
                 run_flag, batch, cur, left, delpos, client_num, victim>>

(* ... and, under mut_session and session->mut, every client the entry     *)
(* holds now is cleared, the session freed and the entry emptied.  Only    *)
(* the epoll thread empties entries, so the second NULL check never fires. *)
PurgeSession ==
  /\ Running /\ epc = "purge" /\ mut_session = Null
  /\ \E s \in Live :
       /\ session_arr[delpos] = s
       /\ client_num' = Cardinality(Occupied(s))
       /\ EventDel(Clients(s)) /\ ClearClients(Clients(s))
       /\ slot' = [slot EXCEPT ![s] = [i \in Index |-> Null]]
       /\ sstate' = [sstate EXCEPT ![s] = "freed"]
       /\ pos' = [pos EXCEPT ![s] = 0] /\ count' = [count EXCEPT ![s] = 0]
  /\ EmptyEntry(delpos)
  /\ epc' = "settle" /\ delpos' = 0 /\ victim' = Null
  /\ UNCHANGED <<file, overlap, gone, mut_session, fault, sum_client, handlerVars, mediaVars,
                 batch, cur, left, delmed>>

\* Slip: the client that emptied the session is subtracted once more.
SettleCount_Again ==
  /\ Running /\ epc = "settle" /\ epc' = "serve"
  /\ sum_client' = sum_client - client_num - 1
  /\ client_num' = 0
  /\ UNCHANGED <<file, overlap, gone, mut_session, fault, open, epoll, queued, handlerVars,
                 sessionVars, mediaVars, batch, cur, left, delpos, delmed, victim>>

SettleCount ==
  /\ Running /\ epc = "settle" /\ epc' = "serve"
  /\ sum_client' = sum_client - client_num
  /\ client_num' = 0
  /\ UNCHANGED <<file, overlap, gone, mut_session, fault, open, epoll, queued, handlerVars,
                 sessionVars, mediaVars, batch, cur, left, delpos, delmed, victim>>

-----------------------------------------------------------------------------
Handler(c) ==
  \/ JoinSession(c) \/ RefuseClient(c) \/ ScanMisses(c)
  \/ CreateSession(c) \/ InitSession(c) \/ InitOutOfBounds(c)
  \/ CountClient(c)

Media(s) == MediaReads(s) \/ MediaCallBack(s)

EpollLoop ==
  \/ PollWait \/ EndRound
  \/ \E c \in Conns : ServeStale(c) \/ ServeNothing(c) \/ PopPacket(c)
  \/ SendPacket \/ DropClient \/ UncountClient
  \/ DestroyMedia \/ JoinMedia \/ PurgeSession \/ SettleCount

Died == ~Running /\ UNCHANGED vars

Next ==
  \/ \E c \in Conns : PeerLeaves(c) \/ Handler(c) \/ Media(c)
  \/ EpollLoop
  \/ Died

Spec == Init /\ [][Next]_vars

(* The sockets are blocking: a send to a peer that neither reads nor       *)
(* leaves need not end.                                                    *)
InSend == epc = "send" /\ cur \notin gone

(* Threads are preemptive and the locks are held for bounded times: every  *)
(* thread that can run does.  Clients are free to come and to leave, and   *)
(* owe the server no reading.                                              *)
Fairness ==
  /\ WF_vars(~InSend /\ EpollLoop)
  /\ \A c \in Conns :
       /\ WF_vars(Media(c))
       /\ WF_vars(hpc[c] # "play" /\ Handler(c))

FairSpec == Spec /\ Fairness

-----------------------------------------------------------------------------
(* The type invariant.                                                     *)
TypeOK ==
  /\ file \in [Conns -> Files]
  /\ gone \subseteq Conns /\ open \subseteq Conns
  /\ epoll \subseteq Conns /\ queued \subseteq Conns /\ batch \subseteq Conns
  /\ hpc \in [Conns -> {"play", "create", "init", "admitted", "done", "refused"}]
  /\ freepos \in [Conns -> 0 .. FILEMAX]
  /\ mut_session \in Conns \cup {Null}
  /\ session_arr \in [Entries -> Conns \cup {Null}]
  /\ sstate \in [Conns -> {"none", "raw", "live", "freed"}]
  /\ pos \in [Conns -> Entries] /\ count \in [Conns -> 0 .. CLIENTMAX]
  /\ slot \in [Conns -> [Index -> Conns \cup {Null}]]
  /\ media \in [Conns -> {"none", "null", "reading", "frame", "exited", "destroyed"}]
  /\ run_flag \in [Conns -> BOOLEAN]
  /\ sum_client \in Int
  /\ epc \in {"wait", "serve", "send", "drop", "uncount", "delete", "join", "purge", "settle"}
  /\ cur \in Conns \cup {Null} /\ delmed \in Conns \cup {Null}
  /\ left \in 0 .. CLIENTMAX /\ delpos \in Entries /\ client_num \in 0 .. CLIENTMAX
  /\ fault \in Faults \cup {"none"}
  /\ overlap \subseteq SUBSET Conns /\ victim \in Conns \cup {Null}

(* session->count, which decides when delSession runs and how far          *)
(* mediaCallBack looks, is the number of occupied slots at every moment    *)
(* that session->mut is free.                                              *)
CountIsOccupancy ==
  \A s \in Live : count[s] = Cardinality(Occupied(s))

(* Every open socket has one owner that will close it, the handler that    *)
(* accepted it or one client slot of one live session; a closed socket has *)
(* none.  So no socket leaks, is closed twice or is used after its close.  *)
OneOwnerPerSocket ==
  /\ \A c \in Conns :
       c \in open <=> (hpc[c] \in {"play", "create", "init"} \/ c \in Placed)
  /\ \A c \in Placed : hpc[c] \in {"admitted", "done"}
  /\ \A s, t \in Conns, i, k \in Index :
       slot[s][i] # Null /\ slot[s][i] = slot[t][k] => s = t /\ i = k
  /\ \A s \in Conns \ Live : Occupied(s) = {}

(* epoll watches exactly the sockets in client slots, except the one whose *)
(* send has just failed: epoll_wait never returns a closed socket.  (An    *)
(* event it has already returned can outlive its socket: see ServeStale.)  *)
EpollWatchesClients ==
  epoll = Placed \ (IF epc = "drop" THEN {cur} ELSE {})

(* sum_client is exact once the increments and decrements that are still   *)
(* on their way are added: an admitted client not counted yet, a dropped   *)
(* client not uncounted yet, the clients of a session just deleted.        *)
SumClientExact ==
  LET counted == {c \in Conns : hpc[c] = "done"}
      cleared == {c \in Conns \ open : hpc[c] \in {"admitted", "done"}}
  IN sum_client = Cardinality(counted) - Cardinality(cleared)
                  + (IF epc = "uncount" THEN 1 ELSE 0) + client_num

(* An entry of session_arr names an initialised session that knows its     *)
(* place: no handler and no deletion reaches a freed session through it.   *)
RegistrySound ==
  \A i \in Entries :
    session_arr[i] # Null => session_arr[i] \in Live /\ pos[session_arr[i]] = i

(* When a session is freed its media thread has been joined, so no frame   *)
(* is delivered to freed memory, whatever the handlers of other sessions   *)
(* do: only a session whose own creation overlapped another's can be freed *)
(* with its thread running (delSession stopped the other one's).           *)
MediaStopsBeforeFree ==
  \A s \in Conns :
    sstate[s] = "freed" => media[s] \in {"null", "destroyed"} \/ Overlapped(s)

(* A session that exists can be found through its entry of session_arr;    *)
(* one that cannot would never be joined.  The entry is lost only to a     *)
(* handler that found it free before this session was entered: no later    *)
(* handler, and no deletion of another session, takes it away.             *)
NoOrphanSession ==
  \A s \in Live : InItsEntry(s) \/ Overlapped(s)

(* delSession finds its session again by an entry it reads three times,    *)
(* twice without a lock.  From the moment it is decided to delete a        *)
(* session, that entry names the session whose count reached zero, and its *)
(* media is the one that is joined, unless the creation of that very       *)
(* session overlapped another's.                                           *)
DeletedSessionRanEmpty ==
  epc \in {"delete", "join", "purge"} =>
    /\ victim \in Live /\ pos[victim] = delpos
    /\ session_arr[delpos] = victim \/ Overlapped(victim)
    /\ epc = "join" => delmed = victim \/ Overlapped(victim)

(* All viewers of a file share one session, which is what keeps them in    *)
(* step (README.md: viewers of the same video receive it synchronously).   *)
OneSessionPerFile ==
  \A s, t \in Conns :
    /\ sstate[s] \in {"raw", "live"} /\ sstate[t] \in {"raw", "live"}
    /\ file[s] = file[t]
    => s = t

(* What the code does provide: two sessions play one file only when the    *)
(* two creations overlapped, or when one of them was written over in its   *)
(* entry by a third and can no longer be found.                            *)
ViewersShareSession ==
  \A s, t \in Conns :
    /\ sstate[s] \in {"raw", "live"} /\ sstate[t] \in {"raw", "live"}
    /\ file[s] = file[t] /\ s # t
    => \/ {s, t} \in overlap
       \/ \E u \in {s, t} : u \in Live /\ ~InItsEntry(u) /\ Overlapped(u)

(* Each viewer sees what ClientLife promises, races and failures included. *)
life ==
  [c \in Conns |-> IF hpc[c] \in {"play", "create", "init"} THEN "asking"
                   ELSE IF hpc[c] = "refused" THEN "refused"
                   ELSE IF c \in open THEN "playing" ELSE "over"]

Life == INSTANCE ClientLife WITH
  present <- Conns \ gone,
  emptied <- epc \in {"delete", "join", "purge"} \/ (epc = "uncount" /\ left = 0)

ImplementsClientLife == Life!Spec

-----------------------------------------------------------------------------
(* A delSession that started ends: the media thread it joins notices       *)
(* run_flag and mut_session comes free.                                    *)
DeletionCompletes ==
  epc \in {"join", "purge"} ~> (epc = "serve" \/ fault # "none")

(* A PLAY that passed addClient's scan is answered by an admission.        *)
PlayCompletes ==
  \A c \in Conns :
    hpc[c] \in {"create", "init", "admitted"} ~> (hpc[c] = "done" \/ fault # "none")

(* The client's slot lies beyond the count, where mediaCallBack does not   *)
(* look, or its session never had a media thread or lost it to another     *)
(* deletion.                                                               *)
Starved(c) ==
  \E s \in Conns, k \in Index :
    /\ sstate[s] = "live" /\ slot[s][k] = c
    /\ \/ k >= count[s]
       \/ media[s] = "null"
       \/ media[s] = "destroyed" /\ epc # "purge"

(* A peer that left is noticed by a failing send and its socket closed,    *)
(* unless the client is starved of frames, or the epoll thread is stuck    *)
(* for good in a send to another client, which stays and does not read.    *)
GonePeerReleased ==
  \A c \in Conns :
    (c \in gone /\ c \in Placed)
      ~> (c \notin open \/ Starved(c) \/ fault # "none" \/ []InSend)

(* A session whose last client is gone is deleted, unless a new client     *)
(* joins it first or another session was written over its entry.           *)
EmptySessionDeleted ==
  \A s \in Conns :
    (sstate[s] = "live" /\ count[s] = 0 /\ InItsEntry(s))
      ~> (sstate[s] = "freed" \/ count[s] > 0 \/ ~InItsEntry(s) \/ fault # "none")

-----------------------------------------------------------------------------
(* What comments and the README say and the code does not do.              *)

(* "Send data to all clients of the video being played" (session.c:395):   *)
(* every client of a session is reached by mediaCallBack's loop.           *)
EveryClientServed ==
  \A s \in Live : Clients(s) \subseteq Served(s)

(* "rtsp://ip:8554/mp4 file name" (README.md:28): the session a client is  *)
(* added to plays the file the client asked for.                           *)
ClientGetsItsFile ==
  \A s \in Live : \A c \in Clients(s) : file[c] = file[s]

=============================================================================
