-------------------------- MODULE Sessions_proofs --------------------------
(***************************************************************************)
(* Theorems about the session registry and its threads, for every number   *)
(* of connections, files, entries and client slots.                        *)
(***************************************************************************)
EXTENDS Sessions, FiniteSetTheorems, WellFoundedInduction, TLAPS

-----------------------------------------------------------------------------
(* The inductive invariant.                                                *)
(* The four parts of OneOwnerPerSocket.                                    *)
SocketsOwned ==
  \A c \in Conns : c \in open <=> (hpc[c] \in {"play", "create", "init"} \/ c \in Placed)

ClientsAdmitted == \A c \in Placed : hpc[c] \in {"admitted", "done"}

SlotsDistinct ==
  \A s, t \in Conns, i, k \in Index :
    slot[s][i] # Null /\ slot[s][i] = slot[t][k] => s = t /\ i = k

OnlyLiveOccupied == \A s \in Conns \ Live : Occupied(s) = {}

(* A session is made by its own handler, which holds mut_session until the *)
(* session is initialised.                                                 *)
Creators ==
  \A c \in Conns :
    /\ hpc[c] \in {"play", "create", "refused"} => sstate[c] = "none"
    /\ hpc[c] = "init" <=> sstate[c] = "raw"
    /\ hpc[c] = "init" <=> mut_session = c

(* What the epoll thread serves is in a slot, where nobody else clears it. *)
Serving ==
  /\ epc \in {"send", "drop"} => cur \in Placed
  /\ epc = "drop" => cur \in gone
  /\ epc # "settle" => client_num = 0

(* Two creators at one time overlap; whoever takes the entry a creator     *)
(* found free, or plays the file it found unplayed, overlaps it too, or    *)
(* (the file) is in no entry.                                              *)
CreatorsOverlap == \A c, d \in Creating : c # d => {c, d} \in overlap

EntryStaysFree ==
  \A c \in Creating :
    freepos[c] \in Entries /\ session_arr[freepos[c]] # Null
      => {c, session_arr[freepos[c]]} \in overlap

FileStaysUnplayed ==
  \A c \in Creating, s \in Live :
    file[s] = file[c] => {c, s} \in overlap \/ ~InItsEntry(s)

(* From the client's end to the free, the session that lost it is live and *)
(* at the entry being deleted; the media that is joined belongs to it, and *)
(* to whatever the entry holds, unless that one overlapped another.        *)
SessionBeingDeleted ==
  /\ epc \in {"uncount", "delete", "join", "purge"} => victim \in Live /\ pos[victim] = delpos
  /\ epc \in {"join", "purge"} => session_arr[delpos] # Null
  /\ \A s \in Conns : epc = "join" /\ victim = s => delmed = s \/ Overlapped(s)
  /\ \A s \in Conns :
       epc = "join" /\ session_arr[delpos] = s => delmed = s \/ Overlapped(s)
  /\ \A s \in Conns :
       epc = "purge" /\ session_arr[delpos] = s
         => media[s] \in {"null", "destroyed"} \/ Overlapped(s)

SlotsOK == SocketsOwned /\ ClientsAdmitted /\ SlotsDistinct /\ OnlyLiveOccupied

IInv ==
  /\ TypeOK /\ Creators /\ SlotsOK /\ CountIsOccupancy /\ RegistrySound
  /\ Serving /\ EpollWatchesClients /\ SumClientExact
  /\ CreatorsOverlap /\ EntryStaysFree /\ FileStaysUnplayed
  /\ NoOrphanSession /\ SessionBeingDeleted /\ MediaStopsBeforeFree /\ ViewersShareSession

-----------------------------------------------------------------------------
(* Client slots: what taking one, leaving one and deleting a session do to *)
(* the clients placed.                                                     *)
LEMMA OccupiedFinite ==
  ASSUME NEW s
  PROVE  /\ IsFiniteSet(Occupied(s)) /\ Cardinality(Occupied(s)) \in 0 .. CLIENTMAX
         /\ Cardinality(Index) = CLIENTMAX
<1>1. IsFiniteSet(Index) /\ Cardinality(Index) = CLIENTMAX
  BY FS_Interval, SessionsAssumption DEF Index
<1>2. Occupied(s) \in SUBSET Index
  BY DEF Occupied
<1>3. IsFiniteSet(Occupied(s)) /\ Cardinality(Occupied(s)) <= CLIENTMAX
  BY <1>1, <1>2, FS_Subset
<1>4. Cardinality(Occupied(s)) \in Nat
  BY <1>3, FS_CardinalityType
<1> QED
  BY <1>1, <1>3, <1>4, SessionsAssumption

(* A step that leaves the slots alone keeps what is true of them.          *)
LEMMA SameSlots ==
  ASSUME UNCHANGED slot, Live' = Live
  PROVE  /\ Placed' = Placed
         /\ SlotsDistinct => SlotsDistinct'
         /\ OnlyLiveOccupied => OnlyLiveOccupied'
         /\ \A s \in Conns : Occupied(s)' = Occupied(s)
<1>1. \A s : Occupied(s)' = Occupied(s) /\ Clients(s)' = Clients(s)
  BY DEF Occupied, Clients
<1>2. Placed' = Placed
  BY <1>1 DEF Placed, In
<1> QED
  BY <1>1, <1>2 DEF SlotsDistinct, OnlyLiveOccupied

(* A client is placed when some slot of some session holds it.             *)
LEMMA SomewherePlaced ==
  ASSUME TypeOK, OnlyLiveOccupied, NEW c \in Conns
  PROVE  c \in Placed <=> \E s \in Conns, i \in Index : slot[s][i] = c
BY SessionsAssumption DEF Placed, In, Clients, Occupied, OnlyLiveOccupied

(* A client that takes a free slot is placed there and nowhere else.       *)
LEMMA TakeSlot ==
  ASSUME TypeOK, SlotsDistinct, OnlyLiveOccupied,
         NEW c \in Conns, c \notin Placed, NEW s \in Conns, NEW k \in Index,
         slot[s][k] = Null, slot' = [slot EXCEPT ![s][k] = c], Live' = Live \cup {s}
  PROVE  /\ Placed' = Placed \cup {c}
         /\ SlotsDistinct' /\ OnlyLiveOccupied'
         /\ Occupied(s)' = Occupied(s) \cup {k} /\ k \notin Occupied(s)
         /\ \A t \in Conns \ {s} : Occupied(t)' = Occupied(t)
<1>1. \A t \in Conns, i \in Index :
        slot'[t][i] = IF t = s /\ i = k THEN c ELSE slot[t][i]
  BY DEF TypeOK
<1>2. \A t \in Conns, i \in Index : slot[t][i] # c
  BY SomewherePlaced
<1>3. c # Null
  BY SessionsAssumption
<1>4. /\ Occupied(s)' = Occupied(s) \cup {k} /\ k \notin Occupied(s)
      /\ \A t \in Conns \ {s} : Occupied(t)' = Occupied(t)
  BY <1>1, <1>3 DEF Occupied
<1>5. OnlyLiveOccupied'
  BY <1>4 DEF OnlyLiveOccupied
<1>6. SlotsDistinct'
  BY <1>1, <1>2 DEF SlotsDistinct
<1>7. Placed' = Placed \cup {c}
  <2>1. ASSUME NEW d \in Conns PROVE d \in Placed' <=> d \in Placed \cup {c}
    <3>1. d \in Placed' <=> \E t \in Conns, i \in Index : slot'[t][i] = d
      BY <1>5, SessionsAssumption DEF Placed, In, Clients, Occupied, OnlyLiveOccupied
    <3>2. CASE d = c
      BY <3>1, <3>2, <1>1
    <3>3. CASE d # c
      <4>1. \A t \in Conns, i \in Index : slot'[t][i] = d <=> slot[t][i] = d
        BY <1>1, <3>3, SessionsAssumption
      <4> QED
        BY <3>1, <3>3, <4>1, SomewherePlaced
    <3> QED
      BY <3>2, <3>3
  <2> QED
    BY <2>1 DEF Placed
<1> QED
  BY <1>4, <1>5, <1>6, <1>7

(* A client whose slot is cleared is placed nowhere.                       *)
LEMMA LeaveSlot ==
  ASSUME TypeOK, SlotsDistinct, OnlyLiveOccupied,
         NEW c \in Conns, NEW s \in Live, NEW k \in Index,
         slot[s][k] = c, slot' = [slot EXCEPT ![s][k] = Null], Live' = Live
  PROVE  /\ c \in Placed /\ Placed' = Placed \ {c}
         /\ SlotsDistinct' /\ OnlyLiveOccupied'
         /\ Occupied(s)' = Occupied(s) \ {k} /\ k \in Occupied(s)
         /\ \A t \in Conns \ {s} : Occupied(t)' = Occupied(t)
<1>0. s \in Conns /\ c # Null
  BY SessionsAssumption DEF Live
<1>1. \A t \in Conns, i \in Index :
        slot'[t][i] = IF t = s /\ i = k THEN Null ELSE slot[t][i]
  BY <1>0 DEF TypeOK
<1>2. \A t \in Conns, i \in Index : slot[t][i] = c => t = s /\ i = k
  BY <1>0 DEF SlotsDistinct
<1>4. /\ Occupied(s)' = Occupied(s) \ {k} /\ k \in Occupied(s)
      /\ \A t \in Conns \ {s} : Occupied(t)' = Occupied(t)
  BY <1>0, <1>1 DEF Occupied
<1>5. OnlyLiveOccupied'
  BY <1>0, <1>4 DEF OnlyLiveOccupied
<1>6. SlotsDistinct'
  BY <1>1 DEF SlotsDistinct
<1>7. Placed' = Placed \ {c}
  <2>1. ASSUME NEW d \in Conns PROVE d \in Placed' <=> d \in Placed \ {c}
    <3>1. d \in Placed' <=> \E t \in Conns, i \in Index : slot'[t][i] = d
      BY <1>5, SessionsAssumption DEF Placed, In, Clients, Occupied, OnlyLiveOccupied
    <3>2. d # Null
      BY SessionsAssumption
    <3> QED
      BY <3>1, <3>2, <1>1, <1>2, SomewherePlaced
  <2> QED
    BY <2>1 DEF Placed
<1>8. c \in Placed
  BY <1>0, SomewherePlaced
<1> QED
  BY <1>4, <1>5, <1>6, <1>7, <1>8

(* A session that is freed takes exactly its own clients with it.          *)
LEMMA EmptySlots ==
  ASSUME TypeOK, SlotsDistinct, OnlyLiveOccupied, NEW s \in Live,
         slot' = [slot EXCEPT ![s] = [i \in Index |-> Null]], Live' = Live \ {s}
  PROVE  /\ Clients(s) \subseteq Placed /\ Placed' = Placed \ Clients(s)
         /\ SlotsDistinct' /\ OnlyLiveOccupied'
         /\ \A t \in Conns \ {s} : Occupied(t)' = Occupied(t)
<1>0. s \in Conns
  BY DEF Live
<1>1. \A t \in Conns, i \in Index :
        slot'[t][i] = IF t = s THEN Null ELSE slot[t][i]
  BY <1>0 DEF TypeOK
<1>2. \A d \in Clients(s) : d \in Conns /\ \E i \in Index : slot[s][i] = d
  BY <1>0 DEF Clients, Occupied, TypeOK
<1>3. \A t \in Conns \ {s} : Occupied(t)' = Occupied(t)
  BY <1>1 DEF Occupied
<1>4. Occupied(s)' = {}
  BY <1>0, <1>1 DEF Occupied
<1>5. OnlyLiveOccupied'
  BY <1>0, <1>3, <1>4 DEF OnlyLiveOccupied
<1>6. SlotsDistinct'
  BY <1>1 DEF SlotsDistinct
<1>7. Clients(s) \subseteq Placed
  BY <1>0, <1>2, SomewherePlaced
<1>8. ASSUME NEW d \in Conns PROVE d \in Placed' <=> d \in Placed \ Clients(s)
  <2>1. d \in Placed' <=> \E t \in Conns, i \in Index : slot'[t][i] = d
    BY <1>5, SessionsAssumption DEF Placed, In, Clients, Occupied, OnlyLiveOccupied
  <2>2. d # Null
    BY SessionsAssumption
  <2>3. d \in Clients(s) <=> \E i \in Index : slot[s][i] = d
    BY <2>2 DEF Clients, Occupied
  <2>4. (\E t \in Conns, i \in Index : slot'[t][i] = d)
        <=> \E t \in Conns \ {s}, i \in Index : slot[t][i] = d
    BY <1>1, <2>2
  <2>5. \A t \in Conns \ {s}, i \in Index : slot[t][i] = d => d \notin Clients(s)
    BY <1>0, <2>2, <2>3 DEF SlotsDistinct
  <2> QED
    BY <1>0, <2>1, <2>3, <2>4, <2>5, SomewherePlaced
<1>9. Placed' = Placed \ Clients(s)
  BY <1>8 DEF Placed
<1> QED
  BY <1>3, <1>5, <1>6, <1>7, <1>9

(* A session has as many clients as occupied slots, at most CLIENTMAX.     *)
LEMMA ClientsAreOccupancy ==
  ASSUME TypeOK, SlotsDistinct, NEW s \in Conns
  PROVE  /\ IsFiniteSet(Clients(s)) /\ Cardinality(Clients(s)) = Cardinality(Occupied(s))
         /\ Clients(s) \subseteq Conns
<1> DEFINE at == [i \in Occupied(s) |-> slot[s][i]]
<1>1. Clients(s) \subseteq Conns
  BY DEF Clients, Occupied, TypeOK
<1>2. at \in Surjection(Occupied(s), Clients(s))
  BY DEF Surjection, Clients
<1>3. at \in Injection(Occupied(s), Clients(s))
  BY DEF Injection, IsInjective, Clients, SlotsDistinct, Occupied
<1> QED
  BY <1>1, <1>2, <1>3, OccupiedFinite, FS_Surjection

-----------------------------------------------------------------------------
(* Every step leaves these alone, or is one of the actions named.          *)
LEMMA Writers ==
  ASSUME [Next]_vars
  PROVE  /\ UNCHANGED file /\ overlap \subseteq overlap'
         /\ \/ UNCHANGED <<slot, count, sstate, pos, session_arr>>
            \/ \E c \in Conns : JoinSession(c) \/ CreateSession(c) \/ InitSession(c)
            \/ DropClient \/ PurgeSession
         /\ \/ UNCHANGED <<hpc, freepos, mut_session>>
            \/ \E c \in Conns : Handler(c)
         /\ \/ UNCHANGED <<open, hpc>>
            \/ \E c \in Conns : Handler(c)
            \/ DropClient \/ PurgeSession
         /\ \/ UNCHANGED <<epoll, epc, cur, client_num>>
            \/ \E c \in Conns : JoinSession(c) \/ InitSession(c) \/ PopPacket(c)
            \/ PollWait \/ EndRound \/ SendPacket \/ DropClient \/ UncountClient
            \/ DestroyMedia \/ JoinMedia \/ PurgeSession \/ SettleCount
         /\ gone \subseteq gone'
         /\ \/ UNCHANGED <<sum_client, client_num>>
            \/ \E c \in Conns : CountClient(c)
            \/ UncountClient \/ PurgeSession \/ SettleCount
         /\ \/ UNCHANGED <<epc, delpos, delmed, victim>>
            \/ \E c \in Conns : PopPacket(c)
            \/ PollWait \/ EndRound \/ SendPacket \/ DropClient \/ UncountClient
            \/ DestroyMedia \/ JoinMedia \/ PurgeSession \/ SettleCount
         /\ \/ UNCHANGED media
            \/ \E s \in Conns : CreateSession(s) \/ MediaReads(s) \/ MediaCallBack(s)
            \/ JoinMedia
<1> USE DEF Next, Media, EpollLoop, Died, vars, handlerVars, sessionVars, mediaVars, epollVars,
      clientVars
<1>1. UNCHANGED file /\ overlap \subseteq overlap' /\ gone \subseteq gone'
  BY DEF Handler, JoinSession, RefuseClient, ScanMisses, CreateSession, InitSession,
     InitOutOfBounds, CountClient, PeerLeaves, MediaReads, MediaCallBack, PollWait,
     EndRound, ServeStale, ServeNothing, PopPacket, SendPacket, DropClient,
     UncountClient, DestroyMedia, JoinMedia, PurgeSession, SettleCount
<1>2. \/ UNCHANGED <<slot, count, sstate, pos, session_arr>>
      \/ \E c \in Conns : JoinSession(c) \/ CreateSession(c) \/ InitSession(c)
      \/ DropClient \/ PurgeSession
  BY DEF Handler, RefuseClient, ScanMisses, InitOutOfBounds, CountClient,
     PeerLeaves, MediaReads, MediaCallBack, PollWait, EndRound, ServeStale,
     ServeNothing, PopPacket, SendPacket, UncountClient, DestroyMedia, JoinMedia,
     SettleCount
<1>3. \/ UNCHANGED <<hpc, freepos, mut_session>>
      \/ \E c \in Conns : Handler(c)
  BY DEF PeerLeaves, MediaReads, MediaCallBack, PollWait, EndRound, ServeStale,
     ServeNothing, PopPacket, SendPacket, DropClient, UncountClient, DestroyMedia,
     JoinMedia, PurgeSession, SettleCount
<1>4. \/ UNCHANGED <<open, hpc>>
      \/ \E c \in Conns : Handler(c)
      \/ DropClient \/ PurgeSession
  BY DEF PeerLeaves, MediaReads, MediaCallBack, PollWait, EndRound, ServeStale,
     ServeNothing, PopPacket, SendPacket, UncountClient, DestroyMedia, JoinMedia,
     SettleCount
<1>5. \/ UNCHANGED <<epoll, epc, cur, client_num>>
      \/ \E c \in Conns : JoinSession(c) \/ InitSession(c) \/ PopPacket(c)
      \/ PollWait \/ EndRound \/ SendPacket \/ DropClient \/ UncountClient
      \/ DestroyMedia \/ JoinMedia \/ PurgeSession \/ SettleCount
  BY DEF Handler, RefuseClient, ScanMisses, CreateSession, InitOutOfBounds,
     CountClient, PeerLeaves, MediaReads, MediaCallBack, ServeStale, ServeNothing
<1>6. \/ UNCHANGED <<sum_client, client_num>>
      \/ \E c \in Conns : CountClient(c)
      \/ UncountClient \/ PurgeSession \/ SettleCount
  BY DEF Handler, JoinSession, RefuseClient, ScanMisses, CreateSession, InitSession,
     InitOutOfBounds, PeerLeaves, MediaReads, MediaCallBack, PollWait, EndRound,
     ServeStale, ServeNothing, PopPacket, SendPacket, DropClient, DestroyMedia,
     JoinMedia
<1>7. \/ UNCHANGED <<epc, delpos, delmed, victim>>
      \/ \E c \in Conns : PopPacket(c)
      \/ PollWait \/ EndRound \/ SendPacket \/ DropClient \/ UncountClient
      \/ DestroyMedia \/ JoinMedia \/ PurgeSession \/ SettleCount
  BY DEF Handler, JoinSession, RefuseClient, ScanMisses, CreateSession, InitSession,
     InitOutOfBounds, CountClient, PeerLeaves, MediaReads, MediaCallBack,
     ServeStale, ServeNothing
<1>8. \/ UNCHANGED media
      \/ \E s \in Conns : CreateSession(s) \/ MediaReads(s) \/ MediaCallBack(s)
      \/ JoinMedia
  BY DEF Handler, JoinSession, RefuseClient, ScanMisses, InitSession,
     InitOutOfBounds, CountClient, PeerLeaves, PollWait, EndRound, ServeStale,
     ServeNothing, PopPacket, SendPacket, DropClient, UncountClient, DestroyMedia,
     PurgeSession, SettleCount
<1> QED
  BY <1>1, <1>2, <1>3, <1>4, <1>5, <1>6, <1>7, <1>8, Zenon

-----------------------------------------------------------------------------
(* The four actions that change client slots.                              *)
ClientsOK ==
  /\ SlotsOK /\ CountIsOccupancy /\ EpollWatchesClients /\ Serving

(* What addClient does to a session it finds.                              *)
LEMMA JoinFacts ==
  ASSUME IInv, NEW c \in Conns, JoinSession(c)
  PROVE  /\ c \notin Placed /\ hpc[c] = "play"
         /\ \E s \in Live, k \in Index :
              /\ slot[s][k] = Null /\ slot' = [slot EXCEPT ![s][k] = c]
              /\ count' = [count EXCEPT ![s] = @ + 1]
<1>1. hpc[c] = "play"
  BY DEF JoinSession, MayScan
<1>2. c \notin Placed
  BY <1>1 DEF IInv, SlotsOK, ClientsAdmitted
<1>3. PICK i \in Entries, k \in Index :
        /\ IsFirst(i, {j \in Entries : Plays(j, c)}) /\ FreeSlot(session_arr[i], k)
        /\ slot' = [slot EXCEPT ![session_arr[i]][k] = c]
        /\ count' = [count EXCEPT ![session_arr[i]] = @ + 1]
  BY DEF JoinSession
<1>4. session_arr[i] \in Live
  BY <1>3 DEF IsFirst, Plays, IInv, RegistrySound
<1>5. slot[session_arr[i]][k] = Null
  BY <1>3 DEF FreeSlot, IsFirst
<1> QED
  BY <1>1, <1>2, <1>3, <1>4, <1>5

(* Taking a free slot raises the occupancy by one.                         *)
LEMMA CountTaken ==
  ASSUME TypeOK, CountIsOccupancy, NEW s \in Conns, NEW k \in Index,
         k \notin Occupied(s), Occupied(s)' = Occupied(s) \cup {k}
  PROVE  /\ Cardinality(Occupied(s)') = Cardinality(Occupied(s)) + 1
         /\ Cardinality(Occupied(s)) + 1 \in 0 .. CLIENTMAX
<1>1. Cardinality(Occupied(s) \cup {k}) = Cardinality(Occupied(s)) + 1
  BY OccupiedFinite, FS_AddElement
<1>2. Occupied(s) \cup {k} \in SUBSET Index
  BY DEF Occupied
<1>3. Cardinality(Occupied(s) \cup {k}) <= CLIENTMAX
  <2>1. IsFiniteSet(Index)
    BY FS_Interval, SessionsAssumption DEF Index
  <2> QED
    BY <1>2, <2>1, FS_Subset, OccupiedFinite
<1> QED
  BY <1>1, <1>3, OccupiedFinite, SessionsAssumption

(* addClient to a session it finds keeps sockets, slots and count.         *)
LEMMA JoinClientsOK ==
  ASSUME IInv, NEW c \in Conns, JoinSession(c)
  PROVE  /\ Placed' = Placed \cup {c} /\ ClientsOK' /\ count' \in [Conns -> 0 .. CLIENTMAX]
<1>1. PICK s \in Live, k \in Index :
        /\ slot[s][k] = Null /\ slot' = [slot EXCEPT ![s][k] = c]
        /\ count' = [count EXCEPT ![s] = @ + 1]
  BY JoinFacts
<1>2. /\ hpc' = [hpc EXCEPT ![c] = "admitted"] /\ epoll' = epoll \cup {c}
      /\ UNCHANGED <<open, sstate, epc, cur, client_num, gone>>
      /\ c \notin Placed /\ hpc[c] = "play"
  BY JoinFacts DEF JoinSession, EventAdd, epollVars
<1>3. s \in Conns /\ Live' = Live \cup {s} /\ Live' = Live
  <2>1. s \in Conns
    BY DEF Live
  <2>2. Live' = Live
    BY <1>2 DEF Live
  <2> QED
    BY <2>1, <2>2
<1>4. /\ Placed' = Placed \cup {c} /\ SlotsDistinct' /\ OnlyLiveOccupied'
      /\ Occupied(s)' = Occupied(s) \cup {k} /\ k \notin Occupied(s)
      /\ \A t \in Conns \ {s} : Occupied(t)' = Occupied(t)
  <2>1. /\ TypeOK /\ SlotsDistinct /\ OnlyLiveOccupied
        /\ s \in Conns /\ k \in Index /\ c \notin Placed /\ Live' = Live \cup {s}
        /\ slot[s][k] = Null /\ slot' = [slot EXCEPT ![s][k] = c]
    BY <1>1, <1>2, <1>3 DEF IInv, SlotsOK
  <2> QED
    BY <2>1, TakeSlot, ZenonT(30)
<1>5. /\ Cardinality(Occupied(s)') = Cardinality(Occupied(s)) + 1
      /\ Cardinality(Occupied(s)) + 1 \in 0 .. CLIENTMAX
  BY <1>3, <1>4, CountTaken DEF IInv
<1>6. count[s] = Cardinality(Occupied(s)) /\ count \in [Conns -> 0 .. CLIENTMAX]
  BY DEF IInv, CountIsOccupancy, TypeOK
<1>7. CountIsOccupancy' /\ count' \in [Conns -> 0 .. CLIENTMAX]
  <2>1. count' \in [Conns -> 0 .. CLIENTMAX]
    BY <1>1, <1>3, <1>5, <1>6
  <2>2. ASSUME NEW t \in Live' PROVE count'[t] = Cardinality(Occupied(t)')
    BY <2>2, <1>1, <1>3, <1>4, <1>5, <1>6 DEF IInv, CountIsOccupancy, Live
  <2> QED
    BY <2>1, <2>2 DEF CountIsOccupancy
<1>8. SocketsOwned' /\ ClientsAdmitted'
  BY <1>2, <1>4 DEF IInv, TypeOK, SlotsOK, SocketsOwned, ClientsAdmitted
<1>9. EpollWatchesClients' /\ Serving'
  BY <1>2, <1>4 DEF IInv, EpollWatchesClients, Serving
<1> QED
  BY <1>4, <1>7, <1>8, <1>9 DEF ClientsOK, SlotsOK

(* What the creator's initSession and first addClient do.                  *)
LEMMA InitFacts ==
  ASSUME IInv, NEW c \in Conns, InitSession(c)
  PROVE  /\ hpc[c] = "init" /\ c \notin Placed /\ c \notin Live /\ Occupied(c) = {}
         /\ Live' = Live \cup {c} /\ 0 \in Index /\ slot[c][0] = Null
<1>1. hpc[c] = "init" /\ sstate' = [sstate EXCEPT ![c] = "live"]
  BY DEF InitSession
<1>2. c \notin Live
  BY <1>1 DEF IInv, Creators, Live
<1>3. Live' = Live \cup {c}
  BY <1>1 DEF IInv, TypeOK, Live
<1>4. c \notin Placed
  BY <1>1 DEF IInv, SlotsOK, ClientsAdmitted
<1>5. Occupied(c) = {}
  BY <1>2 DEF IInv, SlotsOK, OnlyLiveOccupied
<1>6. 0 \in Index
  BY SessionsAssumption DEF Index
<1> QED
  BY <1>1, <1>2, <1>3, <1>4, <1>5, <1>6 DEF Occupied

(* The first client of a new session keeps sockets, slots and count.       *)
LEMMA InitClientsOK ==
  ASSUME IInv, NEW c \in Conns, InitSession(c)
  PROVE  Placed' = Placed \cup {c} /\ ClientsOK'
<1>1. /\ hpc' = [hpc EXCEPT ![c] = "admitted"] /\ epoll' = epoll \cup {c}
      /\ slot' = [slot EXCEPT ![c][0] = c] /\ count' = [count EXCEPT ![c] = 1]
      /\ UNCHANGED <<open, epc, cur, client_num, gone>>
  BY DEF InitSession, EventAdd, epollVars
<1>2. /\ hpc[c] = "init" /\ c \notin Placed /\ c \notin Live /\ Occupied(c) = {}
      /\ Live' = Live \cup {c} /\ 0 \in Index /\ slot[c][0] = Null
  BY InitFacts
<1>4. /\ Placed' = Placed \cup {c} /\ SlotsDistinct' /\ OnlyLiveOccupied'
      /\ Occupied(c)' = Occupied(c) \cup {0}
      /\ \A t \in Conns \ {c} : Occupied(t)' = Occupied(t)
  <2>1. TypeOK /\ SlotsDistinct /\ OnlyLiveOccupied
    BY DEF IInv, SlotsOK
  <2>2. slot' = [slot EXCEPT ![c][0] = c] /\ Live' = Live \cup {c} /\ slot[c][0] = Null
    BY <1>1, <1>2
  <2>3. c \notin Placed /\ 0 \in Index
    BY <1>2
  <2> QED
    BY <2>1, <2>2, <2>3, TakeSlot
<1>5. Cardinality(Occupied(c)') = 1
  <2>1. Occupied(c)' = {0}
    BY <1>2, <1>4
  <2> QED
    BY <2>1, FS_Singleton, Zenon
<1>7. CountIsOccupancy'
  <2>2. ASSUME NEW t \in Live' PROVE count'[t] = Cardinality(Occupied(t)')
    <3>1. CASE t = c
      BY <3>1, <1>1, <1>5 DEF IInv, TypeOK
    <3>2. CASE t # c
      <4>1. t \in Live /\ t \in Conns
        BY <2>2, <3>2, <1>2 DEF Live
      <4>2. count'[t] = count[t]
        BY <4>1, <3>2, <1>1 DEF IInv, TypeOK
      <4> QED
        BY <4>1, <4>2, <3>2, <1>4 DEF IInv, CountIsOccupancy
    <3> QED
      BY <3>1, <3>2
  <2> QED
    BY <2>2 DEF CountIsOccupancy
<1>8. SocketsOwned' /\ ClientsAdmitted'
  BY <1>1, <1>2, <1>4 DEF IInv, TypeOK, SlotsOK, SocketsOwned, ClientsAdmitted
<1>9. EpollWatchesClients' /\ Serving'
  BY <1>1, <1>2, <1>4 DEF IInv, EpollWatchesClients, Serving
<1> QED
  BY <1>4, <1>7, <1>8, <1>9 DEF ClientsOK, SlotsOK

(* The epoll thread's release of a client keeps them.                      *)
LEMMA DropClientsOK ==
  ASSUME IInv, DropClient
  PROVE  /\ cur \in Placed /\ cur \in open /\ Placed' = Placed \ {cur} /\ ClientsOK'
         /\ count' \in [Conns -> 0 .. CLIENTMAX] /\ left' \in 0 .. CLIENTMAX
<1>1. PICK s \in Conns, k \in Index :
        /\ s \in Live /\ slot[s][k] = cur
        /\ slot' = [slot EXCEPT ![s][k] = Null] /\ count' = [count EXCEPT ![s] = @ - 1]
        /\ left' = count[s] - 1
  BY DEF DropClient
<1>2. /\ epc = "drop" /\ epc' = "uncount" /\ open' = open \ {cur} /\ Live' = Live
      /\ UNCHANGED <<hpc, epoll, cur, client_num, gone>>
  BY DEF DropClient, ClearClients, handlerVars, Live
<1>3. cur \in Conns /\ cur \in Placed
  BY <1>2 DEF IInv, Serving, Placed
<1>4. /\ Placed' = Placed \ {cur} /\ SlotsDistinct' /\ OnlyLiveOccupied'
      /\ Occupied(s)' = Occupied(s) \ {k} /\ k \in Occupied(s)
      /\ \A t \in Conns \ {s} : Occupied(t)' = Occupied(t)
  BY <1>1, <1>2, <1>3, LeaveSlot DEF IInv, SlotsOK
<1>5. Cardinality(Occupied(s)') = Cardinality(Occupied(s)) - 1
  BY <1>4, OccupiedFinite, FS_RemoveElement
<1>6. Cardinality(Occupied(s)) - 1 \in 0 .. CLIENTMAX
  <2>1. Cardinality(Occupied(s)) # 0
    BY <1>4, OccupiedFinite, FS_EmptySet
  <2> QED
    BY <2>1, OccupiedFinite, SessionsAssumption
<1>7. count[s] = Cardinality(Occupied(s)) /\ count \in [Conns -> 0 .. CLIENTMAX]
  BY <1>1 DEF IInv, CountIsOccupancy, TypeOK
<1>8. /\ CountIsOccupancy' /\ count' \in [Conns -> 0 .. CLIENTMAX]
      /\ left' \in 0 .. CLIENTMAX
  <2>1. count' \in [Conns -> 0 .. CLIENTMAX] /\ left' \in 0 .. CLIENTMAX
    BY <1>1, <1>6, <1>7
  <2>2. ASSUME NEW t \in Live' PROVE count'[t] = Cardinality(Occupied(t)')
    BY <2>2, <1>1, <1>2, <1>4, <1>5, <1>7 DEF IInv, CountIsOccupancy, Live
  <2> QED
    BY <2>1, <2>2 DEF CountIsOccupancy
<1>9. cur \in open
  BY <1>3 DEF IInv, SlotsOK, SocketsOwned
<1>10. SocketsOwned' /\ ClientsAdmitted'
  BY <1>2, <1>3, <1>4 DEF IInv, SlotsOK, SocketsOwned, ClientsAdmitted
<1>11. EpollWatchesClients' /\ Serving'
  BY <1>2, <1>4 DEF IInv, EpollWatchesClients, Serving
<1> QED
  BY <1>3, <1>4, <1>8, <1>9, <1>10, <1>11 DEF ClientsOK, SlotsOK

(* What the last part of delSession does.                                  *)
LEMMA PurgeFacts ==
  ASSUME IInv, PurgeSession
  PROVE  \E s \in Live :
           /\ session_arr[delpos] = s /\ s \in Conns /\ pos[s] = delpos /\ Live' = Live \ {s}
           /\ client_num' = Cardinality(Occupied(s))
           /\ epoll' = epoll \ Clients(s) /\ open' = open \ Clients(s)
           /\ slot' = [slot EXCEPT ![s] = [i \in Index |-> Null]]
           /\ sstate' = [sstate EXCEPT ![s] = "freed"]
           /\ pos' = [pos EXCEPT ![s] = 0] /\ count' = [count EXCEPT ![s] = 0]
<1>1. PICK s \in Live :
        /\ session_arr[delpos] = s
        /\ client_num' = Cardinality(Occupied(s))
        /\ EventDel(Clients(s)) /\ ClearClients(Clients(s))
        /\ slot' = [slot EXCEPT ![s] = [i \in Index |-> Null]]
        /\ sstate' = [sstate EXCEPT ![s] = "freed"]
        /\ pos' = [pos EXCEPT ![s] = 0] /\ count' = [count EXCEPT ![s] = 0]
  BY DEF PurgeSession
<1>2. s \in Conns
  BY DEF Live
<1>3. Live' = Live \ {s}
  BY <1>1, <1>2 DEF Live, IInv, TypeOK
<1>4. pos[s] = delpos
  BY <1>1, <1>2, SessionsAssumption DEF IInv, RegistrySound, TypeOK
<1> QED
  BY <1>1, <1>2, <1>3, <1>4 DEF EventDel, ClearClients

(* delSession keeps sockets, slots and the counts of other sessions.       *)
LEMMA PurgeClientsOK ==
  ASSUME IInv, PurgeSession
  PROVE  /\ ClientsOK'
         /\ count' \in [Conns -> 0 .. CLIENTMAX] /\ client_num' \in 0 .. CLIENTMAX
<1>1. PICK s \in Live :
           /\ session_arr[delpos] = s /\ s \in Conns /\ Live' = Live \ {s}
           /\ client_num' = Cardinality(Occupied(s))
           /\ epoll' = epoll \ Clients(s) /\ open' = open \ Clients(s)
           /\ slot' = [slot EXCEPT ![s] = [i \in Index |-> Null]]
           /\ count' = [count EXCEPT ![s] = 0]
  BY PurgeFacts
<1>2. /\ epc = "purge" /\ epc' = "settle" /\ UNCHANGED <<hpc, cur, gone>>
  BY DEF PurgeSession, handlerVars
<1>3. /\ Clients(s) \subseteq Placed /\ Placed' = Placed \ Clients(s)
      /\ SlotsDistinct' /\ OnlyLiveOccupied'
      /\ \A t \in Conns \ {s} : Occupied(t)' = Occupied(t)
  BY <1>1, EmptySlots DEF IInv, SlotsOK
<1>4. CountIsOccupancy' /\ count' \in [Conns -> 0 .. CLIENTMAX]
  <2>1. count' \in [Conns -> 0 .. CLIENTMAX]
    BY <1>1, SessionsAssumption DEF IInv, TypeOK
  <2>2. ASSUME NEW t \in Live' PROVE count'[t] = Cardinality(Occupied(t)')
    BY <2>2, <1>1, <1>3 DEF IInv, CountIsOccupancy, Live, TypeOK
  <2> QED
    BY <2>1, <2>2 DEF CountIsOccupancy
<1>5. SocketsOwned' /\ ClientsAdmitted'
  BY <1>1, <1>2, <1>3 DEF IInv, SlotsOK, SocketsOwned, ClientsAdmitted
<1>6. EpollWatchesClients' /\ Serving'
  BY <1>1, <1>2, <1>3 DEF IInv, EpollWatchesClients, Serving
<1> QED
  BY <1>1, <1>3, <1>4, <1>5, <1>6, OccupiedFinite DEF ClientsOK, SlotsOK

(* All other steps.                                                        *)
LEMMA OtherSlots ==
  ASSUME IInv, UNCHANGED <<slot, count>>, Live' = Live
  PROVE  /\ Placed' = Placed /\ SlotsDistinct' /\ OnlyLiveOccupied' /\ CountIsOccupancy'
<1>1. /\ Placed' = Placed /\ SlotsDistinct' /\ OnlyLiveOccupied'
      /\ \A s \in Conns : Occupied(s)' = Occupied(s)
  BY SameSlots DEF IInv, SlotsOK
<1>2. CountIsOccupancy'
  BY <1>1 DEF IInv, CountIsOccupancy, Live
<1> QED
  BY <1>1, <1>2

(* What createSession does: the session is raw and holds no client.        *)
LEMMA CreateFacts ==
  ASSUME IInv, NEW c \in Conns, CreateSession(c)
  PROVE  /\ sstate[c] = "none" /\ sstate' = [sstate EXCEPT ![c] = "raw"] /\ Live' = Live
         /\ UNCHANGED <<slot, count, pos, session_arr>>
<1>1. hpc[c] = "create" /\ sstate' = [sstate EXCEPT ![c] = "raw"]
  BY DEF CreateSession
<1>2. sstate[c] = "none"
  BY <1>1 DEF IInv, Creators
<1>3. Live' = Live
  BY <1>1, <1>2 DEF Live, IInv, TypeOK
<1> QED
  BY <1>1, <1>2, <1>3 DEF CreateSession

(* The slots and the live sessions change in four actions only.            *)
LEMMA SlotWriters ==
  ASSUME IInv, [Next]_vars
  PROVE  \/ UNCHANGED <<slot, count>> /\ Live' = Live
         \/ \E c \in Conns : JoinSession(c) \/ InitSession(c)
         \/ DropClient \/ PurgeSession
<1>1. UNCHANGED sstate => Live' = Live
  BY DEF Live
<1> QED
  BY <1>1, Writers, CreateFacts

(* A handler closes its own socket only, when it is refused.               *)
LEMMA HandlerSockets ==
  ASSUME IInv, NEW c \in Conns, Handler(c), UNCHANGED <<slot, count>>, Live' = Live
  PROVE  SocketsOwned' /\ ClientsAdmitted'
<1>1. Placed' = Placed
  BY OtherSlots
<1>2. CASE JoinSession(c) \/ InitSession(c)
  BY <1>2, JoinClientsOK, InitClientsOK DEF ClientsOK, SlotsOK
<1>3. CASE RefuseClient(c)
  <2>1. c \notin Placed
    BY <1>3 DEF RefuseClient, MayScan, IInv, SlotsOK, ClientsAdmitted
  <2>2. hpc' = [hpc EXCEPT ![c] = "refused"] /\ open' = open \ {c} /\ hpc[c] = "play"
    BY <1>3 DEF RefuseClient, MayScan
  <2> QED
    BY <1>1, <2>1, <2>2 DEF IInv, TypeOK, SlotsOK, SocketsOwned, ClientsAdmitted
<1>4. CASE ScanMisses(c) \/ CreateSession(c) \/ InitOutOfBounds(c) \/ CountClient(c)
  <2>1. UNCHANGED open /\ (c \in open => hpc[c] \in {"play", "create", "init", "admitted"})
    BY <1>4 DEF ScanMisses, MayScan, CreateSession, InitOutOfBounds, CountClient, clientVars
  <2>2. \/ hpc' = hpc
        \/ hpc[c] \in {"play", "create"} /\ \E h \in {"create", "init"} : hpc' = [hpc EXCEPT ![c] = h]
        \/ hpc[c] = "admitted" /\ hpc' = [hpc EXCEPT ![c] = "done"]
    BY <1>4 DEF ScanMisses, MayScan, CreateSession, InitOutOfBounds, CountClient, handlerVars
  <2>3. /\ hpc \in [Conns -> {"play", "create", "init", "admitted", "done", "refused"}]
        /\ SocketsOwned /\ ClientsAdmitted /\ Placed \subseteq Conns
    BY DEF IInv, TypeOK, SlotsOK, Placed
  <2>4. CASE hpc' = hpc
    BY <1>1, <2>1, <2>3, <2>4 DEF SocketsOwned, ClientsAdmitted
  <2>5. ASSUME NEW h \in {"create", "init"}, hpc[c] \in {"play", "create"},
               hpc' = [hpc EXCEPT ![c] = h]
        PROVE  SocketsOwned' /\ ClientsAdmitted'
    BY <1>1, <2>1, <2>3, <2>5 DEF SocketsOwned, ClientsAdmitted
  <2>6. CASE hpc[c] = "admitted" /\ hpc' = [hpc EXCEPT ![c] = "done"]
    BY <1>1, <2>1, <2>3, <2>6 DEF SocketsOwned, ClientsAdmitted
  <2> QED
    BY <2>2, <2>4, <2>5, <2>6
<1> QED
  BY <1>2, <1>3, <1>4 DEF Handler

(* Every step keeps sockets, slots, counts and what epoll watches.         *)
LEMMA ClientsStep == ASSUME IInv, [Next]_vars PROVE ClientsOK'
<1>1. CASE (\E c \in Conns : JoinSession(c) \/ InitSession(c)) \/ DropClient \/ PurgeSession
  BY <1>1, JoinClientsOK, InitClientsOK, DropClientsOK, PurgeClientsOK
<1>2. CASE /\ UNCHANGED <<slot, count>> /\ Live' = Live
           /\ ~DropClient /\ ~PurgeSession
           /\ \A c \in Conns : ~JoinSession(c) /\ ~InitSession(c)
  <2>1. Placed' = Placed /\ SlotsDistinct' /\ OnlyLiveOccupied' /\ CountIsOccupancy'
    BY <1>2, OtherSlots
  <2>2. SocketsOwned' /\ ClientsAdmitted'
    <3>1. CASE UNCHANGED <<open, hpc>>
      BY <2>1, <3>1 DEF IInv, SlotsOK, SocketsOwned, ClientsAdmitted
    <3>2. CASE \E c \in Conns : Handler(c)
      BY <1>2, <3>2, HandlerSockets
    <3> QED
      BY <1>2, <3>1, <3>2, Writers
  <2>3. EpollWatchesClients' /\ Serving'
    <3>1. Placed \subseteq Conns /\ gone \subseteq gone'
      BY Writers DEF Placed
    <3>2. CASE UNCHANGED <<epoll, epc, cur, client_num>>
      BY <2>1, <3>1, <3>2 DEF IInv, EpollWatchesClients, Serving
    <3>3. CASE SendPacket
      BY <2>1, <3>1, <3>3 DEF SendPacket, EventDel, IInv, EpollWatchesClients, Serving
    <3>4. CASE (\E c \in Conns : PopPacket(c)) \/ PollWait \/ EndRound \/ UncountClient
      BY <2>1, <3>1, <3>4 DEF PopPacket, PollWait, EndRound, UncountClient, clientVars, RanEmpty,
         IInv, EpollWatchesClients, Serving
    <3>5. CASE DestroyMedia \/ JoinMedia \/ SettleCount
      BY <2>1, <3>1, <3>5 DEF DestroyMedia, JoinMedia, SettleCount, clientVars,
         IInv, EpollWatchesClients, Serving
    <3> QED
      BY <1>2, <3>2, <3>3, <3>4, <3>5, Writers
  <2> QED
    BY <2>1, <2>2, <2>3 DEF ClientsOK, SlotsOK
<1> QED
  BY <1>1, <1>2, SlotWriters

-----------------------------------------------------------------------------
(* Who creates sessions, and what the registry names.                      *)
LEMMA CreatorsStep == ASSUME IInv, [Next]_vars PROVE Creators'
<1> USE SessionsAssumption DEF IInv, TypeOK, Creators
<1>1. CASE UNCHANGED <<hpc, sstate, mut_session>>
  BY <1>1
<1>2. ASSUME NEW c \in Conns, Handler(c) PROVE Creators'
  <2>1. CASE JoinSession(c)
    BY <2>1 DEF JoinSession, MayScan
  <2>2. CASE RefuseClient(c)
    BY <2>2 DEF RefuseClient, MayScan, sessionVars
  <2>3. CASE ScanMisses(c)
    BY <2>3 DEF ScanMisses, MayScan, sessionVars
  <2>4. CASE CreateSession(c)
    BY <2>4 DEF CreateSession
  <2>5. CASE InitSession(c)
    BY <2>5 DEF InitSession, UnlockSession
  <2>6. CASE InitOutOfBounds(c) \/ CountClient(c)
    BY <2>6 DEF InitOutOfBounds, CountClient, handlerVars, sessionVars
  <2> QED
    BY <1>2, <2>1, <2>2, <2>3, <2>4, <2>5, <2>6 DEF Handler
<1>3. CASE PurgeSession
  BY <1>3, PurgeFacts DEF PurgeSession, handlerVars, Live
<1>4. CASE DropClient
  BY <1>4 DEF DropClient, handlerVars
<1> HIDE DEF IInv, TypeOK, Creators
<1> QED
  BY <1>1, <1>2, <1>3, <1>4, Writers DEF Handler

(* Every step keeps the entries naming live sessions.                      *)
LEMMA RegistryStep == ASSUME IInv, [Next]_vars PROVE RegistrySound'
<1> USE SessionsAssumption
<1>1. CASE UNCHANGED <<sstate, pos, session_arr>>
  BY <1>1 DEF IInv, RegistrySound, Live
<1>2. ASSUME NEW c \in Conns, JoinSession(c) PROVE RegistrySound'
  BY <1>2 DEF JoinSession, IInv, RegistrySound, Live
<1>3. ASSUME NEW c \in Conns, CreateSession(c) PROVE RegistrySound'
  BY <1>3, CreateFacts DEF IInv, RegistrySound
<1>4. ASSUME NEW c \in Conns, InitSession(c) PROVE RegistrySound'
  <2>1. /\ freepos[c] \in Entries /\ session_arr' = [session_arr EXCEPT ![freepos[c]] = c]
        /\ pos' = [pos EXCEPT ![c] = freepos[c]]
    BY <1>4 DEF InitSession
  <2>2. c \notin Live /\ Live' = Live \cup {c}
    BY <1>4, InitFacts
  <2> QED
    BY <2>1, <2>2 DEF IInv, TypeOK, RegistrySound
<1>5. CASE DropClient
  BY <1>5 DEF DropClient, IInv, RegistrySound, Live
<1>6. CASE PurgeSession
  <2>1. PICK s \in Live :
           /\ session_arr[delpos] = s /\ pos[s] = delpos /\ Live' = Live \ {s} /\ s \in Conns
           /\ pos' = [pos EXCEPT ![s] = 0]
    BY <1>6, PurgeFacts
  <2>2. session_arr' = [session_arr EXCEPT ![delpos] = Null]
    BY <1>6 DEF PurgeSession, EmptyEntry
  <2> QED
    BY <2>1, <2>2 DEF IInv, TypeOK, RegistrySound, Live
<1> QED
  BY <1>1, <1>2, <1>3, <1>4, <1>5, <1>6, Writers

-----------------------------------------------------------------------------
(* sum_client, with the clients it counts and those that were cleared.     *)
Counted == {c \in Conns : hpc[c] = "done"}
Cleared == {c \in Conns \ open : hpc[c] \in {"admitted", "done"}}
Uncounting == IF epc = "uncount" THEN 1 ELSE 0

(* sum_client as counted minus cleared clients, and what is on its way.    *)
LEMMA SumIs ==
  SumClientExact <=>
    sum_client = Cardinality(Counted) - Cardinality(Cleared) + Uncounting + client_num
BY DEF SumClientExact, Counted, Cleared, Uncounting

(* Both sets counted are finite.                                           *)
LEMMA CountsFinite ==
  /\ IsFiniteSet(Counted) /\ Cardinality(Counted) \in Nat
  /\ IsFiniteSet(Cleared) /\ Cardinality(Cleared) \in Nat
<1>1. Counted \in SUBSET Conns /\ Cleared \in SUBSET Conns
  BY DEF Counted, Cleared
<1> QED
  BY <1>1, FS_Subset, FS_CardinalityType, SessionsAssumption

(* A handler before its last step, and one that is refused, was neither    *)
(* counted nor cleared.                                                    *)
LEMMA HandlerCounts ==
  ASSUME IInv, NEW c \in Conns, Handler(c)
  PROVE  /\ Cleared' = Cleared
         /\ UNCHANGED <<epc, client_num>>
         /\ \/ Counted' = Counted /\ UNCHANGED sum_client
            \/ c \notin Counted /\ Counted' = Counted \cup {c} /\ sum_client' = sum_client + 1
<1> USE DEF Counted, Cleared
<1>1. CASE JoinSession(c)
  <2>1. /\ hpc[c] = "play" /\ hpc' = [hpc EXCEPT ![c] = "admitted"]
        /\ UNCHANGED <<open, epc, client_num, sum_client>>
    BY <1>1 DEF JoinSession, MayScan, epollVars
  <2>2. c \in open
    BY <2>1 DEF IInv, SlotsOK, SocketsOwned
  <2> QED
    BY <2>1, <2>2 DEF IInv, TypeOK
<1>2. CASE RefuseClient(c)
  <2>1. hpc[c] = "play" /\ hpc' = [hpc EXCEPT ![c] = "refused"] /\ open' = open \ {c}
        /\ UNCHANGED <<epc, client_num, sum_client>>
    BY <1>2 DEF RefuseClient, MayScan, epollVars
  <2> QED
    BY <2>1 DEF IInv, TypeOK
<1>3. CASE ScanMisses(c) \/ CreateSession(c)
  <2>1. hpc[c] \in {"play", "create"} /\ UNCHANGED <<open, epc, client_num, sum_client>>
        /\ \E h \in {"create", "init"} : hpc' = [hpc EXCEPT ![c] = h]
    BY <1>3 DEF ScanMisses, MayScan, CreateSession, clientVars, epollVars
  <2> QED
    BY <2>1 DEF IInv, TypeOK
<1>4. CASE InitSession(c)
  <2>1. /\ hpc[c] = "init" /\ hpc' = [hpc EXCEPT ![c] = "admitted"]
        /\ UNCHANGED <<open, epc, client_num, sum_client>>
    BY <1>4 DEF InitSession, epollVars
  <2>2. c \in open
    BY <2>1 DEF IInv, SlotsOK, SocketsOwned
  <2> QED
    BY <2>1, <2>2 DEF IInv, TypeOK
<1>5. CASE InitOutOfBounds(c)
  BY <1>5 DEF InitOutOfBounds, clientVars, handlerVars, epollVars
<1>6. CASE CountClient(c)
  <2>1. /\ hpc[c] = "admitted" /\ hpc' = [hpc EXCEPT ![c] = "done"]
        /\ UNCHANGED <<open, epc, client_num>>
        /\ sum_client' = sum_client + 1
    BY <1>6 DEF CountClient, epollVars
  <2> QED
    BY <2>1 DEF IInv, TypeOK
<1> QED
  BY <1>1, <1>2, <1>3, <1>4, <1>5, <1>6 DEF Handler

(* Every step keeps sum_client exact.                                      *)
LEMMA SumStep == ASSUME IInv, [Next]_vars PROVE SumClientExact'
<1>0. sum_client = Cardinality(Counted) - Cardinality(Cleared) + Uncounting + client_num
  BY SumIs DEF IInv
<1>1. SUFFICES sum_client' = Cardinality(Counted') - Cardinality(Cleared') + Uncounting' + client_num'
  BY DEF SumClientExact, Counted, Cleared, Uncounting
<1>2. sum_client \in Int /\ client_num \in Int
  BY DEF IInv, TypeOK
<1>3. (epc # "settle" => client_num = 0) /\ (epc \in {"send", "drop"} => cur \in Placed)
  BY DEF IInv, Serving
<1>4. CASE \E c \in Conns : Handler(c)
  <2>1. PICK c \in Conns : Handler(c)
    BY <1>4
  <2>2. Uncounting' = Uncounting
    BY <2>1, HandlerCounts DEF Uncounting
  <2>3. CASE c \notin Counted /\ Counted' = Counted \cup {c} /\ sum_client' = sum_client + 1
    <3>1. Cardinality(Counted') = Cardinality(Counted) + 1
      BY <2>3, CountsFinite, FS_AddElement
    <3> QED
      BY <1>0, <1>2, <2>1, <2>2, <2>3, <3>1, CountsFinite, HandlerCounts DEF Uncounting
  <2> QED
    BY <1>0, <2>1, <2>2, <2>3, HandlerCounts
<1>5. CASE DropClient
  <2>1. /\ cur \in Placed /\ cur \in open /\ hpc[cur] \in {"admitted", "done"} /\ cur \in Conns
    BY <1>5, DropClientsOK DEF IInv, SlotsOK, ClientsAdmitted, Placed
  <2>2. /\ epc = "drop" /\ epc' = "uncount" /\ open' = open \ {cur}
        /\ UNCHANGED <<hpc, client_num, sum_client>>
    BY <1>5 DEF DropClient, ClearClients, handlerVars
  <2>3. cur \notin Cleared /\ Cleared' = Cleared \cup {cur} /\ Counted' = Counted
    BY <2>1, <2>2 DEF Cleared, Counted
  <2>4. Cardinality(Cleared') = Cardinality(Cleared) + 1
    BY <2>3, CountsFinite, FS_AddElement
  <2>5. Uncounting = 0 /\ Uncounting' = 1
    BY <2>2 DEF Uncounting
  <2> QED
    BY <1>0, <1>2, <2>2, <2>3, <2>4, <2>5, CountsFinite
<1>6. CASE PurgeSession
  <2>1. PICK s \in Live :
           /\ s \in Conns /\ client_num' = Cardinality(Occupied(s)) /\ open' = open \ Clients(s)
           /\ slot' = [slot EXCEPT ![s] = [i \in Index |-> Null]] /\ Live' = Live \ {s}
    BY <1>6, PurgeFacts
  <2>2. epc = "purge" /\ epc' = "settle" /\ UNCHANGED <<hpc, sum_client>>
    BY <1>6 DEF PurgeSession, handlerVars
  <2>3. /\ IsFiniteSet(Clients(s)) /\ Cardinality(Clients(s)) = Cardinality(Occupied(s))
        /\ Clients(s) \subseteq Conns
    BY <2>1, ClientsAreOccupancy DEF IInv, SlotsOK
  <2>4. Clients(s) \subseteq Placed
    BY <2>1, EmptySlots DEF IInv, SlotsOK
  <2>5. \A c \in Clients(s) : c \in open /\ hpc[c] \in {"admitted", "done"}
    BY <2>3, <2>4 DEF IInv, SlotsOK, SocketsOwned, ClientsAdmitted
  <2>6. Cleared \cap Clients(s) = {} /\ Cleared' = Cleared \cup Clients(s) /\ Counted' = Counted
    BY <2>1, <2>2, <2>3, <2>5 DEF Cleared, Counted
  <2>7. Cardinality(Cleared') = Cardinality(Cleared) + Cardinality(Occupied(s))
    <3>1. Cardinality(Cleared \cup Clients(s))
            = Cardinality(Cleared) + Cardinality(Clients(s)) - Cardinality(Cleared \cap Clients(s))
      BY <2>3, CountsFinite, FS_Union
    <3>2. Cardinality(Cleared \cap Clients(s)) = 0
      BY <2>6, FS_EmptySet
    <3> QED
      BY <2>3, <2>6, <3>1, <3>2, CountsFinite, OccupiedFinite
  <2>8. Uncounting = 0 /\ Uncounting' = 0 /\ client_num = 0
    BY <1>3, <2>2 DEF Uncounting
  <2> QED
    BY <1>0, <1>2, <2>1, <2>2, <2>6, <2>7, <2>8, CountsFinite, OccupiedFinite
<1>7. CASE UNCHANGED <<open, hpc>>
  <2>1. Counted' = Counted /\ Cleared' = Cleared
    BY <1>7 DEF Counted, Cleared
  <2>2. CASE UncountClient
    <3>1. Uncounting = 1 /\ Uncounting' = 0 /\ sum_client' = sum_client - 1 /\ UNCHANGED client_num
      BY <2>2 DEF UncountClient, Uncounting
    <3> QED
      BY <1>0, <1>2, <2>1, <3>1, CountsFinite
  <2>3. CASE SettleCount
    <3>1. /\ Uncounting = 0 /\ Uncounting' = 0 /\ client_num' = 0
          /\ sum_client' = sum_client - client_num
      BY <2>3 DEF SettleCount, Uncounting
    <3> QED
      BY <1>0, <1>2, <2>1, <3>1, CountsFinite
  <2>4. CASE UNCHANGED <<sum_client, client_num>> /\ ~DropClient /\ ~UncountClient
    <3>1. Uncounting' = Uncounting
      <4>1. CASE UNCHANGED epc
        BY <4>1 DEF Uncounting
      <4>2. CASE (\E c \in Conns : PopPacket(c)) \/ PollWait \/ EndRound \/ SendPacket
                 \/ DestroyMedia \/ JoinMedia \/ PurgeSession \/ SettleCount
        BY <4>2 DEF PopPacket, PollWait, EndRound, SendPacket, DestroyMedia, JoinMedia,
           PurgeSession, SettleCount, Uncounting
      <4> QED
        BY <2>4, <4>1, <4>2, Writers
    <3> QED
      BY <1>0, <2>1, <2>4, <3>1
  <2> QED
    BY <1>4, <1>5, <1>6, <2>2, <2>3, <2>4, Writers DEF Handler
<1> QED
  BY <1>4, <1>5, <1>6, <1>7, Writers

-----------------------------------------------------------------------------
(* Handlers that create sessions, and the deletion of one.                 *)
RaceParts ==
  /\ CreatorsOverlap /\ EntryStaysFree /\ FileStaysUnplayed
  /\ NoOrphanSession /\ SessionBeingDeleted /\ MediaStopsBeforeFree /\ ViewersShareSession

(* Two that overlapped stay so.                                            *)
LEMMA OverlapGrows ==
  ASSUME [Next]_vars
  PROVE  /\ UNCHANGED file /\ overlap \subseteq overlap'
         /\ \A s \in Conns : Overlapped(s) => Overlapped(s)'
<1>1. UNCHANGED file /\ overlap \subseteq overlap'
  BY Writers
<1> QED
  BY <1>1 DEF Overlapped

(* A pair of creators is a pair either way round.                          *)
LEMMA OverlapBothWays ==
  ASSUME NEW c \in Conns, NEW d \in Conns, c # d, {c, d} \in overlap
  PROVE  Overlapped(c) /\ Overlapped(d) /\ {d, c} \in overlap
<1>1. {d, c} = {c, d}
  OBVIOUS
<1> QED
  BY <1>1 DEF Overlapped

(* What a handler does to the creators there are.                          *)
LEMMA CreatorSteps ==
  ASSUME IInv, NEW c \in Conns, Handler(c)
  PROVE  /\ \A d \in Conns \ {c} : d \in Creating' => d \in Creating /\ freepos'[d] = freepos[d]
         /\ \/ c \in Creating' => c \in Creating /\ freepos'[c] = freepos[c]
            \/ ScanMisses(c) /\ c \notin Creating
         /\ ScanMisses(c) => \A d \in Creating : {c, d} \in overlap'
         /\ CreateSession(c) => c \in Creating
         /\ InitSession(c) => c \in Creating /\ c \notin Creating'
<1>1. /\ hpc \in [Conns -> {"play", "create", "init", "admitted", "done", "refused"}]
      /\ freepos \in [Conns -> 0 .. FILEMAX]
  BY DEF IInv, TypeOK
<1>2. CASE ScanMisses(c)
  <2>1. /\ hpc[c] = "play" /\ hpc' = [hpc EXCEPT ![c] = "create"]
        /\ overlap' = overlap \cup {{c, d} : d \in Creating}
        /\ \E p \in 0 .. FILEMAX : freepos' = [freepos EXCEPT ![c] = p]
    BY <1>2 DEF ScanMisses, MayScan
  <2>2. \A d \in Creating : {c, d} \in overlap'
    BY <2>1
  <2>3. ~CreateSession(c) /\ ~InitSession(c)
    BY <2>1 DEF CreateSession, InitSession
  <2> QED
    BY <1>1, <1>2, <2>1, <2>2, <2>3 DEF Creating
<1>3. CASE CreateSession(c)
  <2>1. hpc[c] = "create" /\ hpc' = [hpc EXCEPT ![c] = "init"] /\ UNCHANGED freepos
    BY <1>3 DEF CreateSession
  <2> QED
    BY <1>1, <2>1 DEF Creating, ScanMisses, MayScan, InitSession
<1>4. CASE InitSession(c)
  <2>1. /\ hpc[c] = "init" /\ hpc' = [hpc EXCEPT ![c] = "admitted"]
        /\ freepos' = [freepos EXCEPT ![c] = FILEMAX]
    BY <1>4 DEF InitSession
  <2> QED
    BY <1>1, <2>1 DEF Creating, ScanMisses, MayScan, CreateSession
<1>5. CASE JoinSession(c) \/ RefuseClient(c) \/ InitOutOfBounds(c) \/ CountClient(c)
  <2>1. /\ \A d \in Conns : d \in Creating' => d \in Creating
        /\ UNCHANGED freepos
    BY <1>1, <1>5 DEF JoinSession, RefuseClient, InitOutOfBounds, CountClient, MayScan,
       handlerVars, Creating
  <2>2. ~CreateSession(c) /\ ~InitSession(c)
    BY <1>5 DEF JoinSession, RefuseClient, InitOutOfBounds, CountClient, MayScan,
       CreateSession, InitSession
  <2>3. ScanMisses(c) => overlap' = overlap \cup {{c, d} : d \in Creating}
    BY DEF ScanMisses
  <2> QED
    BY <2>1, <2>2, <2>3
<1> QED
  BY <1>2, <1>3, <1>4, <1>5 DEF Handler

(* Only a handler's own steps make it a creator.                           *)
LEMMA CreatorsAre ==
  ASSUME IInv, [Next]_vars
  PROVE  \/ Creating' = Creating /\ UNCHANGED freepos
         \/ \E c \in Conns : Handler(c)
<1>1. UNCHANGED hpc => Creating' = Creating
  BY DEF Creating
<1> QED
  BY <1>1, Writers

(* Two creators overlap.                                                   *)
LEMMA CreatorsOverlapStep ==
  ASSUME IInv, RaceParts, [Next]_vars
  PROVE  CreatorsOverlap'
<1>1. CASE Creating' = Creating
  BY <1>1, OverlapGrows DEF RaceParts, CreatorsOverlap
<1>2. ASSUME NEW c \in Conns, Handler(c) PROVE CreatorsOverlap'
  <2>1. ASSUME NEW d \in Creating', NEW e \in Creating', d # e PROVE {d, e} \in overlap'
    <3>1. d \in Conns /\ e \in Conns
      BY DEF Creating
    <3>2. CASE d \in Creating /\ e \in Creating
      BY <2>1, <3>2, OverlapGrows DEF RaceParts, CreatorsOverlap
    <3>3. CASE d = c /\ e \in Creating /\ ScanMisses(c)
      BY <1>2, <3>3, CreatorSteps
    <3>4. CASE e = c /\ d \in Creating /\ ScanMisses(c)
      <4>1. {e, d} \in overlap' /\ {e, d} = {d, e}
        BY <1>2, <3>4, CreatorSteps
      <4> QED
        BY <4>1
    <3> QED
      BY <1>2, <2>1, <3>1, <3>2, <3>3, <3>4, CreatorSteps
  <2> QED
    BY <2>1 DEF CreatorsOverlap
<1> QED
  BY <1>1, <1>2, CreatorsAre

(* An entry that holds a session keeps it until the session is freed, or a *)
(* creator that overlapped it writes its own there.                        *)
LEMMA EntriesKept ==
  ASSUME IInv, RaceParts, [Next]_vars, ~PurgeSession,
         NEW i \in Entries, session_arr[i] # Null
  PROVE  \/ session_arr'[i] = session_arr[i]
         \/ /\ session_arr'[i] \in Conns /\ session_arr'[i] # session_arr[i]
            /\ {session_arr'[i], session_arr[i]} \in overlap
<1>1. ASSUME NEW c \in Conns, InitSession(c), session_arr'[i] # session_arr[i]
      PROVE  /\ session_arr'[i] \in Conns /\ session_arr'[i] # session_arr[i]
             /\ {session_arr'[i], session_arr[i]} \in overlap
  <2>1. freepos[c] \in Entries /\ session_arr' = [session_arr EXCEPT ![freepos[c]] = c]
    BY <1>1 DEF InitSession
  <2>2. freepos[c] = i /\ session_arr'[i] = c
    BY <1>1, <2>1 DEF IInv, TypeOK
  <2>3. {c, session_arr[i]} \in overlap
    BY <1>1, <2>2, CreatorSteps DEF Handler, RaceParts, EntryStaysFree
  <2> QED
    BY <1>1, <2>2, <2>3
<1>2. CASE DropClient \/ \E c \in Conns : JoinSession(c) \/ CreateSession(c)
  BY <1>2 DEF DropClient, JoinSession, CreateSession
<1> QED
  BY <1>1, <1>2, Writers

(* A session that is not in its entry never comes back there.              *)
LEMMA StrayKept ==
  ASSUME IInv, [Next]_vars, NEW s \in Conns, s \in Live, s \in Live', ~InItsEntry(s)
  PROVE  ~InItsEntry(s)'
<1>1. ASSUME NEW c \in Conns, InitSession(c) PROVE ~InItsEntry(s)'
  <2>1. /\ freepos[c] \in Entries /\ session_arr' = [session_arr EXCEPT ![freepos[c]] = c]
        /\ pos' = [pos EXCEPT ![c] = freepos[c]] /\ c # s
    BY <1>1, InitFacts DEF InitSession
  <2> QED
    BY <2>1 DEF InItsEntry, IInv, TypeOK
<1>2. CASE PurgeSession
  <2>1. PICK t \in Live : t \in Conns /\ Live' = Live \ {t} /\ pos' = [pos EXCEPT ![t] = 0]
    BY <1>2, PurgeFacts
  <2>2. session_arr' = [session_arr EXCEPT ![delpos] = Null] /\ s # t
    BY <1>2, <2>1 DEF PurgeSession, EmptyEntry
  <2> QED
    BY <2>1, <2>2, SessionsAssumption DEF InItsEntry, IInv, TypeOK
<1>3. CASE UNCHANGED <<pos, session_arr>>
  BY <1>3 DEF InItsEntry
<1>4. CASE DropClient \/ \E c \in Conns : JoinSession(c) \/ CreateSession(c)
  BY <1>3, <1>4, CreateFacts DEF DropClient, JoinSession
<1> QED
  BY <1>1, <1>2, <1>3, <1>4, Writers

(* A session is live once its creator has entered it, and until its free.  *)
LEMMA LiveSteps ==
  ASSUME IInv, [Next]_vars
  PROVE  \/ Live' \subseteq Live
         \/ \E c \in Conns : InitSession(c) /\ Live' = Live \cup {c}
<1>1. CASE UNCHANGED sstate
  BY <1>1 DEF Live
<1>2. CASE DropClient \/ \E c \in Conns : JoinSession(c)
  BY <1>1, <1>2 DEF DropClient, JoinSession
<1> QED
  BY <1>1, <1>2, CreateFacts, InitFacts, PurgeFacts, Writers

(* Whoever takes the entry a creator found free overlaps it.               *)
LEMMA EntryStaysFreeStep ==
  ASSUME IInv, RaceParts, [Next]_vars
  PROVE  EntryStaysFree'
<1>0. /\ session_arr \in [Entries -> Conns \cup {Null}]
      /\ freepos \in [Conns -> 0 .. FILEMAX]
  BY DEF IInv, TypeOK
<1>1. SUFFICES ASSUME NEW d \in Conns, d \in Creating', freepos'[d] \in Entries,
                      session_arr'[freepos'[d]] # Null
               PROVE  {d, session_arr'[freepos'[d]]} \in overlap'
  BY DEF EntryStaysFree, Creating
<1>2. CASE d \in Creating /\ freepos'[d] = freepos[d]
  <2> DEFINE i == freepos[d]
  <2>1. i \in Entries
    BY <1>1, <1>2
  <2>2. CASE session_arr'[i] = session_arr[i]
    BY <1>1, <1>2, <2>1, <2>2, OverlapGrows DEF RaceParts, EntryStaysFree
  <2>3. ASSUME NEW c \in Conns, InitSession(c) PROVE {d, session_arr'[i]} \in overlap'
    <3>1. session_arr' = [session_arr EXCEPT ![freepos[c]] = c]
      BY <2>3 DEF InitSession
    <3>2. c \in Creating /\ c \notin Creating' /\ c # d
      BY <1>1, <2>3, CreatorSteps DEF Handler
    <3>3. {d, c} \in overlap'
      BY <1>2, <3>2, OverlapGrows DEF RaceParts, CreatorsOverlap
    <3>4. session_arr'[i] \in {session_arr[i], c}
      BY <1>0, <2>1, <3>1
    <3> QED
      BY <1>2, <2>2, <3>3, <3>4
  <2>4. CASE PurgeSession
    <3>1. session_arr' = [session_arr EXCEPT ![delpos] = Null]
      BY <2>4 DEF PurgeSession, EmptyEntry
    <3>2. session_arr'[i] \in {session_arr[i], Null}
      BY <1>0, <2>1, <3>1
    <3> QED
      BY <1>1, <1>2, <2>2, <3>2
  <2>5. CASE DropClient \/ \E c \in Conns : JoinSession(c) \/ CreateSession(c)
    BY <2>2, <2>5 DEF DropClient, JoinSession, CreateSession
  <2> QED
    BY <1>2, <2>2, <2>3, <2>4, <2>5, Writers
<1>3. ASSUME ScanMisses(d) PROVE FALSE
  <2>1. /\ UNCHANGED session_arr
        /\ \E p \in 0 .. FILEMAX : MinFreePos(p) /\ freepos' = [freepos EXCEPT ![d] = p]
    BY <1>3 DEF ScanMisses, sessionVars
  <2>2. FILEMAX \notin Entries
    BY SessionsAssumption DEF Entries
  <2> QED
    BY <1>0, <1>1, <2>1, <2>2 DEF MinFreePos, IsFirst
<1>4. CASE Creating' = Creating /\ UNCHANGED freepos
  BY <1>1, <1>2, <1>4
<1>5. ASSUME NEW c \in Conns, Handler(c) PROVE {d, session_arr'[freepos'[d]]} \in overlap'
  BY <1>1, <1>2, <1>3, <1>5, CreatorSteps
<1> QED
  BY <1>4, <1>5, CreatorsAre

(* A session of the file a creator found unplayed overlaps it, or cannot   *)
(* be found.                                                               *)
LEMMA FileStaysUnplayedStep ==
  ASSUME IInv, RaceParts, [Next]_vars
  PROVE  FileStaysUnplayed'
<1>1. SUFFICES ASSUME NEW d \in Conns, d \in Creating', NEW s \in Conns, s \in Live',
                      file[s] = file[d]
               PROVE  {d, s} \in overlap' \/ ~InItsEntry(s)'
  BY OverlapGrows DEF FileStaysUnplayed, Creating, Live
<1>2. CASE d \in Creating /\ s \in Live
  BY <1>1, <1>2, OverlapGrows, StrayKept DEF RaceParts, FileStaysUnplayed
<1>3. ASSUME s \notin Live PROVE {d, s} \in overlap'
  <2>1. InitSession(s)
    BY <1>1, <1>3, LiveSteps
  <2>2. s \in Creating /\ s \notin Creating' /\ s # d /\ d \in Creating
    BY <1>1, <2>1, CreatorSteps DEF Handler
  <2> QED
    BY <2>2, OverlapGrows DEF RaceParts, CreatorsOverlap
<1>4. ASSUME ScanMisses(d), s \in Live PROVE ~InItsEntry(s)'
  <2>1. UNCHANGED <<session_arr, pos>> /\ \A i \in Entries : ~Plays(i, d)
    BY <1>4 DEF ScanMisses, sessionVars
  <2>2. ASSUME session_arr[pos[s]] = s PROVE FALSE
    <3>1. pos[s] \in Entries /\ s # Null
      BY SessionsAssumption DEF IInv, TypeOK
    <3>2. <<file[d], file[s]>> \notin Prefixes
      BY <2>1, <2>2, <3>1 DEF Plays
    <3> QED
      BY <1>1, <3>2, SessionsAssumption DEF IInv, TypeOK
  <2> QED
    BY <2>1, <2>2 DEF InItsEntry
<1>5. CASE Creating' = Creating
  BY <1>1, <1>2, <1>3, <1>5
<1>6. ASSUME NEW c \in Conns, Handler(c) PROVE {d, s} \in overlap' \/ ~InItsEntry(s)'
  BY <1>1, <1>2, <1>3, <1>4, <1>6, CreatorSteps
<1> QED
  BY <1>5, <1>6, CreatorsAre

(* A session stays live, at its pos, until it is freed.                    *)
LEMMA LiveKept ==
  ASSUME IInv, [Next]_vars, ~PurgeSession, NEW s \in Live
  PROVE  s \in Live' /\ pos'[s] = pos[s]
<1>1. ASSUME NEW c \in Conns, InitSession(c) PROVE s \in Live' /\ pos'[s] = pos[s]
  <2>1. c # s /\ pos' = [pos EXCEPT ![c] = freepos[c]] /\ s \in Live'
    BY <1>1, InitFacts DEF InitSession
  <2> QED
    BY <2>1 DEF IInv, TypeOK, Live
<1>2. CASE UNCHANGED <<sstate, pos>>
  BY <1>2 DEF Live
<1>3. CASE DropClient \/ \E c \in Conns : JoinSession(c) \/ CreateSession(c)
  BY <1>2, <1>3, CreateFacts DEF DropClient, JoinSession
<1> QED
  BY <1>1, <1>2, <1>3, Writers

(* A live session stays in the entry that is its pos, unless one that      *)
(* overlapped it takes the entry.                                          *)
LEMMA NoOrphanStep ==
  ASSUME IInv, RaceParts, [Next]_vars
  PROVE  NoOrphanSession'
<1>1. SUFFICES ASSUME NEW s \in Conns, s \in Live', ~Overlapped(s)'
               PROVE  InItsEntry(s)'
  BY DEF NoOrphanSession, Live
<1>2. ~Overlapped(s)
  BY <1>1, OverlapGrows
<1>3. ASSUME s \notin Live PROVE InItsEntry(s)'
  <2>1. InitSession(s)
    BY <1>1, <1>3, LiveSteps
  <2>2. /\ freepos[s] \in Entries /\ session_arr' = [session_arr EXCEPT ![freepos[s]] = s]
        /\ pos' = [pos EXCEPT ![s] = freepos[s]]
    BY <2>1 DEF InitSession
  <2> QED
    BY <2>2 DEF InItsEntry, IInv, TypeOK
<1>4. ASSUME s \in Live PROVE InItsEntry(s)'
  <2>1. InItsEntry(s) /\ pos[s] \in Entries /\ s # Null
    BY <1>2, <1>4, SessionsAssumption DEF RaceParts, NoOrphanSession, IInv, TypeOK
  <2>2. CASE PurgeSession
    <3>1. PICK t \in Live :
             /\ session_arr[delpos] = t /\ t \in Conns /\ Live' = Live \ {t}
             /\ pos' = [pos EXCEPT ![t] = 0]
      BY <2>2, PurgeFacts
    <3>2. session_arr' = [session_arr EXCEPT ![delpos] = Null] /\ s # t
      BY <1>1, <2>2, <3>1 DEF PurgeSession, EmptyEntry
    <3> QED
      BY <2>1, <3>1, <3>2 DEF InItsEntry, IInv, TypeOK
  <2>3. CASE ~PurgeSession
    <3>1. pos'[s] = pos[s]
      BY <1>4, <2>3, LiveKept
    <3>2. session_arr[pos[s]] = s
      BY <2>1 DEF InItsEntry
    <3>3. session_arr'[pos[s]] = s
      <4>1. ASSUME session_arr'[pos[s]] # s PROVE FALSE
        <5>1. /\ session_arr'[pos[s]] \in Conns
              /\ {session_arr'[pos[s]], s} \in overlap
          BY <2>1, <2>3, <3>2, <4>1, EntriesKept
        <5> QED
          BY <1>2, <4>1, <5>1, OverlapBothWays
      <4> QED
        BY <4>1
    <3> QED
      BY <3>1, <3>3 DEF InItsEntry
  <2> QED
    BY <2>2, <2>3
<1> QED
  BY <1>3, <1>4

(* A media that was destroyed, or never played, stays so.                  *)
LEMMA MediaKept ==
  ASSUME IInv, [Next]_vars, NEW s \in Conns, sstate[s] # "none", media[s] \in {"null", "destroyed"}
  PROVE  media'[s] \in {"null", "destroyed"}
<1>1. media \in [Conns -> {"none", "null", "reading", "frame", "exited", "destroyed"}]
  BY DEF IInv, TypeOK
<1>2. ASSUME NEW c \in Conns, CreateSession(c) PROVE media'[s] = media[s]
  <2>1. c # s
    BY <1>2, CreateFacts
  <2> QED
    BY <1>1, <1>2, <2>1 DEF CreateSession
<1>3. ASSUME NEW c \in Conns, MediaReads(c) \/ MediaCallBack(c) PROVE media'[s] = media[s]
  BY <1>1, <1>3 DEF MediaReads, MediaCallBack
<1>4. CASE JoinMedia
  BY <1>1, <1>4 DEF JoinMedia
<1> QED
  BY <1>2, <1>3, <1>4, Writers

(* The session being deleted stays live, and whatever its entry holds when *)
(* its media has been joined is that session or one that overlapped.       *)
LEMMA SessionBeingDeletedStep ==
  ASSUME IInv, RaceParts, [Next]_vars
  PROVE  SessionBeingDeleted'
<1>1. /\ delpos \in Entries /\ SessionBeingDeleted
      /\ session_arr \in [Entries -> Conns \cup {Null}] /\ Live \subseteq Conns
  BY DEF IInv, TypeOK, RaceParts, Live
<1>2. CASE PurgeSession
  BY <1>2 DEF PurgeSession, SessionBeingDeleted
<1>3. CASE DropClient
  <2>1. PICK s \in Live : delpos' = pos[s] /\ victim' = s
    BY <1>3 DEF DropClient
  <2>2. epc' = "uncount" /\ UNCHANGED <<pos, sstate>>
    BY <1>3 DEF DropClient
  <2>3. Live' = Live
    BY <2>2 DEF Live
  <2> QED
    BY <2>1, <2>2, <2>3 DEF SessionBeingDeleted
<1>4. CASE UncountClient
  <2>1. /\ epc = "uncount" /\ UNCHANGED <<pos, sstate>>
        /\ epc' = "serve" \/ (epc' = "delete" /\ UNCHANGED <<delpos, victim>>)
    BY <1>4 DEF UncountClient, sessionVars
  <2>2. Live' = Live
    BY <2>1 DEF Live
  <2> QED
    BY <1>1, <2>1, <2>2 DEF SessionBeingDeleted
<1>5. CASE DestroyMedia
  <2>1. /\ epc = "delete" /\ UNCHANGED <<delpos, victim, session_arr, media, pos, sstate, overlap>>
        /\ \/ UNCHANGED epc
           \/ epc' = "purge" /\ session_arr[delpos] # Null /\ media[session_arr[delpos]] = "null"
           \/ epc' = "join" /\ session_arr[delpos] # Null /\ delmed' = session_arr[delpos]
    BY <1>5 DEF DestroyMedia, sessionVars
  <2>2. Live' = Live /\ \A s \in Conns : Overlapped(s)' <=> Overlapped(s)
    BY <2>1 DEF Live, Overlapped
  <2>3. victim \in Live /\ pos[victim] = delpos
    BY <1>1, <2>1 DEF SessionBeingDeleted
  <2>4. session_arr[delpos] = victim \/ Overlapped(victim)
    BY <2>3 DEF RaceParts, NoOrphanSession, InItsEntry
  <2> QED
    BY <1>1, <2>1, <2>2, <2>3, <2>4 DEF SessionBeingDeleted
<1>6. CASE JoinMedia
  <2>1. /\ epc = "join" /\ epc' = "purge"
        /\ UNCHANGED <<delpos, victim, session_arr, pos, sstate, overlap>>
        /\ media' = [media EXCEPT ![delmed] = "destroyed"]
    BY <1>6 DEF JoinMedia, sessionVars
  <2>2. Live' = Live /\ \A s \in Conns : Overlapped(s)' <=> Overlapped(s)
    BY <2>1 DEF Live, Overlapped
  <2>3. \A s \in Conns : delmed = s => media'[s] = "destroyed"
    BY <2>1 DEF IInv, TypeOK
  <2> QED
    BY <1>1, <2>1, <2>2, <2>3 DEF SessionBeingDeleted
<1>7. CASE PollWait \/ EndRound \/ SendPacket \/ SettleCount \/ \E c \in Conns : PopPacket(c)
  BY <1>7 DEF PollWait, EndRound, SendPacket, SettleCount, PopPacket, SessionBeingDeleted
<1>8. CASE UNCHANGED <<epc, delpos, delmed, victim>> /\ ~PurgeSession
  <2>1. epc \in {"uncount", "delete", "join", "purge"} => victim \in Live' /\ pos'[victim] = delpos
    BY <1>1, <1>8, LiveKept DEF SessionBeingDeleted
  <2>2. ASSUME epc \in {"join", "purge"}
        PROVE  /\ session_arr'[delpos] # Null
               /\ \/ session_arr'[delpos] = session_arr[delpos]
                  \/ \A s \in Conns : session_arr'[delpos] = s => Overlapped(s)'
    <3>1. session_arr[delpos] \in Conns /\ Null \notin Conns
      BY <1>1, <2>2, SessionsAssumption DEF SessionBeingDeleted
    <3>2. CASE session_arr'[delpos] = session_arr[delpos]
      BY <3>1, <3>2
    <3>3. CASE /\ session_arr'[delpos] \in Conns /\ session_arr'[delpos] # session_arr[delpos]
               /\ {session_arr'[delpos], session_arr[delpos]} \in overlap
      <4>1. ASSUME NEW s \in Conns, session_arr'[delpos] = s PROVE Overlapped(s)'
        BY <3>1, <3>3, <4>1, OverlapBothWays, OverlapGrows
      <4> QED
        BY <3>1, <3>3, <4>1
    <3> QED
      BY <1>1, <1>8, <3>1, <3>2, <3>3, EntriesKept
  <2>3. ASSUME NEW s \in Conns, epc = "join", victim = s PROVE delmed = s \/ Overlapped(s)'
    BY <1>1, <2>3, OverlapGrows DEF SessionBeingDeleted
  <2>4. ASSUME NEW s \in Conns, epc = "join", session_arr'[delpos] = s
        PROVE  delmed = s \/ Overlapped(s)'
    BY <1>1, <2>2, <2>4, OverlapGrows DEF SessionBeingDeleted
  <2>5. ASSUME NEW s \in Conns, epc = "purge", session_arr'[delpos] = s
        PROVE  media'[s] \in {"null", "destroyed"} \/ Overlapped(s)'
    <3>1. CASE session_arr[delpos] = s
      <4>1. sstate[s] # "none"
        BY <1>1, <3>1, SessionsAssumption DEF IInv, RegistrySound, Live
      <4> QED
        BY <1>1, <2>5, <3>1, <4>1, MediaKept, OverlapGrows DEF SessionBeingDeleted
    <3> QED
      BY <2>2, <2>5, <3>1
  <2> QED
    BY <1>8, <2>1, <2>2, <2>3, <2>4, <2>5 DEF SessionBeingDeleted
<1> QED
  BY <1>2, <1>3, <1>4, <1>5, <1>6, <1>7, <1>8, Writers

(* A freed session's media thread is joined.                               *)
LEMMA MediaStopsStep ==
  ASSUME IInv, RaceParts, [Next]_vars
  PROVE  MediaStopsBeforeFree'
<1>1. MediaStopsBeforeFree
  BY DEF RaceParts
<1>2. CASE PurgeSession
  <2>1. PICK s \in Live : /\ session_arr[delpos] = s /\ s \in Conns
                          /\ sstate' = [sstate EXCEPT ![s] = "freed"]
    BY <1>2, PurgeFacts
  <2>2. UNCHANGED <<media, overlap>> /\ (media[s] \in {"null", "destroyed"} \/ Overlapped(s))
    BY <1>2, <2>1 DEF PurgeSession, mediaVars, RaceParts, SessionBeingDeleted
  <2> QED
    BY <1>1, <1>2, <2>1, <2>2, OverlapGrows DEF PurgeSession, mediaVars, MediaStopsBeforeFree, IInv, TypeOK
<1>3. CASE ~PurgeSession
  <2>1. \A s \in Conns : sstate'[s] = "freed" => sstate[s] = "freed"
    <3>1. CASE UNCHANGED sstate
      BY <3>1
    <3>2. ASSUME NEW c \in Conns, CreateSession(c) \/ InitSession(c)
          PROVE  \A s \in Conns : sstate'[s] = "freed" => sstate[s] = "freed"
      BY <3>2 DEF CreateSession, InitSession, IInv, TypeOK
    <3>3. CASE DropClient \/ \E c \in Conns : JoinSession(c)
      BY <3>3 DEF DropClient, JoinSession
    <3> QED
      BY <1>3, <3>1, <3>2, <3>3, Writers
  <2> QED
    BY <1>1, <2>1, MediaKept, OverlapGrows DEF MediaStopsBeforeFree
<1> QED
  BY <1>2, <1>3

(* Two sessions of one file, and how their creators came to miss each      *)
(* other.                                                                  *)
Missed(s, t) ==
  \/ {s, t} \in overlap
  \/ \E u \in {s, t} : u \in Live /\ ~InItsEntry(u) /\ Overlapped(u)

(* Those that missed each other do not meet later.                         *)
LEMMA MissedKept ==
  ASSUME IInv, [Next]_vars, NEW s \in Conns, NEW t \in Conns, Missed(s, t),
         sstate'[s] \in {"raw", "live"}, sstate'[t] \in {"raw", "live"}
  PROVE  Missed(s, t)'
<1>1. CASE {s, t} \in overlap
  BY <1>1, OverlapGrows DEF Missed
<1>2. ASSUME NEW u \in {s, t}, u \in Live, ~InItsEntry(u), Overlapped(u) PROVE Missed(s, t)'
  <2>1. u \in Live'
    <3>1. CASE PurgeSession
      <4>1. PICK v \in Live : v \in Conns /\ sstate' = [sstate EXCEPT ![v] = "freed"]
        BY <3>1, PurgeFacts
      <4> QED
        BY <1>2, <4>1 DEF IInv, TypeOK, Live
    <3> QED
      BY <1>2, <3>1, LiveKept
  <2>2. ~InItsEntry(u)' /\ Overlapped(u)'
    BY <1>2, <2>1, StrayKept, OverlapGrows
  <2> QED
    BY <2>1, <2>2 DEF Missed
<1> QED
  BY <1>1, <1>2 DEF Missed

(* A second session of a file appears only beside one that its creator     *)
(* overlapped or could not find.                                           *)
LEMMA ViewersShareStep ==
  ASSUME IInv, RaceParts, [Next]_vars
  PROVE  ViewersShareSession'
<1>0. sstate \in [Conns -> {"none", "raw", "live", "freed"}]
  BY DEF IInv, TypeOK
<1>1. SUFFICES ASSUME NEW s \in Conns, NEW t \in Conns, s # t, file[s] = file[t],
                      sstate'[s] \in {"raw", "live"}, sstate'[t] \in {"raw", "live"}
               PROVE  Missed(s, t)'
  BY OverlapGrows DEF ViewersShareSession, Missed
<1>2. CASE sstate[s] \in {"raw", "live"} /\ sstate[t] \in {"raw", "live"}
  <2>1. Missed(s, t)
    BY <1>1, <1>2 DEF RaceParts, ViewersShareSession, Missed
  <2> QED
    BY <1>1, <2>1, MissedKept
<1>3. ASSUME NEW c \in Conns, CreateSession(c), NEW d \in Conns, c # d, file[d] = file[c],
             sstate[d] \in {"raw", "live"}
      PROVE  {c, d} \in overlap \/ (d \in Live /\ ~InItsEntry(d) /\ Overlapped(d))
  <2>1. c \in Creating
    BY <1>3, CreatorSteps DEF Handler
  <2>2. CASE sstate[d] = "raw"
    <3>1. d \in Creating
      BY <2>2 DEF IInv, Creators, Creating
    <3> QED
      BY <1>3, <2>1, <3>1 DEF RaceParts, CreatorsOverlap
  <2>3. CASE sstate[d] = "live"
    <3>1. d \in Live
      BY <2>3 DEF Live
    <3> QED
      BY <1>3, <2>1, <3>1 DEF RaceParts, FileStaysUnplayed, NoOrphanSession
  <2> QED
    BY <1>3, <2>2, <2>3
<1>4. ASSUME NEW c \in Conns, CreateSession(c) PROVE Missed(s, t)'
  <2>1. sstate[c] = "none" /\ sstate' = [sstate EXCEPT ![c] = "raw"]
        /\ UNCHANGED <<pos, session_arr, overlap>> /\ Live' = Live
    BY <1>4, CreateFacts DEF CreateSession
  <2>2. Missed(s, t) => Missed(s, t)'
    BY <1>1, MissedKept
  <2>3. CASE c = s
    <3>1. sstate[t] \in {"raw", "live"}
      BY <1>0, <1>1, <2>1, <2>3
    <3> QED
      BY <1>1, <1>3, <1>4, <2>2, <2>3, <3>1 DEF Missed
  <2>4. CASE c = t
    <3>1. sstate[s] \in {"raw", "live"}
      BY <1>0, <1>1, <2>1, <2>4
    <3>2. {t, s} \in overlap \/ (s \in Live /\ ~InItsEntry(s) /\ Overlapped(s))
      BY <1>1, <1>3, <1>4, <2>4, <3>1
    <3>3. {t, s} = {s, t}
      OBVIOUS
    <3> QED
      BY <2>2, <3>2, <3>3 DEF Missed
  <2>5. CASE c # s /\ c # t
    BY <1>0, <1>1, <1>2, <2>1, <2>5
  <2> QED
    BY <2>3, <2>4, <2>5
<1>5. ASSUME NEW c \in Conns, InitSession(c) PROVE Missed(s, t)'
  <2>1. sstate[c] = "raw" /\ sstate' = [sstate EXCEPT ![c] = "live"]
    BY <1>5 DEF InitSession, IInv, Creators
  <2> QED
    BY <1>0, <1>1, <1>2, <2>1
<1>6. CASE PurgeSession
  <2>1. PICK v \in Live : v \in Conns /\ sstate' = [sstate EXCEPT ![v] = "freed"]
    BY <1>6, PurgeFacts
  <2> QED
    BY <1>0, <1>1, <1>2, <2>1
<1>7. CASE DropClient \/ (\E c \in Conns : JoinSession(c)) \/ UNCHANGED sstate
  BY <1>1, <1>2, <1>7 DEF DropClient, JoinSession
<1> QED
  BY <1>4, <1>5, <1>6, <1>7, Writers

(* Every step keeps them all.                                              *)
LEMMA RaceStep == ASSUME IInv, [Next]_vars PROVE RaceParts'
<1>1. RaceParts
  BY DEF IInv, RaceParts
<1> QED
  BY <1>1, CreatorsOverlapStep, EntryStaysFreeStep, FileStaysUnplayedStep, NoOrphanStep,
     SessionBeingDeletedStep, MediaStopsStep, ViewersShareStep DEF RaceParts

-----------------------------------------------------------------------------
(* Types.                                                                  *)
LEMMA TypeHandler ==
  ASSUME IInv, NEW c \in Conns, Handler(c)
  PROVE  TypeOK'
<1> USE SessionsAssumption DEF handlerVars, sessionVars, mediaVars, epollVars, clientVars
<1>0. TypeOK
  BY DEF IInv
<1>1. CASE JoinSession(c)
  <2>1. count' \in [Conns -> 0 .. CLIENTMAX]
    BY <1>1, JoinClientsOK
  <2>2. slot' \in [Conns -> [Index -> Conns \cup {Null}]]
    <3>1. PICK s \in Live, k \in Index : slot' = [slot EXCEPT ![s][k] = c]
      BY <1>1, JoinFacts
    <3>2. slot \in [Conns -> [Index -> Conns \cup {Null}]] /\ s \in Conns
      BY <1>0 DEF TypeOK, Live
    <3> QED
      BY <3>1, <3>2
  <2>3. fault' \in Faults \cup {"none"}
    BY <1>1 DEF JoinSession, Faults
  <2>4. hpc' \in [Conns -> {"play", "create", "init", "admitted", "done", "refused"}]
    BY <1>0, <1>1 DEF JoinSession, TypeOK
  <2> QED
    BY <1>0, <1>1, <2>1, <2>2, <2>3, <2>4 DEF JoinSession, EventAdd, TypeOK
<1>2. CASE RefuseClient(c)
  BY <1>0, <1>2 DEF RefuseClient, TypeOK
<1>3. CASE ScanMisses(c)
  <2>1. overlap' \subseteq SUBSET Conns
    <3>1. overlap' = overlap \cup {{c, d} : d \in Creating} /\ Creating \subseteq Conns
      BY <1>3 DEF ScanMisses, Creating
    <3> QED
      BY <1>0, <3>1 DEF TypeOK
  <2>2. /\ hpc' \in [Conns -> {"play", "create", "init", "admitted", "done", "refused"}]
        /\ freepos' \in [Conns -> 0 .. FILEMAX]
    BY <1>0, <1>3 DEF ScanMisses, TypeOK
  <2> QED
    BY <1>0, <1>3, <2>1, <2>2 DEF ScanMisses, TypeOK
<1>4. CASE CreateSession(c)
  <2>1. media' \in [Conns -> {"none", "null", "reading", "frame", "exited", "destroyed"}]
        /\ run_flag' \in [Conns -> BOOLEAN]
    <3>1. PICK opened \in BOOLEAN :
             /\ media' = [media EXCEPT ![c] = IF opened THEN "reading" ELSE "null"]
             /\ run_flag' = [run_flag EXCEPT ![c] = opened]
      BY <1>4 DEF CreateSession
    <3>2. (IF opened THEN "reading" ELSE "null") \in {"reading", "null"}
      OBVIOUS
    <3> QED
      BY <1>0, <3>1, <3>2 DEF TypeOK
  <2>2. /\ hpc' \in [Conns -> {"play", "create", "init", "admitted", "done", "refused"}]
        /\ sstate' \in [Conns -> {"none", "raw", "live", "freed"}] /\ mut_session' = c
    <3>1. /\ hpc' = [hpc EXCEPT ![c] = "init"] /\ sstate' = [sstate EXCEPT ![c] = "raw"]
          /\ mut_session' = c
      BY <1>4 DEF CreateSession
    <3> QED
      BY <1>0, <3>1 DEF TypeOK
  <2> QED
    BY <1>0, <1>4, <2>1, <2>2 DEF CreateSession, TypeOK
<1>5. CASE InitSession(c)
  <2>1. /\ slot' \in [Conns -> [Index -> Conns \cup {Null}]] /\ count' \in [Conns -> 0 .. CLIENTMAX]
        /\ pos' \in [Conns -> Entries] /\ session_arr' \in [Entries -> Conns \cup {Null}]
    BY <1>0, <1>5 DEF InitSession, TypeOK, Entries, Index
  <2>2. /\ hpc' \in [Conns -> {"play", "create", "init", "admitted", "done", "refused"}]
        /\ sstate' \in [Conns -> {"none", "raw", "live", "freed"}]
        /\ freepos' \in [Conns -> 0 .. FILEMAX] /\ epoll' \subseteq Conns /\ mut_session' = Null
    BY <1>0, <1>5 DEF InitSession, TypeOK, EventAdd, UnlockSession
  <2> QED
    BY <1>0, <1>5, <2>1, <2>2 DEF InitSession, TypeOK
<1>6. CASE InitOutOfBounds(c)
  BY <1>0, <1>6 DEF InitOutOfBounds, TypeOK, Faults
<1>7. CASE CountClient(c)
  BY <1>0, <1>7 DEF CountClient, TypeOK
<1> QED
  BY <1>1, <1>2, <1>3, <1>4, <1>5, <1>6, <1>7 DEF Handler

(* Types across a step of a media thread.                                  *)
LEMMA TypeMedia ==
  ASSUME IInv, NEW s \in Conns, Media(s)
  PROVE  TypeOK'
<1> USE SessionsAssumption DEF handlerVars, sessionVars, mediaVars, epollVars, clientVars
<1>0. TypeOK
  BY DEF IInv
<1>1. CASE MediaReads(s)
  BY <1>0, <1>1 DEF MediaReads, TypeOK
<1>2. CASE MediaCallBack(s)
  <2>1. Served(s) \subseteq Conns
    BY <1>0 DEF Served, TypeOK
  <2>2. queued' \subseteq Conns /\ fault' \in Faults \cup {"none"}
    <3>1. /\ queued' \in {queued, queued \cup Served(s)}
          /\ fault' \in {fault, "none", "raw_session", "freed_session"}
      BY <1>2, Zenon DEF MediaCallBack
    <3> QED
      BY <1>0, <2>1, <3>1 DEF TypeOK, Faults
  <2>3. media' = [media EXCEPT ![s] = "reading"]
    BY <1>2 DEF MediaCallBack
  <2> QED
    BY <1>0, <1>2, <2>2, <2>3 DEF MediaCallBack, TypeOK
<1> QED
  BY <1>1, <1>2 DEF Media

(* Types across a step of the epoll thread.                                *)
LEMMA TypeEpoll ==
  ASSUME IInv, EpollLoop
  PROVE  TypeOK'
<1> USE SessionsAssumption DEF handlerVars, sessionVars, mediaVars, epollVars, clientVars
<1>0. TypeOK
  BY DEF IInv
<1>1. CASE PollWait
  BY <1>0, <1>1 DEF PollWait, TypeOK
<1>2. CASE EndRound
  BY <1>0, <1>2 DEF EndRound, TypeOK
<1>3. ASSUME NEW c \in Conns, ServeStale(c) PROVE TypeOK'
  BY <1>0, <1>3 DEF ServeStale, TypeOK, Faults
<1>4. ASSUME NEW c \in Conns, ServeNothing(c) PROVE TypeOK'
  BY <1>0, <1>4 DEF ServeNothing, TypeOK
<1>5. ASSUME NEW c \in Conns, PopPacket(c) PROVE TypeOK'
  BY <1>0, <1>5 DEF PopPacket, TypeOK
<1>6. CASE SendPacket
  <2>1. fault' \in Faults \cup {"none"}
    BY <1>6 DEF SendPacket, Faults
  <2>2. epc' \in {"drop", "serve"} /\ cur' \in {cur, Null} /\ epoll' \subseteq epoll
    BY <1>6 DEF SendPacket, EventDel
  <2> QED
    BY <1>0, <1>6, <2>1, <2>2 DEF SendPacket, TypeOK
<1>7. CASE DropClient
  <2>1. count' \in [Conns -> 0 .. CLIENTMAX] /\ left' \in 0 .. CLIENTMAX
    BY <1>7, DropClientsOK
  <2>2. slot' \in [Conns -> [Index -> Conns \cup {Null}]] /\ delpos' \in Entries
    BY <1>0, <1>7 DEF DropClient, TypeOK
  <2>3. open' \subseteq Conns /\ queued' \subseteq Conns
    BY <1>0, <1>7 DEF DropClient, ClearClients, TypeOK
  <2> QED
    BY <1>0, <1>7, <2>1, <2>2, <2>3 DEF DropClient, TypeOK
<1>8. CASE UncountClient
  BY <1>0, <1>8 DEF UncountClient, TypeOK, Entries
<1>9. CASE DestroyMedia
  <2>1. session_arr[delpos] \in Conns \cup {Null}
    BY <1>0 DEF TypeOK
  <2>2. \/ fault' = "null_session" /\ UNCHANGED <<run_flag, delmed, epc>>
        \/ epc' = "purge" /\ UNCHANGED <<run_flag, delmed, fault>>
        \/ /\ session_arr[delpos] # Null
           /\ run_flag' = [run_flag EXCEPT ![session_arr[delpos]] = FALSE]
           /\ delmed' = session_arr[delpos] /\ epc' = "join" /\ fault' = fault
    BY <1>9, Zenon DEF DestroyMedia
  <2>3. run_flag' \in [Conns -> BOOLEAN]
    BY <1>0, <2>1, <2>2 DEF TypeOK
  <2> QED
    BY <1>0, <1>9, <2>1, <2>2, <2>3 DEF DestroyMedia, TypeOK, Faults
<1>10. CASE JoinMedia
  BY <1>0, <1>10 DEF JoinMedia, TypeOK
<1>11. CASE PurgeSession
  <2>1. count' \in [Conns -> 0 .. CLIENTMAX] /\ client_num' \in 0 .. CLIENTMAX
    BY <1>11, PurgeClientsOK
  <2>2. PICK s \in Live :
           /\ s \in Conns /\ epoll' = epoll \ Clients(s) /\ open' = open \ Clients(s)
           /\ slot' = [slot EXCEPT ![s] = [i \in Index |-> Null]]
           /\ sstate' = [sstate EXCEPT ![s] = "freed"] /\ pos' = [pos EXCEPT ![s] = 0]
    BY <1>11, PurgeFacts
  <2>3. queued' \subseteq queued
    BY <1>11 DEF PurgeSession, ClearClients
  <2>4. /\ slot' \in [Conns -> [Index -> Conns \cup {Null}]]
        /\ sstate' \in [Conns -> {"none", "raw", "live", "freed"}]
        /\ pos' \in [Conns -> Entries]
    BY <1>0, <2>2 DEF TypeOK, Entries
  <2>5. session_arr' \in [Entries -> Conns \cup {Null}] /\ delpos' \in Entries
    BY <1>0, <1>11 DEF PurgeSession, EmptyEntry, TypeOK, Entries
  <2> QED
    BY <1>0, <1>11, <2>1, <2>2, <2>3, <2>4, <2>5 DEF PurgeSession, TypeOK
<1>12. CASE SettleCount
  BY <1>0, <1>12 DEF SettleCount, TypeOK
<1> QED
  BY <1>1, <1>2, <1>3, <1>4, <1>5, <1>6, <1>7, <1>8, <1>9, <1>10, <1>11, <1>12 DEF EpollLoop

(* Types across every step.                                                *)
LEMMA TypeStep == ASSUME IInv, [Next]_vars PROVE TypeOK'
<1>1. ASSUME NEW c \in Conns, PeerLeaves(c) PROVE TypeOK'
  BY <1>1 DEF PeerLeaves, IInv, TypeOK, handlerVars, sessionVars, mediaVars, epollVars, clientVars
<1>2. CASE UNCHANGED vars
  BY <1>2 DEF vars, IInv, TypeOK, handlerVars, sessionVars, mediaVars, epollVars, clientVars
<1> QED
  BY <1>1, <1>2, TypeHandler, TypeMedia, TypeEpoll DEF Next, Died

-----------------------------------------------------------------------------
(* The inductive invariant holds initially ...                             *)
LEMMA InitIInv == Init => IInv
<1> SUFFICES ASSUME Init PROVE IInv
  OBVIOUS
<1> USE SessionsAssumption
<1>1. TypeOK
  BY DEF Init, TypeOK, Entries, Index
<1>2. Live = {} /\ Placed = {} /\ \A s \in Conns : Occupied(s) = {}
  BY DEF Init, Live, Placed, In, Occupied
<1>3. Creators
  BY DEF Init, Creators
<1>4. SlotsOK /\ CountIsOccupancy
  BY <1>2 DEF Init, SlotsOK, SocketsOwned, ClientsAdmitted, SlotsDistinct, OnlyLiveOccupied,
     CountIsOccupancy
<1>5. RegistrySound /\ Serving /\ EpollWatchesClients
  BY <1>2 DEF Init, RegistrySound, Serving, EpollWatchesClients
<1>6. SumClientExact
  <2>1. Counted = {} /\ Cleared = {} /\ Uncounting = 0
    BY DEF Init, Counted, Cleared, Uncounting
  <2>2. sum_client = 0 /\ client_num = 0
    BY DEF Init
  <2> QED
    BY <2>1, <2>2, FS_EmptySet, SumIs
<1>7. Creating = {}
  BY DEF Init, Creating
<1>8. /\ CreatorsOverlap /\ EntryStaysFree /\ FileStaysUnplayed /\ NoOrphanSession
      /\ SessionBeingDeleted /\ MediaStopsBeforeFree /\ ViewersShareSession
  BY <1>2, <1>7 DEF Init, CreatorsOverlap, EntryStaysFree, FileStaysUnplayed, NoOrphanSession,
     SessionBeingDeleted, MediaStopsBeforeFree, ViewersShareSession
<1> QED
  BY <1>1, <1>3, <1>4, <1>5, <1>6, <1>8 DEF IInv

(* ... and every step keeps it.                                            *)
LEMMA NextIInv == IInv /\ [Next]_vars => IInv'
<1> SUFFICES ASSUME IInv, [Next]_vars PROVE IInv'
  OBVIOUS
<1> QED
  BY TypeStep, CreatorsStep, ClientsStep, RegistryStep, SumStep, RaceStep DEF IInv, ClientsOK, RaceParts

(* The inductive invariant holds in every interleaving.                    *)
THEOREM SessionsInvariant == Spec => []IInv
  BY InitIInv, NextIInv, PTL DEF Spec

(* Every variable keeps its type; session->count in particular never       *)
(* leaves 0 .. CLIENTMAX.                                                  *)
THEOREM SessionsTypeOK == Spec => []TypeOK
<1>1. IInv => TypeOK
  BY DEF IInv
<1> QED
  BY <1>1, SessionsInvariant, PTL

(* count is the number of occupied slots whatever joins, drops and         *)
(* deletions overlap.                                                      *)
THEOREM CountExact == Spec => []CountIsOccupancy
<1>1. IInv => CountIsOccupancy
  BY DEF IInv
<1> QED
  BY <1>1, SessionsInvariant, PTL

(* Each open socket has exactly one owner, each closed one none.           *)
THEOREM SocketOwners == Spec => []OneOwnerPerSocket
<1>1. IInv => OneOwnerPerSocket
  BY DEF IInv, SlotsOK, SocketsOwned, ClientsAdmitted, SlotsDistinct, OnlyLiveOccupied,
     OneOwnerPerSocket
<1> QED
  BY <1>1, SessionsInvariant, PTL

(* epoll watches the placed clients and nothing else.                      *)
THEOREM EpollExact == Spec => []EpollWatchesClients
<1>1. IInv => EpollWatchesClients
  BY DEF IInv
<1> QED
  BY <1>1, SessionsInvariant, PTL

(* sum_client is exact up to the updates on their way.                     *)
THEOREM SumExact == Spec => []SumClientExact
<1>1. IInv => SumClientExact
  BY DEF IInv
<1> QED
  BY <1>1, SessionsInvariant, PTL

(* The registry names live sessions that know their place.                 *)
THEOREM RegistryNamesLive == Spec => []RegistrySound
<1>1. IInv => RegistrySound
  BY DEF IInv
<1> QED
  BY <1>1, SessionsInvariant, PTL

(* Under every schedule of handlers: the media thread of a session is      *)
(* joined before the session is freed, unless its creation overlapped.     *)
THEOREM MediaJoined == Spec => []MediaStopsBeforeFree
<1>1. IInv => MediaStopsBeforeFree
  BY DEF IInv
<1> QED
  BY <1>1, SessionsInvariant, PTL

(* Under every schedule of handlers: a session leaves session_arr with its *)
(* deletion, or loses its entry to a creation that overlapped its own.     *)
THEOREM NoneLost == Spec => []NoOrphanSession
<1>1. IInv => NoOrphanSession
  BY DEF IInv
<1> QED
  BY <1>1, SessionsInvariant, PTL

(* Under every schedule of handlers: the session that ran empty is the one *)
(* delSession finds at the entry, and whose media it joins, unless the     *)
(* creation of that session overlapped another.                            *)
THEOREM DeletionFindsSession == Spec => []DeletedSessionRanEmpty
<1>1. ASSUME IInv, epc \in {"delete", "join", "purge"}
      PROVE  /\ victim \in Live /\ pos[victim] = delpos
             /\ session_arr[delpos] = victim \/ Overlapped(victim)
             /\ epc = "join" => delmed = victim \/ Overlapped(victim)
  <2>1. victim \in Live /\ victim \in Conns /\ pos[victim] = delpos
    BY <1>1 DEF IInv, SessionBeingDeleted, Live
  <2>2. session_arr[delpos] = victim \/ Overlapped(victim)
    BY <1>1, <2>1 DEF IInv, NoOrphanSession, InItsEntry
  <2>3. epc = "join" => delmed = victim \/ Overlapped(victim)
    BY <1>1, <2>1 DEF IInv, SessionBeingDeleted
  <2> QED
    BY <2>1, <2>2, <2>3
<1>2. IInv => DeletedSessionRanEmpty
  BY <1>1 DEF DeletedSessionRanEmpty
<1> QED
  BY <1>2, SessionsInvariant, PTL

(* Under every schedule of handlers: a file has two sessions only where    *)
(* two creations overlapped.                                               *)
THEOREM ViewersShare == Spec => []ViewersShareSession
<1>1. IInv => ViewersShareSession
  BY DEF IInv
<1> QED
  BY <1>1, SessionsInvariant, PTL

-----------------------------------------------------------------------------
(* The refinement of ClientLife.                                           *)
Emptied == epc \in {"delete", "join", "purge"} \/ (epc = "uncount" /\ left = 0)

(* A viewer plays while it is placed, and a full session is CLIENTMAX of   *)
(* them.                                                                   *)
LEMMA PlayingIsPlaced ==
  ASSUME IInv
  PROVE  Life!Playing = Placed
BY DEF Life!Playing, life, IInv, SlotsOK, SocketsOwned, ClientsAdmitted, TypeOK, Placed

(* ClientLife starts where the server starts.                              *)
LEMMA InitLife == Init => Life!Init
BY DEF Init, Life!Init, life

(* What each viewer sees, connection by connection.                        *)
LEMMA LifeIs ==
  /\ life = [c \in Conns |-> life[c]]
  /\ \A c \in Conns :
       life[c] = IF hpc[c] \in {"play", "create", "init"} THEN "asking"
                 ELSE IF hpc[c] = "refused" THEN "refused"
                 ELSE IF c \in open THEN "playing" ELSE "over"
BY DEF life

(* How life changes when the handler of one connection moves on.           *)
LEMMA LifeOfOne ==
  ASSUME TypeOK, NEW c \in Conns,
         NEW h \in {"play", "create", "init", "admitted", "done", "refused"},
         hpc' = [hpc EXCEPT ![c] = h], \A d \in Conns \ {c} : d \in open' <=> d \in open
  PROVE  life' = [life EXCEPT ![c] =
                    IF h \in {"play", "create", "init"} THEN "asking"
                    ELSE IF h = "refused" THEN "refused"
                    ELSE IF c \in open' THEN "playing" ELSE "over"]
BY DEF life, TypeOK

(* Viewers see no change while no handler moves and no socket closes.      *)
LEMMA LifeSame ==
  ASSUME UNCHANGED <<hpc, open>>
  PROVE  UNCHANGED life
BY DEF life

(* addClient, to a session found or created, admits the viewer.            *)
LEMMA AdmitStep ==
  ASSUME IInv, NEW c \in Conns, JoinSession(c) \/ InitSession(c)
  PROVE  Life!Admit(c)
<1>1. /\ hpc[c] \in {"play", "init"} /\ hpc' = [hpc EXCEPT ![c] = "admitted"]
      /\ UNCHANGED <<open, gone, epc, left>>
  BY DEF JoinSession, InitSession, MayScan, epollVars
<1>2. c \in open
  BY <1>1 DEF IInv, SlotsOK, SocketsOwned
<1>3. life' = [life EXCEPT ![c] = "playing"]
  BY <1>1, <1>2, LifeOfOne DEF IInv
<1>4. life[c] = "asking"
  BY <1>1 DEF life
<1> QED
  BY <1>1, <1>3, <1>4 DEF Life!Admit

(* A set of natural numbers has a least element.                           *)
LEMMA LeastOf ==
  ASSUME NEW T, T \subseteq Nat, T # {}
  PROVE  \E n \in T : \A m \in T : n <= m
<1> DEFINE R == {ss \in Nat \X Nat : ss[1] < ss[2]}
<1>1. IsWellFoundedOn(R, Nat)
  BY NatLessThanWellFounded, Zenon DEF OpToRel
<1>2. PICK n \in T : \A m \in T : ~(<<m, n>> \in R)
  <2> HIDE DEF R
  <2> QED
    BY <1>1, WFMin
<1>3. ASSUME NEW m \in T, m < n PROVE FALSE
  <2>1. <<m, n>> \in R
    BY <1>3
  <2> QED
    BY <1>2, <2>1
<1> QED
  BY <1>3

(* The cardinality ClientLife speaks of is the one the rest speaks of.     *)
LEMMA LifeCardinality == ASSUME NEW S PROVE Life!Cardinality(S) = Cardinality(S)
BY DEF Life!Cardinality, Cardinality

(* A refused viewer found a session whose CLIENTMAX slots are taken.       *)
LEMMA RefuseStep ==
  ASSUME IInv, NEW c \in Conns, RefuseClient(c)
  PROVE  Life!Refuse(c)
<1>1. /\ hpc[c] = "play" /\ hpc' = [hpc EXCEPT ![c] = "refused"] /\ open' = open \ {c}
      /\ UNCHANGED <<gone, epc, left>>
  BY DEF RefuseClient, MayScan, epollVars
<1>2. life' = [life EXCEPT ![c] = "refused"]
  BY <1>1, LifeOfOne DEF IInv
<1>3. life[c] = "asking"
  BY <1>1 DEF life
<1>4. PICK i \in Entries :
        /\ session_arr[i] \in Live /\ \A k \in Index : ~FreeSlot(session_arr[i], k)
  BY DEF RefuseClient, IsFirst, Plays, IInv, RegistrySound
<1> DEFINE s == session_arr[i]
<1>5. s \in Conns
  BY <1>4 DEF Live
<1>6. Occupied(s) = Index
  <2>1. SUFFICES ASSUME {j \in Index : slot[s][j] = Null} # {} PROVE FALSE
    BY DEF Occupied
  <2> DEFINE Nulls == {j \in Index : slot[s][j] = Null}
  <2>2. PICK n \in Nulls : \A m \in Nulls : n <= m
    <3>1. Nulls \subseteq Nat /\ Nulls # {}
      BY <2>1 DEF Index
    <3> HIDE DEF Nulls
    <3> QED
      BY <3>1, LeastOf
  <2>3. FreeSlot(s, n) /\ n \in Index
    BY <2>2 DEF FreeSlot, IsFirst
  <2> QED
    BY <1>4, <2>3
<1>7. Cardinality(Clients(s)) = CLIENTMAX
  BY <1>5, <1>6, ClientsAreOccupancy, OccupiedFinite DEF IInv, SlotsOK
<1>8. Clients(s) \subseteq Placed
  BY <1>4, <1>5, ClientsAreOccupancy DEF Placed, In, IInv, SlotsOK
<1>9. Cardinality(Life!Playing) >= CLIENTMAX
  <2>1. IsFiniteSet(Placed)
    BY FS_Subset, SessionsAssumption DEF Placed
  <2>2. Cardinality(Clients(s)) <= Cardinality(Placed)
    BY <1>8, <2>1, FS_Subset
  <2>3. Cardinality(Placed) \in Nat
    BY <2>1, FS_CardinalityType
  <2> QED
    BY <1>7, <2>2, <2>3, PlayingIsPlaced, SessionsAssumption
<1> QED
  <2>1. UNCHANGED (epc \in {"delete", "join", "purge"} \/ (epc = "uncount" /\ left = 0))
    BY <1>1
  <2>2. Conns \ gone' = Conns \ gone
    BY <1>1
  <2> QED
    BY <1>2, <1>3, <1>9, <2>1, <2>2, LifeCardinality DEF Life!Refuse

(* The release of a client that left is ClientLife's Release.              *)
LEMMA ReleaseStep ==
  ASSUME IInv, DropClient
  PROVE  cur \in Conns /\ Life!Release(cur)
<1>1. /\ epc = "drop" /\ epc' = "uncount" /\ open' = open \ {cur} /\ UNCHANGED <<hpc, gone, cur>>
  BY DEF DropClient, ClearClients, handlerVars
<1>2. cur \in Placed /\ cur \in gone /\ cur \in Conns /\ hpc[cur] \in {"admitted", "done"}
  BY <1>1 DEF IInv, Serving, SlotsOK, ClientsAdmitted, Placed
<1>3. life' = [life EXCEPT ![cur] = "over"]
  BY <1>1, <1>2 DEF life
<1>4. cur \in Life!Playing
  BY <1>2, PlayingIsPlaced
<1> QED
  BY <1>1, <1>2, <1>3, <1>4 DEF Life!Release

(* The end of delSession disconnects at most the viewers of one session.   *)
LEMMA EndStep ==
  ASSUME IInv, PurgeSession
  PROVE  Life!EndSession
<1>1. PICK s \in Live :
           /\ s \in Conns /\ open' = open \ Clients(s) /\ Live' = Live \ {s}
           /\ slot' = [slot EXCEPT ![s] = [i \in Index |-> Null]]
  BY PurgeFacts
<1>2. epc = "purge" /\ epc' = "settle" /\ UNCHANGED <<hpc, gone>>
  BY DEF PurgeSession, handlerVars
<1>3. /\ IsFiniteSet(Clients(s)) /\ Cardinality(Clients(s)) <= CLIENTMAX
      /\ Clients(s) \subseteq Conns /\ Clients(s) \subseteq Placed
  <2>1. Clients(s) \subseteq Placed
    BY <1>1, EmptySlots DEF IInv, SlotsOK
  <2> QED
    BY <1>1, <2>1, ClientsAreOccupancy, OccupiedFinite, SessionsAssumption DEF IInv, SlotsOK
<1>4. \A c \in Clients(s) : c \in open /\ hpc[c] \in {"admitted", "done"}
  BY <1>3 DEF IInv, SlotsOK, SocketsOwned, ClientsAdmitted
<1>5. life' = [c \in Conns |-> IF c \in Clients(s) THEN "over" ELSE life[c]]
  BY <1>1, <1>2, <1>3, <1>4 DEF life
<1>6. \A c \in Clients(s) : life[c] = "playing"
  BY <1>3, <1>4 DEF life
<1>7. {c \in Conns : life'[c] # life[c]} = Clients(s)
  BY <1>3, <1>5, <1>6
<1>8. Clients(s) \subseteq Life!Playing
  BY <1>3, PlayingIsPlaced
<1> QED
  <2>1. Emptied /\ ~Emptied' /\ Conns \ gone' = Conns \ gone
    BY <1>2 DEF Emptied
  <2>2. life' = [c \in Conns |->
                   IF c \in {d \in Conns : life'[d] # life[d]} THEN "over" ELSE life[c]]
    BY <1>5, <1>7
  <2> QED
    BY <1>3, <1>7, <1>8, <2>1, <2>2, LifeCardinality DEF Life!EndSession, Emptied

(* Every step of the server is a step of ClientLife or leaves what viewers *)
(* see alone.                                                              *)
LEMMA LifeStep == ASSUME IInv, [Next]_vars PROVE [Life!Next]_(Life!vars)
<1>1. ASSUME NEW c \in Conns, Handler(c) PROVE [Life!Next]_(Life!vars)
  <2>1. CASE JoinSession(c) \/ InitSession(c)
    BY <2>1, AdmitStep DEF Life!Next
  <2>2. CASE RefuseClient(c)
    BY <2>2, RefuseStep DEF Life!Next
  <2>3. CASE ScanMisses(c) \/ CreateSession(c)
    <3>1. /\ hpc[c] \in {"play", "create"} /\ UNCHANGED <<open, gone, epc, left>>
          /\ \E h \in {"create", "init"} : hpc' = [hpc EXCEPT ![c] = h]
      BY <2>3 DEF ScanMisses, CreateSession, MayScan, clientVars, epollVars
    <3>2. UNCHANGED life
      BY <3>1 DEF life, IInv, TypeOK
    <3> QED
      BY <3>1, <3>2 DEF Life!vars
  <2>4. CASE InitOutOfBounds(c)
    BY <2>4, LifeSame DEF InitOutOfBounds, clientVars, handlerVars, epollVars, Life!vars
  <2>5. CASE CountClient(c)
    <3>1. /\ hpc[c] = "admitted" /\ hpc' = [hpc EXCEPT ![c] = "done"]
          /\ UNCHANGED <<open, gone, epc, left>>
      BY <2>5 DEF CountClient, epollVars
    <3>2. UNCHANGED life
      BY <3>1 DEF life, IInv, TypeOK
    <3> QED
      BY <3>1, <3>2 DEF Life!vars
  <2> QED
    BY <1>1, <2>1, <2>2, <2>3, <2>4, <2>5 DEF Handler
<1>2. ASSUME NEW c \in Conns, PeerLeaves(c) PROVE [Life!Next]_(Life!vars)
  <2>1. c \in Placed \ gone /\ gone' = gone \cup {c} /\ UNCHANGED <<hpc, open, epc, left>>
    BY <1>2 DEF PeerLeaves, clientVars, handlerVars, epollVars
  <2>2. Life!Depart(c)
    BY <2>1, LifeSame, PlayingIsPlaced DEF Life!Depart
  <2> QED
    BY <2>2 DEF Life!Next
<1>3. ASSUME NEW s \in Conns, Media(s) PROVE [Life!Next]_(Life!vars)
  BY <1>3, LifeSame DEF Media, MediaReads, MediaCallBack, clientVars, handlerVars, epollVars,
     Life!vars
<1>4. CASE DropClient
  BY <1>4, ReleaseStep DEF Life!Next
<1>5. CASE PurgeSession
  BY <1>5, EndStep DEF Life!Next
<1>6. CASE (\E c \in Conns : ServeStale(c) \/ ServeNothing(c) \/ PopPacket(c))
           \/ PollWait \/ EndRound \/ SendPacket \/ SettleCount
  <2>1. UNCHANGED <<hpc, open, gone>>
    BY <1>6 DEF ServeStale, ServeNothing, PopPacket, PollWait, EndRound, SendPacket, SettleCount,
       clientVars, handlerVars
  <2>2. ~Emptied /\ ~Emptied'
    BY <1>6 DEF ServeStale, ServeNothing, PopPacket, PollWait, EndRound, SendPacket, SettleCount,
       Emptied
  <2> QED
    BY <2>1, <2>2, LifeSame DEF Life!vars, Emptied
<1>7. CASE UncountClient
  <2>1. /\ UNCHANGED <<hpc, open, gone>> /\ epc = "uncount"
        /\ epc' = IF left = 0 THEN "delete" ELSE "serve"
    BY <1>7 DEF UncountClient, RanEmpty, handlerVars
  <2> QED
    BY <2>1, LifeSame DEF Life!vars
<1>8. CASE DestroyMedia \/ JoinMedia
  <2>1. /\ UNCHANGED <<hpc, open, gone>>
        /\ epc \in {"delete", "join"} /\ epc' \in {"delete", "join", "purge"}
    BY <1>8 DEF DestroyMedia, JoinMedia, clientVars, handlerVars
  <2> QED
    BY <2>1, LifeSame DEF Life!vars
<1>9. CASE UNCHANGED vars
  BY <1>9, LifeSame DEF vars, clientVars, handlerVars, epollVars, Life!vars
<1> QED
  BY <1>1, <1>2, <1>3, <1>4, <1>5, <1>6, <1>7, <1>8, <1>9 DEF Next, EpollLoop, Died

(* Each viewer sees what ClientLife promises, in every interleaving of     *)
(* handlers, media threads, the epoll thread and departures.               *)
THEOREM SessionsImplementLife == Spec => ImplementsClientLife
<1>1. Init => Life!Init
  BY InitLife
<1>2. IInv /\ [Next]_vars => [Life!Next]_(Life!vars)
  BY LifeStep
<1> QED
  BY <1>1, <1>2, SessionsInvariant, PTL DEF Spec, ImplementsClientLife, Life!Spec

=============================================================================
