-------------------------------- MODULE Locks --------------------------------
(***************************************************************************)
(* The locking of session.c at the granularity of single lock and unlock   *)
(* calls.  Every function that locks is a program: the sequence of its     *)
(* lock, unlock and join calls, with the few steps between them that       *)
(* decide what other threads do next.  Sessions abstracts these programs   *)
(* to atomic critical sections; this module checks that they never wait    *)
(* for each other in a circle and always release what they took.           *)
(*                                                                         *)
(* One client per session stands for the client slots: the loops over      *)
(* slots lock and release one mut_list, or mut_epoll, at a time.  mut_list *)
(* is modelled as a lock throughout, although clearClient destroys it and  *)
(* nothing makes a new one when the slot is used again: both places that   *)
(* take it hold session->mut, which does what it no longer may.            *)
(*                                                                         *)
(* SIGINT makes the thread it interrupts run sig_handler, which deletes    *)
(* every session with delSession, whatever that thread was doing and       *)
(* whatever it holds, and never returns to it.                             *)
(***************************************************************************)
EXTENDS Integers, Sequences, FiniteSets, Functions

CONSTANTS
  Handlers,  \* the handler threads
  EpollThd,  \* the epoll thread
  MainThd,   \* the main thread, which accepts connections and takes no lock
  Sessions,  \* session objects; a session also names its media thread
  FILEMAX,   \* the entries of session_arr that moduleDel visits
  Few,       \* a bound: the session objects there are if SIGINT comes
  Null       \* no thread, no session

ASSUME LocksAssumption ==
  /\ Handlers \cap Sessions = {}
  /\ EpollThd \notin Handlers \cup Sessions
  /\ MainThd \notin Handlers \cup Sessions \cup {EpollThd}
  /\ Null \notin Handlers \cup Sessions \cup {EpollThd, MainThd}
  /\ FILEMAX \in Nat /\ Few \subseteq Sessions

Threads == Handlers \cup {EpollThd, MainThd} \cup Sessions

(* A lock is its kind and the session it belongs to.                       *)
SessionArr == <<"session", Null>>      \* mut_session
Mut(s)     == <<"mut", s>>             \* session->mut
MutList(s) == <<"list", s>>            \* clientinfo->mut_list
Epoll      == <<"epoll", Null>>        \* mut_epoll
Count      == <<"count", Null>>        \* mut_clientcount

LockSet == {SessionArr, Epoll, Count} \cup {Mut(s) : s \in Sessions}
                                      \cup {MutList(s) : s \in Sessions}

-----------------------------------------------------------------------------
(* The programs.                                                           *)
Op(o, x) == <<[op |-> o, on |-> x]>>
Lock(l)   == Op("lock", l)
Unlock(l) == Op("unlock", l)

(* eventAdd, eventDel and the epoll_wait of epollLoop.                     *)
WithEpoll == Lock(Epoll) \o Unlock(Epoll)

(* sum_client's updates and getClientNum.                                  *)
WithCount == Lock(Count) \o Unlock(Count)

(* addClient up to the end of its scan; what follows depends on the scan.  *)
Scan == Lock(SessionArr)

(* A session plays the file and has room: count the client, then read the  *)
(* count (getClientNum) ...                                                *)
Found(s) == Lock(Mut(s)) \o WithEpoll \o Unlock(Mut(s)) \o Unlock(SessionArr)
            \o WithCount \o WithCount

(* ... or it is full ...                                                   *)
Full(s) == Lock(Mut(s)) \o Unlock(Mut(s)) \o Unlock(SessionArr)

(* ... or nobody plays it, and addSession makes a session s.               *)
\* Slip: the entry is filled before there is a session.
Missed_EarlyEntry(s) == Unlock(SessionArr)
                        \o Lock(SessionArr) \o Op("enter", Null) \o Op("spawn", s)
                        \o Lock(Mut(s)) \o WithEpoll \o Unlock(Mut(s)) \o Unlock(SessionArr)
                        \o WithCount \o WithCount

Missed(s) == Unlock(SessionArr)
             \o Lock(SessionArr) \o Op("spawn", s) \o Op("enter", s)
             \o Lock(Mut(s)) \o WithEpoll \o Unlock(Mut(s)) \o Unlock(SessionArr)
             \o WithCount \o WithCount

(* epollLoop pops a packet of a client.                                    *)
Pop(s) == Lock(Mut(s)) \o Lock(MutList(s)) \o Unlock(MutList(s)) \o Unlock(Mut(s))

(* epollLoop drops a client whose send failed.                             *)
Drop(s) == WithEpoll \o Lock(Mut(s)) \o Unlock(Mut(s)) \o WithCount

(* delSession up to its NULL check ...                                     *)
\* Slip: destroyMedia is called with the locks held.
Delete_Locked(s) == Lock(SessionArr) \o Lock(Mut(s)) \o Op("stop", s) \o Op("join", s)
                    \o Unlock(Mut(s)) \o Op("check", s)
\* Slip: run_flag is not cleared.
Delete_NoStop(s) == Op("join", s) \o Lock(SessionArr) \o Op("check", s)

Delete(s) == Op("stop", s) \o Op("join", s) \o Lock(SessionArr) \o Op("check", s)

(* ... which returns, or goes on.                                          *)
\* Slip: session->mut is let go of, then taken again without mut_session.
Purge_Swapped(s) == Unlock(SessionArr) \o Lock(Mut(s)) \o Lock(SessionArr) \o WithEpoll
                    \o Unlock(Mut(s)) \o Op("remove", s) \o Unlock(SessionArr) \o WithCount
\* Slip: a return path that keeps mut_session.
Purge_Kept(s) == Lock(Mut(s)) \o WithEpoll \o Unlock(Mut(s)) \o Op("remove", s) \o WithCount

Purge(s) == Lock(Mut(s)) \o WithEpoll \o Unlock(Mut(s)) \o Op("remove", s)
            \o Unlock(SessionArr) \o WithCount

(* mediaCallBack, which calls sendData for the client.                     *)
\* Slip: mut_list is taken before session->mut.
CallBack_Swapped(s) == Lock(MutList(s)) \o Lock(Mut(s)) \o Unlock(Mut(s)) \o Unlock(MutList(s))

CallBack(s) == Lock(Mut(s)) \o Lock(MutList(s)) \o Unlock(MutList(s)) \o Unlock(Mut(s))

-----------------------------------------------------------------------------
VARIABLES
  todo,        \* what is left of each thread's program
  about,       \* the session a thread's program is about
  owner,       \* who holds each lock
  registered,  \* the sessions in session_arr
  media,       \* the media threads: "none", "running", "stopping", "exited"
  sig,         \* the thread sig_handler runs on
  visited,     \* the entries moduleDel has visited
  ended,       \* how the process ended
  sigint       \* whether SIGINT comes at all, settled at the start

shutdownVars == <<sig, visited, ended, sigint>>
vars == <<todo, about, owner, registered, media, shutdownVars>>

Init ==
  /\ todo = [t \in Threads |-> <<>>] /\ about = [t \in Threads |-> Null]
  /\ owner = [l \in LockSet |-> Null]
  /\ registered = {} /\ media = [s \in Sessions |-> "none"]
  /\ sig = Null /\ visited = 0 /\ ended = "no" /\ sigint \in BOOLEAN

Idle(t) == todo[t] = <<>>

(* A thread that runs what it was started for, and not sig_handler.        *)
Normal(t) == ended = "no" /\ t # sig

Held(t) == {l \in LockSet : owner[l] = t}

Start(t, p, s) ==
  /\ todo' = [todo EXCEPT ![t] = p] /\ about' = [about EXCEPT ![t] = s]
  /\ UNCHANGED <<owner, registered, media, sig, ended, sigint>>

(* A session object malloc returns is one nobody is working on, except     *)
(* that sig_handler may find the new session in the entry it looks at.     *)
Fresh(s) ==
  /\ sigint => s \in Few
  /\ media[s] = "none" /\ s \notin registered
  /\ \A t \in Threads : about[t] = s => t = sig /\ ~\E x \in Range(todo[t]) : x.op = "join"

(* The bound on session objects is reached while others still work on them:*)
(* the client goes away.                                                   *)
NoneLeft == registered = {} /\ \A s \in Sessions : ~Fresh(s)

(* A handler with a PLAY scans the registry, then goes where the scan, the *)
(* end of which finds it holding mut_session, sends it.                    *)
BeginScan(h) ==
  /\ Normal(h) /\ Idle(h) /\ Held(h) = {}
  /\ Start(h, Scan, Null) /\ UNCHANGED visited

EndScan(h) ==
  /\ Normal(h) /\ Idle(h) /\ owner[SessionArr] = h /\ UNCHANGED visited
  /\ \/ \E s \in registered : Start(h, Found(s), s) \/ Start(h, Full(s), s)
     \/ \E s \in Sessions : Fresh(s) /\ Start(h, Missed(s), s)
     \/ NoneLeft /\ Start(h, Unlock(SessionArr), Null)

(* The epoll thread waits, or serves, drops or deletes in any order.       *)
BeginEpoll ==
  /\ Normal(EpollThd) /\ Idle(EpollThd) /\ UNCHANGED visited
  /\ \/ Start(EpollThd, WithEpoll, Null)
     \/ \E s \in registered : \/ Start(EpollThd, Pop(s), s)
                              \/ Start(EpollThd, Drop(s), s)
                              \/ Start(EpollThd, Delete(s), s)

(* A media thread delivers frames until run_flag is cleared.               *)
BeginCallBack(s) ==
  /\ Normal(s) /\ Idle(s) /\ media[s] = "running"
  /\ Start(s, CallBack(s), s) /\ UNCHANGED visited

MediaExits(s) ==
  /\ Normal(s) /\ Idle(s) /\ media[s] = "stopping" /\ media' = [media EXCEPT ![s] = "exited"]
  /\ about' = [about EXCEPT ![s] = Null]
  /\ UNCHANGED <<todo, owner, registered, shutdownVars>>

(* A thread executes the next operation of its program.                    *)
Doing(t, o) == ended = "no" /\ ~Idle(t) /\ Head(todo[t]).op = o

Advance(t) ==
  /\ todo' = [todo EXCEPT ![t] = Tail(@)]
  /\ about' = [about EXCEPT ![t] = IF Len(todo[t]) = 1 THEN Null ELSE @]

On(t) == Head(todo[t]).on

Acquire(t) ==
  /\ Doing(t, "lock") /\ owner[On(t)] = Null
  /\ owner' = [owner EXCEPT ![On(t)] = t]
  /\ Advance(t) /\ UNCHANGED <<registered, media, shutdownVars>>

Release(t) ==
  /\ Doing(t, "unlock")
  /\ owner' = [owner EXCEPT ![On(t)] = Null]
  /\ Advance(t) /\ UNCHANGED <<registered, media, shutdownVars>>

(* creatMedia starts the media thread, destroyMedia stops and joins it.    *)
Spawn(t) ==
  /\ Doing(t, "spawn") /\ media' = [media EXCEPT ![On(t)] = "running"]
  /\ Advance(t) /\ UNCHANGED <<owner, registered, shutdownVars>>

Stop(t) ==
  /\ Doing(t, "stop")
  /\ media' = [media EXCEPT ![On(t)] = IF @ = "running" THEN "stopping" ELSE @]
  /\ Advance(t) /\ UNCHANGED <<owner, registered, shutdownVars>>

JoinThread(t) ==
  /\ Doing(t, "join") /\ media[On(t)] = "exited"
  /\ media' = [media EXCEPT ![On(t)] = "none"]
  /\ Advance(t) /\ UNCHANGED <<owner, registered, shutdownVars>>

(* The process is gone, and with it all it held.                           *)
Die(how) ==
  /\ ended' = how
  /\ todo' = [t \in Threads |-> <<>>] /\ about' = [t \in Threads |-> Null]
  /\ owner' = [l \in LockSet |-> Null]
  /\ registered' = {} /\ media' = [s \in Sessions |-> "none"]
  /\ sig' = Null /\ visited' = 0 /\ UNCHANGED sigint

(* A join that need not wait: of the thread itself (EDEADLK), of a thread  *)
(* another one joins (EINVAL) or has joined.  What destroyMedia frees      *)
(* next is in use or freed already, which goes unnoticed or not.           *)
JoinReturns(t) ==
  /\ Doing(t, "join")
  /\ \/ On(t) = t \/ media[On(t)] = "none"
     \/ \E u \in Threads \ {t} : Doing(u, "join") /\ On(u) = On(t)
  /\ \/ Die("freed_media")
     \/ Advance(t) /\ UNCHANGED <<owner, registered, media, shutdownVars>>

(* delSession's NULL check.                                                *)
CheckEntry(t) ==
  /\ Doing(t, "check")
  /\ todo' = [todo EXCEPT ![t] = IF On(t) \in registered THEN Purge(On(t))
                                                          ELSE Unlock(SessionArr)]
  /\ UNCHANGED <<about, owner, registered, media, shutdownVars>>

(* session_arr[pos] = session and session_arr[pos] = NULL.                 *)
Enter(t) ==
  /\ Doing(t, "enter") /\ registered' = registered \cup {On(t)}
  /\ Advance(t) /\ UNCHANGED <<owner, media, shutdownVars>>

Remove(t) ==
  /\ Doing(t, "remove") /\ registered' = registered \ {On(t)}
  /\ Advance(t) /\ UNCHANGED <<owner, media, shutdownVars>>

Step(t) == \/ Acquire(t) \/ Release(t) \/ Spawn(t) \/ Stop(t)
           \/ JoinThread(t) \/ JoinReturns(t) \/ CheckEntry(t)
           \/ Enter(t) \/ Remove(t)

-----------------------------------------------------------------------------
(* One SIGINT arrives at a thread.  The media threads install a handler for*)
(* the whole process that exits at once, the connection handlers put       *)
(* sig_handler back: either may be in force.                               *)
Exists(t) == t \in Sessions => media[t] \in {"running", "stopping"}

SigHandlerMedia == Die("exit")

SigHandler(t) ==
  /\ sig' = t
  /\ todo' = [todo EXCEPT ![t] = <<>>] /\ about' = [about EXCEPT ![t] = Null]
  /\ UNCHANGED <<owner, registered, media, visited, ended, sigint>>

Interrupt(t) ==
  /\ sigint /\ ended = "no" /\ sig = Null /\ Exists(t)
  /\ SigHandlerMedia \/ SigHandler(t)

(* moduleDel visits every entry.  delSession reads session_arr[i]->media   *)
(* before it asks whether the entry is empty.  A handler may fill an entry *)
(* that has been emptied, so which entries are empty is left open.         *)
DeleteNext ==
  /\ ended = "no" /\ sig # Null /\ Idle(sig) /\ visited < FILEMAX
  /\ visited' = visited + 1
  /\ \E s \in registered : Start(sig, Delete(s), s)

ReadEmptyEntry ==
  /\ ended = "no" /\ sig # Null /\ Idle(sig) /\ visited < FILEMAX
  /\ Cardinality(registered) < FILEMAX /\ Die("null_entry")

Exit ==
  /\ ended = "no" /\ sig # Null /\ Idle(sig) /\ visited = FILEMAX
  /\ Die("exit")

ModuleDel == DeleteNext \/ ReadEmptyEntry \/ Exit

Ended == ended # "no" /\ UNCHANGED vars

(* A shutdown that waits for ever.                                         *)
Stuck == sig # Null /\ ended = "no" /\ UNCHANGED vars

Next ==
  \/ \E h \in Handlers : BeginScan(h) \/ EndScan(h)
  \/ BeginEpoll
  \/ \E s \in Sessions : BeginCallBack(s) \/ MediaExits(s)
  \/ \E t \in Threads : Step(t) \/ Interrupt(t)
  \/ ModuleDel \/ Ended \/ Stuck

Spec == Init /\ [][Next]_vars

(* Threads run, a mutex that is free again and again is obtained, and a    *)
(* handler acts on what its scan found.                                    *)
Fairness ==
  /\ \A t \in Threads : SF_vars(Step(t))
  /\ \A h \in Handlers : SF_vars(EndScan(h))
  /\ \A s \in Sessions : WF_vars(MediaExits(s))
  /\ WF_vars(ModuleDel)

FairSpec == Spec /\ Fairness

-----------------------------------------------------------------------------
(* The type invariant; session_arr holds sessions only.                    *)
TypeOK ==
  /\ owner \in [LockSet -> Threads \cup {Null}]
  /\ registered \subseteq Sessions
  /\ media \in [Sessions -> {"none", "running", "stopping", "exited"}]
  /\ about \in [Threads -> Sessions \cup {Null}]
  /\ DOMAIN todo = Threads
  /\ sig \in Threads \cup {Null} /\ visited \in 0 .. FILEMAX
  /\ ended \in {"no", "exit", "null_entry", "freed_media"} /\ sigint \in BOOLEAN

(* The thread that t waits for: the holder of the lock it wants, itself    *)
(* included, or the media thread it joins.                                 *)
WaitsFor(t) ==
  IF Doing(t, "lock") THEN owner[On(t)]
  ELSE IF Doing(t, "join") /\ media[On(t)] # "exited" THEN On(t)
  ELSE Null

(* No set of threads in which everyone waits for someone in the set, but   *)
(* for the thread sig_handler interrupted, which may wait for itself.      *)
NoCircularWait ==
  \A D \in SUBSET (Threads \ {sig}) : D # {} => \E t \in D : WaitsFor(t) \notin D

(* The order the comment at session.c:114 prescribes for mut_session,      *)
(* session->mut and mut_list, with mut_epoll innermost: a thread that      *)
(* wants a lock holds only locks of lower rank.                            *)
Rank(l) == CASE l[1] = "session" -> 1 [] l[1] = "mut" -> 2 [] l[1] = "list" -> 3
             [] l[1] = "epoll" -> 4 [] l[1] = "count" -> 5

LockOrder ==
  \A t \in Threads \ {sig} :
    Doing(t, "lock") => \A l \in Held(t) : Rank(l) < Rank(On(t))

(* delSession joins the media thread with no lock held ("do not lock here",*)
(* session.c:747): the thread may be inside mediaCallBack.                 *)
JoinHoldsNothing ==
  \A t \in Threads \ {sig} : Doing(t, "stop") \/ Doing(t, "join") => Held(t) = {}

(* Every PLAY gets through addClient, whatever the other threads do, until *)
(* the server is told to exit.                                             *)
HandlersFinish ==
  \A h \in Handlers : ~Idle(h) ~> ((Idle(h) /\ Held(h) = {}) \/ sig # Null)

(* A deletion gets through, so the epoll thread returns to its clients.    *)
EpollReturns == ~Idle(EpollThd) ~> (Idle(EpollThd) \/ sig # Null)

(* SIGINT ends the process, unless it interrupted a thread that held a     *)
(* lock: sig_handler may wait for that lock, and the thread never runs     *)
(* again.  In all other cases what the handler deletes and joins, while    *)
(* the epoll thread may be deleting the same session, comes to an end.     *)
ShutdownEnds ==
  (sig # Null /\ visited = 0 /\ Idle(sig) /\ Held(sig) = {}) ~> ended # "no"

=============================================================================
