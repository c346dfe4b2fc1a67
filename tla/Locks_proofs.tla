---------------------------- MODULE Locks_proofs ----------------------------
(***************************************************************************)
(* Theorems about the locking discipline, for every number of handlers,    *)
(* sessions and entries.  The argument is Hoare's: an operation fits       *)
(* between the locks a thread holds before and after it, a program runs    *)
(* from A to B if its operations fit one after the other, and each program *)
(* of session.c is put together from such pieces.                          *)
(***************************************************************************)
EXTENDS Locks, TLAPS

(* The operation x is in order for a thread that holds the locks A, and    *)
(* leaves it with the locks B.                                             *)
Fits(x, A, B) ==
  \/ /\ x.op = "lock" /\ x.on \in LockSet
     /\ \A l \in A : Rank(l) < Rank(x.on)
     /\ B = A \cup {x.on}
  \/ x.op = "unlock" /\ x.on \in A /\ B = A \ {x.on}
  \/ x.op \in {"spawn", "enter", "remove"} /\ x.on \in Sessions /\ B = A
  \/ x.op \in {"stop", "join"} /\ x.on \in Sessions /\ A = {} /\ B = {}
  \/ x.op = "check" /\ x.on \in Sessions /\ A = {SessionArr} /\ B = {}

Ops == [op : {"lock", "unlock", "spawn", "enter", "remove", "stop", "join", "check"},
        on : LockSet \cup Sessions]

(* A thread that holds A and runs p to its end holds B then.               *)
Runs(p, A, B) ==
  /\ p \in Seq(Ops)
  /\ \E h \in [1 .. Len(p) + 1 -> SUBSET LockSet] :
       /\ h[1] = A /\ h[Len(p) + 1] = B
       /\ \A i \in 1 .. Len(p) : Fits(p[i], h[i], h[i + 1])

-----------------------------------------------------------------------------
(* The rules for programs.                                                 *)

(* The rank of each lock.                                                  *)
LEMMA Ranks ==
  /\ \A l \in LockSet : Rank(l) \in 1 .. 5
  /\ Rank(SessionArr) = 1 /\ Rank(Epoll) = 4 /\ Rank(Count) = 5
  /\ \A s \in Sessions : Rank(Mut(s)) = 2 /\ Rank(MutList(s)) = 3
BY DEF LockSet, Rank, SessionArr, Epoll, Count, Mut, MutList

(* The program that is at its end.                                         *)
LEMMA RunNothing ==
  ASSUME NEW A \in SUBSET LockSet, NEW B
  PROVE  Runs(<<>>, A, B) <=> A = B
<1>1. ASSUME A = B PROVE Runs(<<>>, A, B)
  <2> DEFINE h == [i \in 1 .. 1 |-> A]
  <2>1. /\ h \in [1 .. Len(<<>>) + 1 -> SUBSET LockSet] /\ h[1] = A /\ h[Len(<<>>) + 1] = B
        /\ \A i \in 1 .. Len(<<>>) : Fits(<<>>[i], h[i], h[i + 1])
    BY <1>1
  <2>2. <<>> \in Seq(Ops)
    OBVIOUS
  <2> HIDE DEF h
  <2> QED
    BY <2>1, <2>2 DEF Runs
<1>2. ASSUME Runs(<<>>, A, B) PROVE A = B
  BY <1>2 DEF Runs
<1> QED
  BY <1>1, <1>2

(* A program of one operation.                                             *)
LEMMA RunOne ==
  ASSUME NEW x \in Ops, NEW A \in SUBSET LockSet, NEW B \in SUBSET LockSet, Fits(x, A, B)
  PROVE  Runs(<<x>>, A, B)
<1> DEFINE h == [i \in 1 .. 2 |-> IF i = 1 THEN A ELSE B]
<1>1. Len(<<x>>) = 1 /\ <<x>>[1] = x /\ <<x>> \in Seq(Ops)
  OBVIOUS
<1>2. /\ h \in [1 .. Len(<<x>>) + 1 -> SUBSET LockSet] /\ h[1] = A /\ h[Len(<<x>>) + 1] = B
      /\ \A i \in 1 .. Len(<<x>>) : Fits(<<x>>[i], h[i], h[i + 1])
  BY <1>1
<1> QED
  BY <1>1, <1>2 DEF Runs

(* Sequencing.                                                             *)
LEMMA RunBoth ==
  ASSUME NEW p, NEW q, NEW A, NEW B, NEW C, Runs(p, A, B), Runs(q, B, C)
  PROVE  Runs(p \o q, A, C)
<1>1. PICK g \in [1 .. Len(p) + 1 -> SUBSET LockSet] :
        /\ g[1] = A /\ g[Len(p) + 1] = B
        /\ \A i \in 1 .. Len(p) : Fits(p[i], g[i], g[i + 1])
  BY DEF Runs
<1>2. PICK h \in [1 .. Len(q) + 1 -> SUBSET LockSet] :
        /\ h[1] = B /\ h[Len(q) + 1] = C
        /\ \A i \in 1 .. Len(q) : Fits(q[i], h[i], h[i + 1])
  BY DEF Runs
<1>3. p \in Seq(Ops) /\ q \in Seq(Ops) /\ Len(p) \in Nat /\ Len(q) \in Nat
  BY DEF Runs
<1>4. /\ p \o q \in Seq(Ops) /\ Len(p \o q) = Len(p) + Len(q)
      /\ \A i \in 1 .. Len(p) + Len(q) :
           (p \o q)[i] = IF i <= Len(p) THEN p[i] ELSE q[i - Len(p)]
  BY <1>3
<1> DEFINE k == [i \in 1 .. Len(p) + Len(q) + 1 |->
                   IF i <= Len(p) THEN g[i] ELSE h[i - Len(p)]]
<1>5. /\ k \in [1 .. Len(p) + Len(q) + 1 -> SUBSET LockSet]
      /\ k[Len(p) + Len(q) + 1] = C
  BY <1>1, <1>2, <1>3
<1>6. k[1] = A
  BY <1>1, <1>2, <1>3
<1>7. ASSUME NEW i \in 1 .. Len(p) + Len(q) PROVE Fits((p \o q)[i], k[i], k[i + 1])
  <2>1. CASE i < Len(p)
    BY <2>1, <1>1, <1>3, <1>4
  <2>2. CASE i = Len(p)
    BY <2>2, <1>1, <1>2, <1>3, <1>4
  <2>3. CASE i > Len(p)
    <3>1. i - Len(p) \in 1 .. Len(q) /\ (i + 1) - Len(p) = (i - Len(p)) + 1
      BY <2>3, <1>3
    <3>2. /\ (p \o q)[i] = q[i - Len(p)] /\ k[i] = h[i - Len(p)]
          /\ k[i + 1] = h[(i - Len(p)) + 1]
      BY <2>3, <3>1, <1>3, <1>4
    <3> QED
      BY <3>1, <3>2, <1>2
  <2> QED
    BY <2>1, <2>2, <2>3, <1>3
<1> QED
  BY <1>4, <1>5, <1>6, <1>7 DEF Runs

(* What is known of the next operation, and of what is left after it.      *)
LEMMA RunStep ==
  ASSUME NEW p, NEW A, NEW B, Runs(p, A, B), p # <<>>
  PROVE  /\ Head(p) \in Ops
         /\ \E C \in SUBSET LockSet : Fits(Head(p), A, C) /\ Runs(Tail(p), C, B)
<1>1. PICK h \in [1 .. Len(p) + 1 -> SUBSET LockSet] :
        /\ h[1] = A /\ h[Len(p) + 1] = B
        /\ \A i \in 1 .. Len(p) : Fits(p[i], h[i], h[i + 1])
  BY DEF Runs
<1>2. p \in Seq(Ops) /\ Len(p) \in Nat \ {0}
  BY DEF Runs
<1>3. /\ Head(p) = p[1] /\ Head(p) \in Ops /\ Tail(p) \in Seq(Ops)
      /\ Len(Tail(p)) = Len(p) - 1 /\ \A i \in 1 .. Len(p) - 1 : Tail(p)[i] = p[i + 1]
  BY <1>2
<1> DEFINE k == [i \in 1 .. Len(p) |-> h[i + 1]]
<1>4. k \in [1 .. Len(p) -> SUBSET LockSet] /\ k[1] = h[2] /\ k[Len(p)] = B
  BY <1>1, <1>2
<1>5. \A i \in 1 .. Len(p) - 1 : Fits(Tail(p)[i], k[i], k[i + 1])
  BY <1>1, <1>2, <1>3
<1>6. Runs(Tail(p), h[2], B)
  <2>1. /\ k \in [1 .. Len(Tail(p)) + 1 -> SUBSET LockSet]
        /\ k[1] = h[2] /\ k[Len(Tail(p)) + 1] = B
        /\ \A i \in 1 .. Len(Tail(p)) : Fits(Tail(p)[i], k[i], k[i + 1])
    <3>1. Len(Tail(p)) + 1 = Len(p) /\ Len(Tail(p)) = Len(p) - 1
      BY <1>2, <1>3
    <3> HIDE DEF k
    <3> QED
      BY <3>1, <1>4, <1>5
  <2> HIDE DEF k
  <2> QED
    BY <1>3, <2>1 DEF Runs
<1>7. Fits(Head(p), A, h[2])
  BY <1>1, <1>2, <1>3
<1> QED
  BY <1>1, <1>2, <1>3, <1>6, <1>7

-----------------------------------------------------------------------------
(* The rules for operations.                                               *)

(* A lock above all those held may be taken, and then released.            *)
LEMMA RunLock ==
  ASSUME NEW l \in LockSet, NEW A \in SUBSET LockSet, \A m \in A : Rank(m) < Rank(l)
  PROVE  /\ Runs(Lock(l), A, A \cup {l})
         /\ Runs(Unlock(l), A \cup {l}, A)
         /\ Runs(Lock(l) \o Unlock(l), A, A)
<1> DEFINE x == [op |-> "lock", on |-> l]
           y == [op |-> "unlock", on |-> l]
<1>1. l \notin A
  BY Ranks
<1>2. x \in Ops /\ y \in Ops
  BY DEF Ops
<1>3. Fits(x, A, A \cup {l}) /\ Fits(y, A \cup {l}, A)
  BY <1>1 DEF Fits
<1>4. Lock(l) = <<x>> /\ Unlock(l) = <<y>>
  BY DEF Lock, Unlock, Op
<1>5. A \cup {l} \in SUBSET LockSet
  OBVIOUS
<1> HIDE DEF x, y
<1>6. Runs(Lock(l), A, A \cup {l}) /\ Runs(Unlock(l), A \cup {l}, A)
  BY <1>2, <1>3, <1>4, <1>5, RunOne
<1> QED
  BY <1>6, RunBoth

(* The other operations change no lock.                                    *)
LEMMA RunOp ==
  ASSUME NEW s \in Sessions, NEW A \in SUBSET LockSet
  PROVE  /\ Runs(Op("spawn", s), A, A) /\ Runs(Op("enter", s), A, A)
         /\ Runs(Op("remove", s), A, A)
         /\ Runs(Op("stop", s), {}, {}) /\ Runs(Op("join", s), {}, {})
         /\ Runs(Op("check", s), {SessionArr}, {})
<1>1. ASSUME NEW o \in {"spawn", "enter", "remove"} PROVE Runs(Op(o, s), A, A)
  BY RunOne, <1>1 DEF Op, Ops, Fits
<1>2. ASSUME NEW o \in {"stop", "join"} PROVE Runs(Op(o, s), {}, {})
  BY RunOne, <1>2 DEF Op, Ops, Fits
<1>3. Runs(Op("check", s), {SessionArr}, {})
  <2>1. {SessionArr} \in SUBSET LockSet
    BY DEF LockSet
  <2> QED
    BY RunOne, <2>1 DEF Op, Ops, Fits
<1> QED
  BY <1>1, <1>2, <1>3

-----------------------------------------------------------------------------
(* The programs.                                                           *)

(* The locks are in LockSet.                                               *)
LEMMA LocksThere ==
  /\ SessionArr \in LockSet /\ Epoll \in LockSet /\ Count \in LockSet
  /\ \A s \in Sessions : Mut(s) \in LockSet /\ MutList(s) \in LockSet
BY DEF LockSet

(* mut_epoll and mut_clientcount are innermost.                            *)
LEMMA Innermost ==
  ASSUME NEW A \in SUBSET LockSet, \A m \in A : Rank(m) < 4
  PROVE  Runs(WithEpoll, A, A) /\ Runs(WithCount, A, A)
<1>1. (\A m \in A : Rank(m) < Rank(Epoll)) /\ (\A m \in A : Rank(m) < Rank(Count))
  BY Ranks
<1> QED
  BY <1>1, RunLock, LocksThere DEF WithEpoll, WithCount

(* eventAdd and eventDel within session->mut, with or without mut_session. *)
LEMMA Inner ==
  ASSUME NEW s \in Sessions, NEW A \in SUBSET {SessionArr}
  PROVE  /\ Runs(Lock(Mut(s)), A, A \cup {Mut(s)})
         /\ Runs(WithEpoll, A \cup {Mut(s)}, A \cup {Mut(s)})
         /\ Runs(Unlock(Mut(s)), A \cup {Mut(s)}, A)
         /\ Runs(Lock(Mut(s)) \o WithEpoll \o Unlock(Mut(s)), A, A)
         /\ Runs(Lock(Mut(s)) \o Unlock(Mut(s)), A, A)
<1>1. /\ A \in SUBSET LockSet /\ \A m \in A : Rank(m) < Rank(Mut(s))
      /\ A \cup {Mut(s)} \in SUBSET LockSet /\ \A m \in A \cup {Mut(s)} : Rank(m) < 4
  BY Ranks, LocksThere
<1>2. /\ Runs(Lock(Mut(s)), A, A \cup {Mut(s)}) /\ Runs(Unlock(Mut(s)), A \cup {Mut(s)}, A)
      /\ Runs(Lock(Mut(s)) \o Unlock(Mut(s)), A, A)
  BY <1>1, RunLock, LocksThere
<1>3. Runs(WithEpoll, A \cup {Mut(s)}, A \cup {Mut(s)})
  BY <1>1, Innermost
<1> QED
  BY <1>2, <1>3, RunBoth

(* mut_session is outermost; the other two pairs need nothing held.        *)
LEMMA Outer ==
  /\ Runs(Lock(SessionArr), {}, {SessionArr}) /\ Runs(Unlock(SessionArr), {SessionArr}, {})
  /\ Runs(WithCount, {}, {}) /\ Runs(WithEpoll, {}, {})
<1>1. {} \cup {SessionArr} = {SessionArr}
  OBVIOUS
<1>2. /\ Runs(Lock(SessionArr), {}, {} \cup {SessionArr})
      /\ Runs(Unlock(SessionArr), {} \cup {SessionArr}, {})
  BY RunLock, LocksThere
<1> QED
  BY <1>1, <1>2, Innermost

(* addClient's programs go on with mut_session and let go of it.           *)
LEMMA HandlerPrograms ==
  ASSUME NEW s \in Sessions
  PROVE  /\ Runs(Found(s), {SessionArr}, {}) /\ Runs(Full(s), {SessionArr}, {})
         /\ Runs(Missed(s), {SessionArr}, {})
<1>1. {SessionArr} \in SUBSET LockSet
  BY LocksThere
<1>2. Runs(Found(s), {SessionArr}, {}) /\ Runs(Full(s), {SessionArr}, {})
  <2>1. Runs(Lock(Mut(s)) \o WithEpoll \o Unlock(Mut(s)) \o Unlock(SessionArr), {SessionArr}, {})
    BY Inner, Outer, RunBoth
  <2>2. Runs(Full(s), {SessionArr}, {})
    BY Inner, Outer, RunBoth DEF Full
  <2> QED
    BY <2>1, <2>2, Outer, RunBoth DEF Found
<1>3. Runs(Missed(s), {SessionArr}, {})
  <2> DEFINE A == {SessionArr}
             M == A \cup {Mut(s)}
             a == Unlock(SessionArr) \o Lock(SessionArr) \o Op("spawn", s) \o Op("enter", s)
             b == a \o Lock(Mut(s)) \o WithEpoll \o Unlock(Mut(s))
  <2>1. Runs(Unlock(SessionArr) \o Lock(SessionArr), A, A)
    BY Outer, RunBoth
  <2>2. Runs(a, A, A)
    BY <2>1, <1>1, RunOp, RunBoth
  <2>3. Runs(Lock(Mut(s)), A, M) /\ Runs(WithEpoll, M, M) /\ Runs(Unlock(Mut(s)), M, A)
    BY Inner
  <2> HIDE DEF a
  <2>4. Runs(a \o Lock(Mut(s)), A, M)
    BY <2>2, <2>3, RunBoth
  <2>5. Runs(a \o Lock(Mut(s)) \o WithEpoll, A, M)
    BY <2>3, <2>4, RunBoth
  <2>6. Runs(b, A, A)
    BY <2>3, <2>5, RunBoth
  <2> HIDE DEF b
  <2>7. Runs(b \o Unlock(SessionArr) \o WithCount \o WithCount, A, {})
    BY <2>6, Outer, RunBoth
  <2> USE DEF a, b
  <2> QED
    BY <2>7 DEF Missed
<1> QED
  BY <1>2, <1>3

(* The epoll thread's programs take what they need and keep nothing;       *)
(* delSession's first part ends at its NULL check with mut_session held.   *)
LEMMA EpollPrograms ==
  ASSUME NEW s \in Sessions
  PROVE  /\ Runs(Drop(s), {}, {}) /\ Runs(Delete(s), {}, {})
         /\ Runs(Purge(s), {SessionArr}, {})
<1>1. {SessionArr} \in SUBSET LockSet
  BY LocksThere
<1>2. Runs(Drop(s), {}, {})
  <2>1. Runs(Lock(Mut(s)), {}, {} \cup {Mut(s)}) /\ Runs(Unlock(Mut(s)), {} \cup {Mut(s)}, {})
    BY Inner
  <2>2. Runs(WithEpoll \o Lock(Mut(s)), {}, {} \cup {Mut(s)})
    BY <2>1, Outer, RunBoth
  <2>3. Runs(WithEpoll \o Lock(Mut(s)) \o Unlock(Mut(s)), {}, {})
    BY <2>1, <2>2, RunBoth
  <2> QED
    BY <2>3, Outer, RunBoth DEF Drop
<1>3. Runs(Delete(s), {}, {})
  <2>1. Runs(Op("stop", s) \o Op("join", s), {}, {})
    BY RunOp, RunBoth
  <2>2. Runs(Op("stop", s) \o Op("join", s) \o Lock(SessionArr), {}, {SessionArr})
    BY <2>1, Outer, RunBoth
  <2> QED
    BY <2>2, RunOp, RunBoth DEF Delete
<1>4. Runs(Purge(s), {SessionArr}, {})
  <2> DEFINE a == Lock(Mut(s)) \o WithEpoll \o Unlock(Mut(s))
  <2>1. Runs(a, {SessionArr}, {SessionArr}) /\ Runs(Op("remove", s), {SessionArr}, {SessionArr})
    BY <1>1, Inner, RunOp
  <2> HIDE DEF a
  <2>2. Runs(a \o Op("remove", s), {SessionArr}, {SessionArr})
    BY <2>1, RunBoth
  <2>3. Runs(a \o Op("remove", s) \o Unlock(SessionArr) \o WithCount, {SessionArr}, {})
    BY <2>2, Outer, RunBoth
  <2> QED
    BY <2>3 DEF a, Purge
<1> QED
  BY <1>2, <1>3, <1>4

(* mediaCallBack and the epoll thread's pop take the same two locks.       *)
LEMMA RingPrograms ==
  ASSUME NEW s \in Sessions
  PROVE  Runs(Pop(s), {}, {}) /\ Runs(CallBack(s), {}, {})
<1> DEFINE M == {} \cup {Mut(s)}
<1>1. Runs(Lock(Mut(s)), {}, M) /\ Runs(Unlock(Mut(s)), M, {}) /\ M \in SUBSET LockSet
  BY Inner, LocksThere
<1>2. /\ Runs(Lock(MutList(s)), M, M \cup {MutList(s)})
      /\ Runs(Unlock(MutList(s)), M \cup {MutList(s)}, M)
  <2>1. \A m \in M : Rank(m) < Rank(MutList(s))
    BY Ranks
  <2> QED
    BY <1>1, <2>1, RunLock, LocksThere
<1>3. Runs(Lock(Mut(s)) \o Lock(MutList(s)), {}, M \cup {MutList(s)})
  BY <1>1, <1>2, RunBoth
<1>4. Runs(Lock(Mut(s)) \o Lock(MutList(s)) \o Unlock(MutList(s)), {}, M)
  BY <1>2, <1>3, RunBoth
<1> QED
  BY <1>1, <1>4, RunBoth DEF Pop, CallBack

-----------------------------------------------------------------------------
(* The inductive invariant: what each thread holds is what the rest of its *)
(* program counts on.  sig_handler counts only on the locks it took itself;*)
(* the thread it interrupted may hold others.                              *)

(* A program of t that counts on the locks A.  Only a handler's may end    *)
(* with a lock held: the one that scans, with mut_session.                 *)
MayRun(t, p, A) ==
  \/ Runs(p, A, {})
  \/ Runs(p, A, {SessionArr}) /\ t \in Handlers

(* A thread whose program counts on what it holds.                         *)
InOrder(t) ==
  \E A \in SUBSET Held(t) : MayRun(t, todo[t], A) /\ (t # sig => A = Held(t))

(* A media thread only locks and unlocks; it never joins another thread.   *)
LockOps == {x \in Ops : x.op \in {"lock", "unlock"}}

MediaOnlyLock == \A s \in Sessions \ {sig} : todo[s] \in Seq(LockOps)

IInv == TypeOK /\ (\A t \in Threads : InOrder(t)) /\ MediaOnlyLock

(* What is left of a program after its next operation.                     *)
Rest(t) == Tail(todo[t])

(* A thread that no step concerns stays in order.                          *)
LEMMA StaysInOrder ==
  ASSUME NEW t \in Threads, InOrder(t), todo'[t] = todo[t], Held(t)' = Held(t),
         t # sig' => t # sig
  PROVE  InOrder(t)'
BY DEF InOrder

(* A thread that begins a program it may begin.                            *)
LEMMA StartStep ==
  ASSUME IInv, NEW t \in Threads, NEW p, NEW s \in Sessions \cup {Null}, Start(t, p, s),
         NEW A \in SUBSET Held(t), MayRun(t, p, A), t # sig => A = Held(t),
         t \in Sessions \ {sig} => p \in Seq(LockOps), visited' \in 0 .. FILEMAX
  PROVE  IInv'
<1>1. /\ todo' = [todo EXCEPT ![t] = p] /\ about' = [about EXCEPT ![t] = s]
      /\ UNCHANGED <<owner, registered, media, sig, ended, sigint>>
  BY DEF Start
<1>2. DOMAIN todo = Threads /\ todo'[t] = p /\ \A u \in Threads \ {t} : todo'[u] = todo[u]
  BY <1>1 DEF IInv, TypeOK
<1>3. TypeOK'
  BY <1>1 DEF IInv, TypeOK
<1>4. \A u \in Threads : Held(u)' = Held(u)
  BY <1>1 DEF Held
<1>5. InOrder(t)'
  BY <1>1, <1>2, <1>4 DEF InOrder
<1>6. \A u \in Threads \ {t} : InOrder(u)'
  BY <1>1, <1>2, <1>4, StaysInOrder DEF IInv
<1>7. MediaOnlyLock'
  BY <1>1, <1>2 DEF IInv, MediaOnlyLock, Threads
<1> QED
  BY <1>3, <1>5, <1>6, <1>7 DEF IInv

(* A thread that executes the next operation of its program.               *)
LEMMA AdvanceStep ==
  ASSUME IInv, NEW t \in Threads, ~Idle(t), Advance(t), UNCHANGED shutdownVars,
         owner' \in [LockSet -> Threads \cup {Null}], registered' \subseteq Sessions,
         media' \in [Sessions -> {"none", "running", "stopping", "exited"}],
         \A u \in Threads \ {t} : Held(u)' = Held(u),
         NEW C \in SUBSET Held(t)', MayRun(t, Rest(t), C), t # sig => C = Held(t)'
  PROVE  IInv'
<1>1. /\ todo' = [todo EXCEPT ![t] = Tail(@)] /\ sig' = sig
      /\ about' = [about EXCEPT ![t] = IF Len(todo[t]) = 1 THEN Null ELSE @]
      /\ UNCHANGED <<sig, visited, ended, sigint>>
  BY DEF Advance, shutdownVars
<1>2. /\ DOMAIN todo = Threads /\ todo'[t] = Tail(todo[t])
      /\ \A u \in Threads \ {t} : todo'[u] = todo[u]
  BY <1>1 DEF IInv, TypeOK
<1>3. TypeOK'
  BY <1>1 DEF IInv, TypeOK
<1>4. InOrder(t)'
  BY <1>1, <1>2 DEF InOrder, Rest, MayRun
<1>5. \A u \in Threads \ {t} : InOrder(u)'
  BY <1>1, <1>2, StaysInOrder DEF IInv
<1>6. MediaOnlyLock'
  <2>1. ASSUME NEW s \in Sessions \ {sig} PROVE todo'[s] \in Seq(LockOps)
    <3>1. todo[s] \in Seq(LockOps) /\ s \in Threads
      BY DEF IInv, MediaOnlyLock, Threads
    <3>2. CASE s = t
      BY <3>1, <3>2, <1>2 DEF Idle
    <3>3. CASE s # t
      BY <3>1, <3>3, <1>2
    <3> QED
      BY <3>2, <3>3
  <2> QED
    BY <2>1, <1>1 DEF MediaOnlyLock
<1> QED
  BY <1>3, <1>4, <1>5, <1>6 DEF IInv

(* What a thread in order finds at the head of its program.                *)
LEMMA NextOp ==
  ASSUME IInv, NEW t \in Threads, ~Idle(t)
  PROVE  /\ Head(todo[t]) \in Ops
         /\ \E A \in SUBSET Held(t), C \in SUBSET LockSet :
              /\ Fits(Head(todo[t]), A, C) /\ MayRun(t, Rest(t), C)
              /\ t # sig => A = Held(t)
<1>1. PICK A \in SUBSET Held(t) : MayRun(t, todo[t], A) /\ (t # sig => A = Held(t))
  BY DEF IInv, InOrder
<1>2. todo[t] # <<>>
  BY DEF Idle
<1> QED
  BY <1>1, <1>2, RunStep DEF Rest, MayRun

(* Taking a lock, as the program expects.                                  *)
LEMMA AcquireStep == ASSUME IInv, NEW t \in Threads, Acquire(t) PROVE IInv'
<1>1. /\ ~Idle(t) /\ Head(todo[t]).op = "lock" /\ owner[On(t)] = Null
      /\ owner' = [owner EXCEPT ![On(t)] = t]
      /\ Advance(t) /\ UNCHANGED <<registered, media>> /\ UNCHANGED shutdownVars
  BY DEF Acquire, Doing
<1>2. PICK A \in SUBSET Held(t), C \in SUBSET LockSet :
        /\ Fits(Head(todo[t]), A, C) /\ MayRun(t, Rest(t), C)
        /\ t # sig => A = Held(t)
  BY <1>1, NextOp
<1>3. On(t) \in LockSet /\ C = A \cup {On(t)}
  BY <1>1, <1>2 DEF Fits, On
<1>4. owner \in [LockSet -> Threads \cup {Null}]
  BY DEF IInv, TypeOK
<1>5. Held(t)' = Held(t) \cup {On(t)} /\ \A u \in Threads \ {t} : Held(u)' = Held(u)
  BY <1>1, <1>3, <1>4, LocksAssumption DEF Held, Threads
<1>6. /\ owner' \in [LockSet -> Threads \cup {Null}] /\ registered' \subseteq Sessions
      /\ media' \in [Sessions -> {"none", "running", "stopping", "exited"}]
  BY <1>1, <1>3, <1>4 DEF IInv, TypeOK
<1>7. C \in SUBSET Held(t)' /\ (t # sig => C = Held(t)')
  BY <1>2, <1>3, <1>5
<1> QED
  BY <1>1, <1>2, <1>5, <1>6, <1>7, AdvanceStep

(* Releasing a lock, which the thread holds.                               *)
LEMMA ReleaseStep == ASSUME IInv, NEW t \in Threads, Release(t) PROVE IInv'
<1>1. /\ ~Idle(t) /\ Head(todo[t]).op = "unlock"
      /\ owner' = [owner EXCEPT ![On(t)] = Null]
      /\ Advance(t) /\ UNCHANGED <<registered, media>> /\ UNCHANGED shutdownVars
  BY DEF Release, Doing
<1>2. PICK A \in SUBSET Held(t), C \in SUBSET LockSet :
        /\ Fits(Head(todo[t]), A, C) /\ MayRun(t, Rest(t), C)
        /\ t # sig => A = Held(t)
  BY <1>1, NextOp
<1>3. On(t) \in A /\ C = A \ {On(t)}
  BY <1>1, <1>2 DEF Fits, On
<1>4. owner \in [LockSet -> Threads \cup {Null}] /\ On(t) \in LockSet /\ owner[On(t)] = t
  BY <1>2, <1>3 DEF IInv, TypeOK, Held
<1>5. Held(t)' = Held(t) \ {On(t)} /\ \A u \in Threads \ {t} : Held(u)' = Held(u)
  BY <1>1, <1>4, LocksAssumption DEF Held, Threads
<1>6. /\ owner' \in [LockSet -> Threads \cup {Null}] /\ registered' \subseteq Sessions
      /\ media' \in [Sessions -> {"none", "running", "stopping", "exited"}]
  BY <1>1, <1>4 DEF IInv, TypeOK
<1>7. C \in SUBSET Held(t)' /\ (t # sig => C = Held(t)')
  BY <1>2, <1>3, <1>5
<1> QED
  BY <1>1, <1>2, <1>5, <1>6, <1>7, AdvanceStep

(* The steps that take and release nothing.                                *)
LEMMA WorkStep ==
  ASSUME IInv, NEW t \in Threads, ~Idle(t), Advance(t), UNCHANGED owner, UNCHANGED shutdownVars,
         Head(todo[t]).op \in {"spawn", "enter", "remove", "stop", "join"},
         registered' \in {registered, registered \cup {On(t)}, registered \ {On(t)}},
         \/ media' = media
         \/ \E m \in {"none", "running", "stopping"} : media' = [media EXCEPT ![On(t)] = m]
  PROVE  IInv'
<1>1. PICK A \in SUBSET Held(t), C \in SUBSET LockSet :
        /\ Fits(Head(todo[t]), A, C) /\ MayRun(t, Rest(t), C)
        /\ t # sig => A = Held(t)
  BY NextOp
<1>2. On(t) \in Sessions /\ C = A
  BY <1>1 DEF Fits, On
<1>3. \A u \in Threads : Held(u)' = Held(u)
  BY DEF Held
<1>4. /\ owner' \in [LockSet -> Threads \cup {Null}] /\ registered' \subseteq Sessions
      /\ media' \in [Sessions -> {"none", "running", "stopping", "exited"}]
  BY <1>2 DEF IInv, TypeOK
<1>5. C \in SUBSET Held(t)' /\ (t # sig => C = Held(t)')
  BY <1>1, <1>2, <1>3
<1> QED
  BY <1>1, <1>3, <1>4, <1>5, AdvanceStep

(* The NULL check goes on with mut_session held, or returns.               *)
LEMMA CheckStep == ASSUME IInv, NEW t \in Threads, CheckEntry(t) PROVE IInv'
<1>1. /\ ~Idle(t) /\ Head(todo[t]).op = "check"
      /\ UNCHANGED <<about, owner, registered, media, sig, visited, ended, sigint>>
      /\ \E p \in {Purge(On(t)), Unlock(SessionArr)} : todo' = [todo EXCEPT ![t] = p]
  BY DEF CheckEntry, Doing, shutdownVars
<1>2. PICK A \in SUBSET Held(t), C \in SUBSET LockSet :
        /\ Fits(Head(todo[t]), A, C) /\ MayRun(t, Rest(t), C)
        /\ t # sig => A = Held(t)
  BY <1>1, NextOp
<1>3. On(t) \in Sessions /\ A = {SessionArr}
  BY <1>1, <1>2 DEF Fits, On
<1>4. PICK p : Runs(p, A, {}) /\ todo' = [todo EXCEPT ![t] = p]
  BY <1>1, <1>3, EpollPrograms, Outer
<1>5. t \notin Sessions \ {sig}
  <2>1. SUFFICES ASSUME t \in Sessions \ {sig} PROVE FALSE
    OBVIOUS
  <2>2. todo[t] \in Seq(LockOps) /\ todo[t] # <<>>
    BY <1>1, <2>1 DEF IInv, MediaOnlyLock, Idle
  <2>3. Head(todo[t]) \in LockOps
    BY <2>2
  <2> QED
    BY <1>1, <2>3 DEF LockOps
<1>6. Start(t, p, about[t])
  BY <1>1, <1>4 DEF Start, IInv, TypeOK
<1>7. MayRun(t, p, A)
  BY <1>3, <1>4 DEF MayRun
<1>8. visited' \in 0 .. FILEMAX /\ about[t] \in Sessions \cup {Null}
  BY <1>1 DEF IInv, TypeOK
<1> QED
  BY <1>2, <1>5, <1>6, <1>7, <1>8, StartStep

(* The end of the process leaves nothing behind.                           *)
LEMMA DieStep ==
  ASSUME IInv, NEW how \in {"exit", "null_entry", "freed_media"}, Die(how)
  PROVE  IInv'
<1>1. TypeOK'
  BY LocksAssumption DEF Die, IInv, TypeOK
<1>2. ASSUME NEW t \in Threads PROVE InOrder(t)'
  <2>1. todo'[t] = <<>> /\ Held(t)' = {}
    BY <1>2, LocksAssumption DEF Die, Held, Threads
  <2>2. Runs(<<>>, {}, {})
    BY RunNothing
  <2> QED
    BY <2>1, <2>2 DEF InOrder, MayRun
<1>3. MediaOnlyLock'
  BY DEF Die, MediaOnlyLock, Threads
<1> QED
  BY <1>1, <1>2, <1>3 DEF IInv

(* Every operation of a program.                                           *)
LEMMA StepsInOrder == ASSUME IInv, NEW t \in Threads, Step(t) PROVE IInv'
<1>1. CASE Acquire(t)
  BY <1>1, AcquireStep
<1>2. CASE Release(t)
  BY <1>2, ReleaseStep
<1>3. CASE Spawn(t)
  BY <1>3, WorkStep DEF Spawn, Doing
<1>4. CASE Stop(t)
  <2>1. media' = [media EXCEPT ![On(t)] = "stopping"] \/ media' = media
    BY <1>4 DEF Stop, IInv, TypeOK
  <2> QED
    BY <1>4, <2>1, WorkStep DEF Stop, Doing
<1>5. CASE JoinThread(t)
  BY <1>5, WorkStep DEF JoinThread, Doing
<1>6. CASE JoinReturns(t)
  <2>1. CASE Die("freed_media")
    BY <2>1, DieStep
  <2>2. CASE Advance(t) /\ UNCHANGED <<owner, registered, media, shutdownVars>>
    BY <1>6, <2>2, WorkStep DEF JoinReturns, Doing
  <2> QED
    BY <1>6, <2>1, <2>2 DEF JoinReturns
<1>7. CASE CheckEntry(t)
  BY <1>7, CheckStep
<1>8. CASE Enter(t) \/ Remove(t)
  BY <1>8, WorkStep DEF Enter, Remove, Doing
<1> QED
  BY <1>1, <1>2, <1>3, <1>4, <1>5, <1>6, <1>7, <1>8 DEF Step

(* A thread with nothing left to do holds nothing, but for a handler that  *)
(* has scanned and the thread sig_handler interrupted.                     *)
LEMMA IdleHolds ==
  ASSUME IInv, NEW t \in Threads \ {sig}, Idle(t)
  PROVE  Held(t) = {} \/ (Held(t) = {SessionArr} /\ t \in Handlers)
<1>1. PICK A \in SUBSET Held(t) : MayRun(t, <<>>, A) /\ A = Held(t)
  BY DEF IInv, InOrder, Idle
<1>2. A \in SUBSET LockSet
  BY DEF Held
<1> QED
  BY <1>1, <1>2, RunNothing DEF MayRun

(* The programs that threads begin, a handler's with what its scan left.   *)
LEMMA BeginsInOrder ==
  ASSUME IInv, NEW t \in Threads,
         \/ t \in Handlers /\ (BeginScan(t) \/ EndScan(t))
         \/ t = EpollThd /\ BeginEpoll
         \/ t \in Sessions /\ BeginCallBack(t)
  PROVE  IInv'
<1>1. /\ t # sig /\ Idle(t) /\ visited' \in 0 .. FILEMAX
      /\ registered \subseteq Sessions
  BY DEF BeginScan, EndScan, BeginEpoll, BeginCallBack, Normal, IInv, TypeOK
<1>2. t \notin Handlers => Held(t) = {}
  BY <1>1, IdleHolds
<1>3. CASE t \in Handlers /\ BeginScan(t)
  <2>1. Start(t, Scan, Null) /\ Held(t) = {} /\ t \notin Sessions
    BY <1>3, LocksAssumption DEF BeginScan
  <2>2. MayRun(t, Scan, {})
    BY <1>3, Outer DEF MayRun, Scan
  <2> QED
    BY <1>1, <2>1, <2>2, StartStep
<1>4. CASE t \in Handlers /\ EndScan(t)
  <2>1. Held(t) = {SessionArr} /\ t \notin Sessions
    BY <1>1, <1>4, IdleHolds, LocksThere, LocksAssumption DEF EndScan, Held
  <2>2. ASSUME NEW p, NEW s \in Sessions \cup {Null}, Start(t, p, s),
               Runs(p, {SessionArr}, {})
        PROVE  IInv'
    BY <1>1, <2>1, <2>2, StartStep DEF MayRun
  <2>3. ASSUME NEW s \in registered, Start(t, Found(s), s) \/ Start(t, Full(s), s) PROVE IInv'
    BY <1>1, <2>2, <2>3, HandlerPrograms
  <2>4. ASSUME NEW s \in Sessions, Start(t, Missed(s), s) PROVE IInv'
    BY <2>2, <2>4, HandlerPrograms
  <2>5. CASE Start(t, Unlock(SessionArr), Null)
    BY <2>2, <2>5, Outer
  <2> QED
    BY <1>4, <2>3, <2>4, <2>5 DEF EndScan
<1>5. CASE t = EpollThd /\ BeginEpoll
  <2>1. Held(t) = {} /\ t \notin Sessions
    BY <1>2, <1>5, LocksAssumption
  <2>2. ASSUME NEW p, NEW s \in Sessions \cup {Null}, Start(t, p, s), Runs(p, {}, {})
        PROVE  IInv'
    BY <1>1, <2>1, <2>2, StartStep DEF MayRun
  <2>3. ASSUME NEW s \in registered,
               Start(t, Pop(s), s) \/ Start(t, Drop(s), s) \/ Start(t, Delete(s), s)
        PROVE  IInv'
    BY <1>1, <2>2, <2>3, EpollPrograms, RingPrograms
  <2>4. CASE Start(t, WithEpoll, Null)
    BY <2>2, <2>4, Outer
  <2> QED
    BY <1>5, <2>3, <2>4 DEF BeginEpoll
<1>6. CASE t \in Sessions /\ BeginCallBack(t)
  <2>1. Start(t, CallBack(t), t) /\ Held(t) = {}
    BY <1>2, <1>6, LocksAssumption DEF BeginCallBack
  <2>2. MayRun(t, CallBack(t), {})
    BY <1>6, RingPrograms DEF MayRun
  <2>3. CallBack(t) \in Seq(LockOps)
    <3>1. ASSUME NEW l \in LockSet PROVE Lock(l) \in Seq(LockOps) /\ Unlock(l) \in Seq(LockOps)
      BY <3>1 DEF Lock, Unlock, Op, LockOps, Ops
    <3>2. /\ Lock(Mut(t)) \in Seq(LockOps) /\ Lock(MutList(t)) \in Seq(LockOps)
          /\ Unlock(Mut(t)) \in Seq(LockOps) /\ Unlock(MutList(t)) \in Seq(LockOps)
      BY <1>6, <3>1, LocksThere
    <3> QED
      BY <3>2 DEF CallBack
  <2> QED
    BY <1>1, <1>6, <2>1, <2>2, <2>3, StartStep
<1> QED
  BY <1>3, <1>4, <1>5, <1>6

(* SIGINT and moduleDel.                                                   *)
LEMMA ShutdownInOrder ==
  ASSUME IInv, ModuleDel \/ \E t \in Threads : Interrupt(t)
  PROVE  IInv'
<1>1. CASE DeleteNext
  <2>1. PICK s \in registered : Start(sig, Delete(s), s)
    BY <1>1 DEF DeleteNext
  <2>2. sig \in Threads /\ s \in Sessions /\ visited' \in 0 .. FILEMAX
    BY <1>1, LocksAssumption DEF DeleteNext, IInv, TypeOK
  <2>3. MayRun(sig, Delete(s), {})
    BY <2>2, EpollPrograms DEF MayRun
  <2> QED
    BY <2>1, <2>2, <2>3, StartStep
<1>2. CASE ReadEmptyEntry \/ Exit
  BY <1>2, DieStep DEF ReadEmptyEntry, Exit
<1>3. ASSUME NEW t \in Threads, Interrupt(t), SigHandler(t) PROVE IInv'
  <2>1. /\ sig = Null /\ sig' = t
        /\ todo' = [todo EXCEPT ![t] = <<>>] /\ about' = [about EXCEPT ![t] = Null]
        /\ UNCHANGED <<owner, registered, media, visited, ended, sigint>>
    BY <1>3 DEF Interrupt, SigHandler
  <2>2. TypeOK'
    BY <1>3, <2>1 DEF IInv, TypeOK
  <2>3. \A u \in Threads : Held(u)' = Held(u)
    BY <2>1 DEF Held
  <2>4. DOMAIN todo = Threads /\ todo'[t] = <<>> /\ \A u \in Threads \ {t} : todo'[u] = todo[u]
    BY <2>1 DEF IInv, TypeOK
  <2>5. InOrder(t)'
    <3>1. MayRun(t, <<>>, {})
      BY RunNothing DEF MayRun
    <3> QED
      BY <2>1, <2>4, <3>1 DEF InOrder
  <2>6. ASSUME NEW u \in Threads \ {t} PROVE InOrder(u)'
    <3>1. u # sig
      BY <2>1, LocksAssumption DEF Threads
    <3> QED
      BY <2>3, <2>4, <3>1, StaysInOrder DEF IInv
  <2>7. MediaOnlyLock'
    BY <2>1, <2>4, LocksAssumption DEF IInv, MediaOnlyLock, Threads
  <2> QED
    BY <2>2, <2>5, <2>6, <2>7 DEF IInv
<1>4. CASE SigHandlerMedia
  BY <1>4, DieStep DEF SigHandlerMedia
<1> QED
  BY <1>1, <1>2, <1>3, <1>4 DEF ModuleDel, Interrupt

(* The invariant holds initially ...                                       *)
LEMMA InitInOrder == Init => IInv
<1> SUFFICES ASSUME Init PROVE IInv
  OBVIOUS
<1>1. TypeOK
  BY LocksAssumption DEF Init, TypeOK
<1>2. ASSUME NEW t \in Threads PROVE InOrder(t)
  <2>1. todo[t] = <<>> /\ Held(t) = {}
    BY <1>2, LocksAssumption DEF Init, Held, Threads
  <2>2. MayRun(t, <<>>, {})
    BY RunNothing DEF MayRun
  <2> QED
    BY <2>1, <2>2 DEF InOrder
<1>3. MediaOnlyLock
  BY DEF Init, MediaOnlyLock, Threads
<1> QED
  BY <1>1, <1>2, <1>3 DEF IInv

(* ... and every step keeps it.                                            *)
LEMMA NextInOrder == IInv /\ [Next]_vars => IInv'
<1> SUFFICES ASSUME IInv, [Next]_vars PROVE IInv'
  OBVIOUS
<1>1. ASSUME NEW s \in Sessions, MediaExits(s) PROVE IInv'
  <2>1. /\ media' = [media EXCEPT ![s] = "exited"] /\ about' = [about EXCEPT ![s] = Null]
        /\ UNCHANGED <<todo, owner, registered, sig, visited, ended, sigint>>
    BY <1>1 DEF MediaExits, shutdownVars
  <2>2. TypeOK'
    BY <2>1 DEF IInv, TypeOK, Threads
  <2>3. \A u \in Threads : Held(u)' = Held(u)
    BY <2>1 DEF Held
  <2> QED
    BY <2>1, <2>2, <2>3, StaysInOrder DEF IInv, MediaOnlyLock
<1>2. CASE UNCHANGED vars
  <2>1. UNCHANGED <<todo, about, owner, registered, media, sig, visited, ended, sigint>>
    BY <1>2 DEF vars, shutdownVars
  <2>2. TypeOK' /\ \A u \in Threads : Held(u)' = Held(u)
    BY <2>1 DEF IInv, TypeOK, Held
  <2> QED
    BY <2>1, <2>2, StaysInOrder DEF IInv, MediaOnlyLock
<1>3. CASE \E h \in Handlers : BeginScan(h) \/ EndScan(h)
  BY <1>3, BeginsInOrder DEF Threads
<1>4. CASE BeginEpoll
  BY <1>4, BeginsInOrder DEF Threads
<1>5. CASE \E s \in Sessions : BeginCallBack(s)
  BY <1>5, BeginsInOrder DEF Threads
<1>6. CASE \E t \in Threads : Step(t)
  BY <1>6, StepsInOrder
<1>7. CASE ModuleDel \/ \E t \in Threads : Interrupt(t)
  BY <1>7, ShutdownInOrder
<1> QED
  BY <1>1, <1>2, <1>3, <1>4, <1>5, <1>6, <1>7 DEF Next, Ended, Stuck

-----------------------------------------------------------------------------
(* In every interleaving, before and during a shutdown, what each thread   *)
(* holds is what the rest of its program counts on.                        *)
THEOREM LocksInvariant == Spec => []IInv
  BY InitInOrder, NextInOrder, PTL DEF Spec

(* The types: each lock has one owner or none, session_arr holds sessions. *)
THEOREM LocksTypeOK == Spec => []TypeOK
<1>1. IInv => TypeOK
  BY DEF IInv
<1> QED
  BY <1>1, LocksInvariant, PTL

(* The head of a program in order, for a thread sig_handler is not on.     *)
LEMMA NormalOp ==
  ASSUME IInv, NEW t \in Threads \ {sig}, ~Idle(t)
  PROVE  \E C : Fits(Head(todo[t]), Held(t), C)
BY NextOp

(* A lock that is wanted fits what the thread holds, so it ranks higher.   *)
LEMMA InOrderLocks == IInv => LockOrder
<1> SUFFICES ASSUME IInv, NEW t \in Threads \ {sig}, Doing(t, "lock"), NEW l \in Held(t)
             PROVE  Rank(l) < Rank(On(t))
  BY DEF LockOrder
<1>1. \E C : Fits(Head(todo[t]), Held(t), C)
  BY NormalOp DEF Doing
<1> QED
  BY <1>1 DEF Doing, Fits, On

(* A join fits only a thread that holds nothing.                           *)
LEMMA InOrderJoins == IInv => JoinHoldsNothing
<1> SUFFICES ASSUME IInv, NEW t \in Threads \ {sig}, Doing(t, "stop") \/ Doing(t, "join")
             PROVE  Held(t) = {}
  BY DEF JoinHoldsNothing
<1>1. \E C : Fits(Head(todo[t]), Held(t), C)
  BY NormalOp DEF Doing
<1> QED
  BY <1>1 DEF Doing, Fits

(* Every thread takes its locks in the order session.c:114 prescribes.     *)
THEOREM OrderedLocks == Spec => []LockOrder
  BY InOrderLocks, LocksInvariant, PTL

(* delSession stops and joins a media thread with no lock held.            *)
THEOREM JoinsUnlocked == Spec => []JoinHoldsNothing
  BY InOrderJoins, LocksInvariant, PTL

(* Why ranks exclude a circle: of threads that all wait for each other,    *)
(* each waits for a lock, whose holder waits for one of higher rank.       *)
LEMMA NoCircle == IInv => NoCircularWait
<1> SUFFICES ASSUME IInv, NEW D \in SUBSET (Threads \ {sig}), D # {},
                    \A t \in D : WaitsFor(t) \in D
             PROVE  FALSE
  BY DEF NoCircularWait
<1> DEFINE Wants(t, r) == Doing(t, "lock") /\ Rank(On(t)) = r
<1>1. Null \notin D
  BY LocksAssumption DEF Threads
<1>2. ASSUME NEW t \in D, Doing(t, "lock")
      PROVE  /\ owner[On(t)] \in D /\ On(t) \in Held(owner[On(t)])
             /\ Rank(On(t)) \in 1 .. 5
  <2>1. On(t) \in LockSet
    BY <1>2, NextOp DEF Doing, Fits, On
  <2> QED
    BY <1>2, <2>1, Ranks DEF WaitsFor, Held
<1>3. ASSUME NEW t \in D, ~Doing(t, "lock")
      PROVE  Doing(t, "join") /\ On(t) \in D \cap Sessions
  <2>1. Doing(t, "join") /\ On(t) \in D
    BY <1>1, <1>3 DEF WaitsFor
  <2>2. On(t) \in Sessions
    BY <2>1, NextOp DEF Doing, Fits, On
  <2> QED
    BY <2>1, <2>2
<1>4. ASSUME NEW t \in D \cap Sessions PROVE Doing(t, "lock")
  <2>1. SUFFICES ASSUME Doing(t, "join") PROVE FALSE
    BY <1>3
  <2>2. todo[t] \in Seq(LockOps) /\ todo[t] # <<>>
    BY <2>1 DEF IInv, MediaOnlyLock, Doing, Idle
  <2>3. Head(todo[t]) \in LockOps
    BY <2>2
  <2> QED
    BY <2>1, <2>3 DEF Doing, LockOps
(* Whoever waits for a lock waits for one that wants a higher one.         *)
<1>5. ASSUME NEW t \in D, NEW r \in 1 .. 5, Wants(t, r)
      PROVE  \E u \in D, q \in 1 .. 5 : Wants(u, q) /\ r < q
  <2> DEFINE u == owner[On(t)]
  <2>1. u \in D /\ On(t) \in Held(u)
    BY <1>2, <1>5
  <2>2. Doing(u, "lock")
    <3>1. SUFFICES ASSUME Doing(u, "join") PROVE FALSE
      BY <1>3, <2>1
    <3> QED
      BY <2>1, <3>1, InOrderJoins DEF JoinHoldsNothing
  <2>3. Rank(On(t)) < Rank(On(u))
    BY <2>1, <2>2, InOrderLocks DEF LockOrder
  <2>4. Rank(On(u)) \in 1 .. 5
    BY <1>2, <2>1, <2>2
  <2> QED
    BY <1>5, <2>1, <2>2, <2>3, <2>4
<1> HIDE DEF Wants
<1>6. \A t \in D : ~Wants(t, 5)
  BY <1>5
<1>7. \A t \in D : ~Wants(t, 4)
  BY <1>5, <1>6
<1>8. \A t \in D : ~Wants(t, 3)
  BY <1>5, <1>6, <1>7
<1>9. \A t \in D : ~Wants(t, 2)
  BY <1>5, <1>6, <1>7, <1>8
<1>10. \A t \in D : ~Wants(t, 1)
  BY <1>5, <1>6, <1>7, <1>8, <1>9
<1>11. \A t \in D : ~Doing(t, "lock")
  BY <1>2, <1>6, <1>7, <1>8, <1>9, <1>10 DEF Wants
<1> QED
  BY <1>3, <1>4, <1>11

(* No set of threads waits for each other in a circle, however many there  *)
(* are, but for the thread sig_handler interrupted.                        *)
THEOREM NobodyWaitsInCircle == Spec => []NoCircularWait
  BY NoCircle, LocksInvariant, PTL

=============================================================================
