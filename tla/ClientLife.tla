----------------------------- MODULE ClientLife -----------------------------
(***************************************************************************)
(* What the server promises the people in front of their players, whatever *)
(* sessions, threads and locks it uses: a PLAY is admitted, or refused     *)
(* because a session is full; a viewer is disconnected only after leaving, *)
(* or together with a session that ran empty just before.                  *)
(***************************************************************************)
EXTENDS Naturals, FiniteSets

CONSTANTS
  Conns,     \* the connections
  CLIENTMAX  \* the viewers a session can have

VARIABLES
  life,     \* what each viewer sees: "asking", "playing", "refused", "over"
  present,  \* the viewers who have not left
  emptied   \* a session ran empty and is being deleted

vars == <<life, present, emptied>>

Playing == {c \in Conns : life[c] = "playing"}

Init ==
  /\ life = [c \in Conns |-> "asking"] /\ present = Conns /\ emptied = FALSE

Depart(c) ==
  /\ c \in Playing \cap present
  /\ present' = present \ {c} /\ UNCHANGED <<life, emptied>>

Admit(c) ==
  /\ life[c] = "asking" /\ life' = [life EXCEPT ![c] = "playing"]
  /\ UNCHANGED <<present, emptied>>

Refuse(c) ==
  /\ life[c] = "asking" /\ Cardinality(Playing) >= CLIENTMAX
  /\ life' = [life EXCEPT ![c] = "refused"]
  /\ UNCHANGED <<present, emptied>>

(* A viewer who left is noticed; possibly it was the last of its session.  *)
Release(c) ==
  /\ c \in Playing \ present /\ ~emptied
  /\ life' = [life EXCEPT ![c] = "over"]
  /\ emptied' \in BOOLEAN /\ UNCHANGED present

(* The deletion takes the viewers with it that joined in the meantime.     *)
EndSession ==
  /\ emptied /\ emptied' = FALSE /\ UNCHANGED present
  /\ LET C == {c \in Conns : life'[c] # life[c]} IN
     /\ C \subseteq Playing /\ Cardinality(C) <= CLIENTMAX
     /\ life' = [c \in Conns |-> IF c \in C THEN "over" ELSE life[c]]

Next ==
  \/ \E c \in Conns : Depart(c) \/ Admit(c) \/ Refuse(c) \/ Release(c)
  \/ EndSession

Spec == Init /\ [][Next]_vars

=============================================================================
