----------------------------- MODULE MCSessions -----------------------------
(***************************************************************************)
(* Small instances of Sessions.  The path f is a proper prefix of the path *)
(* g (mp4path/a.mp4 and mp4path/a.mp4v, say), h stands alone.              *)
(***************************************************************************)
EXTENDS Sessions, TLC

CONSTANTS c1, c2, c3, f, g, h

Conns2 == {c1, c2}
Conns3 == {c1, c2, c3}

SamePath == {f}
TwoPaths == {f, h}
OtherPath == {h}
PrefixPaths == {f, g}

MCPrefixes == {<<p, p>> : p \in Files} \cup ({<<f, g>>} \cap (Files \X Files))

(* The connections are interchangeable in every safety run.                *)
ConnSymmetry == Permutations(Conns)

(* At most one of the three asks for h: the two paths are interchangeable. *)
MixedInit == Init /\ Cardinality({c \in Conns : file[c] # f}) <= 1

MixedSpec == MixedInit /\ [][Next]_vars

(* How many may leave: two, or one if creators overlapped.  With two files *)
(* it is the viewer of h, unless one of the others never asks.             *)
TwoAsk == \E c \in Conns : file[c] = f /\ hpc[c] = "play"

LeavingBound ==
  IF \E c \in Conns : file[c] # f THEN TwoAsk \/ (overlap = {} /\ \A c \in gone : file[c] # f)
                 ELSE Cardinality(gone) <= IF overlap = {} THEN 2 ELSE 1

=============================================================================
