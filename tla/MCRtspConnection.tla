-------------------------- MODULE MCRtspConnection --------------------------
(***************************************************************************)
(* A small directory: a sound file a, a sound file b, a file whose name is *)
(* theirs run together, and x, which has no SDP; m does not exist.  A URL  *)
(* may end in a slash.                                                     *)
(***************************************************************************)
EXTENDS RtspConnection

CONSTANTS a, b, x, m

MCNames    == {<<>>, <<a>>, <<b>>, <<a, b>>, <<x>>, <<m>>}
MCExisting == {<<>>, <<a>>, <<b>>, <<a, b>>, <<x>>}
MCBroken   == {<<>>, <<x>>}

=============================================================================
