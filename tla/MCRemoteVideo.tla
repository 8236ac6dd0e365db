--------------------------- MODULE MCRemoteVideo ---------------------------
(***************************************************************************)
(* An instance of RemoteVideo for TLC.                                     *)
(***************************************************************************)
EXTENDS RemoteVideo

\* What bytes that are no marker may be read as: no length at all, or one that
\* is too small; the right one is always among them.
SmallGarbage == {-1, 1}
=============================================================================
