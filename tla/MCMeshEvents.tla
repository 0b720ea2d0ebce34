---------------------------- MODULE MCMeshEvents ----------------------------
(***************************************************************************)
(* MeshEvents with two handlers, two subscribers and channels of one and   *)
(* two events.                                                             *)
(***************************************************************************)
EXTENDS MeshEvents

CONSTANTS p1, p2, s1, s2

MCPublishers == {p1, p2}
MCSubscribers == {s1, s2}
MCBuffers == {0, 2}
=============================================================================
