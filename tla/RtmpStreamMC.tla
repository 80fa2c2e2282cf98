---------------------------- MODULE RtmpStreamMC ----------------------------
(***************************************************************************)
(* Small instances of RtmpStream for TLC.                                  *)
(***************************************************************************)
EXTENDS RtmpStream, TLC

\* Connections of one kind and stream objects are interchangeable (safety runs).
Symmetry == Permutations(Publishers) \cup Permutations(Players) \cup Permutations(StreamIds)
=============================================================================
