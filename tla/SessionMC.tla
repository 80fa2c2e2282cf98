------------------------------ MODULE SessionMC ------------------------------
(* This program at both ends, or at one of them. *)
EXTENDS Session

AllEnds == {Own, <<"own", "peer">>, <<"peer", "own">>}
=============================================================================
