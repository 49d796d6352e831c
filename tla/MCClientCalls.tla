---------------------------- MODULE MCClientCalls ----------------------------
(* A small instance of ClientCalls for TLC. *)
EXTENDS ClientCalls, TLC

CONSTANTS p1, p2, p3, p4, id1, id2, id3

\* Server id1 is started again, as p4.
FourProcesses == {p1, p2, p3, p4}
ThreeIds      == {id1, id2, id3}
StartedAs     == p1 :> id1 @@ p2 :> id2 @@ p3 :> id3 @@ p4 :> id1
==============================================================================
