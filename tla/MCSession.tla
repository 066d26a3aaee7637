------------------------------ MODULE MCSession ------------------------------
(* Instances of Session for TLC: partitions that gain and lose room.       *)
EXTENDS Session

CONSTANTS p1, p2

\* Both have room, or one of them has filled up.
MCRooms == {{p1}, {p1, p2}}
=============================================================================
