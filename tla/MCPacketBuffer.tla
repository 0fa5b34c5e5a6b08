--------------------------- MODULE MCPacketBuffer ---------------------------
(* An instance of PacketBuffer for TLC: bytes of one bit, so that both bytes *)
(* of a length are used.                                                     *)
EXTENDS PacketBuffer

CONSTANTS r1, r2

(* The shortest and the longest packet, an empty one and an oversized one. *)
Lengths == {<< >>, <<1>>, <<1, 0, 1>>, <<1, 1, 1, 1>>}
=============================================================================
