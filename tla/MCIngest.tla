------------------------------ MODULE MCIngest ------------------------------
(* Instances of Ingest for TLC. *)
EXTENDS Ingest, TLC

CONSTANTS c1, s1, s2, video

(* All requests present the key of one camera. *)
AllToOne == [s \in Session |-> c1]

(* Requests for one camera are interchangeable. *)
Interchangeable == Permutations(Session)
=============================================================================
