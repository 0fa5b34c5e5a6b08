------------------------------ MODULE MCServer ------------------------------
(* Instances of Server for TLC. *)
EXTENDS Server, TLC

CONSTANTS c1, s1, s2, u1, u2, video

(* All requests, of publishers and of subscribers, are for one camera. *)
OneCamera == [s \in Session |-> c1]
OneSubCamera == [u \in Subscriber |-> c1]
=============================================================================
