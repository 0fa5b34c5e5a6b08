----------------------------- MODULE MCRecovery -----------------------------
(* An instance of Recovery for TLC. *)
EXTENDS Recovery, TLC

CONSTANTS u1, u2, k1, p1

(* One address, used by one ufrag after the other. *)
OneSocket == (p1 :> k1)
Reused == (p1 :> {u1, u2})

(* u1 crosses the end of the number space and then jumps over a gap longer than *)
(* the history.                                                                 *)
Numbers == (u1 :> {15, 0, 1, 5} @@ u2 :> {3})

Parities ==
  (u1 :> {[of |-> u1, last |-> 1, covers |-> {15, 0, 1}, fits |-> TRUE],
          [of |-> u1, last |-> 5, covers |-> {4, 5}, fits |-> FALSE]}
   @@ u2 :> {[of |-> u2, last |-> 3, covers |-> {2, 3}, fits |-> TRUE]})
=============================================================================
