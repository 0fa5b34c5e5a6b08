---------------------------- MODULE MCRevocation ----------------------------
(* Instances of Revocation for TLC. *)
EXTENDS Revocation, TLC

CONSTANTS c1, s1, s2

AllToOne == [s \in Session |-> c1]

Interchangeable == Permutations(Session)
=============================================================================
