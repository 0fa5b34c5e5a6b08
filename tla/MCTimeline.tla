----------------------------- MODULE MCTimeline -----------------------------
(* Instances of Timeline for TLC. *)
EXTENDS Timeline

(* Back further than any delay, and forward. *)
BackAndForth == {-5, 4}
=============================================================================
