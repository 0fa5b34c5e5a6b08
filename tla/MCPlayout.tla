----------------------------- MODULE MCPlayout -----------------------------
(* Instances of Playout for TLC: an audio and a video track. *)
EXTENDS Playout

CONSTANTS audio, video

Fixed == [enabled |-> FALSE, maximum |-> 1, jump |-> TRUE, automatic |-> TRUE, catchUp |-> 1]
Adaptive == [Fixed EXCEPT !.enabled = TRUE]
Manual == [Adaptive EXCEPT !.automatic = FALSE]

OnOrOff == {<<0, Fixed>>, <<0, Adaptive>>}
OffOrLater == {<<0, Fixed>>, <<1, Manual>>}

(* Audio is never held up, video may be. *)
VideoLags == [k \in Kind |-> IF k = video THEN {0, 1} ELSE {0}]
=============================================================================
