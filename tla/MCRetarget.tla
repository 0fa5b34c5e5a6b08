----------------------------- MODULE MCRetarget -----------------------------
(* Instances of Retarget for TLC. *)
EXTENDS Retarget

CONSTANTS a, b, sa, sb, sc, ra, rb, g, h264, noname, video, w1, w2

Camera(id, s, r, delay, group) ==
    [id |-> id, senderKey |-> s, receiverKey |-> r, codecs |-> {h264}, delay |-> delay,
     options |-> Normalize(NoOptions, delay), group |-> group]

TwoCameras == {{Camera(a, sa, ra, 500, g), Camera(b, sb, rb, 500, g)}}

SomeDocuments ==
    {<<Camera(a, sa, ra, 2000, g), Camera(b, sc, rb, 500, g)>>,
     <<Camera(b, sb, rb, 500, noname)>>}

TwoDelays == {500, 2000}
Adaptive == [NoOptions EXCEPT !.enabled = TRUE]
OnOff == {NoOptions, Adaptive}
=============================================================================
