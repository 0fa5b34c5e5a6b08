------------------------------ MODULE MCConfig ------------------------------
(* An instance of Config for TLC. *)
EXTENDS Config

CONSTANTS a, b, sa, sb, sc, ra, rb, g, h264, h265, vp8, host, absent, noname, upper

Camera(id, s, r, codecs, delay, options, group) ==
    [id |-> id, senderKey |-> s, receiverKey |-> r, codecs |-> codecs,
     delay |-> delay, options |-> options, group |-> group]

Fast == [enabled |-> TRUE, maximum |-> 500, jump |-> FALSE, catchUp |-> 900, auto |-> "off"]
Negative == [enabled |-> FALSE, maximum |-> -1, jump |-> TRUE, catchUp |-> -1, auto |-> "nil"]

(* A file with two cameras, one of them as an older version or a hand left it:
   no options, a codec the relay does not know, a delay beyond the maximum. *)
HandEdited ==
    [floor |-> {-200}, token |-> FALSE, access |-> [s \in Scope |-> "nil"],
     host |-> noname, autostart |-> FALSE,
     ingests |-> {Camera(a, sa, ra, {vp8}, 60000, NoOptions, noname),
                  Camera(b, sb, rb, {h264, h265}, 50, Fast, g)}]

(* A deployment's file with a minimum delay of its own. *)
Deployed ==
    [HandEdited EXCEPT !.floor = {3000}, !.token = TRUE,
                       !.ingests = {Camera(a, sa, ra, {h264}, 3500, Negative, g)}]

(* A file in which a hand has given both cameras the same sender key. *)
Copied ==
    [HandEdited EXCEPT !.floor = {},
                       !.ingests = {Camera(a, sa, ra, {h264}, 50, Fast, noname),
                                    Camera(b, sa, rb, {h265}, 50, Fast, noname)}]

SomeFiles == {HandEdited, Deployed, Copied}

(* Lists a deployment sends: nothing, one camera with other codecs, both with
   a's sender key rotated, and four that must be refused: a sender
   key, an identifier or a receiver key twice, and a key of the wrong shape. *)
SomeDocuments ==
    LET ca == Camera(a, sa, ra, {h265}, -7, Negative, noname)
        cb == Camera(b, sb, rb, {h264}, 4000, Fast, g)
    IN  {<<>>, <<ca>>, <<[ca EXCEPT !.senderKey = sc], cb>>,
         <<ca, [cb EXCEPT !.senderKey = sa]>>, <<ca, [cb EXCEPT !.id = a]>>,
         <<[ca EXCEPT !.receiverKey = rb], cb>>, <<[ca EXCEPT !.senderKey = upper]>>}

SomeDelays == {-1, 1200, 20000}
SomeOptions == {NoOptions, Fast}
SomeCodecs == {{}, {h265, vp8}}
OneScope == {"remote"}
=============================================================================
