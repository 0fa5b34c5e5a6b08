------------------------------ MODULE Settings ------------------------------
(***************************************************************************)
(* The camera settings of internal/config and what is computed from them:  *)
(* clamping, normalisation, validation of a deployment's list, the sync    *)
(* group's shared delay and the policy for dynamic delay. The list's order *)
(* decides nothing once names are unique, so a list in force is a set of   *)
(* records; a list that arrives is a sequence and may repeat names.        *)
(***************************************************************************)
EXTENDS Integers, Sequences, FiniteSets

CONSTANTS
    ID,            \* identifiers of cameras
    SenderKey,     \* strings of the shape newKey("s_") gives
    ReceiverKey,   \* strings of the shape newKey("r_") gives
    NoName,        \* the empty string
    Codec,         \* strings a codec list may hold
    H264,          \* the codec every phone can send
    OtherCodec,    \* the other codecs of AllCodecs
    Group          \* names of sync groups, the empty one not included

DelayFloorMS == 0
DelayDefaultMS == 2000
DelayMaxMS == 10000
MaximumMS == 10000

Higher(a, b) == IF a > b THEN a ELSE b
Lower(a, b) == IF a < b THEN a ELSE b
Clamp(low, high, n) == Lower(high, Higher(low, n))

(* dynamicdelay.Options; auto is the pointer AutoCatchUp. *)
Options == [enabled : BOOLEAN, maximum : Int, jump : BOOLEAN,
            catchUp : Int, auto : {"nil", "on", "off"}]

NoOptions ==
    [enabled |-> FALSE, maximum |-> 0, jump |-> FALSE, catchUp |-> 0, auto |-> "nil"]

Normalize(o, base) ==
    [enabled |-> o.enabled,
     maximum |-> Higher(Higher(1, base),
                        IF o.maximum = 0 THEN MaximumMS ELSE Lower(MaximumMS, o.maximum)),
     jump    |-> o.jump \/ o.maximum = 0,
     catchUp |-> IF o.catchUp = 0 THEN 10 ELSE Clamp(1, 200, o.catchUp),
     auto    |-> IF o.auto = "nil" THEN "on" ELSE o.auto]

AllCodecs == {H264} \cup OtherCodec

keepCodecs(codecs) ==
    IF codecs \cap AllCodecs = {} THEN {H264} ELSE codecs \cap AllCodecs

(* config.Ingest without its label; a missing group is NoName. *)
Ingest == [id : ID, senderKey : SenderKey, receiverKey : ReceiverKey,
           codecs : SUBSET Codec, delay : Int, options : Options,
           group : Group \cup {NoName}]

(* The pointer FloorMS is a set of at most one number. *)
clampFloor(floor) ==
    IF floor = {} THEN DelayFloorMS ELSE Clamp(0, DelayMaxMS, CHOOSE ms \in floor : TRUE)

clampDelay(floor, delay) == Lower(DelayMaxMS, Higher(clampFloor(floor), delay))

(* What normalise and ReplaceIngests make of one camera. *)
normaliseIngest(floor, ing) ==
    LET delay == clampDelay(floor, ing.delay) IN
    [ing EXCEPT !.codecs = keepCodecs(@), !.delay = delay,
                !.options = Normalize(@, delay)]

Names(ing) == {ing.id, ing.senderKey, ing.receiverKey}

Distinct(ing) ==
    /\ ing.id # ing.senderKey
    /\ ing.id # ing.receiverKey
    /\ ing.senderKey # ing.receiverKey

(* A mutant of validateIngests: only identifiers are looked up in seen. *)
validateIDs(list) ==
    /\ \A i \in 1 .. Len(list) :
          /\ list[i].id # NoName
          /\ list[i].senderKey \in SenderKey
          /\ list[i].receiverKey \in ReceiverKey
          /\ Distinct(list[i])
    /\ \A i, j \in 1 .. Len(list) : i # j => list[i].id # list[j].id

(* No name in seen may come again, be it an identifier or a key. *)
validateIngests(list) ==
    /\ \A i \in 1 .. Len(list) :
          /\ list[i].id # NoName
          /\ list[i].senderKey \in SenderKey
          /\ list[i].receiverKey \in ReceiverKey
          /\ Distinct(list[i])
    /\ \A i, j \in 1 .. Len(list) : i # j => Names(list[i]) \cap Names(list[j]) = {}

(* A mutant of staleIngests: only the keys are compared. *)
staleKeys(current, next) ==
    {was.id : was \in {w \in current :
        \A i \in 1 .. Len(next) :
            \/ next[i].id # w.id
            \/ next[i].senderKey # w.senderKey
            \/ next[i].receiverKey # w.receiverKey}}

(* Cameras that are gone, or must renegotiate. *)
staleIngests(current, next) ==
    {was.id : was \in {w \in current :
        \A i \in 1 .. Len(next) :
            \/ next[i].id # w.id
            \/ next[i].senderKey # w.senderKey
            \/ next[i].receiverKey # w.receiverKey
            \/ keepCodecs(next[i].codecs) # w.codecs}}

GroupPeers(ingests, id) ==
    {id} \cup {p.id : p \in {q \in ingests : \E ing \in ingests :
        ing.id = id /\ ing.group # NoName /\ q.group = ing.group}}

(* The largest delay of the group, the camera's own without one, 0 for an
   unknown camera. *)
EffectiveDelay(ingests, id) ==
    LET peers == {p \in ingests : p.id \in GroupPeers(ingests, id)} IN
    IF \E ing \in ingests : ing.id = id
    THEN CHOOSE d \in {p.delay : p \in peers} : \A p \in peers : p.delay =< d
    ELSE 0

(* Sync groups stay on their shared fixed delay. *)
DelayOptions(ingests, id) ==
    IF \E ing \in ingests : ing.id = id
    THEN LET ing == CHOOSE ing \in ingests : ing.id = id
             options == Normalize(ing.options, ing.delay)
         IN  [options EXCEPT !.enabled = @ /\ ing.group = NoName]
    ELSE NoOptions
=============================================================================
