---------------------------- MODULE ServiceProofs ----------------------------
(***************************************************************************)
(* Proofs about the settings (Config) and about the servers they are for   *)
(* (Server).                                                               *)
(*                                                                         *)
(* Config, for every set of files, documents and inputs. The inductive     *)
(* invariant says what the settings, the file and the copy to go back to   *)
(* are in each phase of a save; that normalise changes nothing in settings *)
(* that are already normal carries most of the argument.                   *)
(*                                                                         *)
(* Server, for any number of cameras, publishers and subscribers: nobody   *)
(* stays attached to the tracks of a publisher that is gone, and the       *)
(* subscribers keep within their limits and within reach of the server.    *)
(***************************************************************************)
EXTENDS Config, Server, TLAPS

NormalFloor(floor) == floor = {} \/ \E ms \in 0 .. DelayMaxMS : floor = {ms}

(* Settings as every setter leaves them. *)
Normal(cfg) ==
    /\ cfg \in Config
    /\ NormalFloor(cfg.floor)
    /\ \A ing \in cfg.ingests : Valid(cfg.floor, ing)

SameSession(was, now) ==
    /\ now.id = was.id /\ now.senderKey = was.senderKey
    /\ now.receiverKey = was.receiverKey /\ now.codecs = was.codecs

(* A change from one list to another that leaves the sessions of all cameras
   outside revoke alone. *)
Keeps(before, after, revoke) ==
    \A was \in before : was.id \in revoke \/ \E now \in after : SameSession(was, now)

(* Sessions that no revoke has passed over. *)
Watched == (negotiating \cup connected) \ missed

AllCurrent(ingests, excused) ==
    \A l \in Watched : l.id \in excused \/ \E ing \in ingests : Current(l, ing)

Phases ==
    /\ phase # "down" => Normal(mem)
    /\ phase = "idle" => disk # Absent /\ mem = normalise(disk)
    /\ phase = "temp" /\ previous = Absent => disk = Absent
    /\ phase = "temp" /\ previous # Absent =>
          Normal(previous) /\ disk # Absent /\ previous = normalise(disk)
    /\ phase = "renamed" => disk = mem

Sessions ==
    /\ phase = "idle" => AllCurrent(mem.ingests, pending)
    /\ phase = "temp" /\ previous # Absent => AllCurrent(previous.ingests, pending)
    /\ phase \in {"temp", "renamed"} => AllCurrent(mem.ingests, pending \cup stale)
    /\ phase = "down" \/ (phase = "temp" /\ previous = Absent) => Watched = {}

IInv == ConfigTypeOK /\ Phases /\ Sessions

(* All that is needed of the limits. *)
LEMMA Limits ==
    DelayMaxMS \in Nat /\ MaximumMS \in Nat /\ 1 =< MaximumMS /\ DelayMaxMS =< MaximumMS
    /\ DelayDefaultMS \in Int
BY DEF DelayMaxMS, MaximumMS, DelayDefaultMS

-----------------------------------------------------------------------------
(* Clamping: the result is in range and a value in range stays. *)
LEMMA FloorRange ==
    ASSUME NEW floor \in SUBSET Int
    PROVE  /\ clampFloor(floor) \in 0 .. DelayMaxMS
           /\ NormalFloor(floor) /\ floor # {} => {clampFloor(floor)} = floor
           /\ NormalFloor(IF floor = {} THEN {} ELSE {clampFloor(floor)})
           /\ clampFloor(IF floor = {} THEN {} ELSE {clampFloor(floor)}) = clampFloor(floor)
<1>1. CASE floor = {}
  BY <1>1, Limits DEF clampFloor, NormalFloor, DelayFloorMS
<1>2. CASE floor # {}
  <2> DEFINE ms == CHOOSE ms \in floor : TRUE
  <2>1. ms \in floor /\ ms \in Int
    BY <1>2, Zenon
  <2>2. clampFloor(floor) = Clamp(0, DelayMaxMS, ms)
    BY <1>2, Zenon DEF clampFloor
  <2> HIDE DEF ms
  <2>3. Clamp(0, DelayMaxMS, ms) \in 0 .. DelayMaxMS
    <3>1. Higher(0, ms) \in Nat
      BY <2>1 DEF Higher
    <3>2. \A n \in Nat : Lower(DelayMaxMS, n) \in 0 .. DelayMaxMS
      BY Limits DEF Lower
    <3> QED BY <3>1, <3>2 DEF Clamp
  <2>4. ms \in 0 .. DelayMaxMS => Clamp(0, DelayMaxMS, ms) = ms
    BY <2>1, Limits DEF Clamp, Lower, Higher
  <2>5. \A n \in 0 .. DelayMaxMS : clampFloor({n}) = n
    <3> TAKE n \in 0 .. DelayMaxMS
    <3>1. (CHOOSE k \in {n} : TRUE) = n
      OBVIOUS
    <3>2. Clamp(0, DelayMaxMS, n) = n
      BY Limits DEF Clamp, Lower, Higher
    <3> QED BY <3>1, <3>2 DEF clampFloor
  <2>6. NormalFloor(floor) => floor = {ms} /\ ms \in 0 .. DelayMaxMS
    BY <1>2, <2>1 DEF NormalFloor
  <2> QED BY <1>2, <2>2, <2>3, <2>4, <2>5, <2>6 DEF NormalFloor
<1> QED BY <1>1, <1>2

LEMMA DelayRange ==
    ASSUME NEW floor \in SUBSET Int, NEW delay \in Int
    PROVE  /\ clampDelay(floor, delay) \in Int
           /\ clampFloor(floor) =< clampDelay(floor, delay)
           /\ clampDelay(floor, delay) =< DelayMaxMS
           /\ clampFloor(floor) =< delay /\ delay =< DelayMaxMS
              => clampDelay(floor, delay) = delay
<1> DEFINE least == clampFloor(floor)
<1>1. least \in 0 .. DelayMaxMS
  BY FloorRange, Zenon
<1> HIDE DEF least
<1>2. /\ Lower(DelayMaxMS, Higher(least, delay)) \in Int
      /\ least =< Lower(DelayMaxMS, Higher(least, delay))
      /\ Lower(DelayMaxMS, Higher(least, delay)) =< DelayMaxMS
      /\ least =< delay /\ delay =< DelayMaxMS
         => Lower(DelayMaxMS, Higher(least, delay)) = delay
  BY <1>1, Limits DEF Lower, Higher
<1> QED BY <1>2 DEF clampDelay, least

LEMMA NormalizeRange ==
    ASSUME NEW o \in Options, NEW base \in Int, base =< DelayMaxMS
    PROVE  /\ Normalize(o, base) \in Options
           /\ 1 =< Normalize(o, base).maximum /\ base =< Normalize(o, base).maximum
           /\ Normalize(o, base).maximum =< MaximumMS
           /\ Normalize(o, base).catchUp \in 1 .. 200
           /\ Normalize(o, base).auto # "nil"
BY Limits DEF Normalize, Options, Higher, Lower, Clamp

(* What is already in range is left as it is. *)
LEMMA NormalizeFixed ==
    ASSUME NEW o \in Options, NEW base \in Int,
           1 =< o.maximum, base =< o.maximum, o.maximum =< MaximumMS,
           o.catchUp \in 1 .. 200, o.auto # "nil"
    PROVE  Normalize(o, base) = o
BY Limits DEF Normalize, Options, Higher, Lower, Clamp

LEMMA CodecsKept ==
    ASSUME NEW codecs \in SUBSET Codec
    PROVE  /\ keepCodecs(codecs) \in SUBSET Codec
           /\ keepCodecs(codecs) # {} /\ keepCodecs(codecs) \subseteq AllCodecs
           /\ codecs # {} /\ codecs \subseteq AllCodecs => keepCodecs(codecs) = codecs
BY Inputs DEF keepCodecs, AllCodecs

(* One camera: validity, and that normalising keeps what it is called by. *)
LEMMA IngestNormal ==
    ASSUME NEW floor \in SUBSET Int, NEW ing \in RawIngest \cup Ingest,
           ing.id \in ID, ing.senderKey \in SenderKey, ing.receiverKey \in ReceiverKey
    PROVE  /\ normaliseIngest(floor, ing) \in Ingest
           /\ Valid(floor, normaliseIngest(floor, ing))
           /\ Names(normaliseIngest(floor, ing)) = Names(ing)
           /\ Distinct(ing) => Distinct(normaliseIngest(floor, ing))
           /\ normaliseIngest(floor, ing).id = ing.id
           /\ normaliseIngest(floor, ing).senderKey = ing.senderKey
           /\ normaliseIngest(floor, ing).receiverKey = ing.receiverKey
           /\ normaliseIngest(floor, ing).codecs = keepCodecs(ing.codecs)
<1> DEFINE delay == clampDelay(floor, ing.delay)
           options == Normalize(ing.options, delay)
           codecs == keepCodecs(ing.codecs)
           new == normaliseIngest(floor, ing)
<1>1. /\ ing.delay \in Int /\ ing.options \in Options /\ ing.codecs \in SUBSET Codec
      /\ ing.group \in Group \cup {NoName}
  BY DEF RawIngest, Ingest
<1>2. new = [ing EXCEPT !.codecs = codecs, !.delay = delay, !.options = options]
  BY DEF normaliseIngest
<1>3. delay \in Int /\ clampFloor(floor) =< delay /\ delay =< DelayMaxMS
  BY <1>1, DelayRange
<1> HIDE DEF delay
<1>4. /\ options \in Options /\ 1 =< options.maximum /\ delay =< options.maximum
      /\ options.maximum =< MaximumMS /\ options.catchUp \in 1 .. 200
      /\ options.auto # "nil"
  BY <1>1, <1>3, NormalizeRange, ZenonT(30)
<1>5. codecs \in SUBSET Codec /\ codecs # {} /\ codecs \subseteq AllCodecs
  BY <1>1, CodecsKept
<1> HIDE DEF options, codecs, new
<1>6. /\ new.id = ing.id /\ new.senderKey = ing.senderKey
      /\ new.receiverKey = ing.receiverKey /\ new.group = ing.group
      /\ new.codecs = codecs /\ new.delay = delay /\ new.options = options
  BY <1>2 DEF RawIngest, Ingest
<1>7. new \in Ingest
  BY <1>1, <1>2, <1>3, <1>4, <1>5, Zenon DEF RawIngest, Ingest
<1>8. Valid(floor, new)
  BY <1>3, <1>4, <1>5, <1>6 DEF Valid
<1>9. Names(new) = Names(ing) /\ (Distinct(ing) => Distinct(new))
  BY <1>6 DEF Names, Distinct
<1> QED BY <1>6, <1>7, <1>8, <1>9 DEF new, codecs

LEMMA IngestFixed ==
    ASSUME NEW floor \in SUBSET Int, NEW ing \in Ingest, Valid(floor, ing)
    PROVE  normaliseIngest(floor, ing) = ing
<1>1. ing.delay \in Int /\ ing.options \in Options /\ ing.codecs \in SUBSET Codec
  BY DEF Ingest
<1>2. clampDelay(floor, ing.delay) = ing.delay
  BY <1>1, DelayRange DEF Valid
<1>3. Normalize(ing.options, ing.delay) = ing.options
  BY <1>1, NormalizeFixed DEF Valid
<1>4. keepCodecs(ing.codecs) = ing.codecs
  BY <1>1, CodecsKept DEF Valid
<1>5. normaliseIngest(floor, ing) =
         [ing EXCEPT !.codecs = ing.codecs, !.delay = ing.delay, !.options = ing.options]
  BY <1>2, <1>3, <1>4 DEF normaliseIngest
<1> QED BY <1>5, Zenon DEF Ingest

(* Loading gives normal settings, and normal settings load as themselves. *)
LEMMA LoadNormal ==
    ASSUME NEW file \in Config
    PROVE  Normal(normalise(file))
<1> DEFINE floor == IF file.floor = {} THEN {} ELSE {clampFloor(file.floor)}
           cameras == {normaliseIngest(file.floor, ing) : ing \in file.ingests}
           cfg == normalise(file)
<1>1. file \in Config /\ file.floor \in SUBSET Int /\ file.ingests \subseteq Ingest
  BY DEF Config
<1>2. cfg = [file EXCEPT !.floor = floor, !.ingests = cameras]
  BY DEF normalise
<1>3. NormalFloor(floor) /\ clampFloor(floor) = clampFloor(file.floor) /\ floor \in SUBSET Int
  <2>1. \A f \in SUBSET Int : clampFloor(f) \in 0 .. DelayMaxMS
    BY FloorRange, Zenon
  <2>2. 0 .. DelayMaxMS \subseteq Int
    BY Limits
  <2>3. clampFloor(file.floor) \in Int
    BY <1>1, <2>1, <2>2
  <2> QED BY <1>1, <2>3, FloorRange, ZenonT(30)
<1>4. \A ing \in file.ingests :
         /\ normaliseIngest(file.floor, ing) \in Ingest
         /\ Valid(file.floor, normaliseIngest(file.floor, ing))
  <2> TAKE ing \in file.ingests
  <2>1. /\ ing \in Ingest /\ ing.id \in ID /\ ing.senderKey \in SenderKey
        /\ ing.receiverKey \in ReceiverKey
    BY <1>1 DEF Ingest
  <2> QED BY <1>1, <2>1, IngestNormal
<1>5. cameras \subseteq Ingest
  BY <1>4, ZenonT(30)
<1>6. \A ing \in cameras : Valid(floor, ing)
  BY <1>3, <1>4 DEF Valid
<1> HIDE DEF floor, cameras
<1>8. cfg \in Config /\ cfg.floor = floor /\ cfg.ingests = cameras
  BY <1>1, <1>2, <1>3, <1>5, Zenon DEF Config
<1> HIDE DEF cfg
<1>9. Normal(cfg)
  BY <1>3, <1>6, <1>8 DEF Normal
<1> QED BY <1>9 DEF cfg

LEMMA NormalFixed ==
    ASSUME NEW cfg, Normal(cfg)
    PROVE  normalise(cfg) = cfg
<1>1. cfg \in Config /\ cfg.floor \in SUBSET Int /\ cfg.ingests \subseteq Ingest
  BY DEF Normal, Config
<1>2. (IF cfg.floor = {} THEN {} ELSE {clampFloor(cfg.floor)}) = cfg.floor
  BY <1>1, FloorRange, Zenon DEF Normal
<1>3. \A ing \in cfg.ingests : normaliseIngest(cfg.floor, ing) = ing
  BY <1>1, IngestFixed DEF Normal
<1>4. {normaliseIngest(cfg.floor, ing) : ing \in cfg.ingests} = cfg.ingests
  BY <1>3
<1>5. normalise(cfg) = [cfg EXCEPT !.floor = cfg.floor, !.ingests = cfg.ingests]
  BY <1>2, <1>4, Zenon DEF normalise
<1> QED BY <1>1, <1>5, Zenon DEF Config

-----------------------------------------------------------------------------
(* To show that a list shares no name another one does not. *)
LEMMA SharedWithin ==
    ASSUME NEW before, NEW after,
           \A ing \in after : Repeated(ing) \subseteq Shared(before),
           \A i, j \in after : i # j => Names(i) \cap Names(j) \subseteq Shared(before)
    PROVE  Shared(after) \subseteq Shared(before)
<1> SUFFICES ASSUME NEW n \in Shared(after) PROVE n \in Shared(before)
  OBVIOUS
<1>1. \/ \E ing \in after : n \in Repeated(ing)
      \/ \E i, j \in after : i # j /\ n \in Names(i) /\ n \in Names(j)
  BY Zenon DEF Shared
<1> QED BY <1>1, ZenonT(30)

(* A name is shared when one camera has it twice, or two have it. *)
LEMMA SharedBy ==
    ASSUME NEW ingests
    PROVE  /\ \A ing \in ingests : Repeated(ing) \subseteq Shared(ingests)
           /\ \A i, j \in ingests : i # j => Names(i) \cap Names(j) \subseteq Shared(ingests)
<1>1. \A ing \in ingests : Repeated(ing) \subseteq Names(ing)
  BY DEF Repeated, Names
<1>2. \A ing \in ingests : Names(ing) \subseteq UNION {Names(c) : c \in ingests}
  OBVIOUS
<1> QED BY <1>1, <1>2 DEF Shared

(* Every setter asks for normal settings, revokes the cameras whose keys or
   codecs it changes and makes no name ambiguous. *)
Asks(cfg, revoke) ==
    /\ Normal(cfg)
    /\ revoke \subseteq ID
    /\ Keeps(mem.ingests, cfg.ingests, revoke)
    /\ Shared(cfg.ingests) \subseteq Shared(mem.ingests)

(* A change of settings other than the cameras. *)
LEMMA AsksScalar ==
    ASSUME Normal(mem), NEW cfg \in Config,
           cfg.floor = mem.floor, cfg.ingests = mem.ingests
    PROVE  Asks(cfg, {})
BY DEF Asks, Normal, Keeps, SameSession

(* A change of the cameras only. *)
LEMMA AsksCameras ==
    ASSUME Normal(mem), NEW cameras \in SUBSET Ingest, NEW revoke \in SUBSET ID,
           \A ing \in cameras : Valid(mem.floor, ing),
           Shared(cameras) \subseteq Shared(mem.ingests),
           Keeps(mem.ingests, cameras, revoke)
    PROVE  Asks([mem EXCEPT !.ingests = cameras], revoke)
<1> DEFINE cfg == [mem EXCEPT !.ingests = cameras]
<1>1. cfg \in Config /\ cfg.floor = mem.floor /\ cfg.ingests = cameras
  BY DEF Normal, Config
<1> HIDE DEF cfg
<1>2. Asks(cfg, revoke)
  BY <1>1 DEF Asks, Normal
<1> QED BY <1>2 DEF cfg

(* A change of one camera that keeps its names, or takes an unused one. *)
LEMMA AsksUpdate ==
    ASSUME Normal(mem), NEW ing \in mem.ingests, NEW changed \in Ingest,
           NEW revoke \in SUBSET ID,
           Valid(mem.floor, changed), Repeated(changed) \subseteq Repeated(ing),
           \A n \in Names(changed) : n \in Names(ing) \/ n \notin InUse,
           ing.id \in revoke \/ SameSession(ing, changed)
    PROVE  Asks([mem EXCEPT !.ingests = (@ \ {ing}) \cup {changed}], revoke)
<1> DEFINE cameras == (mem.ingests \ {ing}) \cup {changed}
<1>1. mem.ingests \subseteq Ingest
  BY DEF Normal, Config
<1>2. cameras \in SUBSET Ingest
  BY <1>1
<1>3. \A c \in cameras : Valid(mem.floor, c)
  BY DEF Normal
<1>4. ASSUME NEW c \in mem.ingests \ {ing}
      PROVE  Names(c) \cap Names(changed) \subseteq Shared(mem.ingests)
  <2>1. Names(c) \cap Names(ing) \subseteq Shared(mem.ingests)
    BY <1>4, SharedBy
  <2>2. Names(c) \subseteq InUse
    BY <1>4 DEF InUse
  <2> QED BY <2>1, <2>2
<1>5. Shared(cameras) \subseteq Shared(mem.ingests)
  <2>1. \A c \in cameras : Repeated(c) \subseteq Shared(mem.ingests)
    BY SharedBy
  <2>2. \A i, j \in cameras : i # j => Names(i) \cap Names(j) \subseteq Shared(mem.ingests)
    BY <1>4, SharedBy
  <2> HIDE DEF cameras
  <2> QED BY <2>1, <2>2, SharedWithin
<1>6. Keeps(mem.ingests, cameras, revoke)
  BY ZenonT(30) DEF Keeps, SameSession
<1> HIDE DEF cameras
<1>7. Asks([mem EXCEPT !.ingests = cameras], revoke)
  BY <1>2, <1>3, <1>5, <1>6, AsksCameras, Zenon
<1> QED BY <1>7 DEF cameras

(* What the setters of one camera change it to. *)
LEMMA CameraFacts ==
    ASSUME Normal(mem), NEW ing \in mem.ingests
    PROVE  /\ ing \in Ingest /\ Valid(mem.floor, ing)
           /\ mem.floor \in SUBSET Int /\ ing.id \in ID
           /\ ing.delay \in Int /\ ing.delay =< DelayMaxMS
           /\ ing.options \in Options
           /\ Names(ing) \subseteq InUse
<1>1. ing \in Ingest /\ Valid(mem.floor, ing) /\ mem.floor \in SUBSET Int
  BY DEF Normal, Config
<1>2. Names(ing) \subseteq InUse
  BY ZenonT(30) DEF InUse
<1> QED BY <1>1, <1>2 DEF Ingest, Valid

LEMMA SetterAsks ==
    ASSUME IInv, Setter
    PROVE  \E cfg, revoke : Set(cfg, revoke) /\ Asks(cfg, revoke)
<1> SUFFICES ASSUME Normal(mem) PROVE \E cfg, revoke : Set(cfg, revoke) /\ Asks(cfg, revoke)
  <2>1. phase = "idle"
    BY Zenon DEF Setter, SetterOfCamera, AddIngest, ReplaceIngests, RemoveIngest, Update,
           ResetSenderKey, SetSyncGroup, SetCodecs, SetDelay, SetDynamicDelay,
           SetPublicHost, SetAutostart, SetControlAccess, CreateControlToken, Set
  <2> QED BY <2>1, SMTT(30) DEF IInv, Phases
<1>1. ASSUME NEW id \in ID, NEW s \in SenderKey, NEW r \in ReceiverKey, AddIngest(id, s, r)
      PROVE  \E cfg, revoke : Set(cfg, revoke) /\ Asks(cfg, revoke)
  <2> DEFINE new == NewCamera(id, s, r)
             delay == clampDelay(mem.floor, DelayDefaultMS)
  <2>1. mem.floor \in SUBSET Int /\ mem.ingests \subseteq Ingest
    BY DEF Normal, Config
  <2>2. delay \in Int /\ clampFloor(mem.floor) =< delay /\ delay =< DelayMaxMS
    BY <2>1, DelayRange, Limits
  <2>3. NoOptions \in Options
    BY DEF NoOptions, Options
  <2> HIDE DEF delay
  <2>4. /\ Normalize(NoOptions, delay) \in Options
        /\ 1 =< Normalize(NoOptions, delay).maximum
        /\ delay =< Normalize(NoOptions, delay).maximum
        /\ Normalize(NoOptions, delay).maximum =< MaximumMS
        /\ Normalize(NoOptions, delay).catchUp \in 1 .. 200
        /\ Normalize(NoOptions, delay).auto # "nil"
    BY <2>2, <2>3, NormalizeRange
  <2>5. new = [id |-> id, senderKey |-> s, receiverKey |-> r, codecs |-> {H264},
               delay |-> delay, options |-> Normalize(NoOptions, delay), group |-> NoName]
    BY DEF NewCamera, delay
  <2> HIDE DEF new
  <2>6. new \in Ingest
    BY <2>2, <2>4, <2>5, Inputs, ZenonT(30) DEF Ingest
  <2>7. Valid(mem.floor, new)
    BY <2>2, <2>4, <2>5 DEF Valid, AllCodecs
  <2>8. Distinct(new) /\ Names(new) \cap InUse = {}
    BY <1>1 DEF AddIngest, new
  <2>9. Shared(mem.ingests \cup {new}) \subseteq Shared(mem.ingests)
    <3>1. \A i \in mem.ingests : Names(i) \subseteq InUse
      BY DEF InUse
    <3>2. Repeated(new) = {}
      BY <2>8 DEF Repeated, Distinct
    <3>3. \A i \in mem.ingests : Names(i) \cap Names(new) = {}
      BY <2>8, <3>1
    <3> QED BY <3>2, <3>3, SharedBy, SharedWithin
  <2>10. Keeps(mem.ingests, mem.ingests \cup {new}, {})
    BY DEF Keeps, SameSession
  <2>11. \A ing \in mem.ingests \cup {new} : Valid(mem.floor, ing)
    BY <2>7 DEF Normal
  <2>12. Asks([mem EXCEPT !.ingests = @ \cup {new}], {})
    <3> DEFINE cameras == mem.ingests \cup {new}
    <3>1. cameras \in SUBSET Ingest
      BY <2>1, <2>6
    <3>2. {} \in SUBSET ID
      OBVIOUS
    <3>3. /\ \A ing \in cameras : Valid(mem.floor, ing)
          /\ Shared(cameras) \subseteq Shared(mem.ingests)
          /\ Keeps(mem.ingests, cameras, {})
      BY <2>9, <2>10, <2>11
    <3> HIDE DEF cameras
    <3>4. Asks([mem EXCEPT !.ingests = cameras], {})
      BY <3>1, <3>2, <3>3, AsksCameras, Zenon
    <3> QED BY <3>4 DEF cameras
  <2> QED BY <1>1, <2>12 DEF AddIngest, new
<1>2. ASSUME NEW list \in Documents, ReplaceIngests(list)
      PROVE  \E cfg, revoke : Set(cfg, revoke) /\ Asks(cfg, revoke)
  <2> DEFINE new(i) == normaliseIngest(mem.floor, list[i])
             cameras == {new(i) : i \in 1 .. Len(list)}
             revoke == staleIngests(mem.ingests, list)
  <2>1. mem.floor \in SUBSET Int /\ mem.ingests \subseteq Ingest
    BY DEF Normal, Config
  <2>2. ASSUME NEW i \in 1 .. Len(list)
        PROVE  /\ list[i] \in RawIngest /\ list[i].id \in ID
               /\ list[i].senderKey \in SenderKey /\ list[i].receiverKey \in ReceiverKey
               /\ Distinct(list[i])
    <3>1. list[i] \in RawIngest
      BY Inputs
    <3>2. /\ list[i].id # NoName /\ list[i].senderKey \in SenderKey
          /\ list[i].receiverKey \in ReceiverKey /\ Distinct(list[i])
      BY <1>2, ZenonT(30) DEF ReplaceIngests, validateIngests
    <3> QED BY <3>1, <3>2 DEF RawIngest
  <2>3. ASSUME NEW i \in 1 .. Len(list)
        PROVE  /\ new(i) \in Ingest /\ Valid(mem.floor, new(i))
               /\ Names(new(i)) = Names(list[i]) /\ Distinct(new(i))
               /\ new(i).id = list[i].id /\ new(i).senderKey = list[i].senderKey
               /\ new(i).receiverKey = list[i].receiverKey
               /\ new(i).codecs = keepCodecs(list[i].codecs)
    BY <2>1, <2>2, IngestNormal, ZenonT(30)
  <2> HIDE DEF new
  <2>4. cameras \in SUBSET Ingest /\ \A c \in cameras : Valid(mem.floor, c)
    BY <2>3
  <2>5. Shared(cameras) \subseteq Shared(mem.ingests)
    <3>1. ASSUME NEW i \in 1 .. Len(list), NEW j \in 1 .. Len(list), new(i) # new(j)
          PROVE  Names(new(i)) \cap Names(new(j)) = {}
      BY <1>2, <2>3, <3>1, Zenon DEF ReplaceIngests, validateIngests
    <3>2. \A i \in 1 .. Len(list) : Repeated(new(i)) = {}
      BY <2>3 DEF Repeated, Distinct
    <3>3. \A c \in cameras : Repeated(c) = {}
      BY <3>2
    <3>4. \A c, d \in cameras : c # d => Names(c) \cap Names(d) = {}
      BY <3>1
    <3> HIDE DEF cameras
    <3> QED BY <3>3, <3>4, SharedWithin
  <2>6. revoke \in SUBSET ID
    BY <2>1 DEF staleIngests, Ingest
  <2>7. Keeps(mem.ingests, cameras, revoke)
    <3> SUFFICES ASSUME NEW was \in mem.ingests, was.id \notin revoke
                 PROVE  \E now \in cameras : SameSession(was, now)
      BY DEF Keeps
    <3>1. PICK i \in 1 .. Len(list) :
             /\ list[i].id = was.id /\ list[i].senderKey = was.senderKey
             /\ list[i].receiverKey = was.receiverKey
             /\ keepCodecs(list[i].codecs) = was.codecs
      BY ZenonT(30) DEF staleIngests
    <3>2. SameSession(was, new(i))
      BY <2>3, <3>1 DEF SameSession
    <3> QED BY <3>2
  <2>8. Asks([mem EXCEPT !.ingests = cameras], revoke)
    BY <2>4, <2>5, <2>6, <2>7, AsksCameras, Zenon
  <2> QED BY <1>2, <2>8 DEF ReplaceIngests, new
<1>3. ASSUME NEW ing \in mem.ingests, SetterOfCamera(ing)
      PROVE  \E cfg, revoke : Set(cfg, revoke) /\ Asks(cfg, revoke)
  <2>1. /\ ing \in Ingest /\ Valid(mem.floor, ing)
        /\ mem.floor \in SUBSET Int /\ ing.id \in ID
        /\ ing.delay \in Int /\ ing.delay =< DelayMaxMS
        /\ ing.options \in Options
        /\ Names(ing) \subseteq InUse
    BY CameraFacts
  <2>2. CASE RemoveIngest(ing)
    <3>1. mem.ingests \ {ing} \in SUBSET Ingest
          /\ \A c \in mem.ingests \ {ing} : Valid(mem.floor, c)
      BY DEF Normal, Config
    <3>2. Keeps(mem.ingests, mem.ingests \ {ing}, {ing.id})
      BY DEF Keeps, SameSession
    <3>3. Shared(mem.ingests \ {ing}) \subseteq Shared(mem.ingests)
      BY SharedBy, SharedWithin
    <3>4. Asks([mem EXCEPT !.ingests = mem.ingests \ {ing}], {ing.id})
      <4> DEFINE cameras == mem.ingests \ {ing}
                 revoke == {ing.id}
      <4>1. revoke \in SUBSET ID
        BY <2>1
      <4>2. /\ cameras \in SUBSET Ingest /\ \A c \in cameras : Valid(mem.floor, c)
            /\ Shared(cameras) \subseteq Shared(mem.ingests)
            /\ Keeps(mem.ingests, cameras, revoke)
        BY <3>1, <3>2, <3>3
      <4> HIDE DEF cameras, revoke
      <4>3. Asks([mem EXCEPT !.ingests = cameras], revoke)
        BY <4>1, <4>2, AsksCameras, Zenon
      <4> QED BY <4>3 DEF cameras, revoke
    <3> QED BY <2>2, <3>4 DEF RemoveIngest
  <2>3. ASSUME NEW key \in SenderKey, ResetSenderKey(ing, key)
        PROVE  \E cfg, revoke : Set(cfg, revoke) /\ Asks(cfg, revoke)
    <3> DEFINE changed == [ing EXCEPT !.senderKey = key]
    <3>1. key \notin InUse
      BY <2>3 DEF ResetSenderKey
    <3>2. /\ changed \in Ingest /\ changed.id = ing.id /\ changed.senderKey = key
          /\ changed.receiverKey = ing.receiverKey /\ changed.delay = ing.delay
          /\ changed.options = ing.options /\ changed.codecs = ing.codecs
      BY <2>1, ZenonT(30) DEF Ingest
    <3> HIDE DEF changed
    <3>3. Valid(mem.floor, changed) /\ Repeated(changed) \subseteq Repeated(ing)
      BY <2>1, <3>1, <3>2 DEF Valid, Repeated, Names
    <3>4. \A n \in Names(changed) : n \in Names(ing) \/ n \notin InUse
      BY <3>1, <3>2 DEF Names
    <3>5. Asks([mem EXCEPT !.ingests = (@ \ {ing}) \cup {changed}], {ing.id})
      BY <2>1, <3>2, <3>3, <3>4, AsksUpdate
    <3> QED BY <2>3, <3>5 DEF ResetSenderKey, Update, changed
  <2>4. ASSUME NEW group \in Group \cup {NoName}, SetSyncGroup(ing, group)
        PROVE  \E cfg, revoke : Set(cfg, revoke) /\ Asks(cfg, revoke)
    <3> DEFINE changed == [ing EXCEPT !.group = group]
    <3>1. /\ changed \in Ingest /\ changed.id = ing.id
          /\ changed.senderKey = ing.senderKey
          /\ changed.receiverKey = ing.receiverKey /\ changed.delay = ing.delay
          /\ changed.options = ing.options /\ changed.codecs = ing.codecs
      BY <2>1, ZenonT(30) DEF Ingest
    <3> HIDE DEF changed
    <3>2. /\ Valid(mem.floor, changed) /\ Repeated(changed) = Repeated(ing)
          /\ Names(changed) = Names(ing) /\ SameSession(ing, changed)
      BY <2>1, <3>1 DEF Valid, Repeated, Names, SameSession
    <3>3. Asks([mem EXCEPT !.ingests = (@ \ {ing}) \cup {changed}], {})
      BY <3>1, <3>2, AsksUpdate
    <3> QED BY <2>4, <3>3 DEF SetSyncGroup, Update, changed
  <2>5. ASSUME NEW codecs \in CodecInputs, SetCodecs(ing, codecs)
        PROVE  \E cfg, revoke : Set(cfg, revoke) /\ Asks(cfg, revoke)
    <3> DEFINE keep == keepCodecs(codecs)
               changed == [ing EXCEPT !.codecs = keep]
    <3>1. keep \in SUBSET Codec /\ keep # {} /\ keep \subseteq AllCodecs
      BY <2>5, Inputs, CodecsKept
    <3> HIDE DEF keep
    <3>2. /\ changed \in Ingest /\ changed.id = ing.id
          /\ changed.senderKey = ing.senderKey
          /\ changed.receiverKey = ing.receiverKey /\ changed.delay = ing.delay
          /\ changed.options = ing.options /\ changed.codecs = keep
      BY <2>1, <3>1, ZenonT(30) DEF Ingest
    <3> HIDE DEF changed
    <3>3. /\ Valid(mem.floor, changed) /\ Repeated(changed) = Repeated(ing)
          /\ Names(changed) = Names(ing)
      BY <2>1, <3>1, <3>2 DEF Valid, Repeated, Names
    <3>4. Asks([mem EXCEPT !.ingests = (@ \ {ing}) \cup {changed}], {ing.id})
      BY <2>1, <3>2, <3>3, AsksUpdate
    <3> QED BY <2>5, <3>4 DEF SetCodecs, Update, changed, keep
  <2>6. ASSUME NEW delay \in Int, NEW options \in Options,
               clampFloor(mem.floor) =< delay, delay =< DelayMaxMS
        PROVE  Asks([mem EXCEPT !.ingests = (@ \ {ing}) \cup
                   {[ing EXCEPT !.delay = delay, !.options = Normalize(options, delay)]}], {})
    <3> DEFINE opts == Normalize(options, delay)
               changed == [ing EXCEPT !.delay = delay, !.options = opts]
    <3>1. /\ opts \in Options /\ 1 =< opts.maximum /\ delay =< opts.maximum
          /\ opts.maximum =< MaximumMS /\ opts.catchUp \in 1 .. 200 /\ opts.auto # "nil"
      BY <2>6, NormalizeRange
    <3> HIDE DEF opts
    <3>2. /\ changed \in Ingest /\ changed.id = ing.id
          /\ changed.senderKey = ing.senderKey
          /\ changed.receiverKey = ing.receiverKey /\ changed.delay = delay
          /\ changed.options = opts /\ changed.codecs = ing.codecs
      BY <2>1, <3>1, Zenon DEF Ingest
    <3> HIDE DEF changed
    <3>3. /\ Valid(mem.floor, changed) /\ Repeated(changed) = Repeated(ing)
          /\ Names(changed) = Names(ing) /\ SameSession(ing, changed)
      BY <2>1, <2>6, <3>1, <3>2 DEF Valid, Repeated, Names, SameSession
    <3>4. Asks([mem EXCEPT !.ingests = (@ \ {ing}) \cup {changed}], {})
      BY <3>2, <3>3, AsksUpdate
    <3> QED BY <3>4, ZenonT(30) DEF changed, opts
  <2>7. ASSUME NEW delay \in DelayInputs, SetDelay(ing, delay)
        PROVE  \E cfg, revoke : Set(cfg, revoke) /\ Asks(cfg, revoke)
    <3> DEFINE clamped == clampDelay(mem.floor, delay)
    <3>1. clamped \in Int /\ clampFloor(mem.floor) =< clamped /\ clamped =< DelayMaxMS
      BY <2>1, <2>7, Inputs, DelayRange, ZenonT(30)
    <3> HIDE DEF clamped
    <3>2. Asks([mem EXCEPT !.ingests = (@ \ {ing}) \cup
             {[ing EXCEPT !.delay = clamped, !.options = Normalize(ing.options, clamped)]}], {})
      BY <2>1, <2>6, <3>1, Zenon
    <3>3. [ing EXCEPT !.delay = clamped, !.options = Normalize(@, clamped)]
          = [ing EXCEPT !.delay = clamped, !.options = Normalize(ing.options, clamped)]
      OBVIOUS
    <3> QED BY <2>7, <3>2, <3>3 DEF SetDelay, Update, clamped
  <2>8. ASSUME NEW options \in OptionInputs, SetDynamicDelay(ing, options)
        PROVE  \E cfg, revoke : Set(cfg, revoke) /\ Asks(cfg, revoke)
    <3>1. Asks([mem EXCEPT !.ingests = (@ \ {ing}) \cup
             {[ing EXCEPT !.delay = ing.delay, !.options = Normalize(options, ing.delay)]}], {})
      BY <2>1, <2>6, Inputs, Zenon DEF Valid
    <3>2. [ing EXCEPT !.delay = ing.delay, !.options = Normalize(options, ing.delay)]
          = [ing EXCEPT !.options = Normalize(options, ing.delay)]
      BY <2>1, Zenon DEF Ingest
    <3> QED BY <2>8, <3>1, <3>2, SMTT(30) DEF SetDynamicDelay, Update
  <2> QED BY <1>3, <2>2, <2>3, <2>4, <2>5, <2>7, <2>8, ZenonT(30) DEF SetterOfCamera
<1>4. ASSUME NEW host \in Host, SetPublicHost(host)
      PROVE  \E cfg, revoke : Set(cfg, revoke) /\ Asks(cfg, revoke)
  <2> DEFINE cfg == [mem EXCEPT !.host = host]
  <2>1. cfg \in Config /\ cfg.floor = mem.floor /\ cfg.ingests = mem.ingests
    BY DEF Normal, Config
  <2> HIDE DEF cfg
  <2>2. Asks(cfg, {})
    BY <2>1, AsksScalar
  <2> QED BY <1>4, <2>2 DEF SetPublicHost, cfg
<1>5. ASSUME NEW on \in BOOLEAN, SetAutostart(on)
      PROVE  \E cfg, revoke : Set(cfg, revoke) /\ Asks(cfg, revoke)
  <2> DEFINE cfg == [mem EXCEPT !.autostart = on]
  <2>1. cfg \in Config /\ cfg.floor = mem.floor /\ cfg.ingests = mem.ingests
    BY DEF Normal, Config
  <2> HIDE DEF cfg
  <2>2. Asks(cfg, {})
    BY <2>1, AsksScalar
  <2> QED BY <1>5, <2>2 DEF SetAutostart, cfg
<1>6. ASSUME NEW scope \in Scope, NEW on \in BOOLEAN, SetControlAccess(scope, on)
      PROVE  \E cfg, revoke : Set(cfg, revoke) /\ Asks(cfg, revoke)
  <2> DEFINE setting == IF on THEN "on" ELSE "off"
             cfg == [mem EXCEPT !.access[scope] = setting]
  <2>1. setting \in {"nil", "on", "off"}
    OBVIOUS
  <2> HIDE DEF setting
  <2>2. cfg \in Config /\ cfg.floor = mem.floor /\ cfg.ingests = mem.ingests
    BY <2>1 DEF Normal, Config
  <2> HIDE DEF cfg
  <2>3. Asks(cfg, {})
    BY <2>2, AsksScalar
  <2> QED BY <1>6, <2>3 DEF SetControlAccess, cfg, setting
<1>7. ASSUME CreateControlToken
      PROVE  \E cfg, revoke : Set(cfg, revoke) /\ Asks(cfg, revoke)
  <2> DEFINE cfg == [mem EXCEPT !.token = TRUE]
  <2>1. cfg \in Config /\ cfg.floor = mem.floor /\ cfg.ingests = mem.ingests
    BY Zenon DEF Normal, Config
  <2> HIDE DEF cfg
  <2>2. Asks(cfg, {})
    BY <2>1, AsksScalar
  <2> QED BY <1>7, <2>2 DEF CreateControlToken, cfg
<1> QED BY <1>1, <1>2, <1>3, <1>4, <1>5, <1>6, <1>7 DEF Setter

-----------------------------------------------------------------------------
LEMMA DefaultNormal == Normal(Default)
<1>1. Default \in Config
  BY DEF Default, Config
<1>2. Default.floor = {} /\ Default.ingests = {}
  BY DEF Default
<1> QED BY <1>1, <1>2 DEF Normal, NormalFloor

LEMMA InitIInv == ConfigInit => IInv
<1> SUFFICES ASSUME ConfigInit PROVE IInv
  OBVIOUS
<1>1. mem \in Config
  BY DefaultNormal DEF ConfigInit, Normal
<1>2. disk \in Config \cup {Absent}
  BY FilesParse DEF ConfigInit
<1>3. ConfigTypeOK
  BY <1>1, <1>2, Inputs DEF ConfigInit, ConfigTypeOK
<1>4. Phases
  BY <1>2 DEF ConfigInit, Phases
<1>5. Sessions
  BY DEF ConfigInit, Sessions, Watched
<1> QED BY <1>3, <1>4, <1>5 DEF IInv

(* Steps that leave the sessions alone. *)
LEMMA SameSessions ==
    ASSUME sessions' = sessions
    PROVE  /\ negotiating' = negotiating /\ connected' = connected /\ missed' = missed
           /\ Watched' = Watched
BY DEF sessions, Watched

(* A setter call: the copy to go back to is what the file loads as, and the
   sessions of cameras it changes are to be revoked. *)
LEMMA SetStep ==
    ASSUME IInv, NEW cfg, NEW revoke, Set(cfg, revoke), Asks(cfg, revoke)
    PROVE  IInv'
<1>1. Normal(mem) /\ disk # Absent /\ mem = normalise(disk) /\ AllCurrent(mem.ingests, pending)
  BY ZenonT(30) DEF IInv, Phases, Sessions, Set
<1>2. Normal(cfg) /\ cfg \in Config /\ revoke \subseteq ID /\ mem # Absent
  BY <1>1, FilesParse, ZenonT(30) DEF Asks, Normal
<1>3. ConfigTypeOK'
  BY <1>1, <1>2, SameSessions, Inputs DEF IInv, ConfigTypeOK, Set, Normal
<1>4. Phases'
  BY <1>1, <1>2, ZenonT(30) DEF IInv, Phases, Set
<1>5. ASSUME NEW l \in Watched
      PROVE  l.id \in pending \cup revoke \/ \E ing \in cfg.ingests : Current(l, ing)
  <2>1. CASE l.id \in pending
    BY <2>1
  <2>2. ASSUME NEW was \in mem.ingests, Current(l, was)
        PROVE  l.id \in revoke \/ \E ing \in cfg.ingests : Current(l, ing)
    <3>1. was.id \in revoke \/ \E now \in cfg.ingests : SameSession(was, now)
      BY DEF Asks, Keeps
    <3>2. ASSUME NEW now \in cfg.ingests, SameSession(was, now)
          PROVE  Current(l, now)
      BY <2>2, <3>2, ZenonT(30) DEF Current, SameSession
    <3> QED BY <2>2, <3>1, <3>2 DEF Current
  <2> QED BY <1>1, <2>1, <2>2, ZenonT(30) DEF AllCurrent
<1>6. Sessions'
  <2>1. AllCurrent(previous.ingests, pending)'
    BY <1>1, SameSessions DEF Set, AllCurrent, Current
  <2>2. AllCurrent(mem.ingests, pending \cup stale)'
    BY <1>5, SameSessions, ZenonT(30) DEF Set, AllCurrent, Current
  <2> QED BY <1>2, <2>1, <2>2, ZenonT(30) DEF Sessions, Set
<1> QED BY <1>3, <1>4, <1>6 DEF IInv

LEMMA ConfigStep == IInv /\ [ConfigNext]_vars => IInv'
<1> SUFFICES ASSUME IInv, [ConfigNext]_vars PROVE IInv'
  OBVIOUS
<1> USE DEF IInv
<1>1. CASE Load
  <2>1. disk \in Config
    BY <1>1 DEF Load, ConfigTypeOK
  <2>2. Normal(normalise(disk)) /\ normalise(disk) \in Config
    BY <2>1, LoadNormal DEF Normal
  <2>3. ConfigTypeOK'
    BY <1>1, <2>2, SameSessions DEF ConfigTypeOK, Load
  <2>4. Phases'
    BY <1>1, <2>2, ZenonT(30) DEF Phases, Load
  <2>5. Sessions'
    BY <1>1, SameSessions, ZenonT(30) DEF Sessions, Load, AllCurrent
  <2> QED BY <2>3, <2>4, <2>5
<1>2. CASE LoadAbsent
  <2>1. ConfigTypeOK'
    BY <1>2, DefaultNormal, SameSessions DEF ConfigTypeOK, LoadAbsent, Normal
  <2>2. Phases'
    BY <1>2, DefaultNormal, ZenonT(30) DEF Phases, LoadAbsent
  <2>3. Sessions'
    BY <1>2, SameSessions DEF Sessions, LoadAbsent, AllCurrent
  <2> QED BY <2>1, <2>2, <2>3, SMTT(30)
<1>3. CASE Setter
  BY <1>3, SetterAsks, SetStep
<1>4. CASE SaveFails
  <2>1. previous \in Config
    BY <1>4 DEF ConfigTypeOK, SaveFails
  <2>2. ConfigTypeOK'
    BY <1>4, <2>1, SameSessions, ZenonT(30) DEF ConfigTypeOK, SaveFails
  <2>3. Phases'
    BY <1>4, ZenonT(30) DEF Phases, SaveFails
  <2>4. AllCurrent(mem.ingests, pending)'
    BY <1>4, SameSessions, ZenonT(30) DEF Sessions, SaveFails, AllCurrent, Current
  <2>5. Sessions'
    BY <1>4, <2>4, SameSessions DEF Sessions, SaveFails
  <2> QED BY <2>2, <2>3, <2>5, SMTT(30)
<1>5. CASE LoadFails
  <2>1. ConfigTypeOK' /\ Phases'
    BY <1>5, SameSessions, ZenonT(30) DEF ConfigTypeOK, Phases, LoadFails
  <2>2. Sessions'
    BY <1>5, SameSessions, ZenonT(30) DEF Sessions, LoadFails
  <2> QED BY <2>1, <2>2, ZenonT(30)
<1>6. CASE Rename
  <2>1. mem \in Config /\ mem # Absent
    BY <1>6, FilesParse, ZenonT(30) DEF Phases, Rename, Normal
  <2>2. ConfigTypeOK' /\ Phases'
    BY <1>6, <2>1, SameSessions, ZenonT(30) DEF ConfigTypeOK, Phases, Rename
  <2>3. Sessions'
    BY <1>6, SameSessions, ZenonT(30) DEF Sessions, Rename, AllCurrent, Current
  <2> QED BY <2>2, <2>3, SMTT(30)
<1>7. CASE Return
  <2>1. normalise(mem) = mem /\ mem # Absent
    BY <1>7, NormalFixed, FilesParse, ZenonT(30) DEF Phases, Return, Normal
  <2>2. ConfigTypeOK' /\ Phases'
    BY <1>7, <2>1, SameSessions, ZenonT(30) DEF ConfigTypeOK, Phases, Return
  <2>3. Sessions'
    BY <1>7, SameSessions, ZenonT(30) DEF Sessions, Return, AllCurrent, Current
  <2> QED BY <2>2, <2>3, SMTT(30)
<1>8. CASE Crash
  <2>1. ConfigTypeOK' /\ Phases'
    BY <1>8, ZenonT(30) DEF ConfigTypeOK, Phases, Crash
  <2>2. Sessions'
    BY <1>8, ZenonT(30) DEF Sessions, Crash, Watched
  <2> QED BY <2>1, <2>2, SMTT(30)
<1>9. ASSUME NEW ing \in mem.ingests, NEW role \in {"sender", "receiver"}, Resolve(ing, role)
      PROVE  IInv'
  <2> DEFINE new == [id |-> ing.id, role |-> role, codecs |-> ing.codecs,
                     key |-> IF role = "sender" THEN ing.senderKey ELSE ing.receiverKey]
  <2>1. ing \in Ingest
    BY ZenonT(30) DEF ConfigTypeOK, Config
  <2>2. new \in Connection /\ Current(new, ing)
    BY <2>1, ZenonT(30) DEF Connection, Ingest, Current
  <2> HIDE DEF new
  <2>3. negotiating' = negotiating \cup {new}
    BY <1>9, ZenonT(30) DEF Resolve, new
  <2>4. Watched' \subseteq Watched \cup {new}
    BY <1>9, <2>3 DEF Resolve, Watched
  <2>5. ConfigTypeOK' /\ Phases'
    BY <1>9, <2>2, <2>3, ZenonT(30) DEF ConfigTypeOK, Phases, Resolve
  <2>6. Sessions'
    BY <1>9, <2>2, <2>4, SMTT(30) DEF Sessions, Resolve, AllCurrent, Current
  <2> QED BY <2>5, <2>6
<1>10. ASSUME NEW l \in negotiating, Register(l) \/ GiveUp(l)
       PROVE  IInv'
  <2>1. ConfigTypeOK' /\ Phases'
    BY <1>10, ZenonT(30) DEF ConfigTypeOK, Phases, Register, GiveUp
  <2>2. /\ negotiating' = negotiating \ {l} /\ missed' = missed
        /\ connected' = connected \cup {l} \/ connected' = connected
        /\ UNCHANGED <<phase, mem, previous, stale, pending>>
    BY <1>10, Zenon DEF Register, GiveUp
  <2>3. Watched' \subseteq Watched
    BY <2>2 DEF Watched
  <2>4. Sessions'
    BY <2>2, <2>3, ZenonT(30) DEF Sessions, AllCurrent, Current
  <2> QED BY <2>1, <2>4, ZenonT(30)
<1>11. ASSUME NEW id \in ID, Revoke(id)
       PROVE  IInv'
  <2>1. ConfigTypeOK' /\ Phases'
    BY <1>11, ZenonT(30) DEF ConfigTypeOK, Phases, Revoke, Of
  <2>2. Watched' \subseteq Watched /\ \A l \in Watched' : l.id # id
    BY <1>11 DEF Watched, Revoke, Of
  <2>3. Sessions'
    BY <1>11, <2>2, ZenonT(30) DEF Sessions, Revoke, AllCurrent, Current
  <2> QED BY <2>1, <2>3, ZenonT(30)
<1>12. CASE UNCHANGED vars
  <2>1. ConfigTypeOK' /\ Phases'
    BY <1>12, SameSessions, ZenonT(30) DEF ConfigTypeOK, Phases, vars
  <2>2. Sessions'
    BY <1>12, SameSessions DEF Sessions, vars, AllCurrent, Current
  <2> QED BY <2>1, <2>2, SMTT(30)
<1> QED BY <1>1, <1>2, <1>3, <1>4, <1>5, <1>6, <1>7, <1>8, <1>9, <1>10, <1>11, <1>12
        DEF ConfigNext

LEMMA Invariance == ConfigSpec => []IInv
BY InitIInv, ConfigStep, PTL DEF ConfigSpec

(* The settings, the file and the sessions keep their types. *)
THEOREM ConfigTypeCorrect == ConfigSpec => []ConfigTypeOK
<1>1. IInv => ConfigTypeOK
  BY ZenonT(30) DEF IInv
<1> QED BY <1>1, Invariance, PTL

(* No sequence of setters, rollbacks and restarts leaves a delay outside the
   limits or a maximum below its delay. *)
THEOREM AlwaysInRange == ConfigSpec => []InRange
<1>1. IInv => InRange
  BY DEF IInv, Phases, Normal, InRange
<1> QED BY <1>1, Invariance, PTL

(* Between two calls a restart would load exactly what is in memory. *)
THEOREM Durable == ConfigSpec => []MemoryIsDisk
<1>1. IInv => MemoryIsDisk
  BY DEF IInv, Phases, MemoryIsDisk
<1> QED BY <1>1, Invariance, PTL

(* A crash in a save gives the old settings or the new ones. *)
THEOREM AtomicSave == ConfigSpec => []CrashIsAtomic
<1>1. IInv => CrashIsAtomic
  BY ZenonT(30) DEF IInv, Phases, CrashIsAtomic
<1> QED BY <1>1, Invariance, PTL

(* Whatever file was found, no setter makes a key or an identifier ambiguous
   that was not. *)
THEOREM KeysUnambiguous == ConfigSpec => NoNewAmbiguity
<1>1. ASSUME IInv, [ConfigNext]_vars, phase = "idle", phase' = "temp"
      PROVE  Shared(mem'.ingests) \subseteq Shared(mem.ingests)
  <2>1. Setter
    BY <1>1, ZenonT(30) DEF ConfigNext, vars, Load, LoadAbsent, SaveFails, LoadFails, Rename,
       Return, Crash, Resolve, Register, GiveUp, Revoke
  <2>2. PICK cfg, revoke : Set(cfg, revoke) /\ Asks(cfg, revoke)
    BY <1>1, <2>1, SetterAsks
  <2>3. mem' = cfg
    BY <2>2 DEF Set
  <2> QED BY <2>2, <2>3 DEF Asks
<1> QED BY <1>1, Invariance, PTL DEF ConfigSpec, NoNewAmbiguity

(* A session that was not in negotiation while revoke looked has the key and
   the codecs its camera has now, or is about to be closed. *)
THEOREM SessionsCurrent == ConfigSpec => []LiveCurrent
<1>1. IInv => LiveCurrent
  BY DEF IInv, Sessions, AllCurrent, Watched, LiveCurrent
<1> QED BY <1>1, Invariance, PTL

-----------------------------------------------------------------------------
(* A camera's media is its owner's, and gone before its subscribers are told. *)
Owners ==
  /\ told \subseteq ending
  /\ \A c \in ending : owner[c] # None
  /\ \A c \in Camera : \A b \in media[c] : b[1] = owner[c]
  /\ \A c \in told : media[c] = {}

(* A subscriber that is registered, or will be, has its owner's tracks, and *)
(* its camera's subscribers have not been told of an end since.            *)
Attachment ==
  \A u \in Subscriber :
    /\ step[u] \in {"idle", "resolved", "attaching"} => attached[u] = {} /\ u \notin subs
    /\ u \in reserved <=> step[u] \in {"attaching", "answering", "inserting", "releasing"}
    /\ u \in subs \cup (reserved \ canceled) /\ attached[u] # {} =>
         /\ SubCamera[u] \notin told
         /\ \A b \in attached[u] : b[1] = owner[SubCamera[u]]

SInv == ServerTypeOK /\ Owners /\ Attachment

-----------------------------------------------------------------------------
(* Every step keeps the variables in their types. *)
LEMMA ServerTypeStep == SInv /\ [ServerNext]_serverVars => ServerTypeOK'
<1> SUFFICES ASSUME SInv, [ServerNext]_serverVars PROVE ServerTypeOK'
  BY ZenonT(30)
<1> USE CamerasType, NoneNoSession
    DEF SInv, ServerTypeOK, ownershipVars, egressVars,
        Subscribers!EgressTypeOK, Subscribers!Step, Subscribers!Open, Subscribers!slotVars, Subscribers!connVars, Subscribers!GotoStep, Subscribers!Remove, Subscribers!ShutPeer, Subscribers!Of
<1>1. ASSUME NEW s \in Session, Publishers!Acquire(s), UNCHANGED egressVars PROVE ServerTypeOK'
  BY <1>1, ZenonT(30) DEF Publishers!Acquire, Publishers!Owned
<1>2. ASSUME NEW c \in Camera, Publishers!GoLive(c), UNCHANGED egressVars PROVE ServerTypeOK'
  BY <1>2, ZenonT(30) DEF Publishers!GoLive, Publishers!Owned
<1>3. ASSUME NEW c \in Camera, Publishers!BeginEnding(c), UNCHANGED egressVars PROVE ServerTypeOK'
  BY <1>3, ZenonT(30) DEF Publishers!BeginEnding, Publishers!Owned
<1>4. ASSUME NEW c \in Camera, Publishers!GoDark(c), UNCHANGED egressVars PROVE ServerTypeOK'
  BY <1>4, ZenonT(30) DEF Publishers!GoDark, Publishers!Owned
<1>5. ASSUME NEW c \in Camera, Publishers!DropMedia(c), UNCHANGED egressVars PROVE ServerTypeOK'
  BY <1>5, ZenonT(30) DEF Publishers!DropMedia, Publishers!Owned
<1>6. ASSUME NEW c \in Camera, Publishers!HandBack(c), UNCHANGED egressVars PROVE ServerTypeOK'
  BY <1>6, ZenonT(30) DEF Publishers!HandBack, Owners
<1>7. ASSUME NEW c \in Camera, NEW k \in Kind, Publishers!AddTrack(c, k), UNCHANGED egressVars
     PROVE ServerTypeOK'
  BY <1>7 DEF Publishers!AddTrack, Publishers!Owned
<1>8. ASSUME NEW c \in Camera, TellSubscribers(c) PROVE ServerTypeOK'
  BY <1>8, ZenonT(30) DEF TellSubscribers, Publishers!Tell, Subscribers!CloseIngest
<1>9. ASSUME NEW c \in Camera, RevokeSubscribers(c) PROVE ServerTypeOK'
  BY <1>9, ZenonT(30) DEF RevokeSubscribers, Subscribers!CloseIngest
<1>10. ASSUME NEW u \in Subscriber, Subscribe(u) PROVE ServerTypeOK'
  BY <1>10, ZenonT(30) DEF Subscribe, Subscribers!Attach
<1>11. ASSUME NEW u \in Subscriber, Subscribers!ResolveKey(u), UNCHANGED ownershipVars PROVE ServerTypeOK'
  BY <1>11, ZenonT(30) DEF Subscribers!ResolveKey
<1>12. ASSUME NEW u \in Subscriber, Subscribers!ReserveSlot(u), UNCHANGED ownershipVars PROVE ServerTypeOK'
  BY <1>12, ZenonT(30) DEF Subscribers!ReserveSlot
<1>13. ASSUME NEW u \in Subscriber, Subscribers!NoRoom(u), UNCHANGED ownershipVars PROVE ServerTypeOK'
  BY <1>13, ZenonT(30) DEF Subscribers!NoRoom
<1>14. ASSUME NEW u \in Subscriber, Subscribers!AttachFails(u), UNCHANGED ownershipVars PROVE ServerTypeOK'
  BY <1>14, ZenonT(30) DEF Subscribers!AttachFails
<1>15. ASSUME NEW u \in Subscriber, Subscribers!Unanswered(u), UNCHANGED ownershipVars PROVE ServerTypeOK'
  BY <1>15, ZenonT(30) DEF Subscribers!Unanswered
<1>16. ASSUME NEW u \in Subscriber, Subscribers!Answered(u), UNCHANGED ownershipVars PROVE ServerTypeOK'
  BY <1>16, ZenonT(30) DEF Subscribers!Answered
<1>17. ASSUME NEW u \in Subscriber, Subscribers!Insert(u), UNCHANGED ownershipVars PROVE ServerTypeOK'
  BY <1>17, ZenonT(30) DEF Subscribers!Insert
<1>18. ASSUME NEW u \in Subscriber, Subscribers!Discarded(u), UNCHANGED ownershipVars PROVE ServerTypeOK'
  BY <1>18, ZenonT(30) DEF Subscribers!Discarded
<1>19. ASSUME NEW u \in Subscriber, Subscribers!ReleaseSlot(u), UNCHANGED ownershipVars PROVE ServerTypeOK'
  BY <1>19, ZenonT(30) DEF Subscribers!ReleaseSlot
<1>20. ASSUME NEW u \in Subscriber, Subscribers!TeardownSub(u), UNCHANGED ownershipVars PROVE ServerTypeOK'
  BY <1>20, ZenonT(30) DEF Subscribers!TeardownSub
<1>21. ASSUME NEW u \in Subscriber, Subscribers!TimerFires(u), UNCHANGED ownershipVars PROVE ServerTypeOK'
  BY <1>21, ZenonT(30) DEF Subscribers!TimerFires
<1>22. ASSUME NEW u \in Subscriber, Subscribers!TimerTeardown(u), UNCHANGED ownershipVars PROVE ServerTypeOK'
  BY <1>22, ZenonT(30) DEF Subscribers!TimerTeardown
<1>23. ASSUME NEW u \in Subscriber, Subscribers!CloseDoomed(u), UNCHANGED ownershipVars PROVE ServerTypeOK'
  BY <1>23, ZenonT(30) DEF Subscribers!CloseDoomed
<1>24. ASSUME NEW u \in Subscriber, Subscribers!OnSubStop(u), UNCHANGED ownershipVars PROVE ServerTypeOK'
  BY <1>24, ZenonT(30) DEF Subscribers!OnSubStop
<1>25. ASSUME NEW u \in Subscriber, Subscribers!SubConnects(u), UNCHANGED ownershipVars PROVE ServerTypeOK'
  BY <1>25, ZenonT(30) DEF Subscribers!SubConnects
<1>26. ASSUME NEW u \in Subscriber, Subscribers!SubDisconnects(u), UNCHANGED ownershipVars PROVE ServerTypeOK'
  BY <1>26, ZenonT(30) DEF Subscribers!SubDisconnects
<1>27. ASSUME NEW u \in Subscriber, Subscribers!SubFails(u), UNCHANGED ownershipVars PROVE ServerTypeOK'
  BY <1>27, ZenonT(30) DEF Subscribers!SubFails
<1>28. ASSUME Subscribers!CloseAll, UNCHANGED ownershipVars PROVE ServerTypeOK'
  BY <1>28, ZenonT(30) DEF Subscribers!CloseAll
<1>29. CASE UNCHANGED serverVars
  BY <1>29, SMTT(30) DEF serverVars
<1> QED
  BY <1>1, <1>2, <1>3, <1>4, <1>5, <1>6, <1>7, <1>8, <1>9, <1>10, <1>11, <1>12, <1>13, <1>14, <1>15, <1>16, <1>17, <1>18, <1>19, <1>20, <1>21, <1>22, <1>23, <1>24, <1>25, <1>26, <1>27, <1>28, <1>29, ZenonT(30)
  DEF ServerNext, PublisherStep, Subscribers!EgressStep, Subscribers!SubHandlerStep,
      Subscribers!SubBackground

(* No step leaves a subscriber on tracks of another owner. *)
LEMMA AttachmentStep == SInv /\ [ServerNext]_serverVars => Attachment'
<1> SUFFICES ASSUME SInv, [ServerNext]_serverVars PROVE Attachment'
  BY ZenonT(30)
<1> USE CamerasType, NoneNoSession
    DEF SInv, ServerTypeOK, Owners, Attachment, ownershipVars, egressVars,
        Subscribers!EgressTypeOK, Subscribers!Step, Subscribers!Open, Subscribers!slotVars, Subscribers!connVars, Subscribers!GotoStep, Subscribers!Remove, Subscribers!ShutPeer, Subscribers!Of
<1>1. ASSUME NEW s \in Session, Publishers!Acquire(s), UNCHANGED egressVars PROVE Attachment'
  BY <1>1 DEF Publishers!Acquire, Publishers!Owned
<1>2. ASSUME NEW c \in Camera, Publishers!GoLive(c), UNCHANGED egressVars PROVE Attachment'
  BY <1>2, ZenonT(30) DEF Publishers!GoLive, Publishers!Owned
<1>3. ASSUME NEW c \in Camera, Publishers!BeginEnding(c), UNCHANGED egressVars PROVE Attachment'
  BY <1>3, ZenonT(30) DEF Publishers!BeginEnding, Publishers!Owned
<1>4. ASSUME NEW c \in Camera, Publishers!GoDark(c), UNCHANGED egressVars PROVE Attachment'
  BY <1>4, ZenonT(30) DEF Publishers!GoDark, Publishers!Owned
<1>5. ASSUME NEW c \in Camera, Publishers!DropMedia(c), UNCHANGED egressVars PROVE Attachment'
  BY <1>5, ZenonT(30) DEF Publishers!DropMedia, Publishers!Owned
<1>6. ASSUME NEW c \in Camera, Publishers!HandBack(c), UNCHANGED egressVars PROVE Attachment'
  BY <1>6 DEF Publishers!HandBack, Publishers!Owned
<1>7. ASSUME NEW c \in Camera, NEW k \in Kind, Publishers!AddTrack(c, k), UNCHANGED egressVars
     PROVE Attachment'
  BY <1>7, ZenonT(30) DEF Publishers!AddTrack, Publishers!Owned
<1>8. ASSUME NEW c \in Camera, TellSubscribers(c) PROVE Attachment'
  BY <1>8, ZenonT(30) DEF TellSubscribers, Publishers!Tell, Subscribers!CloseIngest
<1>9. ASSUME NEW c \in Camera, RevokeSubscribers(c) PROVE Attachment'
  BY <1>9, ZenonT(30) DEF RevokeSubscribers, Subscribers!CloseIngest
<1>10. ASSUME NEW u \in Subscriber, Subscribe(u) PROVE Attachment'
  BY <1>10 DEF Subscribe, Subscribers!Attach
<1>11. ASSUME NEW u \in Subscriber, Subscribers!ResolveKey(u), UNCHANGED ownershipVars PROVE Attachment'
  BY <1>11, ZenonT(30) DEF Subscribers!ResolveKey
<1>12. ASSUME NEW u \in Subscriber, Subscribers!ReserveSlot(u), UNCHANGED ownershipVars PROVE Attachment'
  BY <1>12, ZenonT(30) DEF Subscribers!ReserveSlot
<1>13. ASSUME NEW u \in Subscriber, Subscribers!NoRoom(u), UNCHANGED ownershipVars PROVE Attachment'
  BY <1>13, ZenonT(30) DEF Subscribers!NoRoom
<1>14. ASSUME NEW u \in Subscriber, Subscribers!AttachFails(u), UNCHANGED ownershipVars PROVE Attachment'
  BY <1>14, ZenonT(30) DEF Subscribers!AttachFails
<1>15. ASSUME NEW u \in Subscriber, Subscribers!Unanswered(u), UNCHANGED ownershipVars PROVE Attachment'
  BY <1>15, ZenonT(30) DEF Subscribers!Unanswered
<1>16. ASSUME NEW u \in Subscriber, Subscribers!Answered(u), UNCHANGED ownershipVars PROVE Attachment'
  BY <1>16, ZenonT(30) DEF Subscribers!Answered
<1>17. ASSUME NEW u \in Subscriber, Subscribers!Insert(u), UNCHANGED ownershipVars PROVE Attachment'
  BY <1>17 DEF Subscribers!Insert
<1>18. ASSUME NEW u \in Subscriber, Subscribers!Discarded(u), UNCHANGED ownershipVars PROVE Attachment'
  BY <1>18, ZenonT(30) DEF Subscribers!Discarded
<1>19. ASSUME NEW u \in Subscriber, Subscribers!ReleaseSlot(u), UNCHANGED ownershipVars PROVE Attachment'
  BY <1>19, ZenonT(30) DEF Subscribers!ReleaseSlot
<1>20. ASSUME NEW u \in Subscriber, Subscribers!TeardownSub(u), UNCHANGED ownershipVars PROVE Attachment'
  BY <1>20, ZenonT(30) DEF Subscribers!TeardownSub
<1>21. ASSUME NEW u \in Subscriber, Subscribers!TimerFires(u), UNCHANGED ownershipVars PROVE Attachment'
  BY <1>21, ZenonT(30) DEF Subscribers!TimerFires
<1>22. ASSUME NEW u \in Subscriber, Subscribers!TimerTeardown(u), UNCHANGED ownershipVars PROVE Attachment'
  BY <1>22, ZenonT(30) DEF Subscribers!TimerTeardown
<1>23. ASSUME NEW u \in Subscriber, Subscribers!CloseDoomed(u), UNCHANGED ownershipVars PROVE Attachment'
  BY <1>23, ZenonT(30) DEF Subscribers!CloseDoomed
<1>24. ASSUME NEW u \in Subscriber, Subscribers!OnSubStop(u), UNCHANGED ownershipVars PROVE Attachment'
  BY <1>24, ZenonT(30) DEF Subscribers!OnSubStop
<1>25. ASSUME NEW u \in Subscriber, Subscribers!SubConnects(u), UNCHANGED ownershipVars PROVE Attachment'
  BY <1>25, ZenonT(30) DEF Subscribers!SubConnects
<1>26. ASSUME NEW u \in Subscriber, Subscribers!SubDisconnects(u), UNCHANGED ownershipVars PROVE Attachment'
  BY <1>26, ZenonT(30) DEF Subscribers!SubDisconnects
<1>27. ASSUME NEW u \in Subscriber, Subscribers!SubFails(u), UNCHANGED ownershipVars PROVE Attachment'
  BY <1>27, ZenonT(30) DEF Subscribers!SubFails
<1>28. ASSUME Subscribers!CloseAll, UNCHANGED ownershipVars PROVE Attachment'
  BY <1>28, ZenonT(30) DEF Subscribers!CloseAll
<1>29. CASE UNCHANGED serverVars
  BY <1>29, ZenonT(30) DEF serverVars
<1> QED
  BY <1>1, <1>2, <1>3, <1>4, <1>5, <1>6, <1>7, <1>8, <1>9, <1>10, <1>11, <1>12, <1>13, <1>14, <1>15, <1>16, <1>17, <1>18, <1>19, <1>20, <1>21, <1>22, <1>23, <1>24, <1>25, <1>26, <1>27, <1>28, <1>29, ZenonT(30)
  DEF ServerNext, PublisherStep, Subscribers!EgressStep, Subscribers!SubHandlerStep,
      Subscribers!SubBackground

(* The publishers' promise keeps a camera's media its owner's. *)
LEMMA OwnersStep == SInv /\ [ServerNext]_serverVars => Owners'
<1> SUFFICES ASSUME SInv, [ServerNext]_serverVars PROVE Owners'
  BY SMTT(30)
<1> USE CamerasType, NoneNoSession DEF SInv, ServerTypeOK, Owners
<1>1. ASSUME NEW s \in Session, Publishers!Acquire(s) PROVE Owners'
  BY <1>1 DEF Publishers!Acquire, Publishers!Owned
<1>2. ASSUME NEW c \in Camera,
             \/ Publishers!GoLive(c) \/ Publishers!BeginEnding(c) \/ Publishers!GoDark(c)
             \/ Publishers!Tell(c)
      PROVE  Owners'
  BY <1>2 DEF Publishers!GoLive, Publishers!BeginEnding, Publishers!GoDark, Publishers!Tell,
     Publishers!Owned
<1>3. ASSUME NEW c \in Camera, Publishers!DropMedia(c) PROVE Owners'
  BY <1>3, ZenonT(30) DEF Publishers!DropMedia
<1>4. ASSUME NEW c \in Camera, Publishers!HandBack(c) PROVE Owners'
  BY <1>4, ZenonT(30) DEF Publishers!HandBack
<1>5. ASSUME NEW c \in Camera, NEW k \in Kind, Publishers!AddTrack(c, k) PROVE Owners'
  BY <1>5 DEF Publishers!AddTrack, Publishers!Owned
<1>6. CASE UNCHANGED ownershipVars
  BY <1>6 DEF ownershipVars
<1> QED
  BY <1>1, <1>2, <1>3, <1>4, <1>5, <1>6, ZenonT(30)
  DEF ServerNext, PublisherStep, TellSubscribers, RevokeSubscribers, Subscribe, serverVars

-----------------------------------------------------------------------------
(* The inductive invariant holds in every reachable state. *)
LEMMA ServerInvariance == ServerSpec => []SInv
<1>1. ServerInit => SInv
  <2> SUFFICES ASSUME ServerInit PROVE SInv
    OBVIOUS
  <2> USE CamerasType DEF ServerInit, Publishers!Init, Subscribers!EgressInit
  <2>1. ServerTypeOK
    BY Zenon DEF ServerTypeOK, Subscribers!EgressTypeOK, Subscribers!Step, Subscribers!Open
  <2>2. Owners
    BY ZenonT(30) DEF Owners
  <2>3. Attachment
    BY DEF Attachment, Subscribers!Open
  <2> QED
    BY <2>1, <2>2, <2>3 DEF SInv
<1>2. SInv /\ [ServerNext]_serverVars => SInv'
  BY ServerTypeStep, OwnersStep, AttachmentStep, ZenonT(30) DEF SInv
<1> QED
  BY <1>1, <1>2, PTL DEF ServerSpec

(* For any number of publishers, subscribers and cameras, and any order of *)
(* their steps: a registered subscriber has tracks of the present owner.   *)
THEOREM NeverStale == ServerSpec => []SubscribersOfOwner
<1>1. SInv => SubscribersOfOwner
  BY DEF SInv, ServerTypeOK, Subscribers!EgressTypeOK, Attachment, SubscribersOfOwner
<1> QED
  BY <1>1, ServerInvariance, PTL

-----------------------------------------------------------------------------
(* Seen from the egress server, the composed program takes only its steps: *)
(* what holds of any use of the server holds in the program.               *)
THEOREM UsesEgress == ServerSpec => Subscribers!EgressSpec
<1>1. ServerInit => Subscribers!EgressInit
  BY DEF ServerInit
<1>2. SInv /\ [ServerNext]_serverVars => [Subscribers!EgressNext]_(Subscribers!egressVars)
  <2> SUFFICES ASSUME SInv, [ServerNext]_serverVars
               PROVE  Subscribers!EgressNext \/ UNCHANGED Subscribers!egressVars
    BY ZenonT(30)
  <2>1. CASE PublisherStep \/ UNCHANGED serverVars
    BY <2>1 DEF PublisherStep, serverVars, egressVars, Subscribers!egressVars,
       Subscribers!slotVars, Subscribers!connVars
  <2>2. ASSUME NEW c \in Camera, TellSubscribers(c) \/ RevokeSubscribers(c)
        PROVE  Subscribers!EgressNext
    BY <2>2, ZenonT(30) DEF TellSubscribers, RevokeSubscribers, Subscribers!EgressNext
  <2>3. ASSUME NEW u \in Subscriber, Subscribe(u) PROVE Subscribers!EgressNext
    <3>1. media[SubCamera[u]] \in SUBSET (Session \X Kind)
      BY CamerasType DEF SInv, ServerTypeOK
    <3> QED
      BY <2>3, <3>1 DEF Subscribe, Subscribers!EgressNext
  <2>4. CASE Subscribers!EgressStep
    BY <2>4 DEF Subscribers!EgressNext
  <2> QED
    BY <2>1, <2>2, <2>3, <2>4 DEF ServerNext
<1> QED
  BY <1>1, <1>2, ServerInvariance, PTL DEF ServerSpec, Subscribers!EgressSpec

-----------------------------------------------------------------------------
(* The subscribers' slots, for any number of cameras, requests and limits. *)
LEMMA SameCardinality == \A S : Subscribers!Cardinality(S) = Cardinality(S)
  BY Zenon DEF Subscribers!Cardinality, Cardinality

(* The handler is between reserve and releaseReservation. *)
Holding == {"attaching", "answering", "inserting", "releasing"}

(* Which subscribers are in which table, told from where their handlers are. *)
Tables ==
  /\ reserved = {u \in Subscriber : step[u] \in Holding}
  /\ \A u \in stops : upeer[u] \in {"failed", "closed"}
  /\ \A u \in subs \cup doomed : step[u] \in {"releasing", "done"}
  /\ \A u \in Subscriber :
       /\ step[u] \in {"idle", "resolved", "attaching"} => upeer[u] = "none"
       /\ step[u] \in {"releasing", "done"} /\ upeer[u] \in Subscribers!Open => u \in subs \cup doomed
  /\ shut => subs = {} /\ canceled = reserved

(* The tables are finite, and within the limits. *)
Room ==
  /\ IsFiniteSet(subs) /\ IsFiniteSet(reserved)
  /\ Subscribers!Capacity

EInv == Subscribers!EgressTypeOK /\ Tables /\ Room

-----------------------------------------------------------------------------
(* Every step keeps the variables in their types. *)
LEMMA EgressTypeStep == Subscribers!EgressTypeOK /\ [Subscribers!EgressNext]_(Subscribers!egressVars) => Subscribers!EgressTypeOK'
<1> SUFFICES ASSUME Subscribers!EgressTypeOK, [Subscribers!EgressNext]_(Subscribers!egressVars) PROVE Subscribers!EgressTypeOK'
  BY ZenonT(30)
<1> USE CamerasType DEF Subscribers!EgressTypeOK, Subscribers!Step, Subscribers!Open, Subscribers!slotVars, Subscribers!connVars, Subscribers!GotoStep, Subscribers!Remove, Subscribers!ShutPeer
<1>1. ASSUME NEW u \in Subscriber, Subscribers!ResolveKey(u) PROVE Subscribers!EgressTypeOK'
  BY <1>1, ZenonT(30) DEF Subscribers!ResolveKey
<1>2. ASSUME NEW u \in Subscriber, Subscribers!ReserveSlot(u) PROVE Subscribers!EgressTypeOK'
  BY <1>2, ZenonT(30) DEF Subscribers!ReserveSlot
<1>3. ASSUME NEW u \in Subscriber, Subscribers!NoRoom(u) PROVE Subscribers!EgressTypeOK'
  BY <1>3, ZenonT(30) DEF Subscribers!NoRoom
<1>4. ASSUME NEW u \in Subscriber, Subscribers!AttachFails(u) PROVE Subscribers!EgressTypeOK'
  BY <1>4, ZenonT(30) DEF Subscribers!AttachFails
<1>5. ASSUME NEW u \in Subscriber, Subscribers!Unanswered(u) PROVE Subscribers!EgressTypeOK'
  BY <1>5, ZenonT(30) DEF Subscribers!Unanswered
<1>6. ASSUME NEW u \in Subscriber, Subscribers!Answered(u) PROVE Subscribers!EgressTypeOK'
  BY <1>6, ZenonT(30) DEF Subscribers!Answered
<1>7. ASSUME NEW u \in Subscriber, Subscribers!Insert(u) PROVE Subscribers!EgressTypeOK'
  BY <1>7, ZenonT(30) DEF Subscribers!Insert
<1>8. ASSUME NEW u \in Subscriber, Subscribers!Discarded(u) PROVE Subscribers!EgressTypeOK'
  BY <1>8, ZenonT(30) DEF Subscribers!Discarded
<1>9. ASSUME NEW u \in Subscriber, Subscribers!ReleaseSlot(u) PROVE Subscribers!EgressTypeOK'
  BY <1>9, ZenonT(30) DEF Subscribers!ReleaseSlot
<1>10. ASSUME NEW u \in Subscriber, Subscribers!TeardownSub(u) PROVE Subscribers!EgressTypeOK'
  BY <1>10, ZenonT(30) DEF Subscribers!TeardownSub
<1>11. ASSUME NEW u \in Subscriber, Subscribers!TimerFires(u) PROVE Subscribers!EgressTypeOK'
  BY <1>11, ZenonT(30) DEF Subscribers!TimerFires
<1>12. ASSUME NEW u \in Subscriber, Subscribers!TimerTeardown(u) PROVE Subscribers!EgressTypeOK'
  BY <1>12, ZenonT(30) DEF Subscribers!TimerTeardown
<1>13. ASSUME NEW u \in Subscriber, Subscribers!CloseDoomed(u) PROVE Subscribers!EgressTypeOK'
  BY <1>13, ZenonT(30) DEF Subscribers!CloseDoomed
<1>14. ASSUME NEW u \in Subscriber, Subscribers!OnSubStop(u) PROVE Subscribers!EgressTypeOK'
  BY <1>14, ZenonT(30) DEF Subscribers!OnSubStop
<1>15. ASSUME NEW u \in Subscriber, Subscribers!SubConnects(u) PROVE Subscribers!EgressTypeOK'
  BY <1>15, ZenonT(30) DEF Subscribers!SubConnects
<1>16. ASSUME NEW u \in Subscriber, Subscribers!SubDisconnects(u) PROVE Subscribers!EgressTypeOK'
  BY <1>16, ZenonT(30) DEF Subscribers!SubDisconnects
<1>17. ASSUME NEW u \in Subscriber, Subscribers!SubFails(u) PROVE Subscribers!EgressTypeOK'
  BY <1>17, ZenonT(30) DEF Subscribers!SubFails
<1>18. ASSUME NEW u \in Subscriber, NEW T \in SUBSET (Session \X Kind), Subscribers!Attach(u, T) PROVE Subscribers!EgressTypeOK'
  BY <1>18, ZenonT(30) DEF Subscribers!Attach
<1>19. ASSUME NEW c \in Camera, Subscribers!CloseIngest(c) PROVE Subscribers!EgressTypeOK'
  BY <1>19, ZenonT(30) DEF Subscribers!CloseIngest, Subscribers!Of
<1>20. CASE Subscribers!CloseAll
  BY <1>20 DEF Subscribers!CloseAll
<1>21. CASE UNCHANGED Subscribers!egressVars
  BY <1>21, Zenon DEF Subscribers!egressVars
<1> QED
  BY <1>1, <1>2, <1>3, <1>4, <1>5, <1>6, <1>7, <1>8, <1>9, <1>10, <1>11, <1>12, <1>13, <1>14, <1>15, <1>16, <1>17, <1>18, <1>19, <1>20, <1>21, ZenonT(30)
  DEF Subscribers!EgressNext, Subscribers!EgressStep, Subscribers!SubHandlerStep, Subscribers!SubBackground

(* Handlers, callbacks, timers and closers keep the tables consistent. *)
LEMMA TablesStep == Subscribers!EgressTypeOK /\ Tables /\ [Subscribers!EgressNext]_(Subscribers!egressVars) => Tables'
<1> SUFFICES ASSUME Subscribers!EgressTypeOK /\ Tables, [Subscribers!EgressNext]_(Subscribers!egressVars) PROVE Tables'
  BY ZenonT(30)
<1> USE CamerasType DEF Subscribers!EgressTypeOK, Tables, Holding, Subscribers!Open, Subscribers!slotVars, Subscribers!connVars, Subscribers!GotoStep, Subscribers!Remove, Subscribers!ShutPeer
<1>1. ASSUME NEW u \in Subscriber, Subscribers!ResolveKey(u) PROVE Tables'
  BY <1>1, ZenonT(30) DEF Subscribers!ResolveKey
<1>2. ASSUME NEW u \in Subscriber, Subscribers!ReserveSlot(u) PROVE Tables'
  BY <1>2, ZenonT(30) DEF Subscribers!ReserveSlot, Subscribers!HasRoom
<1>3. ASSUME NEW u \in Subscriber, Subscribers!NoRoom(u) PROVE Tables'
  BY <1>3, ZenonT(30) DEF Subscribers!NoRoom
<1>4. ASSUME NEW u \in Subscriber, Subscribers!AttachFails(u) PROVE Tables'
  BY <1>4, ZenonT(30) DEF Subscribers!AttachFails
<1>5. ASSUME NEW u \in Subscriber, Subscribers!Unanswered(u) PROVE Tables'
  BY <1>5, ZenonT(30) DEF Subscribers!Unanswered
<1>6. ASSUME NEW u \in Subscriber, Subscribers!Answered(u) PROVE Tables'
  BY <1>6, ZenonT(30) DEF Subscribers!Answered
<1>7. ASSUME NEW u \in Subscriber, Subscribers!Insert(u) PROVE Tables'
  BY <1>7, ZenonT(30) DEF Subscribers!Insert
<1>8. ASSUME NEW u \in Subscriber, Subscribers!Discarded(u) PROVE Tables'
  BY <1>8, ZenonT(30) DEF Subscribers!Discarded
<1>9. ASSUME NEW u \in Subscriber, Subscribers!ReleaseSlot(u) PROVE Tables'
  BY <1>9, ZenonT(30) DEF Subscribers!ReleaseSlot
<1>10. ASSUME NEW u \in Subscriber, Subscribers!TeardownSub(u) PROVE Tables'
  BY <1>10, ZenonT(30) DEF Subscribers!TeardownSub
<1>11. ASSUME NEW u \in Subscriber, Subscribers!TimerFires(u) PROVE Tables'
  BY <1>11, ZenonT(30) DEF Subscribers!TimerFires
<1>12. ASSUME NEW u \in Subscriber, Subscribers!TimerTeardown(u) PROVE Tables'
  BY <1>12, ZenonT(30) DEF Subscribers!TimerTeardown
<1>13. ASSUME NEW u \in Subscriber, Subscribers!CloseDoomed(u) PROVE Tables'
  BY <1>13, ZenonT(30) DEF Subscribers!CloseDoomed
<1>14. ASSUME NEW u \in Subscriber, Subscribers!OnSubStop(u) PROVE Tables'
  BY <1>14, ZenonT(30) DEF Subscribers!OnSubStop
<1>15. ASSUME NEW u \in Subscriber, Subscribers!SubConnects(u) PROVE Tables'
  BY <1>15, ZenonT(30) DEF Subscribers!SubConnects
<1>16. ASSUME NEW u \in Subscriber, Subscribers!SubDisconnects(u) PROVE Tables'
  BY <1>16, ZenonT(30) DEF Subscribers!SubDisconnects
<1>17. ASSUME NEW u \in Subscriber, Subscribers!SubFails(u) PROVE Tables'
  BY <1>17, ZenonT(30) DEF Subscribers!SubFails
<1>18. ASSUME NEW u \in Subscriber, NEW T \in SUBSET (Session \X Kind), Subscribers!Attach(u, T) PROVE Tables'
  BY <1>18, ZenonT(30) DEF Subscribers!Attach
<1>19. ASSUME NEW c \in Camera, Subscribers!CloseIngest(c) PROVE Tables'
  BY <1>19, ZenonT(30) DEF Subscribers!CloseIngest, Subscribers!Of
<1>20. CASE Subscribers!CloseAll
  BY <1>20, ZenonT(30) DEF Subscribers!CloseAll
<1>21. CASE UNCHANGED Subscribers!egressVars
  BY <1>21 DEF Subscribers!egressVars
<1> QED
  BY <1>1, <1>2, <1>3, <1>4, <1>5, <1>6, <1>7, <1>8, <1>9, <1>10, <1>11, <1>12, <1>13, <1>14, <1>15, <1>16, <1>17, <1>18, <1>19, <1>20, <1>21, ZenonT(30)
  DEF Subscribers!EgressNext, Subscribers!EgressStep, Subscribers!SubHandlerStep, Subscribers!SubBackground

Sets == INSTANCE FiniteSetTheorems

LEMMA SameSets ==
  \A S : Sets!IsFiniteSet(S) = IsFiniteSet(S) /\ Sets!Cardinality(S) = Cardinality(S)
  BY Zenon DEF Sets!IsFiniteSet, IsFiniteSet, Sets!Cardinality, Cardinality

(* Two finite sets and one more element. *)
LEMMA UnionAndOne ==
  ASSUME NEW A, NEW B, NEW x, NEW n \in Nat, IsFiniteSet(A), IsFiniteSet(B),
         Cardinality(A) + Cardinality(B) < n
  PROVE  /\ IsFiniteSet(A \cup (B \cup {x}))
         /\ Cardinality(A \cup (B \cup {x})) <= n
<1>1. IsFiniteSet(A \cup B) /\ Cardinality(A \cup B) = Cardinality(A) + Cardinality(B) - Cardinality(A \cap B)
  BY Sets!FS_Union, SameSets
<1>2. Cardinality(A) \in Nat /\ Cardinality(B) \in Nat /\ Cardinality(A \cap B) \in Nat
  BY Sets!FS_CardinalityType, Sets!FS_Intersection, SameSets, Zenon
<1> DEFINE U == A \cup B
<1>3. A \cup (B \cup {x}) = U \cup {x}
  OBVIOUS
<1>4. /\ IsFiniteSet(U) /\ Cardinality(U) \in Nat
      /\ Cardinality(U) <= Cardinality(A) + Cardinality(B)
  BY <1>1, <1>2, Sets!FS_CardinalityType, SameSets
<1> HIDE DEF U
<1>5. /\ IsFiniteSet(U \cup {x})
      /\ Cardinality(U \cup {x}) = IF x \in U THEN Cardinality(U) ELSE Cardinality(U) + 1
  BY <1>4, Sets!FS_AddElement, SameSets, ZenonT(30)
<1> QED
  BY <1>2, <1>3, <1>4, <1>5

(* A slot is taken only under the limits, and a subscriber that moves from *)
(* pending to sessions is counted once.                                    *)
LEMMA RoomStep == EInv /\ [Subscribers!EgressNext]_(Subscribers!egressVars) => Room'
<1> SUFFICES ASSUME EInv, [Subscribers!EgressNext]_(Subscribers!egressVars) PROVE Room'
  OBVIOUS
<1> USE CamerasType, LimitsType, SameCardinality
<1>1. ASSUME NEW u \in Subscriber, Subscribers!ReserveSlot(u) PROVE Room'
  <2>1. UNCHANGED subs /\ reserved' = reserved \cup {u} /\ Subscribers!HasRoom(SubCamera[u])
    BY <1>1, ZenonT(30) DEF Subscribers!ReserveSlot
  <2>2. IsFiniteSet(reserved')
    BY <2>1, Sets!FS_AddElement, SameSets DEF EInv, Room
  <2>3. Cardinality(subs' \cup reserved') <= maxSubscribers
    BY <2>1, UnionAndOne, Zenon DEF EInv, Room, Subscribers!HasRoom
  <2>4. ASSUME NEW c \in Camera
        PROVE  Cardinality(Subscribers!Of(c, subs' \cup reserved')) <= maxSubscribersPerIngest
    <3>1. CASE c = SubCamera[u]
      <4>1. Subscribers!Of(c, subs' \cup reserved') = Subscribers!Of(c, subs) \cup (Subscribers!Of(c, reserved) \cup {u})
        BY <2>1, <3>1, ZenonT(30) DEF Subscribers!Of
      <4>2. IsFiniteSet(Subscribers!Of(c, subs)) /\ IsFiniteSet(Subscribers!Of(c, reserved))
        BY Sets!FS_Subset, SameSets, ZenonT(30) DEF EInv, Room, Subscribers!Of
      <4>3. Cardinality(Subscribers!Of(c, subs)) + Cardinality(Subscribers!Of(c, reserved)) < maxSubscribersPerIngest
        BY <2>1, <3>1 DEF Subscribers!HasRoom
      <4> HIDE DEF Subscribers!Of
      <4> QED
        BY <4>1, <4>2, <4>3, UnionAndOne, Zenon
    <3>2. CASE c # SubCamera[u]
      <4>1. Subscribers!Of(c, subs' \cup reserved') = Subscribers!Of(c, subs \cup reserved)
        BY <2>1, <3>2, ZenonT(30) DEF Subscribers!Of
      <4> QED
        BY <4>1, Zenon DEF EInv, Room, Subscribers!Capacity
    <3> QED
      BY <3>1, <3>2
  <2> QED
    BY <2>1, <2>2, <2>3, <2>4, ZenonT(30) DEF EInv, Room, Subscribers!Capacity, Subscribers!Of
<1>2. ASSUME subs' \cup reserved' \subseteq subs \cup reserved PROVE Room'
  <2>1. IsFiniteSet(subs \cup reserved)
    BY Sets!FS_Union, SameSets, Zenon DEF EInv, Room
  <2>2. IsFiniteSet(subs') /\ IsFiniteSet(reserved')
    BY <1>2, <2>1, Sets!FS_Subset, SameSets, ZenonT(30)
  <2>3. Cardinality(subs' \cup reserved') <= maxSubscribers
    <3>1. /\ Cardinality(subs' \cup reserved') <= Cardinality(subs \cup reserved)
          /\ IsFiniteSet(subs' \cup reserved')
      BY <1>2, <2>1, Sets!FS_Subset, SameSets, Zenon
    <3>2. Cardinality(subs' \cup reserved') \in Nat /\ Cardinality(subs \cup reserved) \in Nat
      BY <2>1, <3>1, Sets!FS_CardinalityType, SameSets, Zenon
    <3>3. Cardinality(subs \cup reserved) <= maxSubscribers
      BY Zenon DEF EInv, Room, Subscribers!Capacity
    <3> QED
      BY <3>1, <3>2, <3>3
  <2>4. ASSUME NEW c \in Camera
        PROVE  Cardinality(Subscribers!Of(c, subs' \cup reserved')) <= maxSubscribersPerIngest
    <3>1. IsFiniteSet(Subscribers!Of(c, subs \cup reserved))
      BY <2>1, Sets!FS_Subset, SameSets, ZenonT(30) DEF Subscribers!Of
    <3>2. Subscribers!Of(c, subs' \cup reserved') \subseteq Subscribers!Of(c, subs \cup reserved)
      BY <1>2 DEF Subscribers!Of
    <3>3. Cardinality(Subscribers!Of(c, subs \cup reserved)) <= maxSubscribersPerIngest
      BY Zenon DEF EInv, Room, Subscribers!Capacity
    <3>4. /\ Cardinality(Subscribers!Of(c, subs' \cup reserved')) <= Cardinality(Subscribers!Of(c, subs \cup reserved))
          /\ IsFiniteSet(Subscribers!Of(c, subs' \cup reserved'))
      BY <3>1, <3>2, Sets!FS_Subset, SameSets, Zenon
    <3> HIDE DEF Subscribers!Of
    <3> QED
      BY <3>1, <3>3, <3>4, Sets!FS_CardinalityType, SameSets
  <2> QED
    BY <2>2, <2>3, <2>4 DEF Room, Subscribers!Capacity, Subscribers!Of
<1>3. ASSUME NEW u \in Subscriber,
             \/ Subscribers!ResolveKey(u) \/ Subscribers!NoRoom(u) \/ Subscribers!AttachFails(u) \/ Subscribers!Unanswered(u) \/ Subscribers!Answered(u)
             \/ Subscribers!Insert(u) \/ Subscribers!Discarded(u) \/ Subscribers!ReleaseSlot(u) \/ Subscribers!TeardownSub(u)
             \/ Subscribers!TimerFires(u) \/ Subscribers!TimerTeardown(u) \/ Subscribers!CloseDoomed(u) \/ Subscribers!OnSubStop(u)
             \/ Subscribers!SubConnects(u) \/ Subscribers!SubDisconnects(u) \/ Subscribers!SubFails(u)
             \/ \E T \in SUBSET (Session \X Kind) : Subscribers!Attach(u, T)
      PROVE  subs' \cup reserved' \subseteq subs \cup reserved
  BY <1>3, Zenon DEF EInv, Tables, Holding, Subscribers!slotVars, Subscribers!ResolveKey, Subscribers!NoRoom, Subscribers!AttachFails, Subscribers!Unanswered,
     Subscribers!Answered, Subscribers!Insert, Subscribers!Discarded, Subscribers!ReleaseSlot, Subscribers!TeardownSub, Subscribers!TimerFires, Subscribers!TimerTeardown,
     Subscribers!CloseDoomed, Subscribers!OnSubStop, Subscribers!SubConnects, Subscribers!SubDisconnects, Subscribers!SubFails, Subscribers!Attach, Subscribers!Remove
<1>4. ASSUME \/ Subscribers!CloseAll \/ UNCHANGED Subscribers!egressVars \/ \E c \in Camera : Subscribers!CloseIngest(c)
      PROVE  subs' \cup reserved' \subseteq subs \cup reserved
  BY <1>4 DEF Subscribers!CloseAll, Subscribers!CloseIngest, Subscribers!Remove, Subscribers!egressVars, Subscribers!slotVars
<1> QED
  BY <1>1, <1>2, <1>3, <1>4, ZenonT(30) DEF Subscribers!EgressNext, Subscribers!EgressStep, Subscribers!SubHandlerStep, Subscribers!SubBackground

-----------------------------------------------------------------------------
(* The inductive invariant holds in every reachable state. *)
LEMMA EgressInvariance == Subscribers!EgressSpec => []EInv
<1>1. Subscribers!EgressInit => EInv
  <2> SUFFICES ASSUME Subscribers!EgressInit PROVE EInv
    OBVIOUS
  <2>1. Subscribers!EgressTypeOK /\ Tables
    BY Zenon DEF Subscribers!EgressInit, Subscribers!EgressTypeOK, Tables, Holding, Subscribers!Open, Subscribers!Step
  <2>2. subs \cup reserved = {} /\ \A c \in Camera : Subscribers!Of(c, subs \cup reserved) = {}
    BY ZenonT(30) DEF Subscribers!EgressInit, Subscribers!Of
  <2>3. Room
    BY <2>2, LimitsType, SameCardinality, Sets!FS_EmptySet, SameSets DEF Subscribers!EgressInit, Room, Subscribers!Capacity
  <2> QED
    BY <2>1, <2>3 DEF EInv
<1>2. EInv /\ [Subscribers!EgressNext]_(Subscribers!egressVars) => EInv'
  BY EgressTypeStep, TablesStep, RoomStep DEF EInv
<1> QED
  BY <1>1, <1>2, PTL DEF Subscribers!EgressSpec

(* Every variable of the egress server keeps its type. *)
THEOREM EgressTypeCorrect == Subscribers!EgressSpec => []Subscribers!EgressTypeOK
<1>1. EInv => Subscribers!EgressTypeOK
  BY DEF EInv
<1> QED
  BY <1>1, EgressInvariance, PTL

(* With publishers coming and going, registered and negotiating subscribers *)
(* together stay within both of the limits reserve checks.                 *)
THEOREM ServerWithinLimits == ServerSpec => []Capacity
<1>1. EInv => Capacity
  BY ZenonT(30) DEF EInv, Room, Capacity
<1> QED
  BY <1>1, UsesEgress, EgressInvariance, PTL

(* No subscriber's peer connection that can carry media escapes the tables, *)
(* whenever its publisher ends (Subscribe, CloseIngest).                   *)
THEOREM ServerNoneOrphaned == ServerSpec => []NoOrphan
<1>1. EInv => NoOrphan
  BY ZenonT(30) DEF EInv, Subscribers!EgressTypeOK, Tables, NoOrphan, Subscribers!NoOrphan, Holding,
         Subscribers!Step, Subscribers!Open
<1> QED
  BY <1>1, UsesEgress, EgressInvariance, PTL

(* After Close of the egress server no subscriber is registered again, also *)
(* while publishers go on (negotiate, Close).                              *)
THEOREM ServerNothingAfterClose == ServerSpec => []ClosedStaysEmpty
<1>1. EInv => ClosedStaysEmpty
  BY DEF EInv, Tables, ClosedStaysEmpty, Subscribers!ClosedStaysEmpty
<1> QED
  BY <1>1, UsesEgress, EgressInvariance, PTL
=============================================================================
