------------------------------- MODULE Config -------------------------------
(***************************************************************************)
(* config.Config: settings in memory, their file, and the sessions that    *)
(* use them. Every setter changes memory under the write lock, writes a    *)
(* temporary file, renames it over config.json and takes the change back   *)
(* when that fails. phase says how far a setter is while it holds the      *)
(* lock; the process may die at any point and starts again from the file.  *)
(* The handlers of the settings page and of the control listener close the *)
(* sessions of the cameras a saved change has made stale. Ports, labels    *)
(* and the transport strings are not modelled.                             *)
(***************************************************************************)
EXTENDS Settings

CONSTANTS
    Key,           \* strings offered as keys, of any shape
    Files,         \* files the program may find: written by it or edited by hand
    Documents,     \* camera lists a deployment may send
    DelayInputs,   \* delays a request may ask for
    OptionInputs,  \* dynamic delay options a request may carry
    CodecInputs,   \* codec sets a request may carry
    Host,          \* public addresses
    Scope,         \* scopes of control access, "lan" and "remote"
    Absent,        \* there is no config.json
    MaxCameras,    \* bound on the length of the list
    MaxSessions,   \* bound on the sessions there are at a time
    MaxOps         \* bound on the number of setter calls

VARIABLES
    phase,    \* "down", "idle", "temp" (lock held, not renamed), "renamed"
    mem,      \* the settings in memory
    previous, \* what saveLocked's caller goes back to; Absent in Load
    disk,     \* config.json
    stale,    \* cameras to revoke once the setter has returned
    pending,  \* cameras some handler has still to revoke
    negotiating, \* who Resolve has accepted, with which key and codecs
    connected,   \* the ones of them that revoke can find and close
    missed,      \* the ones that were negotiating when revoke looked (history)
    ops       \* calls so far

sessions == <<negotiating, connected, missed>>

vars == <<phase, mem, previous, disk, stale, pending, sessions, ops>>

Config ==
    [floor : SUBSET Int, token : BOOLEAN, access : [Scope -> {"nil", "on", "off"}],
     host : Host \cup {NoName}, autostart : BOOLEAN, ingests : SUBSET Ingest]

(* A camera as a deployment may describe it, before validation. *)
RawIngest ==
    [id : ID \cup {NoName}, senderKey : Key, receiverKey : Key, codecs : SUBSET Codec,
     delay : Int, options : Options, group : Group \cup {NoName}]

ASSUME Inputs ==
    /\ H264 \in Codec /\ OtherCodec \subseteq Codec
    /\ DelayInputs \subseteq Int /\ OptionInputs \subseteq Options
    /\ CodecInputs \subseteq SUBSET Codec
    /\ Documents \subseteq Seq(RawIngest)
    /\ MaxOps \in Nat

(* A file edited by hand may give two cameras the same key or identifier: Load
   does not look. *)
ASSUME FilesParse == Files \subseteq Config /\ Absent \notin Config

Default ==
    [floor |-> {}, token |-> FALSE, access |-> [s \in Scope |-> "nil"],
     host |-> NoName, autostart |-> FALSE, ingests |-> {}]

normalise(cfg) ==
    [cfg EXCEPT !.floor = IF @ = {} THEN {} ELSE {clampFloor(@)},
                !.ingests = {normaliseIngest(cfg.floor, ing) : ing \in @}]

ConfigInit ==
    /\ phase = "down"
    /\ mem = Default /\ previous = Absent
    /\ disk \in Files \cup {Absent}
    /\ stale = {} /\ pending = {}
    /\ negotiating = {} /\ connected = {} /\ missed = {}
    /\ ops = 0

-----------------------------------------------------------------------------
(* Load of a file, and of none: the defaults are saved at once. *)
Load ==
    /\ phase = "down" /\ disk # Absent
    /\ phase' = "idle"
    /\ mem' = normalise(disk)
    /\ UNCHANGED <<previous, disk, stale, pending, sessions, ops>>

LoadAbsent ==
    /\ phase = "down" /\ disk = Absent
    /\ phase' = "temp"
    /\ mem' = Default /\ previous' = Absent /\ stale' = {}
    /\ UNCHANGED <<disk, pending, sessions, ops>>

(* A mutant of Set: config.json itself is opened for writing and truncated. *)
SetInPlace(cfg, revoke) ==
    /\ phase = "idle" /\ ops < MaxOps
    /\ phase' = "temp"
    /\ mem' = cfg /\ previous' = mem /\ stale' = revoke
    /\ ops' = ops + 1
    /\ disk' = Default
    /\ UNCHANGED <<pending, sessions>>

(* A setter has the lock, has changed memory and is in saveLocked. *)
Set(cfg, revoke) ==
    /\ phase = "idle" /\ ops < MaxOps
    /\ phase' = "temp"
    /\ mem' = cfg /\ previous' = mem /\ stale' = revoke
    /\ ops' = ops + 1
    /\ UNCHANGED <<disk, pending, sessions>>

(* A mutant of SaveFails: the caller keeps the change it could not save. *)
SaveFailsKept ==
    /\ phase = "temp" /\ previous # Absent
    /\ phase' = "idle"
    /\ UNCHANGED <<mem, previous, disk, stale, pending, sessions, ops>>

(* Any failure before or in the rename: the caller takes its change back. *)
SaveFails ==
    /\ phase = "temp" /\ previous # Absent
    /\ phase' = "idle"
    /\ mem' = previous
    /\ UNCHANGED <<previous, disk, stale, pending, sessions, ops>>

(* The program does not start without its file. *)
LoadFails ==
    /\ phase = "temp" /\ previous = Absent
    /\ phase' = "down"
    /\ UNCHANGED <<mem, previous, disk, stale, pending, sessions, ops>>

Rename ==
    /\ phase = "temp"
    /\ phase' = "renamed"
    /\ disk' = mem
    /\ UNCHANGED <<mem, previous, stale, pending, sessions, ops>>

(* The setter returns; its handler goes on to revoke. *)
Return ==
    /\ phase = "renamed"
    /\ phase' = "idle"
    /\ pending' = pending \cup stale
    /\ UNCHANGED <<mem, previous, disk, stale, sessions, ops>>

(* The process dies, and with it every session and handler. *)
Crash ==
    /\ phase # "down"
    /\ phase' = "down"
    /\ pending' = {} /\ negotiating' = {} /\ connected' = {} /\ missed' = {}
    /\ UNCHANGED <<mem, previous, disk, stale, ops>>
-----------------------------------------------------------------------------
(* The setters. Keys and identifiers come from crypto/rand and are taken to
   be different from every name in use. *)
InUse == UNION {Names(ing) : ing \in mem.ingests}

NewCamera(id, senderKey, receiverKey) ==
    LET delay == clampDelay(mem.floor, DelayDefaultMS) IN
    [id |-> id, senderKey |-> senderKey, receiverKey |-> receiverKey,
     codecs |-> {H264}, delay |-> delay, options |-> Normalize(NoOptions, delay),
     group |-> NoName]

AddIngest(id, senderKey, receiverKey) ==
    /\ Distinct(NewCamera(id, senderKey, receiverKey))
    /\ Names(NewCamera(id, senderKey, receiverKey)) \cap InUse = {}
    /\ Cardinality(mem.ingests) < MaxCameras
    /\ Set([mem EXCEPT !.ingests = @ \cup {NewCamera(id, senderKey, receiverKey)}], {})

ReplaceIngests(list) ==
    /\ validateIngests(list)
    /\ Set([mem EXCEPT !.ingests =
                {normaliseIngest(mem.floor, list[i]) : i \in 1 .. Len(list)}],
           staleIngests(mem.ingests, list))

RemoveIngest(ing) ==
    Set([mem EXCEPT !.ingests = @ \ {ing}], {ing.id})

(* update: one camera's record is changed in place. *)
Update(ing, changed, revoke) ==
    Set([mem EXCEPT !.ingests = (@ \ {ing}) \cup {changed}], revoke)

ResetSenderKey(ing, key) ==
    /\ key \notin InUse
    /\ Update(ing, [ing EXCEPT !.senderKey = key], {ing.id})

SetSyncGroup(ing, group) ==
    Update(ing, [ing EXCEPT !.group = group], {})

SetCodecs(ing, codecs) ==
    Update(ing, [ing EXCEPT !.codecs = keepCodecs(codecs)], {ing.id})

(* A mutant of SetDelay: the options keep a maximum chosen for another delay. *)
SetDelayOnly(ing, delay) ==
    Update(ing, [ing EXCEPT !.delay = clampDelay(mem.floor, delay)], {})

SetDelay(ing, delay) ==
    LET clamped == clampDelay(mem.floor, delay) IN
    Update(ing, [ing EXCEPT !.delay = clamped, !.options = Normalize(@, clamped)], {})

SetDynamicDelay(ing, options) ==
    Update(ing, [ing EXCEPT !.options = Normalize(options, ing.delay)], {})

SetPublicHost(host) ==
    /\ mem.host # host
    /\ Set([mem EXCEPT !.host = host], {})

SetAutostart(on) ==
    Set([mem EXCEPT !.autostart = on], {})

SetControlAccess(scope, on) ==
    Set([mem EXCEPT !.access[scope] = IF on THEN "on" ELSE "off"], {})

CreateControlToken ==
    /\ ~ mem.token
    /\ Set([mem EXCEPT !.token = TRUE], {})

-----------------------------------------------------------------------------
(* Publish or Subscribe looks a key up and keeps the camera's record while it
   negotiates: a publisher is offered the codecs the camera has now. *)
Resolve(ing, role) ==
    /\ phase = "idle"
    /\ Cardinality(negotiating \cup connected) < MaxSessions
    /\ negotiating' = negotiating \cup
          {[id |-> ing.id, role |-> role, codecs |-> ing.codecs,
            key |-> IF role = "sender" THEN ing.senderKey ELSE ing.receiverKey]}
    /\ UNCHANGED <<phase, mem, previous, disk, stale, pending, connected, missed, ops>>

(* The session is entered where CloseIngest looks, byIngest of the ingest
   server or pending of the egress server, without another look at the
   settings. It may also be refused before that. *)
Register(l) ==
    /\ l \in negotiating
    /\ negotiating' = negotiating \ {l}
    /\ connected' = connected \cup {l}
    /\ UNCHANGED <<phase, mem, previous, disk, stale, pending, missed, ops>>

GiveUp(l) ==
    /\ l \in negotiating
    /\ negotiating' = negotiating \ {l}
    /\ UNCHANGED <<phase, mem, previous, disk, stale, pending, connected, missed, ops>>

Of(set, id) == {l \in set : l.id = id}

(* revoke, called by a handler after its setter has returned. *)
Revoke(id) ==
    /\ id \in pending
    /\ pending' = pending \ {id}
    /\ connected' = connected \ Of(connected, id)
    /\ missed' = (missed \ Of(missed, id)) \cup Of(negotiating, id)
    /\ UNCHANGED <<phase, mem, previous, disk, stale, negotiating, ops>>

SetterOfCamera(ing) ==
    \/ RemoveIngest(ing)
    \/ \E key \in SenderKey : ResetSenderKey(ing, key)
    \/ \E group \in Group \cup {NoName} : SetSyncGroup(ing, group)
    \/ \E codecs \in CodecInputs : SetCodecs(ing, codecs)
    \/ \E delay \in DelayInputs : SetDelay(ing, delay)
    \/ \E options \in OptionInputs : SetDynamicDelay(ing, options)

Setter ==
    \/ \E id \in ID, s \in SenderKey, r \in ReceiverKey : AddIngest(id, s, r)
    \/ \E list \in Documents : ReplaceIngests(list)
    \/ \E ing \in mem.ingests : SetterOfCamera(ing)
    \/ \E host \in Host : SetPublicHost(host)
    \/ \E on \in BOOLEAN : SetAutostart(on)
    \/ \E scope \in Scope, on \in BOOLEAN : SetControlAccess(scope, on)
    \/ CreateControlToken

ConfigNext ==
    \/ Load \/ LoadAbsent
    \/ Setter
    \/ SaveFails \/ LoadFails \/ Rename \/ Return
    \/ Crash
    \/ \E ing \in mem.ingests, role \in {"sender", "receiver"} : Resolve(ing, role)
    \/ \E l \in negotiating : Register(l) \/ GiveUp(l)
    \/ \E id \in ID : Revoke(id)

ConfigSpec == ConfigInit /\ [][ConfigNext]_vars

-----------------------------------------------------------------------------
Connection ==
    [id : ID, role : {"sender", "receiver"}, codecs : SUBSET Codec,
     key : SenderKey \cup ReceiverKey]

(* Types. *)
ConfigTypeOK ==
    /\ phase \in {"down", "idle", "temp", "renamed"}
    /\ mem \in Config
    /\ previous \in Config \cup {Absent}
    /\ disk \in Config \cup {Absent}
    /\ stale \subseteq ID /\ pending \subseteq ID
    /\ negotiating \subseteq Connection /\ connected \subseteq Connection
    /\ missed \subseteq Connection
    /\ ops \in 0 .. MaxOps

(* A camera whose delay is within the deployment's limits, whose maximum is
   not below its delay and which offers codecs the relay can carry. *)
Valid(floor, ing) ==
    /\ clampFloor(floor) =< ing.delay /\ ing.delay =< DelayMaxMS
    /\ 1 =< ing.options.maximum /\ ing.delay =< ing.options.maximum
    /\ ing.options.maximum =< MaximumMS
    /\ ing.options.catchUp \in 1 .. 200
    /\ ing.options.auto # "nil"
    /\ ing.codecs # {} /\ ing.codecs \subseteq AllCodecs

(* Whatever sequence of loads, edits of one camera, list replacements and
   rollbacks led here, the settings in memory are valid: clampDelay and
   Normalize are applied wherever one of the values they relate changes. *)
InRange ==
    phase # "down" => \A ing \in mem.ingests : Valid(mem.floor, ing)

(* Between two setter calls memory holds exactly what a restart would load
   from config.json: every change that was reported as saved survives a crash
   and none that was reported as failed comes back (saveLocked's temporary
   file and rename, and the rollback in each of its callers). *)
MemoryIsDisk ==
    phase = "idle" => disk # Absent /\ mem = normalise(disk)

(* While a setter holds the lock, a crash gives either the settings before
   the call or the ones it asked for. *)
CrashIsAtomic ==
    phase = "temp" => IF previous = Absent THEN disk = Absent
                      ELSE disk # Absent /\ previous = normalise(disk)

(* Names that two cameras have, or one camera twice. *)
Repeated(ing) ==
    ({ing.id} \cap {ing.senderKey, ing.receiverKey})
        \cup ({ing.senderKey} \cap {ing.receiverKey})

Shared(ingests) ==
    {n \in UNION {Names(ing) : ing \in ingests} :
        \/ \E ing \in ingests : n \in Repeated(ing)
        \/ \E i, j \in ingests : i # j /\ n \in Names(i) /\ n \in Names(j)}

(* Resolve keeps the last camera a key matches, so a key has to match one.
   Load takes a file as it is; but no setter, a deployment's list of cameras
   included, makes a key or identifier ambiguous that was not. *)
NoNewAmbiguity ==
    [][phase = "idle" /\ phase' = "temp" =>
          Shared(mem'.ingests) \subseteq Shared(mem.ingests)]_vars

Current(l, ing) ==
    /\ l.id = ing.id
    /\ l.role = "sender" => l.key = ing.senderKey /\ l.codecs = ing.codecs
    /\ l.role = "receiver" => l.key = ing.receiverKey

(* A session has the key and the codecs its camera has now, or a handler is
   about to close it, or it was still negotiating when revoke looked for it.
   That window (see Revocation) is the only way a session outlives a rotated
   key, a removed camera or a change of codecs: every setter that changes one
   of them, ReplaceIngests by comparing the lists, names the camera to revoke. *)
LiveCurrent ==
    phase = "idle" =>
        \A l \in connected \ missed :
            l.id \in pending \/ \E ing \in mem.ingests : Current(l, ing)
=============================================================================
