------------------------------ MODULE Retarget ------------------------------
(***************************************************************************)
(* How a delay reaches the buffers. Handlers of the settings page and of   *)
(* the control listener change the camera list and then, without a common  *)
(* lock, work out the cameras concerned, read each one's effective delay,  *)
(* read its options and configure its stream. A track that starts does the *)
(* same for its own stream. A Worker is a goroutine of either sort.        *)
(***************************************************************************)
EXTENDS Settings

CONSTANTS
    Worker,        \* handlers and drain goroutines that may overlap
    Kind,          \* kinds of track
    None,          \* no buffer, no stream
    Lists,         \* initial camera lists, as sets
    Documents,     \* camera lists a deployment may send
    DelayInputs,   \* delays a request may ask for
    OptionInputs   \* dynamic delay options a request may carry

VARIABLES
    ingests,   \* Config.Ingests
    target,    \* per camera and kind, a running buffer's target
    policy,    \* per camera, the stream's Controller: base and enabled
    worker     \* what each goroutine is doing

vars == <<ingests, target, policy, worker>>

Idle == [step |-> "idle", revoke |-> {}, todo |-> {}, then |-> {}, peer |-> None,
         target |-> None, enabled |-> FALSE, kind |-> None]

Known == {ing.id : ing \in ingests}

RetargetInit ==
    /\ ingests \in Lists
    /\ target = [id \in ID |-> [k \in Kind |-> None]]
    /\ policy = [id \in ID |-> None]
    /\ worker = [w \in Worker |-> Idle]

Become(w, next) == worker' = [worker EXCEPT ![w] = next]
Media == <<target, policy>>

-----------------------------------------------------------------------------
(* Handlers: the change itself. todo are cameras to retarget; the members of
   then have their group looked up first (applyDelay). *)
Change(w, ing, changed) ==
    /\ worker[w].step = "idle"
    /\ ingests' = (ingests \ {ing}) \cup {changed}
    /\ Become(w, [Idle EXCEPT !.step = "next", !.then = {ing.id}])
    /\ UNCHANGED Media

handleDelay(w, ing, delay) ==
    LET clamped == clampDelay({}, delay) IN
    Change(w, ing, [ing EXCEPT !.delay = clamped, !.options = Normalize(@, clamped)])

handleDynamicDelay(w, ing, options) ==
    Change(w, ing, [ing EXCEPT !.options = Normalize(options, ing.delay)])

(* The peers of the group being left are read before the group changes. *)
FormerPeers(w, id) ==
    /\ worker[w].step = "idle"
    /\ Become(w, [Idle EXCEPT !.step = "regroup", !.then = {id},
                              !.todo = GroupPeers(ingests, id)])
    /\ UNCHANGED <<ingests, target, policy>>

handleGroup(w, ing, group) ==
    /\ worker[w].step = "regroup" /\ ing.id \in worker[w].then
    /\ ingests' = (ingests \ {ing}) \cup {[ing EXCEPT !.group = group]}
    /\ Become(w, [worker[w] EXCEPT !.step = "next"])
    /\ UNCHANGED Media

handleGroupUnknown(w) ==
    /\ worker[w].step = "regroup" /\ worker[w].then \cap Known = {}
    /\ Become(w, Idle)
    /\ UNCHANGED <<ingests, target, policy>>

(* Its group is not retargeted. *)
handleRemove(w, ing) ==
    /\ worker[w].step = "idle"
    /\ ingests' = ingests \ {ing}
    /\ Become(w, [Idle EXCEPT !.step = "next", !.revoke = {ing.id}])
    /\ UNCHANGED Media

(* The stale cameras are revoked, then every camera is retargeted. *)
handleIngests(w, list) ==
    /\ worker[w].step = "idle"
    /\ validateIngests(list)
    /\ ingests' = {normaliseIngest({}, list[i]) : i \in 1 .. Len(list)}
    /\ Become(w, [Idle EXCEPT !.step = "list", !.revoke = staleIngests(ingests, list)])
    /\ UNCHANGED Media

-----------------------------------------------------------------------------
(* drain holds the ingest server's lock from Publish to Track, and a session
   is stopped under the same lock. *)
Draining == \E w \in Worker : worker[w].kind # None

(* revoke ends the camera's session; its stream and buffers go with it. *)
Revoke(w, id) ==
    /\ worker[w].step \in {"next", "list"} /\ id \in worker[w].revoke
    /\ ~ Draining
    /\ Become(w, [worker[w] EXCEPT !.revoke = @ \ {id}])
    /\ target' = [target EXCEPT ![id] = [k \in Kind |-> None]]
    /\ policy' = [policy EXCEPT ![id] = None]
    /\ UNCHANGED ingests

List(w) ==
    /\ worker[w].step = "list" /\ worker[w].revoke = {}
    /\ Become(w, [worker[w] EXCEPT !.step = "next", !.todo = Known])
    /\ UNCHANGED <<ingests, target, policy>>

(* applyDelay looks up the group as it is now. *)
applyDelay(w, id) ==
    /\ worker[w].step = "next" /\ worker[w].todo = {} /\ id \in worker[w].then
    /\ Become(w, [worker[w] EXCEPT !.then = @ \ {id}, !.todo = GroupPeers(ingests, id)])
    /\ UNCHANGED <<ingests, target, policy>>

ReadDelay(w, id) ==
    /\ worker[w].step = "next" /\ worker[w].revoke = {} /\ id \in worker[w].todo
    /\ Become(w, [worker[w] EXCEPT !.step = "options", !.todo = @ \ {id}, !.peer = id,
                                   !.target = EffectiveDelay(ingests, id)])
    /\ UNCHANGED <<ingests, target, policy>>

ReadOptions(w) ==
    /\ worker[w].step = "options"
    /\ Become(w, [worker[w] EXCEPT !.step = "configure",
                      !.enabled = DelayOptions(ingests, worker[w].peer).enabled])
    /\ UNCHANGED <<ingests, target, policy>>

(* Nothing happens to a camera without a stream. *)
ConfigureDelay(w) ==
    LET id == worker[w].peer IN
    /\ worker[w].step = "configure"
    /\ policy' = [policy EXCEPT ![id] =
                     IF @ = None THEN None
                     ELSE [base |-> worker[w].target, enabled |-> worker[w].enabled]]
    /\ target' = [target EXCEPT ![id] =
                     [k \in Kind |-> IF @[k] = None THEN None ELSE worker[w].target]]
    /\ Become(w, [worker[w] EXCEPT !.step = IF worker[w].kind = None
                                            THEN "next" ELSE "track"])
    /\ UNCHANGED ingests

Done(w) ==
    /\ worker[w].step = "next"
    /\ worker[w].revoke = {} /\ worker[w].todo = {} /\ worker[w].then = {}
    /\ Become(w, Idle)
    /\ UNCHANGED <<ingests, target, policy>>

-----------------------------------------------------------------------------
(* drain: Publish makes the stream, Track registers the buffer that was built
   with the delay read in between. *)
Publish(w, id, kind) ==
    /\ worker[w].step = "idle" /\ ~ Draining
    /\ id \in Known /\ target[id][kind] = None
    /\ policy' = [policy EXCEPT ![id] =
                     IF @ = None THEN [base |-> 0, enabled |-> FALSE] ELSE @]
    /\ Become(w, [Idle EXCEPT !.step = "next", !.todo = {id}, !.kind = kind])
    /\ UNCHANGED <<ingests, target>>

Track(w) ==
    /\ worker[w].step = "track"
    /\ target' = [target EXCEPT ![worker[w].peer][worker[w].kind] = worker[w].target]
    /\ Become(w, Idle)
    /\ UNCHANGED <<ingests, policy>>

Untrack(id, kind) ==
    /\ target[id][kind] # None
    /\ target' = [target EXCEPT ![id][kind] = None]
    /\ UNCHANGED <<ingests, policy, worker>>

HandlerStarts(w) ==
    \/ \E ing \in ingests, delay \in DelayInputs : handleDelay(w, ing, delay)
    \/ \E ing \in ingests, o \in OptionInputs : handleDynamicDelay(w, ing, o)
    \/ \E id \in ID : FormerPeers(w, id)
    \/ \E ing \in ingests : handleRemove(w, ing)
    \/ \E list \in Documents : handleIngests(w, list)

RetargetNext ==
    \/ \E w \in Worker :
          \/ HandlerStarts(w)
          \/ \E ing \in ingests, g \in Group \cup {NoName} : handleGroup(w, ing, g)
          \/ handleGroupUnknown(w)
          \/ \E id \in ID : Revoke(w, id) \/ applyDelay(w, id) \/ ReadDelay(w, id)
          \/ List(w) \/ ReadOptions(w) \/ ConfigureDelay(w) \/ Done(w)
          \/ \E id \in ID, k \in Kind : Publish(w, id, k)
          \/ Track(w)
    \/ \E id \in ID, k \in Kind : Untrack(id, k)

RetargetSpec == RetargetInit /\ [][RetargetNext]_vars

-----------------------------------------------------------------------------
Quiet == \A w \in Worker : worker[w] = Idle

(* "Members of a sync group share one target ... so two cameras on screen
   together do not drift apart" (EffectiveDelay): when no handler or starting
   track is under way, the running buffers of one group play at one delay. *)
GroupAligned ==
    Quiet => \A p, q \in ingests : \A j, k \in Kind :
        /\ p.group # NoName /\ p.group = q.group
        /\ target[p.id][j] # None /\ target[q.id][k] # None
        => target[p.id][j] = target[q.id][k]
=============================================================================
