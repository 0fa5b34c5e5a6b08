------------------------------- MODULE Egress -------------------------------
(***************************************************************************)
(* The WHEP server of internal/egress/whep.go: how a subscriber gets and   *)
(* gives back its slot.                                                    *)
(*                                                                         *)
(* The actors are goroutines: the HTTP handler of each WHEP request        *)
(* (Subscribe, negotiate), the connection-state callbacks of its peer      *)
(* connection, the 20 second timer armed for it, and the callers of        *)
(* Teardown, CloseIngest and Close.  Server.mu makes each locked region    *)
(* one action.  A subscriber is named by its request; SubCamera is the     *)
(* camera whose receiver key the request presents.                         *)
(***************************************************************************)
EXTENDS Naturals, FiniteSets

CONSTANTS
  Camera, Subscriber, SubCamera,
  Track,                     \* what relay.Subscribe can hand out
  maxSubscribers, maxSubscribersPerIngest

VARIABLES
  step,      \* where each request's handler is
  reserved,  \* the keys of Server.pending
  canceled,  \* those of them whose pending value is false
  subs,      \* Server.sessions
  shut,      \* Server.closed
  attached,  \* the tracks added to each subscriber's peer connection
  upeer,     \* pion's PeerConnectionState of each subscriber
  stops,     \* subscribers with a Failed or Closed callback started and not run
  timer,     \* the AfterFunc of each subscriber
  doomed     \* subscribers removed from sessions whose peer is still to be closed

slotVars == <<reserved, canceled, subs, shut>>
connVars == <<attached, upeer, stops, timer>>
egressVars == <<step, slotVars, connVars, doomed>>

Step == {"idle", "resolved", "attaching", "answering", "inserting", "releasing", "done"}
Open == {"new", "connected", "disconnected"}

EgressTypeOK ==
  /\ step \in [Subscriber -> Step]
  /\ reserved \in SUBSET Subscriber
  /\ canceled \in SUBSET reserved
  /\ subs \in SUBSET Subscriber
  /\ shut \in BOOLEAN
  /\ attached \in [Subscriber -> SUBSET Track]
  /\ upeer \in [Subscriber -> Open \cup {"none", "failed", "closed"}]
  /\ stops \in SUBSET Subscriber
  /\ timer \in [Subscriber -> {"off", "armed", "expired"}]
  /\ doomed \in SUBSET Subscriber

EgressInit ==
  /\ step = [u \in Subscriber |-> "idle"]
  /\ reserved = {} /\ canceled = {} /\ subs = {} /\ shut = FALSE
  /\ attached = [u \in Subscriber |-> {}]
  /\ upeer = [u \in Subscriber |-> "none"]
  /\ stops = {}
  /\ timer = [u \in Subscriber |-> "off"]
  /\ doomed = {}

-----------------------------------------------------------------------------
(* The handler of one WHEP request. *)
GotoStep(u, to) == step' = [step EXCEPT ![u] = to]

(* Subscribe: the key names a camera and the offer receives media. *)
ResolveKey(u) ==
  /\ step[u] = "idle"
  /\ GotoStep(u, "resolved")
  /\ UNCHANGED <<slotVars, connVars, doomed>>

Of(c, S) == {u \in S : SubCamera[u] = c}

(* Mutant: only the camera's own limit is looked at. *)
HasRoomPerCamera(c) ==
  /\ ~shut
  /\ Cardinality(Of(c, subs)) + Cardinality(Of(c, reserved)) < maxSubscribersPerIngest

(* reserve counts sessions and pending entries, a subscriber in both twice. *)
HasRoom(c) ==
  /\ ~shut
  /\ Cardinality(subs) + Cardinality(reserved) < maxSubscribers
  /\ Cardinality(Of(c, subs)) + Cardinality(Of(c, reserved)) < maxSubscribersPerIngest

ReserveSlot(u) ==
  /\ step[u] = "resolved"
  /\ HasRoom(SubCamera[u])
  /\ GotoStep(u, "attaching")
  /\ reserved' = reserved \cup {u}
  /\ UNCHANGED <<canceled, subs, shut, connVars, doomed>>

NoRoom(u) ==
  /\ step[u] = "resolved"
  /\ ~HasRoom(SubCamera[u])
  /\ GotoStep(u, "done")
  /\ UNCHANGED <<slotVars, connVars, doomed>>

(* relay.Subscribe handed out the tracks T: a peer connection is built with them. *)
Attach(u, T) ==
  /\ step[u] = "attaching"
  /\ T # {}
  /\ GotoStep(u, "answering")
  /\ attached' = [attached EXCEPT ![u] = T]
  /\ upeer' = [upeer EXCEPT ![u] = "new"]
  /\ UNCHANGED <<slotVars, stops, timer, doomed>>

(* The camera is offline, or the peer connection cannot be built. *)
AttachFails(u) ==
  /\ step[u] = "attaching"
  /\ GotoStep(u, "releasing")
  /\ UNCHANGED <<slotVars, connVars, doomed>>

(* Mutant: this way out of Subscribe does not release the reservation. *)
UnansweredHeld(u) ==
  /\ step[u] = "answering"
  /\ GotoStep(u, "done")
  /\ upeer' = [upeer EXCEPT ![u] = "closed"]
  /\ UNCHANGED <<slotVars, attached, stops, timer, doomed>>

(* The offer cannot be answered: the peer is discarded, unwatched so far. *)
Unanswered(u) ==
  /\ step[u] = "answering"
  /\ GotoStep(u, "releasing")
  /\ upeer' = [upeer EXCEPT ![u] = "closed"]
  /\ UNCHANGED <<slotVars, attached, stops, timer, doomed>>

(* Answered, and from here on connection states reach a callback. *)
Answered(u) ==
  /\ step[u] = "answering"
  /\ GotoStep(u, "inserting")
  /\ UNCHANGED <<slotVars, connVars, doomed>>

(* The second locked region: insert the session, and arm its timer. *)
Insert(u) ==
  /\ step[u] = "inserting"
  /\ u \notin canceled
  /\ GotoStep(u, "releasing")
  /\ subs' = subs \cup {u}
  /\ timer' = [timer EXCEPT ![u] = "armed"]
  /\ UNCHANGED <<reserved, canceled, shut, attached, upeer, stops, doomed>>

(* Close(): pion reports the closed state in a callback of its own, once. *)
ShutPeer(u) ==
  /\ upeer' = [upeer EXCEPT ![u] = "closed"]
  /\ stops' = IF upeer[u] = "closed" THEN stops ELSE stops \cup {u}
  /\ UNCHANGED <<attached, timer>>

(* Mutant: a canceled negotiation returns without closing its peer. *)
DiscardedOpen(u) ==
  /\ step[u] = "inserting"
  /\ u \in canceled
  /\ GotoStep(u, "releasing")
  /\ UNCHANGED <<slotVars, connVars, doomed>>

Discarded(u) ==
  /\ step[u] = "inserting"
  /\ u \in canceled
  /\ GotoStep(u, "releasing")
  /\ ShutPeer(u)
  /\ UNCHANGED <<slotVars, doomed>>

(* releaseReservation, deferred: on every way out of Subscribe. *)
ReleaseSlot(u) ==
  /\ step[u] = "releasing"
  /\ GotoStep(u, "done")
  /\ reserved' = reserved \ {u}
  /\ canceled' = canceled \ {u}
  /\ UNCHANGED <<subs, shut, connVars, doomed>>

-----------------------------------------------------------------------------
(* Teardown and its callers: sessions first, the peer connection after the lock. *)
Remove(S) ==
  /\ subs' = subs \ S
  /\ doomed' = doomed \cup (subs \cap S)

(* DELETE of the WHEP resource. *)
TeardownSub(u) ==
  /\ u \in subs
  /\ Remove({u})
  /\ UNCHANGED <<step, reserved, canceled, shut, connVars>>

(* The timer looks at the connection, and only then at the session. *)
TimerFires(u) ==
  /\ timer[u] = "armed"
  /\ timer' = [timer EXCEPT ![u] = IF upeer[u] = "connected" THEN "off" ELSE "expired"]
  /\ UNCHANGED <<step, slotVars, attached, upeer, stops, doomed>>

(* Mutant: the timer finds the receiver unconnected and does nothing. *)
TimerIdle(u) ==
  /\ timer[u] = "expired"
  /\ timer' = [timer EXCEPT ![u] = "off"]
  /\ UNCHANGED <<step, slotVars, attached, upeer, stops, doomed>>

TimerTeardown(u) ==
  /\ timer[u] = "expired"
  /\ timer' = [timer EXCEPT ![u] = "off"]
  /\ Remove({u})
  /\ UNCHANGED <<step, reserved, canceled, shut, attached, upeer, stops>>

(* Mutant: subscribers still negotiating are not canceled. *)
CloseRegisteredOf(c) ==
  /\ Remove(Of(c, Subscriber))
  /\ UNCHANGED <<step, reserved, canceled, shut, connVars>>

(* Every subscriber of one camera: the registered ones and those negotiating. *)
CloseIngest(c) ==
  /\ canceled' = canceled \cup Of(c, reserved)
  /\ Remove(Of(c, Subscriber))
  /\ UNCHANGED <<step, reserved, shut, connVars>>

(* Mutant: Close forgets the subscribers still negotiating. *)
CloseRegistered ==
  /\ ~shut
  /\ shut' = TRUE
  /\ Remove(Subscriber)
  /\ UNCHANGED <<step, reserved, canceled, connVars>>

CloseAll ==
  /\ ~shut
  /\ shut' = TRUE
  /\ canceled' = reserved
  /\ Remove(Subscriber)
  /\ UNCHANGED <<step, reserved, connVars>>

CloseDoomed(u) ==
  /\ u \in doomed
  /\ doomed' = doomed \ {u}
  /\ ShutPeer(u)
  /\ UNCHANGED <<step, slotVars>>

-----------------------------------------------------------------------------
(* pion (external), and the callback set between Answer and the insertion. *)
SubConnects(u) ==
  /\ upeer[u] \in {"new", "disconnected"}
  /\ upeer' = [upeer EXCEPT ![u] = "connected"]
  /\ UNCHANGED <<step, slotVars, attached, stops, timer, doomed>>

SubDisconnects(u) ==
  /\ upeer[u] = "connected"
  /\ upeer' = [upeer EXCEPT ![u] = "disconnected"]
  /\ UNCHANGED <<step, slotVars, attached, stops, timer, doomed>>

(* A failure before the callback is set is reported to nobody. *)
SubFails(u) ==
  /\ upeer[u] \in Open
  /\ upeer' = [upeer EXCEPT ![u] = "failed"]
  /\ stops' = IF step[u] = "answering" THEN stops ELSE stops \cup {u}
  /\ UNCHANGED <<step, slotVars, attached, timer, doomed>>

(* Failed or Closed: forget. *)
OnSubStop(u) ==
  /\ u \in stops
  /\ stops' = stops \ {u}
  /\ subs' = subs \ {u}
  /\ UNCHANGED <<step, reserved, canceled, shut, attached, upeer, timer, doomed>>

-----------------------------------------------------------------------------
SubHandlerStep(u) ==
  \/ ReserveSlot(u) \/ NoRoom(u)
  \/ AttachFails(u)
  \/ Unanswered(u) \/ Answered(u)
  \/ Insert(u) \/ Discarded(u) \/ ReleaseSlot(u)

SubBackground(u) ==
  \/ TimerFires(u) \/ TimerTeardown(u)
  \/ CloseDoomed(u) \/ OnSubStop(u)

(* Everything but Attach and CloseIngest, which the rest of the program takes part in. *)
EgressStep ==
  \/ \E u \in Subscriber :
       \/ ResolveKey(u) \/ SubHandlerStep(u)
       \/ TeardownSub(u) \/ SubBackground(u)
       \/ SubConnects(u) \/ SubDisconnects(u) \/ SubFails(u)
  \/ CloseAll

(* On its own the server is used with any tracks, and its cameras end at any time. *)
EgressNext ==
  \/ EgressStep
  \/ \E u \in Subscriber : \E T \in SUBSET Track : Attach(u, T)
  \/ \E c \in Camera : CloseIngest(c)

EgressSpec == EgressInit /\ [][EgressNext]_egressVars

-----------------------------------------------------------------------------
(* The limits hold for registered and negotiating subscribers together, in *)
(* all and per camera, although reserve and Insert are separate locked     *)
(* regions (maxSubscribers, maxSubscribersPerIngest).                      *)
Capacity ==
  /\ Cardinality(subs \cup reserved) <= maxSubscribers
  /\ \A c \in Camera : Cardinality(Of(c, subs \cup reserved)) <= maxSubscribersPerIngest

(* A peer connection that can carry media is always in reach of the server:*)
(* negotiating, registered, or removed and about to be closed.  None is    *)
(* left where neither CloseIngest, Close nor the limits see it.            *)
NoOrphan ==
  \A u \in Subscriber : upeer[u] \in Open => u \in reserved \cup subs \cup doomed

(* Once Close has been called no subscriber is registered again, by        *)
(* handlers that were past their reservation included.                     *)
ClosedStaysEmpty == shut => subs = {}
=============================================================================
