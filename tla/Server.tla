------------------------------- MODULE Server -------------------------------
(***************************************************************************)
(* Publishers and subscribers together, as cmd/wagastrim/main.go wires     *)
(* them: the ingest server tells the egress server when a publisher ends,  *)
(* and the egress server takes its tracks from the relay.                  *)
(*                                                                         *)
(* The publishers' side is CameraOwnership, which Ingest implements (the   *)
(* theorem Implements of IngestProofs); the subscribers' side is Egress.   *)
(***************************************************************************)
EXTENDS Naturals, FiniteSets

CONSTANTS
  Camera, Session, Kind, None, CameraOf,
  Subscriber, SubCamera, maxSubscribers, maxSubscribersPerIngest

ASSUME CamerasType == CameraOf \in [Session -> Camera] /\ SubCamera \in [Subscriber -> Camera]
ASSUME LimitsType == maxSubscribers \in Nat /\ maxSubscribersPerIngest \in Nat
ASSUME NoneNoSession == None \notin Session

VARIABLES
  owner, ending, media, told, live, retired,
  step, reserved, canceled, subs, shut, attached, upeer, stops, timer, doomed

Publishers == INSTANCE CameraOwnership
Subscribers == INSTANCE Egress WITH Track <- Session \X Kind

ownershipVars == <<owner, ending, media, told, live, retired>>
egressVars == <<step, reserved, canceled, subs, shut, attached, upeer, stops,
                timer, doomed>>
serverVars == <<ownershipVars, egressVars>>

ServerTypeOK ==
  /\ owner \in [Camera -> Session \cup {None}]
  /\ ending \in SUBSET Camera
  /\ media \in [Camera -> SUBSET (Session \X Kind)]
  /\ told \in SUBSET Camera
  /\ live \in SUBSET Camera
  /\ retired \in SUBSET Session
  /\ Subscribers!EgressTypeOK

ServerInit == Publishers!Init /\ Subscribers!EgressInit

(* The stopped callback of ingest.NewServer: a publisher's end disconnects  *)
(* every subscriber of its camera.                                         *)
TellSubscribers(c) ==
  Publishers!Tell(c) /\ Subscribers!CloseIngest(c)

(* The publishers' other steps do not touch the egress server. *)
PublisherStep ==
  /\ \/ \E s \in Session : Publishers!Acquire(s)
     \/ \E c \in Camera :
          \/ Publishers!GoLive(c) \/ Publishers!BeginEnding(c) \/ Publishers!GoDark(c)
          \/ Publishers!DropMedia(c) \/ Publishers!HandBack(c)
          \/ \E k \in Kind : Publishers!AddTrack(c, k)
  /\ UNCHANGED egressVars

(* A subscriber's handler takes the tracks its camera has now. *)
Subscribe(u) ==
  /\ Subscribers!Attach(u, media[SubCamera[u]])
  /\ UNCHANGED ownershipVars

(* revoke, after whip.CloseIngest has returned: the operator, at any time. *)
RevokeSubscribers(c) ==
  /\ Subscribers!CloseIngest(c)
  /\ UNCHANGED ownershipVars

ServerNext ==
  \/ PublisherStep
  \/ \E c \in Camera : TellSubscribers(c) \/ RevokeSubscribers(c)
  \/ \E u \in Subscriber : Subscribe(u)
  \/ Subscribers!EgressStep /\ UNCHANGED ownershipVars

ServerSpec == ServerInit /\ [][ServerNext]_serverVars

(* What runs on by itself: handlers, timers, callbacks, and the closing of *)
(* removed peers.  A request takes finitely many of these steps, so they   *)
(* need no fairness towards each other.                                    *)
SubscribersRun ==
  /\ \E u \in Subscriber : Subscribers!SubHandlerStep(u) \/ Subscribers!SubBackground(u)
  /\ UNCHANGED ownershipVars

ServerFairness == WF_serverVars(SubscribersRun)

FairServerSpec == ServerSpec /\ ServerFairness

-----------------------------------------------------------------------------
(* Every registered subscriber is attached to tracks of the publisher that *)
(* holds its camera now, whatever the order in which a publisher stops, is *)
(* replaced, and a subscriber resolves, attaches and is inserted: nobody   *)
(* stays on the track objects of a publisher that is gone ("a replacement  *)
(* gets new track objects.  The player reconnects rather than staying      *)
(* frozen", whip.go).                                                      *)
SubscribersOfOwner ==
  \A u \in subs : \A b \in attached[u] : owner[SubCamera[u]] = b[1]

(* The egress server's promises, with the publishers it is composed with. *)
Capacity == Subscribers!Capacity
NoOrphan == Subscribers!NoOrphan
ClosedStaysEmpty == Subscribers!ClosedStaysEmpty

(* A peer connection that carries tracks of a retired publisher is closed  *)
(* in the end, the ones that were negotiating when it stopped included.    *)
StalePeersClosed ==
  []<>(\A u \in Subscriber :
         (\E b \in attached[u] : b[1] \in retired) => upeer[u] \notin Subscribers!Open)

(* "A receiver which never completes ICE must not retain a slot            *)
(* indefinitely", nor one whose connection failed or was closed: not even  *)
(* where the failure came before its callback was set or before the        *)
(* session was inserted, and only the timer is left to find it.            *)
SlotNotRetained ==
  []<>(\A u \in subs : upeer[u] \in {"connected", "disconnected"})

(* A reservation counts against the limits only while its request is being *)
(* handled: it is given back on every way out of Subscribe, whether the    *)
(* request failed, was canceled or became a session, so none is left when  *)
(* no more requests come.                                                  *)
ReservationsReturned == []<>(reserved = {})
=============================================================================
