------------------------------- MODULE Ingest -------------------------------
(***************************************************************************)
(* The WHIP server of internal/ingest/whip.go: how a camera passes from    *)
(* one publisher to the next.                                              *)
(*                                                                         *)
(* The actors are goroutines: the HTTP handler of each WHIP request        *)
(* (Publish, negotiate, answerSession), the callbacks pion starts in       *)
(* goroutines of their own (connection state, OnTrack), Teardown calls     *)
(* (DELETE, CloseIngest, Close, a replacement), and the body of a          *)
(* session's stopOnce.  Server.mu makes each locked region one action;     *)
(* everything between two locked regions may interleave.                   *)
(*                                                                         *)
(* A session is named by its WHIP request: Session is the set of requests, *)
(* CameraOf the camera whose sender key each request presents.             *)
(***************************************************************************)
EXTENDS Relay

CONSTANT CameraOf   \* the camera each request's key resolves to

ASSUME CameraOfType == CameraOf \in [Session -> Camera]
ASSUME NoneIsNoSession == None \notin Session

VARIABLES
  pc,        \* where each request's handler is
  prev,      \* the publisher clearPrevious is looking at, None otherwise
  sessions,  \* Server.sessions
  byIngest,  \* Server.byIngest
  pending,   \* Server.pending: cameras with a negotiation in progress
  closed,    \* Server.closed
  ended,     \* sessions whose Session.ended is set
  stopOnce,  \* how far the body of each session's stopOnce is
  teardown,  \* sessions some goroutine is stopping and then closing
  peer,      \* pion's PeerConnectionState of each session
  calls,     \* connection-state callbacks started and not yet run
  drain,     \* the OnTrack goroutine of each session and kind
  live       \* stats: cameras shown as publishing

serverVars == <<sessions, byIngest, pending, closed, ended, live>>
handlerVars == <<pc, prev>>
stopVars == <<stopOnce, teardown>>
peerVars == <<peer, calls, drain>>
vars == <<relayVars, serverVars, handlerVars, stopVars, peerVars>>

PC == {"idle", "resolved", "clearing", "checking", "evicting", "replacing",
       "building", "answering", "confirming", "aborting", "releasing", "done"}
StopStep == {"idle", "mark", "stats", "drop", "notify", "forget", "done"}
PeerState == {"none", "new", "connected", "disconnected", "failed", "closed"}
DrainState == {"none", "started", "running", "ended"}

TypeOK ==
  /\ RelayTypeOK
  /\ pc \in [Session -> PC]
  /\ prev \in [Session -> Session \cup {None}]
  /\ sessions \in SUBSET Session
  /\ byIngest \in [Camera -> Session \cup {None}]
  /\ pending \in SUBSET Camera
  /\ closed \in BOOLEAN
  /\ ended \in SUBSET Session
  /\ stopOnce \in [Session -> StopStep]
  /\ teardown \in SUBSET Session
  /\ peer \in [Session -> PeerState]
  /\ calls \in [Session -> SUBSET {"connected", "stop"}]
  /\ drain \in [Session -> [Kind -> DrainState]]
  /\ live \in SUBSET Camera

Init ==
  /\ RelayInit
  /\ pc = [s \in Session |-> "idle"]
  /\ prev = [s \in Session |-> None]
  /\ sessions = {}
  /\ byIngest = [c \in Camera |-> None]
  /\ pending = {}
  /\ closed = FALSE
  /\ ended = {}
  /\ stopOnce = [s \in Session |-> "idle"]
  /\ teardown = {}
  /\ peer = [s \in Session |-> "none"]
  /\ calls = [s \in Session |-> {}]
  /\ drain = [s \in Session |-> [k \in Kind |-> "none"]]
  /\ live = {}

currentLocked(s) ==
  /\ s \notin ended
  /\ byIngest[CameraOf[s]] = s
  /\ s \in sessions

(* stopOnce.Do: the first caller starts the body, later ones find it started. *)
Once(s) == [stopOnce EXCEPT ![s] = IF @ = "idle" THEN "mark" ELSE @]

-----------------------------------------------------------------------------
(***************************************************************************)
(* The handler of one WHIP request.                                        *)
(***************************************************************************)
Goto(s, step) == pc' = [pc EXCEPT ![s] = step]

(* Publish: the key names a camera and the offer sends media. *)
Resolve(s) ==
  /\ pc[s] = "idle"
  /\ Goto(s, "resolved")
  /\ UNCHANGED <<relayVars, serverVars, prev, stopVars, peerVars>>

(* Mutant: no check that another negotiation is pending. *)
ReserveAnyway(s) ==
  /\ pc[s] = "resolved"
  /\ ~closed
  /\ Goto(s, "clearing")
  /\ pending' = pending \cup {CameraOf[s]}
  /\ UNCHANGED <<relayVars, prev, sessions, byIngest, closed, ended, live,
                 stopVars, peerVars>>

(* negotiate's first locked region: one negotiation per camera. *)
Reserve(s) ==
  /\ pc[s] = "resolved"
  /\ ~closed /\ CameraOf[s] \notin pending
  /\ Goto(s, "clearing")
  /\ pending' = pending \cup {CameraOf[s]}
  /\ UNCHANGED <<relayVars, prev, sessions, byIngest, closed, ended, live,
                 stopVars, peerVars>>

ReserveRefused(s) ==
  /\ pc[s] = "resolved"
  /\ closed \/ CameraOf[s] \in pending
  /\ Goto(s, "done")
  /\ UNCHANGED <<relayVars, serverVars, prev, stopVars, peerVars>>

(* clearPrevious reads the present publisher, and whether it is stopping. *)
ClearRead(s) ==
  /\ pc[s] = "clearing"
  /\ byIngest[CameraOf[s]] \in sessions
  /\ prev' = [prev EXCEPT ![s] = byIngest[CameraOf[s]]]
  /\ Goto(s, IF prev'[s] \in ended THEN "evicting" ELSE "checking")
  /\ UNCHANGED <<relayVars, serverVars, stopVars, peerVars>>

ClearNothing(s) ==
  /\ pc[s] = "clearing"
  /\ byIngest[CameraOf[s]] \notin sessions
  /\ Goto(s, "building")
  /\ UNCHANGED <<relayVars, serverVars, prev, stopVars, peerVars>>

(* Mutant: an early return placed before the deferred release is set up. *)
KeepUnreleased(s) ==
  /\ pc[s] = "checking"
  /\ peer[prev[s]] = "connected"
  /\ Goto(s, "done")
  /\ prev' = [prev EXCEPT ![s] = None]
  /\ UNCHANGED <<relayVars, serverVars, stopVars, peerVars>>

(***************************************************************************)
(* It then looks at the connection without the lock: a connected publisher *)
(* keeps the camera, any other is torn down.  Teardown looks the resource  *)
(* up again, since the publisher may have gone by itself.                  *)
(***************************************************************************)
ClearKeep(s) ==
  /\ pc[s] = "checking"
  /\ peer[prev[s]] = "connected"
  /\ Goto(s, "releasing")
  /\ prev' = [prev EXCEPT ![s] = None]
  /\ UNCHANGED <<relayVars, serverVars, stopVars, peerVars>>

Replaces(s) == pc[s] = "evicting" \/ (pc[s] = "checking" /\ peer[prev[s]] # "connected")

(* Mutant: the replacement does not wait for the Teardown it starts. *)
ReplaceAtOnce(s) ==
  /\ Replaces(s)
  /\ prev[s] \in sessions
  /\ Goto(s, "building")
  /\ teardown' = teardown \cup {prev[s]}
  /\ UNCHANGED <<relayVars, serverVars, prev, stopOnce, peerVars>>

ClearReplace(s) ==
  /\ Replaces(s)
  /\ prev[s] \in sessions
  /\ Goto(s, "replacing")
  /\ teardown' = teardown \cup {prev[s]}
  /\ UNCHANGED <<relayVars, serverVars, prev, stopOnce, peerVars>>

ClearGone(s) ==
  /\ Replaces(s)
  /\ prev[s] \notin sessions
  /\ Goto(s, "building")
  /\ prev' = [prev EXCEPT ![s] = None]
  /\ UNCHANGED <<relayVars, serverVars, stopVars, peerVars>>

(* Mutant: a started stopOnce is taken for a finished one. *)
ReplacedEarly(s) ==
  /\ pc[s] = "replacing"
  /\ stopOnce[prev[s]] # "idle"
  /\ Goto(s, "building")
  /\ prev' = [prev EXCEPT ![s] = None]
  /\ UNCHANGED <<relayVars, serverVars, stopVars, peerVars>>

(* The replacement's Teardown returned: stopOnce has run and the peer is     *)
(* closed.  A failing Close is reported as ErrNoSession, which is ignored. *)
Replaced(s) ==
  /\ pc[s] = "replacing"
  /\ stopOnce[prev[s]] = "done"
  /\ peer[prev[s]] = "closed"
  /\ Goto(s, "building")
  /\ prev' = [prev EXCEPT ![s] = None]
  /\ UNCHANGED <<relayVars, serverVars, stopVars, peerVars>>

(* Building the peer connection or minting its resource id may fail. *)
BuildFails(s) ==
  /\ pc[s] = "building"
  /\ Goto(s, "releasing")
  /\ UNCHANGED <<relayVars, serverVars, prev, stopVars, peerVars>>

(* Mutant: closed is not looked at again before registering. *)
RegisterAnyway(s) ==
  /\ pc[s] = "building"
  /\ Goto(s, "answering")
  /\ sessions' = sessions \cup {s}
  /\ byIngest' = [byIngest EXCEPT ![CameraOf[s]] = s]
  /\ peer' = [peer EXCEPT ![s] = "new"]
  /\ UNCHANGED <<relayVars, prev, pending, closed, ended, live, stopVars,
                 calls, drain>>

(* negotiate's second locked region registers the session and its callbacks. *)
Register(s) ==
  /\ pc[s] = "building"
  /\ ~closed
  /\ Goto(s, "answering")
  /\ sessions' = sessions \cup {s}
  /\ byIngest' = [byIngest EXCEPT ![CameraOf[s]] = s]
  /\ peer' = [peer EXCEPT ![s] = "new"]
  /\ UNCHANGED <<relayVars, prev, pending, closed, ended, live, stopVars,
                 calls, drain>>

RegisterClosed(s) ==
  /\ pc[s] = "building"
  /\ closed
  /\ Goto(s, "releasing")
  /\ UNCHANGED <<relayVars, serverVars, prev, stopVars, peerVars>>

(* answerSession: a failed answer stops the session and discards its peer. *)
AnswerFails(s) ==
  /\ pc[s] = "answering"
  /\ Goto(s, "aborting")
  /\ teardown' = teardown \cup {s}
  /\ UNCHANGED <<relayVars, serverVars, prev, stopOnce, peerVars>>

Answers(s) ==
  /\ pc[s] = "answering"
  /\ Goto(s, "confirming")
  /\ UNCHANGED <<relayVars, serverVars, prev, stopVars, peerVars>>

Aborted(s) ==
  /\ pc[s] = "aborting"
  /\ stopOnce[s] = "done"
  /\ peer[s] = "closed"
  /\ Goto(s, "releasing")
  /\ UNCHANGED <<relayVars, serverVars, prev, stopVars, peerVars>>

(* Close(): pion reports "closed" in a callback of its own. *)
ClosePeer(s) ==
  /\ peer' = [peer EXCEPT ![s] = "closed"]
  /\ calls' = [calls EXCEPT ![s] = IF peer[s] = "closed" THEN @ ELSE @ \cup {"stop"}]
  /\ UNCHANGED drain

(* answerSession's last check: a session stopped meanwhile is discarded. *)
Confirm(s) ==
  /\ pc[s] = "confirming"
  /\ currentLocked(s)
  /\ Goto(s, "releasing")
  /\ UNCHANGED <<relayVars, serverVars, prev, stopVars, peerVars>>

ConfirmStopped(s) ==
  /\ pc[s] = "confirming"
  /\ ~currentLocked(s)
  /\ Goto(s, "releasing")
  /\ ClosePeer(s)
  /\ UNCHANGED <<relayVars, serverVars, prev, stopVars>>

(* negotiate's deferred delete of the pending entry, on every way out. *)
Release(s) ==
  /\ pc[s] = "releasing"
  /\ Goto(s, "done")
  /\ pending' = pending \ {CameraOf[s]}
  /\ UNCHANGED <<relayVars, prev, sessions, byIngest, closed, ended, live,
                 stopVars, peerVars>>

-----------------------------------------------------------------------------
(***************************************************************************)
(* stopSession: the body of stopOnce, run by whichever caller came first.  *)
(* No lock is held between its steps.                                      *)
(***************************************************************************)
StopGoto(s, step) == stopOnce' = [stopOnce EXCEPT ![s] = step]

StopMark(s) ==
  /\ stopOnce[s] = "mark"
  /\ StopGoto(s, IF currentLocked(s) THEN "stats" ELSE "forget")
  /\ ended' = ended \cup {s}
  /\ UNCHANGED <<relayVars, sessions, byIngest, pending, closed, live,
                 handlerVars, teardown, peerVars>>

StopStats(s) ==
  /\ stopOnce[s] = "stats"
  /\ StopGoto(s, "drop")
  /\ live' = live \ {CameraOf[s]}
  /\ UNCHANGED <<relayVars, sessions, byIngest, pending, closed, ended,
                 handlerVars, teardown, peerVars>>

StopDrop(s) ==
  /\ stopOnce[s] = "drop"
  /\ StopGoto(s, "notify")
  /\ Drop(CameraOf[s])
  /\ UNCHANGED <<serverVars, handlerVars, teardown, peerVars>>

(* The stopped callback: main wires it to the egress server's CloseIngest. *)
StopNotify(s) ==
  /\ stopOnce[s] = "notify"
  /\ StopGoto(s, "forget")
  /\ UNCHANGED <<relayVars, serverVars, handlerVars, teardown, peerVars>>

(* forget, under the lock: byIngest is cleared only if it still names s. *)
StopForget(s) ==
  /\ stopOnce[s] = "forget"
  /\ StopGoto(s, "done")
  /\ sessions' = sessions \ {s}
  /\ byIngest' = IF s \in sessions /\ byIngest[CameraOf[s]] = s
                 THEN [byIngest EXCEPT ![CameraOf[s]] = None]
                 ELSE byIngest
  /\ UNCHANGED <<relayVars, pending, closed, ended, live, handlerVars,
                 teardown, peerVars>>

-----------------------------------------------------------------------------
(***************************************************************************)
(* Teardown: the callers that find a session and then stop and close it.   *)
(* Calls for one session wait on the same stopOnce, so a set suffices.     *)
(***************************************************************************)

(* DELETE of the WHIP resource, and CloseIngest of the session's camera. *)
Teardown(s) ==
  /\ s \in sessions
  /\ teardown' = teardown \cup {s}
  /\ UNCHANGED <<relayVars, serverVars, handlerVars, stopOnce, peerVars>>

(* Server.Close: no session may register from here on. *)
Close ==
  /\ ~closed
  /\ closed' = TRUE
  /\ teardown' = teardown \cup sessions
  /\ UNCHANGED <<relayVars, sessions, byIngest, pending, ended, live,
                 handlerVars, stopOnce, peerVars>>

TeardownStop(s) ==
  /\ s \in teardown
  /\ stopOnce[s] = "idle"
  /\ stopOnce' = Once(s)
  /\ UNCHANGED <<relayVars, serverVars, handlerVars, teardown, peerVars>>

TeardownClose(s) ==
  /\ s \in teardown
  /\ stopOnce[s] = "done"
  /\ teardown' = teardown \ {s}
  /\ ClosePeer(s)
  /\ UNCHANGED <<relayVars, serverVars, handlerVars, stopOnce>>

-----------------------------------------------------------------------------
(***************************************************************************)
(* pion (external): connection states change at any time after the answer  *)
(* was begun, and every change starts a callback goroutine of its own, so  *)
(* callbacks may run late and in another order.                            *)
(***************************************************************************)
PeerConnects(s) ==
  /\ peer[s] \in {"new", "disconnected"}
  /\ peer' = [peer EXCEPT ![s] = "connected"]
  /\ calls' = [calls EXCEPT ![s] = @ \cup {"connected"}]
  /\ UNCHANGED <<relayVars, serverVars, handlerVars, stopVars, drain>>

PeerDisconnects(s) ==
  /\ peer[s] = "connected"
  /\ peer' = [peer EXCEPT ![s] = "disconnected"]
  /\ UNCHANGED <<relayVars, serverVars, handlerVars, stopVars, calls, drain>>

PeerFails(s) ==
  /\ peer[s] \in {"new", "connected", "disconnected"}
  /\ peer' = [peer EXCEPT ![s] = "failed"]
  /\ calls' = [calls EXCEPT ![s] = @ \cup {"stop"}]
  /\ UNCHANGED <<relayVars, serverVars, handlerVars, stopVars, drain>>

(* Media arrives: pion starts the OnTrack goroutine of one kind. *)
TrackStarts(s, k) ==
  /\ peer[s] = "connected"
  /\ drain[s][k] = "none"
  /\ drain' = [drain EXCEPT ![s][k] = "started"]
  /\ UNCHANGED <<relayVars, serverVars, handlerVars, stopVars, peer, calls>>

(* Mutant: Connected marks the camera live whoever holds it. *)
OnConnectedAnyway(s) ==
  /\ "connected" \in calls[s]
  /\ calls' = [calls EXCEPT ![s] = @ \ {"connected"}]
  /\ live' = live \cup {CameraOf[s]}
  /\ UNCHANGED <<relayVars, sessions, byIngest, pending, closed, ended,
                 handlerVars, stopVars, peer, drain>>

(* watch: Connected marks the camera live, if the session still holds it. *)
OnConnected(s) ==
  /\ "connected" \in calls[s]
  /\ calls' = [calls EXCEPT ![s] = @ \ {"connected"}]
  /\ live' = IF currentLocked(s) THEN live \cup {CameraOf[s]} ELSE live
  /\ UNCHANGED <<relayVars, sessions, byIngest, pending, closed, ended,
                 handlerVars, stopVars, peer, drain>>

(* Mutant: Failed and Closed stop the pair watcher only. *)
OnStopIgnored(s) ==
  /\ "stop" \in calls[s]
  /\ calls' = [calls EXCEPT ![s] = @ \ {"stop"}]
  /\ UNCHANGED <<relayVars, serverVars, handlerVars, stopVars, peer, drain>>

(* watch: Failed and Closed both call stopSession. *)
OnStop(s) ==
  /\ "stop" \in calls[s]
  /\ calls' = [calls EXCEPT ![s] = @ \ {"stop"}]
  /\ stopOnce' = Once(s)
  /\ UNCHANGED <<relayVars, serverVars, handlerVars, teardown, peer, drain>>

(* Mutant: drain publishes without asking whether the session is current. *)
DrainAnyway(s, k) ==
  /\ drain[s][k] = "started"
  /\ PublishAndTrack(CameraOf[s], s, k)
  /\ drain' = [drain EXCEPT ![s][k] = "running"]
  /\ UNCHANGED <<serverVars, handlerVars, stopVars, peer, calls>>

(* drain's locked region: publish and track, if the session still holds the camera. *)
DrainBegin(s, k) ==
  /\ drain[s][k] = "started"
  /\ currentLocked(s)
  /\ PublishAndTrack(CameraOf[s], s, k)
  /\ drain' = [drain EXCEPT ![s][k] = "running"]
  /\ UNCHANGED <<serverVars, handlerVars, stopVars, peer, calls>>

(* It returns at once if not, or if the outbound track cannot be built. *)
DrainRefused(s, k) ==
  /\ drain[s][k] = "started"
  /\ drain' = [drain EXCEPT ![s][k] = "ended"]
  /\ UNCHANGED <<relayVars, serverVars, handlerVars, stopVars, peer, calls>>

(* Mutant: an ended track leaves its buffer in the retarget list. *)
DrainEndTracked(s, k) ==
  /\ drain[s][k] = "running"
  /\ drain' = [drain EXCEPT ![s][k] = "ended"]
  /\ UNCHANGED <<relayVars, serverVars, handlerVars, stopVars, peer, calls>>

(* The track ends, by itself or with its peer: close and untrack the buffer. *)
DrainEnd(s, k) ==
  /\ drain[s][k] = "running"
  /\ Untrack(CameraOf[s], <<s, k>>)
  /\ drain' = [drain EXCEPT ![s][k] = "ended"]
  /\ UNCHANGED <<serverVars, handlerVars, stopVars, peer, calls>>

-----------------------------------------------------------------------------
(* What the server's own goroutines do next, for one session. *)
HandlerStep(s) ==
  \/ Reserve(s) \/ ReserveRefused(s)
  \/ ClearRead(s) \/ ClearNothing(s) \/ ClearKeep(s) \/ ClearReplace(s) \/ ClearGone(s)
  \/ Replaced(s)
  \/ BuildFails(s) \/ Register(s) \/ RegisterClosed(s)
  \/ AnswerFails(s) \/ Answers(s) \/ Aborted(s)
  \/ Confirm(s) \/ ConfirmStopped(s)
  \/ Release(s)

StopStepOf(s) ==
  \/ StopMark(s) \/ StopStats(s) \/ StopDrop(s) \/ StopNotify(s)
  \/ StopForget(s)

TeardownStep(s) == TeardownStop(s) \/ TeardownClose(s)

DrainStep(s, k) ==
  \/ DrainBegin(s, k) \/ DrainRefused(s, k)
  \/ peer[s] = "closed" /\ DrainEnd(s, k)

(* Everything but the arrival of a request. *)
SessionStep(s) ==
  \/ HandlerStep(s) \/ StopStepOf(s) \/ Teardown(s) \/ TeardownStep(s)
  \/ PeerConnects(s) \/ PeerDisconnects(s) \/ PeerFails(s)
  \/ OnConnected(s) \/ OnStop(s)
  \/ \E k \in Kind : TrackStarts(s, k) \/ DrainStep(s, k) \/ DrainEnd(s, k)

Next ==
  \/ \E s \in Session : Resolve(s) \/ SessionStep(s)
  \/ Close

(***************************************************************************)
(* Goroutines that can run do run: handlers, stopOnce bodies, Teardown     *)
(* calls, callbacks for a stopped peer, and drains (a track read fails     *)
(* once its peer is closed).  A request takes finitely many of these steps,*)
(* so they need no fairness towards each other.  Nothing obliges a client, *)
(* the network or the operator to act.                                     *)
(***************************************************************************)
Running ==
  \E s \in Session :
    \/ HandlerStep(s) \/ StopStepOf(s) \/ TeardownStep(s) \/ OnStop(s)
    \/ \E k \in Kind : DrainStep(s, k)

Fairness == WF_vars(Running)

Spec == Init /\ [][Next]_vars
FairSpec == Spec /\ Fairness

-----------------------------------------------------------------------------
(***************************************************************************)
(* Properties.                                                             *)
(***************************************************************************)

(* Server.sessions never holds two publishers of one camera, and byIngest  *)
(* names the one it holds: a replacement registers only after the previous *)
(* session was forgotten (negotiate, clearPrevious, forget).               *)
OneSessionPerCamera ==
  \A c \in Camera : {s \in sessions : CameraOf[s] = c} =
                    {s \in Session : byIngest[c] = s}

(* "The camera remains owned until relay/subscriber cleanup completes":    *)
(* while any step of stopSession's cleanup is outstanding, the camera is   *)
(* still the stopping session's, so Stopped, Drop and the subscriber       *)
(* disconnect can never hit a replacement.                                 *)
CleanupHoldsCamera ==
  \A s \in Session :
    stopOnce[s] \in {"stats", "drop", "notify", "forget"} => byIngest[CameraOf[s]] = s

(* Every track the relay offers for a camera was published by the session  *)
(* that holds the camera now: late OnTrack goroutines (drain) cannot put   *)
(* an old publisher's media into a new publisher's stream, and no stream   *)
(* outlives its publisher.                                                 *)
MediaOfOwner ==
  \A c \in Camera : \A b \in TracksOf(c) : byIngest[c] = b[1]

(* A camera is shown as live only while a session holds it: a Connected    *)
(* callback that runs after the session was stopped cannot mark a camera   *)
(* live that nobody publishes to.                                          *)
LiveOfOwner ==
  \A c \in live : byIngest[c] # None

(* The buffers a delay change reaches (Stream.buffers) are exactly the     *)
(* running playout buffers of the session that holds the camera, although  *)
(* Untrack finds the stream by camera and may run after a replacement.     *)
BuffersOfOwner ==
  \A c \in Camera : streams[c] # None =>
    buffers[streams[c]] = {b \in Session \X Kind :
                             b[1] = byIngest[c] /\ drain[b[1]][b[2]] = "running"}

(* The negotiation slots are always given back again, on every way out     *)
(* of negotiate, including a replacement that waits in stopOnce.           *)
SlotReleased ==
  []<>(pending = {})

(* A publisher whose connection failed or was closed is forgotten, and the *)
(* camera with it: no lost connection occupies a camera for good.          *)
DeadPublisherForgotten ==
  []<>(\A s \in sessions : peer[s] \notin {"failed", "closed"})

(* After Close the server drains to nothing: no session and no live camera *)
(* remains, even for requests that were negotiating when it was called.    *)
CloseDrains ==
  <>[](closed => sessions = {} /\ live = {})

(***************************************************************************)
(* The server implements CameraOwnership.                                  *)
(***************************************************************************)
Ownership == INSTANCE CameraOwnership WITH
  owner <- byIngest,
  ending <- {c \in Camera : byIngest[c] \in ended},
  media <- [c \in Camera |-> TracksOf(c)],
  told <- {c \in Camera : \E s \in Session : byIngest[c] = s /\ stopOnce[s] = "forget"},
  retired <- {s \in Session : stopOnce[s] = "done"}

(* Every step of the server's goroutines is a step of the promise in       *)
(* CameraOwnership or invisible to it: "A replacement waits for the old    *)
(* publisher's relay and subscriber cleanup; late callbacks cannot change  *)
(* the new session's media or status" (docs/TRANSPORT.md).                 *)
ImplementsOwnership == Ownership!Spec
=============================================================================
