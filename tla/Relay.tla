------------------------------- MODULE Relay -------------------------------
(***************************************************************************)
(* The registry of internal/relay/relay.go: one stream object per camera   *)
(* that is publishing, holding the outbound track of each media kind and   *)
(* the playout buffers a delay change has to reach.  The operators are     *)
(* the registry's methods; each takes Relay.mu (and Stream.mu under it)    *)
(* once, so each is one atomic step of whichever actor calls it.           *)
(*                                                                         *)
(* A stream object is named by the session whose Publish created it, a     *)
(* track and its buffer by <<session, kind>>.                              *)
(***************************************************************************)
CONSTANTS
  Camera,    \* the configured cameras (ingest ids)
  Session,   \* publisher sessions, one per WHIP request
  Kind,      \* media kinds: video, audio
  None       \* the absent entry of a Go map

VARIABLES
  streams,   \* Relay.streams: camera -> stream object or None
  tracks,    \* Stream.tracks: object -> kind -> session that published it
  buffers    \* Stream.buffers: object -> set of running playout buffers

relayVars == <<streams, tracks, buffers>>

RelayTypeOK ==
  /\ streams \in [Camera -> Session \cup {None}]
  /\ tracks \in [Session -> [Kind -> Session \cup {None}]]
  /\ buffers \in [Session -> SUBSET (Session \X Kind)]

RelayInit ==
  /\ streams = [c \in Camera |-> None]
  /\ tracks = [o \in Session |-> [k \in Kind |-> None]]
  /\ buffers = [o \in Session |-> {}]

(* Track adds a buffer to the ones a delay change reaches. *)
Track(running, b) == running \cup {b}

(***************************************************************************)
(* Publish creates the camera's stream on its first track and installs     *)
(* the track of this kind; Track then adds the track's buffer.  The caller *)
(* (Server.drain) runs both under the ingest mutex.                        *)
(***************************************************************************)
PublishAndTrack(c, s, k) ==
  LET fresh == streams[c] = None
      o == IF fresh THEN s ELSE streams[c]
      held == IF fresh THEN [j \in Kind |-> None] ELSE tracks[o]
      running == IF fresh THEN {} ELSE buffers[o]
  IN  /\ streams' = [streams EXCEPT ![c] = o]
      /\ tracks' = [tracks EXCEPT ![o] = [held EXCEPT ![k] = s]]
      /\ buffers' = [buffers EXCEPT ![o] = Track(running, <<s, k>>)]

(* Untrack removes a buffer from the stream the camera has now, if any. *)
Untrack(c, b) ==
  /\ buffers' = IF streams[c] = None
                THEN buffers
                ELSE [buffers EXCEPT ![streams[c]] = @ \ {b}]
  /\ UNCHANGED <<streams, tracks>>

(* Drop forgets the camera's stream object; readers of it may still hold it. *)
Drop(c) ==
  /\ streams' = [streams EXCEPT ![c] = None]
  /\ UNCHANGED <<tracks, buffers>>

(* The tracks Subscribe would hand out for a camera now; {} is ErrNotPublishing. *)
TracksOf(c) ==
  IF streams[c] = None
  THEN {}
  ELSE {b \in Session \X Kind : tracks[streams[c]][b[2]] = b[1]}
=============================================================================
