-------------------------- MODULE CameraOwnership --------------------------
(***************************************************************************)
(* What the ingest server promises about a camera, without goroutines,     *)
(* locks or callbacks: at any time one publisher owns it or nobody does;   *)
(* only the owner adds media and turns the status on; an owner that is     *)
(* ending adds nothing more; and the camera is handed back only once its   *)
(* status is off, its media is gone and then its subscribers were told.    *)
(* A publisher owns a camera once.                                         *)
(***************************************************************************)
CONSTANTS Camera, Session, Kind, None, CameraOf

VARIABLES
  owner,    \* camera -> the session that owns it, or None
  ending,   \* cameras whose owner is being cleaned up
  media,    \* camera -> tracks a subscriber can attach
  told,     \* cameras whose subscribers know that the owner is ending
  live,     \* cameras shown as publishing
  retired   \* sessions that gave their camera back

vars == <<owner, ending, media, told, live, retired>>

Init ==
  /\ owner = [c \in Camera |-> None]
  /\ ending = {}
  /\ media = [c \in Camera |-> {}]
  /\ told = {}
  /\ live = {}
  /\ retired = {}

Owned(c) == owner[c] # None

Acquire(s) ==
  /\ ~Owned(CameraOf[s])
  /\ s \notin retired
  /\ owner' = [owner EXCEPT ![CameraOf[s]] = s]
  /\ UNCHANGED <<ending, media, told, live, retired>>

GoLive(c) ==
  /\ Owned(c) /\ c \notin ending
  /\ live' = live \cup {c}
  /\ UNCHANGED <<owner, ending, media, told, retired>>

AddTrack(c, k) ==
  /\ Owned(c) /\ c \notin ending
  /\ media' = [media EXCEPT ![c] = @ \cup {<<owner[c], k>>}]
  /\ UNCHANGED <<owner, ending, told, live, retired>>

BeginEnding(c) ==
  /\ Owned(c) /\ c \notin ending
  /\ ending' = ending \cup {c}
  /\ UNCHANGED <<owner, media, told, live, retired>>

GoDark(c) ==
  /\ c \in ending
  /\ live' = live \ {c}
  /\ UNCHANGED <<owner, ending, media, told, retired>>

DropMedia(c) ==
  /\ c \in ending /\ c \notin told
  /\ media' = [media EXCEPT ![c] = {}]
  /\ UNCHANGED <<owner, ending, told, live, retired>>

Tell(c) ==
  /\ c \in ending /\ media[c] = {}
  /\ told' = told \cup {c}
  /\ UNCHANGED <<owner, ending, media, live, retired>>

HandBack(c) ==
  /\ c \in told /\ c \notin live
  /\ owner' = [owner EXCEPT ![c] = None]
  /\ ending' = ending \ {c}
  /\ told' = told \ {c}
  /\ retired' = retired \cup {owner[c]}
  /\ UNCHANGED <<media, live>>

Next ==
  \/ \E s \in Session : Acquire(s)
  \/ \E c \in Camera :
       \/ GoLive(c) \/ BeginEnding(c) \/ GoDark(c) \/ DropMedia(c) \/ Tell(c) \/ HandBack(c)
       \/ \E k \in Kind : AddTrack(c, k)

Spec == Init /\ [][Next]_vars
=============================================================================
