----------------------------- MODULE Revocation -----------------------------
(***************************************************************************)
(* Taking a sender key away while requests that present it are being       *)
(* negotiated: the settings page and the control API first change the      *)
(* configuration (RemoveIngest, ResetSenderKey) and then call revoke,      *)
(* whose first half is the ingest server's CloseIngest.                    *)
(***************************************************************************)
EXTENDS Ingest

VARIABLES
  valid,    \* cameras whose sender key, as the requests present it, resolves
  revoke,   \* how far the handler that takes each camera's key away is
  target    \* the session CloseIngest found for the camera

revokeVars == <<valid, revoke, target>>

RevokeInit ==
  /\ Init
  /\ valid = Camera
  /\ revoke = [c \in Camera |-> "idle"]
  /\ target = [c \in Camera |-> None]

(* Publish: cfg.Resolve accepts the key, or the request ends as ErrUnknownKey. *)
ResolveValid(s) ==
  /\ CameraOf[s] \in valid
  /\ Resolve(s)
  /\ UNCHANGED revokeVars

ResolveUnknown(s) ==
  /\ CameraOf[s] \notin valid
  /\ pc[s] = "idle"
  /\ Goto(s, "done")
  /\ UNCHANGED <<relayVars, serverVars, prev, stopVars, peerVars, revokeVars>>

RevokeGoto(c, to) == revoke' = [revoke EXCEPT ![c] = to]

(* The configuration is changed and saved; the old key resolves no more. *)
TakeKey(c) ==
  /\ revoke[c] = "idle"
  /\ RevokeGoto(c, "removed")
  /\ valid' = valid \ {c}
  /\ UNCHANGED <<vars, target>>

(* CloseIngest looks the camera up ... *)
CloseIngestFinds(c) ==
  /\ revoke[c] = "removed"
  /\ target' = [target EXCEPT ![c] = byIngest[c]]
  /\ RevokeGoto(c, IF byIngest[c] = None THEN "done" ELSE "found")
  /\ UNCHANGED <<vars, valid>>

(* ... Teardown looks the session up, and stops it ... *)
CloseIngestTearsDown(c) ==
  /\ revoke[c] = "found"
  /\ target[c] \in sessions
  /\ teardown' = teardown \cup {target[c]}
  /\ RevokeGoto(c, "waiting")
  /\ UNCHANGED <<relayVars, serverVars, handlerVars, stopOnce, peerVars, valid, target>>

(* ... unless it went by itself (ErrNoSession). *)
CloseIngestTooLate(c) ==
  /\ revoke[c] = "found"
  /\ target[c] \notin sessions
  /\ RevokeGoto(c, "done")
  /\ UNCHANGED <<vars, valid, target>>

CloseIngestReturns(c) ==
  /\ revoke[c] = "waiting"
  /\ stopOnce[target[c]] = "done"
  /\ peer[target[c]] = "closed"
  /\ RevokeGoto(c, "done")
  /\ UNCHANGED <<vars, valid, target>>

RevokeNext ==
  \/ \E s \in Session :
       \/ ResolveValid(s) \/ ResolveUnknown(s)
       \/ SessionStep(s) /\ UNCHANGED revokeVars
  \/ \E c \in Camera :
       \/ TakeKey(c) \/ CloseIngestFinds(c)
       \/ CloseIngestTearsDown(c) \/ CloseIngestTooLate(c) \/ CloseIngestReturns(c)
  \/ Close /\ UNCHANGED revokeVars

RevokeSpec == RevokeInit /\ [][RevokeNext]_<<vars, revokeVars>>

-----------------------------------------------------------------------------
(* "Deleting a camera has to disconnect it, or a revoked key keeps working *)
(* until the phone gives up" (CloseIngest): once the key has been taken    *)
(* away and CloseIngest has returned, no publisher of the camera is        *)
(* connected, also none that was negotiating.                              *)
RevokedDisconnected ==
  \A s \in sessions : revoke[CameraOf[s]] = "done" /\ s \notin ended => peer[s] # "connected"
=============================================================================
