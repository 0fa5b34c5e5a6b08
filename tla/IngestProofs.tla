---------------------------- MODULE IngestProofs ----------------------------
(***************************************************************************)
(* The safety of camera ownership for any number of cameras, requests and  *)
(* media kinds: the inductive invariant of Ingest, the invariants that     *)
(* follow from it, and the refinement of CameraOwnership.                  *)
(***************************************************************************)
EXTENDS Ingest, TLAPS

-----------------------------------------------------------------------------
(* The handler is between negotiate's reservation and its deferred release. *)
HoldsSlot(s) == pc[s] \notin {"idle", "resolved", "done"}

(* One negotiation per camera holds the pending entry. *)
Slots ==
  /\ \A s \in Session : HoldsSlot(s) => CameraOf[s] \in pending
  /\ \A s, t \in Session :
       HoldsSlot(s) /\ HoldsSlot(t) /\ CameraOf[s] = CameraOf[t] => s = t

(* A session has a peer from registration on, and is forgotten when stopOnce ends. *)
Lifecycle ==
  \A s \in Session :
    /\ pc[s] \in {"idle", "resolved", "clearing", "checking", "evicting",
                  "replacing", "building"} => peer[s] = "none"
    /\ pc[s] \in {"answering", "confirming", "aborting"} => peer[s] # "none"
    /\ peer[s] = "none" => /\ stopOnce[s] = "idle"
                           /\ s \notin teardown
                           /\ calls[s] = {}
                           /\ \A k \in Kind : drain[s][k] = "none"
    /\ s \in sessions <=> peer[s] # "none" /\ stopOnce[s] # "done"
    /\ s \in ended <=> stopOnce[s] \notin {"idle", "mark"}

(* sessions and byIngest agree. *)
Registry ==
  /\ \A s \in sessions : byIngest[CameraOf[s]] = s
  /\ \A c \in Camera : byIngest[c] # None =>
       byIngest[c] \in sessions /\ CameraOf[byIngest[c]] = c

(* What clearPrevious knows: nobody else can take the camera meanwhile. *)
Clearing ==
  \A s \in Session :
    /\ pc[s] = "building" => byIngest[CameraOf[s]] = None
    /\ pc[s] \in {"checking", "evicting", "replacing"} =>
         /\ prev[s] \in Session
         /\ peer[prev[s]] # "none"
         /\ byIngest[CameraOf[s]] \in {None, prev[s]}

(* A stream exists only between its owner's first track and Drop. *)
Media ==
  /\ \A c \in Camera : streams[c] # None =>
       /\ streams[c] = byIngest[c]
       /\ stopOnce[byIngest[c]] \in {"idle", "mark", "stats", "drop"}
       /\ \A k \in Kind : tracks[streams[c]][k] \in {None, byIngest[c]}
       /\ buffers[streams[c]] = {b \in Session \X Kind :
                                   b[1] = byIngest[c] /\ drain[b[1]][b[2]] = "running"}
  /\ \A s \in sessions : streams[CameraOf[s]] = None /\ s \notin ended =>
       \A k \in Kind : drain[s][k] # "running"

(* The live flag is set only between Connected and Stopped. *)
Status ==
  \A c \in live : byIngest[c] # None /\ stopOnce[byIngest[c]] \in {"idle", "mark", "stats"}

IInv == TypeOK /\ Slots /\ Lifecycle /\ Registry /\ Clearing /\ Media /\ Status

-----------------------------------------------------------------------------
(* The initial state satisfies the inductive invariant. *)
LEMMA InitIInv == Init => IInv
<1> SUFFICES ASSUME Init PROVE IInv
  OBVIOUS
<1> USE CameraOfType, NoneIsNoSession DEF Init, RelayInit
<1>1. TypeOK
  BY Zenon DEF TypeOK, RelayTypeOK, PC, StopStep, PeerState, DrainState
<1>2. Slots
  BY DEF Slots, HoldsSlot
<1>3. Lifecycle
  BY DEF Lifecycle
<1>4. Registry /\ Clearing
  BY DEF Registry, Clearing
<1>5. Media /\ Status
  BY DEF Media, Status
<1> QED
  BY <1>1, <1>2, <1>3, <1>4, <1>5 DEF IInv

(* Publish and Track keep the relay's registry in its types. *)
LEMMA PublishType ==
  ASSUME RelayTypeOK, NEW c \in Camera, NEW s \in Session, NEW k \in Kind,
         PublishAndTrack(c, s, k)
  PROVE  RelayTypeOK'
<1> DEFINE fresh == streams[c] = None
           o == IF fresh THEN s ELSE streams[c]
           held == IF fresh THEN [j \in Kind |-> None] ELSE tracks[o]
           running == IF fresh THEN {} ELSE buffers[o]
<1>1. o \in Session /\ held \in [Kind -> Session \cup {None}]
      /\ running \in SUBSET (Session \X Kind)
  BY DEF RelayTypeOK
<1>2. /\ streams' = [streams EXCEPT ![c] = o]
      /\ tracks' = [tracks EXCEPT ![o] = [held EXCEPT ![k] = s]]
      /\ buffers' = [buffers EXCEPT ![o] = running \cup {<<s, k>>}]
  BY DEF PublishAndTrack, Track
<1> HIDE DEF o, held, running
<1> QED
  BY <1>1, <1>2 DEF RelayTypeOK

(* Every step keeps the variables in their types. *)
LEMMA TypeStep == TypeOK /\ [Next]_vars => TypeOK'
<1> SUFFICES ASSUME TypeOK, [Next]_vars PROVE TypeOK'
  OBVIOUS
<1> USE CameraOfType, NoneIsNoSession
    DEF TypeOK, RelayTypeOK, PC, StopStep, PeerState, DrainState, relayVars,
        serverVars, handlerVars, stopVars, peerVars, Goto, StopGoto, Once, ClosePeer
<1>1. ASSUME NEW s \in Session, Resolve(s) PROVE TypeOK'
  BY <1>1 DEF Resolve
<1>2. ASSUME NEW s \in Session, Reserve(s) PROVE TypeOK'
  BY <1>2 DEF Reserve
<1>3. ASSUME NEW s \in Session, ReserveRefused(s) PROVE TypeOK'
  BY <1>3 DEF ReserveRefused
<1>4. ASSUME NEW s \in Session, ClearRead(s) PROVE TypeOK'
  BY <1>4 DEF ClearRead
<1>5. ASSUME NEW s \in Session, ClearNothing(s) PROVE TypeOK'
  BY <1>5 DEF ClearNothing
<1>6. ASSUME NEW s \in Session, ClearKeep(s) PROVE TypeOK'
  BY <1>6 DEF ClearKeep
<1>7. ASSUME NEW s \in Session, ClearReplace(s) PROVE TypeOK'
  BY <1>7 DEF ClearReplace
<1>8. ASSUME NEW s \in Session, ClearGone(s) PROVE TypeOK'
  BY <1>8 DEF ClearGone
<1>9. ASSUME NEW s \in Session, Replaced(s) PROVE TypeOK'
  BY <1>9 DEF Replaced
<1>10. ASSUME NEW s \in Session, BuildFails(s) PROVE TypeOK'
  BY <1>10 DEF BuildFails
<1>11. ASSUME NEW s \in Session, Register(s) PROVE TypeOK'
  BY <1>11 DEF Register
<1>12. ASSUME NEW s \in Session, RegisterClosed(s) PROVE TypeOK'
  BY <1>12 DEF RegisterClosed
<1>13. ASSUME NEW s \in Session, AnswerFails(s) PROVE TypeOK'
  BY <1>13 DEF AnswerFails
<1>14. ASSUME NEW s \in Session, Answers(s) PROVE TypeOK'
  BY <1>14 DEF Answers
<1>15. ASSUME NEW s \in Session, Aborted(s) PROVE TypeOK'
  BY <1>15 DEF Aborted
<1>16. ASSUME NEW s \in Session, Confirm(s) PROVE TypeOK'
  BY <1>16 DEF Confirm
<1>17. ASSUME NEW s \in Session, ConfirmStopped(s) PROVE TypeOK'
  BY <1>17 DEF ConfirmStopped
<1>18. ASSUME NEW s \in Session, Release(s) PROVE TypeOK'
  BY <1>18 DEF Release
<1>19. ASSUME NEW s \in Session, StopMark(s) PROVE TypeOK'
  BY <1>19 DEF StopMark
<1>20. ASSUME NEW s \in Session, StopStats(s) PROVE TypeOK'
  BY <1>20 DEF StopStats
<1>21. ASSUME NEW s \in Session, StopDrop(s) PROVE TypeOK'
  BY <1>21 DEF StopDrop, Drop
<1>22. ASSUME NEW s \in Session, StopNotify(s) PROVE TypeOK'
  BY <1>22 DEF StopNotify
<1>23. ASSUME NEW s \in Session, StopForget(s) PROVE TypeOK'
  BY <1>23 DEF StopForget
<1>24. ASSUME NEW s \in Session, Teardown(s) PROVE TypeOK'
  BY <1>24 DEF Teardown
<1>25. ASSUME NEW s \in Session, TeardownStop(s) PROVE TypeOK'
  BY <1>25 DEF TeardownStop
<1>26. ASSUME NEW s \in Session, TeardownClose(s) PROVE TypeOK'
  BY <1>26 DEF TeardownClose
<1>27. ASSUME NEW s \in Session, PeerConnects(s) PROVE TypeOK'
  BY <1>27 DEF PeerConnects
<1>28. ASSUME NEW s \in Session, PeerDisconnects(s) PROVE TypeOK'
  BY <1>28 DEF PeerDisconnects
<1>29. ASSUME NEW s \in Session, PeerFails(s) PROVE TypeOK'
  BY <1>29 DEF PeerFails
<1>30. ASSUME NEW s \in Session, OnConnected(s) PROVE TypeOK'
  BY <1>30 DEF OnConnected
<1>31. ASSUME NEW s \in Session, OnStop(s) PROVE TypeOK'
  BY <1>31 DEF OnStop
<1>32. ASSUME NEW s \in Session, NEW k \in Kind, TrackStarts(s, k) PROVE TypeOK'
  BY <1>32 DEF TrackStarts
<1>33. ASSUME NEW s \in Session, NEW k \in Kind, DrainBegin(s, k) PROVE TypeOK'
  <2>1. CameraOf[s] \in Camera /\ drain' \in [Session -> [Kind -> DrainState]]
        /\ PublishAndTrack(CameraOf[s], s, k)
        /\ UNCHANGED <<serverVars, handlerVars, stopVars, peer, calls>>
    BY <1>33 DEF DrainBegin
  <2> HIDE DEF RelayTypeOK
  <2>2. RelayTypeOK'
    BY <2>1, PublishType
  <2> QED
    BY <2>1, <2>2
<1>34. ASSUME NEW s \in Session, NEW k \in Kind, DrainRefused(s, k) PROVE TypeOK'
  BY <1>34 DEF DrainRefused
<1>35. ASSUME NEW s \in Session, NEW k \in Kind, DrainEnd(s, k) PROVE TypeOK'
  BY <1>35 DEF DrainEnd, Untrack
<1>36. CASE Close
  BY <1>36 DEF Close
<1>37. CASE UNCHANGED vars
  BY <1>37 DEF vars
<1> QED
  BY <1>1, <1>2, <1>3, <1>4, <1>5, <1>6, <1>7, <1>8, <1>9, <1>10, <1>11, <1>12, <1>13, <1>14, <1>15, <1>16, <1>17, <1>18, <1>19, <1>20, <1>21, <1>22, <1>23, <1>24, <1>25, <1>26, <1>27, <1>28, <1>29, <1>30, <1>31, <1>32, <1>33, <1>34, <1>35, <1>36, <1>37, ZenonT(30)
  DEF Next, SessionStep, HandlerStep, StopStepOf, TeardownStep, DrainStep

(* One negotiation per camera holds its pending entry: Reserve takes it, Release gives it back. *)
LEMMA SlotsStep == IInv /\ [Next]_vars => Slots'
<1> SUFFICES ASSUME TypeOK, Slots, [Next]_vars PROVE Slots'
  BY DEF IInv
<1> USE CameraOfType, NoneIsNoSession DEF Slots, HoldsSlot, TypeOK, RelayTypeOK, relayVars, serverVars, handlerVars, stopVars, peerVars,
        Goto, StopGoto, Once, ClosePeer, currentLocked
<1>1. ASSUME NEW s \in Session, Resolve(s) PROVE Slots'
  BY <1>1 DEF Resolve
<1>2. ASSUME NEW s \in Session, Reserve(s) PROVE Slots'
  BY <1>2 DEF Reserve
<1>3. ASSUME NEW s \in Session, ReserveRefused(s) PROVE Slots'
  BY <1>3 DEF ReserveRefused
<1>4. ASSUME NEW s \in Session, ClearRead(s) PROVE Slots'
  BY <1>4 DEF ClearRead
<1>5. ASSUME NEW s \in Session, ClearNothing(s) PROVE Slots'
  BY <1>5 DEF ClearNothing
<1>6. ASSUME NEW s \in Session, ClearKeep(s) PROVE Slots'
  BY <1>6 DEF ClearKeep
<1>7. ASSUME NEW s \in Session, ClearReplace(s) PROVE Slots'
  BY <1>7 DEF ClearReplace, Replaces
<1>8. ASSUME NEW s \in Session, ClearGone(s) PROVE Slots'
  BY <1>8 DEF ClearGone, Replaces
<1>9. ASSUME NEW s \in Session, Replaced(s) PROVE Slots'
  BY <1>9 DEF Replaced
<1>10. ASSUME NEW s \in Session, BuildFails(s) PROVE Slots'
  BY <1>10 DEF BuildFails
<1>11. ASSUME NEW s \in Session, Register(s) PROVE Slots'
  BY <1>11 DEF Register
<1>12. ASSUME NEW s \in Session, RegisterClosed(s) PROVE Slots'
  BY <1>12 DEF RegisterClosed
<1>13. ASSUME NEW s \in Session, AnswerFails(s) PROVE Slots'
  BY <1>13 DEF AnswerFails
<1>14. ASSUME NEW s \in Session, Answers(s) PROVE Slots'
  BY <1>14 DEF Answers
<1>15. ASSUME NEW s \in Session, Aborted(s) PROVE Slots'
  BY <1>15 DEF Aborted
<1>16. ASSUME NEW s \in Session, Confirm(s) PROVE Slots'
  BY <1>16 DEF Confirm
<1>17. ASSUME NEW s \in Session, ConfirmStopped(s) PROVE Slots'
  BY <1>17 DEF ConfirmStopped
<1>18. ASSUME NEW s \in Session, Release(s) PROVE Slots'
  BY <1>18, ZenonT(30) DEF Release
<1>19. ASSUME NEW s \in Session,
            StopMark(s) \/ StopStats(s) \/ StopDrop(s) \/ StopNotify(s) \/ StopForget(s) \/ Teardown(s) \/ TeardownStop(s) \/ TeardownClose(s) \/ PeerConnects(s) \/ PeerDisconnects(s) \/ PeerFails(s) \/ OnConnected(s) \/ OnStop(s)
     PROVE UNCHANGED <<pc, pending>>
  BY <1>19 DEF StopMark, StopStats, StopDrop, StopNotify, StopForget, Teardown, TeardownStop, TeardownClose, PeerConnects, PeerDisconnects, PeerFails, OnConnected, OnStop, Drop
<1>20. ASSUME NEW s \in Session, NEW k \in Kind,
            TrackStarts(s, k) \/ DrainBegin(s, k) \/ DrainRefused(s, k) \/ DrainEnd(s, k)
     PROVE UNCHANGED <<pc, pending>>
  BY <1>20 DEF TrackStarts, DrainBegin, DrainRefused, DrainEnd, PublishAndTrack, Track, Untrack
<1>21. ASSUME Close \/ UNCHANGED vars PROVE UNCHANGED <<pc, pending>>
  BY <1>21 DEF Close, vars
<1>22. ASSUME UNCHANGED <<pc, pending>> PROVE Slots'
  BY <1>22, ZenonT(30) DEF Slots, HoldsSlot
<1> HIDE DEF Slots
<1> QED
  BY <1>1, <1>2, <1>3, <1>4, <1>5, <1>6, <1>7, <1>8, <1>9, <1>10, <1>11, <1>12, <1>13, <1>14, <1>15, <1>16, <1>17, <1>18, <1>19, <1>20, <1>21, <1>22
  DEF Next, SessionStep, HandlerStep, StopStepOf, TeardownStep, DrainStep

(* A session lives from Register to the end of its stopOnce. *)
LEMMA LifecycleStep == IInv /\ [Next]_vars => Lifecycle'
<1> SUFFICES ASSUME TypeOK, Lifecycle, Clearing, [Next]_vars PROVE Lifecycle'
  BY DEF IInv
<1> USE CameraOfType, NoneIsNoSession DEF Lifecycle, TypeOK, RelayTypeOK, relayVars, serverVars, handlerVars, stopVars, peerVars,
        Goto, StopGoto, Once, ClosePeer, currentLocked
<1>1. ASSUME NEW s \in Session, Resolve(s) PROVE Lifecycle'
  BY <1>1 DEF Resolve
<1>2. ASSUME NEW s \in Session, Reserve(s) PROVE Lifecycle'
  BY <1>2 DEF Reserve
<1>3. ASSUME NEW s \in Session, ReserveRefused(s) PROVE Lifecycle'
  BY <1>3 DEF ReserveRefused
<1>4. ASSUME NEW s \in Session, ClearRead(s) PROVE Lifecycle'
  BY <1>4 DEF ClearRead
<1>5. ASSUME NEW s \in Session, ClearNothing(s) PROVE Lifecycle'
  BY <1>5 DEF ClearNothing
<1>6. ASSUME NEW s \in Session, ClearKeep(s) PROVE Lifecycle'
  BY <1>6 DEF ClearKeep
<1>7. ASSUME NEW s \in Session, ClearReplace(s) PROVE Lifecycle'
  BY <1>7 DEF ClearReplace, Replaces, Clearing
<1>8. ASSUME NEW s \in Session, ClearGone(s) PROVE Lifecycle'
  BY <1>8 DEF ClearGone, Replaces
<1>9. ASSUME NEW s \in Session, Replaced(s) PROVE Lifecycle'
  BY <1>9 DEF Replaced
<1>10. ASSUME NEW s \in Session, BuildFails(s) PROVE Lifecycle'
  BY <1>10 DEF BuildFails
<1>11. ASSUME NEW s \in Session, Register(s) PROVE Lifecycle'
  BY <1>11 DEF Register
<1>12. ASSUME NEW s \in Session, RegisterClosed(s) PROVE Lifecycle'
  BY <1>12 DEF RegisterClosed
<1>13. ASSUME NEW s \in Session, AnswerFails(s) PROVE Lifecycle'
  BY <1>13 DEF AnswerFails
<1>14. ASSUME NEW s \in Session, Answers(s) PROVE Lifecycle'
  BY <1>14 DEF Answers
<1>15. ASSUME NEW s \in Session, Aborted(s) PROVE Lifecycle'
  BY <1>15 DEF Aborted
<1>16. ASSUME NEW s \in Session, Confirm(s) PROVE Lifecycle'
  BY <1>16 DEF Confirm
<1>17. ASSUME NEW s \in Session, ConfirmStopped(s) PROVE Lifecycle'
  BY <1>17 DEF ConfirmStopped
<1>18. ASSUME NEW s \in Session, Release(s) PROVE Lifecycle'
  BY <1>18 DEF Release
<1>19. ASSUME NEW s \in Session, StopMark(s) PROVE Lifecycle'
  BY <1>19 DEF StopMark
<1>20. ASSUME NEW s \in Session, StopStats(s) PROVE Lifecycle'
  BY <1>20 DEF StopStats
<1>21. ASSUME NEW s \in Session, StopDrop(s) PROVE Lifecycle'
  BY <1>21 DEF StopDrop, Drop
<1>22. ASSUME NEW s \in Session, StopNotify(s) PROVE Lifecycle'
  BY <1>22 DEF StopNotify
<1>23. ASSUME NEW s \in Session, StopForget(s) PROVE Lifecycle'
  BY <1>23 DEF StopForget
<1>24. ASSUME NEW s \in Session, Teardown(s) PROVE Lifecycle'
  BY <1>24 DEF Teardown
<1>25. ASSUME NEW s \in Session, TeardownStop(s) PROVE Lifecycle'
  BY <1>25 DEF TeardownStop
<1>26. ASSUME NEW s \in Session, TeardownClose(s) PROVE Lifecycle'
  BY <1>26 DEF TeardownClose
<1>27. ASSUME NEW s \in Session, PeerConnects(s) PROVE Lifecycle'
  BY <1>27 DEF PeerConnects
<1>28. ASSUME NEW s \in Session, PeerDisconnects(s) PROVE Lifecycle'
  BY <1>28 DEF PeerDisconnects
<1>29. ASSUME NEW s \in Session, PeerFails(s) PROVE Lifecycle'
  BY <1>29 DEF PeerFails
<1>30. ASSUME NEW s \in Session, OnConnected(s) PROVE Lifecycle'
  BY <1>30 DEF OnConnected
<1>31. ASSUME NEW s \in Session, OnStop(s) PROVE Lifecycle'
  BY <1>31 DEF OnStop
<1>32. ASSUME NEW s \in Session, NEW k \in Kind, TrackStarts(s, k) PROVE Lifecycle'
  BY <1>32 DEF TrackStarts
<1>33. ASSUME NEW s \in Session, NEW k \in Kind, DrainBegin(s, k) PROVE Lifecycle'
  BY <1>33 DEF DrainBegin, PublishAndTrack, Track
<1>34. ASSUME NEW s \in Session, NEW k \in Kind, DrainRefused(s, k) PROVE Lifecycle'
  BY <1>34 DEF DrainRefused
<1>35. ASSUME NEW s \in Session, NEW k \in Kind, DrainEnd(s, k) PROVE Lifecycle'
  BY <1>35 DEF DrainEnd, Untrack
<1>36. CASE Close
  BY <1>36 DEF Close
<1>37. ASSUME UNCHANGED vars PROVE UNCHANGED <<pc, peer, stopOnce, teardown, calls, drain, sessions, ended>>
  BY <1>37 DEF vars
<1>38. ASSUME UNCHANGED <<pc, peer, stopOnce, teardown, calls, drain, sessions, ended>> PROVE Lifecycle'
  BY <1>38, SMTT(30) DEF Lifecycle
<1> HIDE DEF Lifecycle
<1> QED
  BY <1>1, <1>2, <1>3, <1>4, <1>5, <1>6, <1>7, <1>8, <1>9, <1>10, <1>11, <1>12, <1>13, <1>14, <1>15, <1>16, <1>17, <1>18, <1>19, <1>20, <1>21, <1>22, <1>23, <1>24, <1>25, <1>26, <1>27, <1>28, <1>29, <1>30, <1>31, <1>32, <1>33, <1>34, <1>35, <1>36, <1>37, <1>38, ZenonT(30)
  DEF Next, SessionStep, HandlerStep, StopStepOf, TeardownStep, DrainStep

(* sessions and byIngest change together. *)
LEMMA RegistryStep == IInv /\ [Next]_vars => Registry'
<1> SUFFICES ASSUME TypeOK, Lifecycle, Registry, Clearing, [Next]_vars PROVE Registry'
  BY DEF IInv
<1> USE CameraOfType, NoneIsNoSession DEF Registry, TypeOK, RelayTypeOK, relayVars, serverVars, handlerVars, stopVars, peerVars,
        Goto, StopGoto, Once, ClosePeer, currentLocked
<1>1. ASSUME NEW s \in Session, Register(s) PROVE Registry'
  BY <1>1 DEF Register, Lifecycle, Clearing
<1>2. ASSUME NEW s \in Session, StopForget(s) PROVE Registry'
  BY <1>2, SMTT(30) DEF StopForget
<1>3. ASSUME NEW s \in Session,
            Resolve(s) \/ Reserve(s) \/ ReserveRefused(s) \/ ClearRead(s) \/ ClearNothing(s) \/ ClearKeep(s) \/ ClearReplace(s) \/ ClearGone(s) \/ Replaced(s) \/ BuildFails(s) \/ RegisterClosed(s) \/ AnswerFails(s) \/ Answers(s) \/ Aborted(s) \/ Confirm(s) \/ ConfirmStopped(s) \/ Release(s) \/ StopMark(s) \/ StopStats(s) \/ StopDrop(s) \/ StopNotify(s) \/ Teardown(s) \/ TeardownStop(s) \/ TeardownClose(s) \/ PeerConnects(s) \/ PeerDisconnects(s) \/ PeerFails(s) \/ OnConnected(s) \/ OnStop(s)
     PROVE UNCHANGED <<sessions, byIngest>>
  BY <1>3, ZenonT(30) DEF Resolve, Reserve, ReserveRefused, ClearRead, ClearNothing, ClearKeep, ClearReplace, ClearGone, Replaced, BuildFails, RegisterClosed, AnswerFails, Answers, Aborted, Confirm, ConfirmStopped, Release, StopMark, StopStats, StopDrop, StopNotify, Teardown, TeardownStop, TeardownClose, PeerConnects, PeerDisconnects, PeerFails, OnConnected, OnStop, Drop
<1>4. ASSUME NEW s \in Session, NEW k \in Kind,
            TrackStarts(s, k) \/ DrainBegin(s, k) \/ DrainRefused(s, k) \/ DrainEnd(s, k)
     PROVE UNCHANGED <<sessions, byIngest>>
  BY <1>4 DEF TrackStarts, DrainBegin, DrainRefused, DrainEnd, PublishAndTrack, Track, Untrack
<1>5. ASSUME Close \/ UNCHANGED vars PROVE UNCHANGED <<sessions, byIngest>>
  BY <1>5 DEF Close, vars
<1>6. ASSUME UNCHANGED <<sessions, byIngest>> PROVE Registry'
  BY <1>6, ZenonT(30) DEF Registry
<1> HIDE DEF Registry
<1> QED
  BY <1>1, <1>2, <1>3, <1>4, <1>5, <1>6
  DEF Next, SessionStep, HandlerStep, StopStepOf, TeardownStep, DrainStep

(* Nobody takes a camera while a negotiation for it is clearing the previous publisher. *)
LEMMA ClearingStep == IInv /\ [Next]_vars => Clearing'
<1> SUFFICES ASSUME TypeOK, Slots, Lifecycle, Registry, Clearing, [Next]_vars PROVE Clearing'
  BY DEF IInv
<1> USE CameraOfType, NoneIsNoSession DEF Clearing, TypeOK, RelayTypeOK, relayVars, serverVars, handlerVars, stopVars, peerVars,
        Goto, StopGoto, Once, ClosePeer, currentLocked
<1>1. ASSUME NEW s \in Session, Resolve(s) PROVE Clearing'
  BY <1>1 DEF Resolve
<1>2. ASSUME NEW s \in Session, Reserve(s) PROVE Clearing'
  BY <1>2 DEF Reserve
<1>3. ASSUME NEW s \in Session, ReserveRefused(s) PROVE Clearing'
  BY <1>3 DEF ReserveRefused
<1>4. ASSUME NEW s \in Session, ClearRead(s) PROVE Clearing'
  BY <1>4, SMTT(30) DEF ClearRead, Lifecycle, Registry
<1>5. ASSUME NEW s \in Session, ClearNothing(s) PROVE Clearing'
  BY <1>5 DEF ClearNothing, Lifecycle, Registry
<1>6. ASSUME NEW s \in Session, ClearKeep(s) PROVE Clearing'
  BY <1>6 DEF ClearKeep
<1>7. ASSUME NEW s \in Session, ClearReplace(s) PROVE Clearing'
  BY <1>7 DEF ClearReplace, Replaces, Lifecycle, Registry
<1>8. ASSUME NEW s \in Session, ClearGone(s) PROVE Clearing'
  BY <1>8 DEF ClearGone, Replaces, Lifecycle, Registry
<1>9. ASSUME NEW s \in Session, Replaced(s) PROVE Clearing'
  BY <1>9 DEF Replaced, Lifecycle, Registry
<1>10. ASSUME NEW s \in Session, BuildFails(s) PROVE Clearing'
  BY <1>10 DEF BuildFails
<1>11. ASSUME NEW s \in Session, Register(s) PROVE Clearing'
  <2>1. \A t \in Session :
          pc[t] \in {"checking", "evicting", "replacing", "building"} /\ t # s =>
            CameraOf[t] # CameraOf[s]
    BY <1>11, Zenon DEF Register, Slots, HoldsSlot
  <2>2. \A t \in Session : peer[t] # "none" => peer'[t] # "none"
    BY <1>11 DEF Register
  <2> QED
    BY <1>11, <2>1, <2>2 DEF Register
<1>12. ASSUME NEW s \in Session, RegisterClosed(s) PROVE Clearing'
  BY <1>12 DEF RegisterClosed
<1>13. ASSUME NEW s \in Session, AnswerFails(s) PROVE Clearing'
  BY <1>13 DEF AnswerFails
<1>14. ASSUME NEW s \in Session, Answers(s) PROVE Clearing'
  BY <1>14 DEF Answers
<1>15. ASSUME NEW s \in Session, Aborted(s) PROVE Clearing'
  BY <1>15 DEF Aborted
<1>16. ASSUME NEW s \in Session, Confirm(s) PROVE Clearing'
  BY <1>16 DEF Confirm
<1>17. ASSUME NEW s \in Session, ConfirmStopped(s) PROVE Clearing'
  BY <1>17 DEF ConfirmStopped
<1>18. ASSUME NEW s \in Session, Release(s) PROVE Clearing'
  BY <1>18 DEF Release
<1>19. ASSUME NEW s \in Session, StopForget(s) PROVE Clearing'
  BY <1>19 DEF StopForget
<1>20. ASSUME NEW s \in Session, TeardownClose(s) PROVE Clearing'
  BY <1>20 DEF TeardownClose
<1>21. ASSUME NEW s \in Session, PeerConnects(s) PROVE Clearing'
  BY <1>21 DEF PeerConnects
<1>22. ASSUME NEW s \in Session, PeerDisconnects(s) PROVE Clearing'
  BY <1>22 DEF PeerDisconnects
<1>23. ASSUME NEW s \in Session, PeerFails(s) PROVE Clearing'
  BY <1>23, ZenonT(30) DEF PeerFails
<1>24. ASSUME NEW s \in Session,
            StopMark(s) \/ StopStats(s) \/ StopDrop(s) \/ StopNotify(s) \/ Teardown(s) \/ TeardownStop(s) \/ OnConnected(s) \/ OnStop(s)
     PROVE UNCHANGED <<pc, prev, byIngest, peer, sessions>>
  BY <1>24, ZenonT(30) DEF StopMark, StopStats, StopDrop, StopNotify, Teardown, TeardownStop, OnConnected, OnStop, Drop
<1>25. ASSUME NEW s \in Session, NEW k \in Kind,
            TrackStarts(s, k) \/ DrainBegin(s, k) \/ DrainRefused(s, k) \/ DrainEnd(s, k)
     PROVE UNCHANGED <<pc, prev, byIngest, peer, sessions>>
  BY <1>25 DEF TrackStarts, DrainBegin, DrainRefused, DrainEnd, PublishAndTrack, Track, Untrack
<1>26. ASSUME Close \/ UNCHANGED vars PROVE UNCHANGED <<pc, prev, byIngest, peer, sessions>>
  BY <1>26 DEF Close, vars
<1>27. ASSUME UNCHANGED <<pc, prev, byIngest, peer, sessions>> PROVE Clearing'
  BY <1>27, ZenonT(30) DEF Clearing
<1> HIDE DEF Clearing
<1> QED
  BY <1>1, <1>2, <1>3, <1>4, <1>5, <1>6, <1>7, <1>8, <1>9, <1>10, <1>11, <1>12, <1>13, <1>14, <1>15, <1>16, <1>17, <1>18, <1>19, <1>20, <1>21, <1>22, <1>23, <1>24, <1>25, <1>26, <1>27, SMTT(30)
  DEF Next, SessionStep, HandlerStep, StopStepOf, TeardownStep, DrainStep

(* A track that starts changes no track that runs. *)
LEMMA TrackKeepsRunning ==
  ASSUME TypeOK, NEW s \in Session, NEW k \in Kind, TrackStarts(s, k)
  PROVE  \A t \in Session, j \in Kind : drain'[t][j] = "running" <=> drain[t][j] = "running"
<1>1. /\ drain \in [Session -> [Kind -> DrainState]]
      /\ drain[s][k] = "none"
      /\ drain' = [drain EXCEPT ![s][k] = "started"]
  BY Zenon DEF TypeOK, TrackStarts
<1> QED
  BY <1>1, SMTT(30)

(* The camera's stream is its owner's, from the first track to Drop. *)
LEMMA MediaStep == IInv /\ [Next]_vars => Media'
<1> SUFFICES ASSUME TypeOK, Lifecycle, Registry, Clearing, Media, [Next]_vars PROVE Media'
  BY SMTT(30) DEF IInv
<1> USE CameraOfType, NoneIsNoSession DEF Media, TypeOK, RelayTypeOK, relayVars, serverVars, handlerVars, stopVars, peerVars,
        Goto, StopGoto, Once, ClosePeer, currentLocked
<1>1. ASSUME NEW s \in Session, Register(s) PROVE Media'
  BY <1>1, SMTT(30) DEF Register, Clearing, Lifecycle, Registry
<1>2. ASSUME NEW s \in Session, StopMark(s) PROVE Media'
  BY <1>2, SMTT(30) DEF StopMark, Registry, Lifecycle
<1>3. ASSUME NEW s \in Session, StopStats(s) PROVE Media'
  BY <1>3, SMTT(30) DEF StopStats
<1>4. ASSUME NEW s \in Session, StopDrop(s) PROVE Media'
  <2>1. CameraOf[s] \in Camera /\ s \in sessions /\ s \in ended
    BY <1>4, ZenonT(30) DEF StopDrop, Lifecycle
  <2>2. \A c \in Camera : streams'[c] # None => c # CameraOf[s] /\ byIngest[c] # s
    BY <1>4, <2>1 DEF StopDrop, Drop, Registry
  <2>3. \A t \in sessions : CameraOf[t] = CameraOf[s] => t = s
    BY <2>1 DEF Registry
  <2> QED
    BY <1>4, <2>1, <2>2, <2>3, SMTT(30) DEF StopDrop, Drop
<1>5. ASSUME NEW s \in Session, StopNotify(s) PROVE Media'
  BY <1>5 DEF StopNotify
<1>6. ASSUME NEW s \in Session, StopForget(s) PROVE Media'
  BY <1>6 DEF StopForget
<1>7. ASSUME NEW s \in Session, TeardownStop(s) PROVE Media'
  BY <1>7, SMTT(30) DEF TeardownStop
<1>8. ASSUME NEW s \in Session, OnStop(s) PROVE Media'
  BY <1>8, SMTT(30) DEF OnStop
<1>9. ASSUME NEW s \in Session, NEW k \in Kind, TrackStarts(s, k) PROVE Media'
  <2>1. UNCHANGED <<streams, tracks, buffers, byIngest, stopOnce, sessions, ended>>
    BY <1>9, Zenon DEF TrackStarts
  <2>2. \A t \in Session, j \in Kind : drain'[t][j] = "running" <=> drain[t][j] = "running"
    BY <1>9, TrackKeepsRunning
  <2> QED
    BY <2>1, <2>2, SMTT(30)
<1>10. ASSUME NEW s \in Session, NEW k \in Kind, DrainBegin(s, k) PROVE Media'
  BY <1>10, SMTT(30) DEF DrainBegin, PublishAndTrack, Track, Registry, Lifecycle
<1>11. ASSUME NEW s \in Session, NEW k \in Kind, DrainRefused(s, k) PROVE Media'
  BY <1>11, SMTT(30) DEF DrainRefused
<1>12. ASSUME NEW s \in Session, NEW k \in Kind, DrainEnd(s, k) PROVE Media'
  BY <1>12, SMTT(30) DEF DrainEnd, Untrack, Registry, Lifecycle
<1>13. ASSUME NEW s \in Session,
            Resolve(s) \/ Reserve(s) \/ ReserveRefused(s) \/ ClearRead(s) \/ ClearNothing(s) \/ ClearKeep(s) \/ ClearReplace(s) \/ ClearGone(s) \/ Replaced(s) \/ BuildFails(s) \/ RegisterClosed(s) \/ AnswerFails(s) \/ Answers(s) \/ Aborted(s) \/ Confirm(s) \/ ConfirmStopped(s) \/ Release(s) \/ Teardown(s) \/ TeardownClose(s) \/ PeerConnects(s) \/ PeerDisconnects(s) \/ PeerFails(s) \/ OnConnected(s)
     PROVE UNCHANGED <<streams, byIngest, stopOnce, tracks, buffers, drain, sessions, ended>>
  BY <1>13, ZenonT(30) DEF Resolve, Reserve, ReserveRefused, ClearRead, ClearNothing, ClearKeep, ClearReplace, ClearGone, Replaced, BuildFails, RegisterClosed, AnswerFails, Answers, Aborted, Confirm, ConfirmStopped, Release, Teardown, TeardownClose, PeerConnects, PeerDisconnects, PeerFails, OnConnected
<1>14. ASSUME Close \/ UNCHANGED vars PROVE UNCHANGED <<streams, byIngest, stopOnce, tracks, buffers, drain, sessions, ended>>
  BY <1>14, SMTT(30) DEF Close, vars
<1>15. ASSUME UNCHANGED <<streams, byIngest, stopOnce, tracks, buffers, drain, sessions, ended>> PROVE Media'
  BY <1>15, SMTT(30) DEF Media
<1> HIDE DEF Media
<1> QED
  BY <1>1, <1>2, <1>3, <1>4, <1>5, <1>6, <1>7, <1>8, <1>9, <1>10, <1>11, <1>12, <1>13, <1>14, <1>15
  DEF Next, SessionStep, HandlerStep, StopStepOf, TeardownStep, DrainStep

(* The live flag is its owner's, from Connected to Stopped. *)
LEMMA StatusStep == IInv /\ [Next]_vars => Status'
<1> SUFFICES ASSUME TypeOK, Lifecycle, Registry, Clearing, Status, [Next]_vars PROVE Status'
  BY SMTT(30) DEF IInv
<1> USE CameraOfType, NoneIsNoSession DEF Status, TypeOK, RelayTypeOK, relayVars, serverVars, handlerVars, stopVars, peerVars,
        Goto, StopGoto, Once, ClosePeer, currentLocked
<1>1. ASSUME NEW s \in Session, Register(s) PROVE Status'
  BY <1>1, SMTT(30) DEF Register, Clearing
<1>2. ASSUME NEW s \in Session, StopMark(s) PROVE Status'
  BY <1>2 DEF StopMark, Registry, Lifecycle
<1>3. ASSUME NEW s \in Session, StopStats(s) PROVE Status'
  BY <1>3 DEF StopStats, Registry, Lifecycle
<1>4. ASSUME NEW s \in Session, StopDrop(s) PROVE Status'
  BY <1>4 DEF StopDrop, Drop
<1>5. ASSUME NEW s \in Session, StopNotify(s) PROVE Status'
  BY <1>5 DEF StopNotify
<1>6. ASSUME NEW s \in Session, StopForget(s) PROVE Status'
  BY <1>6 DEF StopForget
<1>7. ASSUME NEW s \in Session, TeardownStop(s) PROVE Status'
  BY <1>7 DEF TeardownStop
<1>8. ASSUME NEW s \in Session, OnConnected(s) PROVE Status'
  BY <1>8 DEF OnConnected, Registry, Lifecycle
<1>9. ASSUME NEW s \in Session, OnStop(s) PROVE Status'
  BY <1>9, SMTT(30) DEF OnStop
<1>10. ASSUME NEW s \in Session,
            Resolve(s) \/ Reserve(s) \/ ReserveRefused(s) \/ ClearRead(s) \/ ClearNothing(s) \/ ClearKeep(s) \/ ClearReplace(s) \/ ClearGone(s) \/ Replaced(s) \/ BuildFails(s) \/ RegisterClosed(s) \/ AnswerFails(s) \/ Answers(s) \/ Aborted(s) \/ Confirm(s) \/ ConfirmStopped(s) \/ Release(s) \/ Teardown(s) \/ TeardownClose(s) \/ PeerConnects(s) \/ PeerDisconnects(s) \/ PeerFails(s)
     PROVE UNCHANGED <<live, byIngest, stopOnce>>
  BY <1>10, ZenonT(30) DEF Resolve, Reserve, ReserveRefused, ClearRead, ClearNothing, ClearKeep, ClearReplace, ClearGone, Replaced, BuildFails, RegisterClosed, AnswerFails, Answers, Aborted, Confirm, ConfirmStopped, Release, Teardown, TeardownClose, PeerConnects, PeerDisconnects, PeerFails
<1>11. ASSUME NEW s \in Session, NEW k \in Kind,
            TrackStarts(s, k) \/ DrainBegin(s, k) \/ DrainRefused(s, k) \/ DrainEnd(s, k)
     PROVE UNCHANGED <<live, byIngest, stopOnce>>
  BY <1>11 DEF TrackStarts, DrainBegin, DrainRefused, DrainEnd, PublishAndTrack, Track, Untrack
<1>12. ASSUME Close \/ UNCHANGED vars PROVE UNCHANGED <<live, byIngest, stopOnce>>
  BY <1>12 DEF Close, vars
<1>13. ASSUME UNCHANGED <<live, byIngest, stopOnce>> PROVE Status'
  BY <1>13 DEF Status
<1> HIDE DEF Status
<1> QED
  BY <1>1, <1>2, <1>3, <1>4, <1>5, <1>6, <1>7, <1>8, <1>9, <1>10, <1>11, <1>12, <1>13
  DEF Next, SessionStep, HandlerStep, StopStepOf, TeardownStep, DrainStep

-----------------------------------------------------------------------------
(* The inductive invariant holds in every reachable state. *)
LEMMA Invariance == Spec => []IInv
<1>1. IInv /\ [Next]_vars => IInv'
  BY TypeStep, SlotsStep, LifecycleStep, RegistryStep, ClearingStep, MediaStep,
     StatusStep DEF IInv
<1> QED
  BY InitIInv, <1>1, PTL DEF Spec

(* Every variable of the server, its callbacks and the relay keeps its type. *)
THEOREM TypeCorrect == Spec => []TypeOK
<1>1. IInv => TypeOK
  BY DEF IInv
<1> QED
  BY <1>1, Invariance, PTL

(* However many requests compete for a camera, Server.sessions holds at most *)
(* one publisher of it, the one byIngest names.                            *)
THEOREM SingleOwner == Spec => []OneSessionPerCamera
<1>1. IInv => OneSessionPerCamera
  <2> SUFFICES ASSUME TypeOK, Registry, NEW c \in Camera, NEW s \in Session
               PROVE  s \in sessions /\ CameraOf[s] = c <=> byIngest[c] = s
    BY ZenonT(30) DEF IInv, TypeOK, OneSessionPerCamera
  <2> QED
    BY NoneIsNoSession DEF TypeOK, Registry
<1> QED
  BY <1>1, Invariance, PTL

(* The steps of stopSession's cleanup run while the stopping session still  *)
(* holds its camera.                                                       *)
THEOREM CleanupBeforeHandover == Spec => []CleanupHoldsCamera
<1>1. IInv => CleanupHoldsCamera
  BY SMTT(30) DEF IInv, TypeOK, Lifecycle, Registry, CleanupHoldsCamera
<1> QED
  BY <1>1, Invariance, PTL

(* Subscribe hands out only tracks of the session that holds the camera,   *)
(* whatever OnTrack goroutines run late.                                   *)
THEOREM OnlyOwnersMedia == Spec => []MediaOfOwner
<1>1. IInv => MediaOfOwner
  BY NoneIsNoSession, SMTT(30) DEF IInv, TypeOK, RelayTypeOK, Media, MediaOfOwner, TracksOf
<1> QED
  BY <1>1, Invariance, PTL

(* A delay change reaches every running buffer of the camera's publisher   *)
(* and no other.                                                           *)
THEOREM OnlyOwnersBuffers == Spec => []BuffersOfOwner
<1>1. IInv => BuffersOfOwner
  BY ZenonT(30) DEF IInv, Media, BuffersOfOwner
<1> QED
  BY <1>1, Invariance, PTL

(* No late Connected callback leaves a camera shown live without a publisher. *)
THEOREM LiveIsOwned == Spec => []LiveOfOwner
<1>1. IInv => LiveOfOwner
  BY Zenon DEF IInv, Status, LiveOfOwner
<1> QED
  BY <1>1, Invariance, PTL

-----------------------------------------------------------------------------
(***************************************************************************)
(* The refinement.  Eight actions are steps of CameraOwnership; all others *)
(* leave what it sees unchanged.                                           *)
(***************************************************************************)
Ending == {c \in Camera : byIngest[c] \in ended}
Offered == [c \in Camera |-> TracksOf(c)]
Told == {c \in Camera : \E s \in Session : byIngest[c] = s /\ stopOnce[s] = "forget"}
Retired == {s \in Session : stopOnce[s] = "done"}
seen == <<byIngest, Ending, Offered, Told, live, Retired>>

(* Registering, stopping and forgetting acquire, begin to end and hand back. *)
LEMMA OwnerSteps ==
  ASSUME IInv, NEW s \in Session
  PROVE  /\ Register(s) => Ownership!Acquire(s)
         /\ StopMark(s) => Ownership!BeginEnding(CameraOf[s])
         /\ StopNotify(s) => Ownership!Tell(CameraOf[s])
         /\ StopForget(s) => Ownership!HandBack(CameraOf[s])
<1> USE CameraOfType, NoneIsNoSession DEF IInv, TypeOK, RelayTypeOK, relayVars, stopVars
<1>1. ASSUME Register(s) PROVE Ownership!Acquire(s)
  <2>1. ~Ownership!Owned(CameraOf[s]) /\ s \notin Retired
    BY <1>1, SMTT(30) DEF Register, Ownership!Owned, Clearing, Lifecycle, Retired
  <2>2. Ending' = Ending
    BY <1>1, SMTT(30) DEF Register, Ending, Lifecycle, Clearing
  <2>3. UNCHANGED <<Offered, Told, live, Retired>>
    BY <1>1, SMTT(30) DEF Register, Offered, TracksOf, Told, Retired, Clearing, Lifecycle
  <2> QED
    BY <1>1, <2>1, <2>2, <2>3, SMTT(30) DEF Register, Ownership!Acquire, Ending, Offered, Told, Retired
<1>2. ASSUME StopMark(s) PROVE Ownership!BeginEnding(CameraOf[s])
  <2>1. byIngest[CameraOf[s]] = s /\ s \notin ended
    BY <1>2, SMTT(30) DEF StopMark, Lifecycle, Registry
  <2>2. Ending' = Ending \cup {CameraOf[s]}
    BY <1>2, <2>1, SMTT(30) DEF StopMark, Ending, Registry
  <2>3. UNCHANGED <<byIngest, Offered, Told, live, Retired>>
    BY <1>2, <2>1 DEF StopMark, currentLocked, Offered, TracksOf, Told, Retired, StopGoto, Lifecycle
  <2>4. Ownership!Owned(CameraOf[s]) /\ CameraOf[s] \notin Ending
    BY <2>1, SMTT(30) DEF Ownership!Owned, Ending
  <2> HIDE DEF IInv, TypeOK, RelayTypeOK
  <2> QED
    BY <2>2, <2>3, <2>4, SMTT(30) DEF Ownership!BeginEnding, Ending, Offered, Told, Retired
<1>3. ASSUME StopForget(s) PROVE Ownership!HandBack(CameraOf[s])
  <2>1. s \in sessions /\ byIngest[CameraOf[s]] = s /\ s \in ended
    BY <1>3, SMTT(30) DEF StopForget, Lifecycle, Registry
  <2>2. CameraOf[s] \in Told /\ CameraOf[s] \notin live
    BY <1>3, <2>1, ZenonT(30) DEF StopForget, Told, Status
  <2>3. Ending' = Ending \ {CameraOf[s]}
    BY <1>3, <2>1 DEF StopForget, Ending, Lifecycle
  <2>4. Retired' = Retired \cup {byIngest[CameraOf[s]]}
    BY <1>3, <2>1 DEF StopForget, Retired, StopGoto
  <2>5. Told' = Told \ {CameraOf[s]}
    <3>1. \A c \in Camera : byIngest[c] = s => c = CameraOf[s]
      BY SMTT(30) DEF Registry
    <3> QED
      BY <1>3, <2>1, <3>1 DEF StopForget, Told, StopGoto
  <2>6. UNCHANGED <<Offered, live>>
    BY <1>3, SMTT(30) DEF StopForget, Offered, TracksOf
  <2> QED
    BY <1>3, <2>1, <2>2, <2>3, <2>4, <2>5, <2>6, ZenonT(30)
    DEF StopForget, Ownership!HandBack, Ending, Offered, Told, Retired
<1>4. ASSUME StopNotify(s) PROVE Ownership!Tell(CameraOf[s])
  <2>1. byIngest[CameraOf[s]] = s /\ s \in ended /\ s \in sessions
    BY <1>4, ZenonT(30) DEF StopNotify, Lifecycle, Registry
  <2>2. Offered[CameraOf[s]] = {}
    BY <1>4, <2>1, Zenon DEF StopNotify, Media, Offered, TracksOf
  <2>3. Told' = Told \cup {CameraOf[s]}
    BY <1>4, <2>1 DEF StopNotify, Told, StopGoto, serverVars, Registry
  <2>4. UNCHANGED <<byIngest, Ending, Offered, live, Retired>>
    BY <1>4 DEF StopNotify, Ending, Offered, TracksOf, Retired, StopGoto, serverVars
  <2>5. CameraOf[s] \in Ending
    BY <2>1, SMTT(30) DEF Ending
  <2> QED
    BY <2>2, <2>3, <2>4, <2>5, ZenonT(30) DEF Ownership!Tell, Ending, Offered, Told, Retired
<1> QED
  BY <1>1, <1>2, <1>3, <1>4, SMTT(30)

(* The status and the relay change as their owner may change them. *)
LEMMA MediaSteps ==
  ASSUME IInv, NEW s \in Session
  PROVE  /\ StopStats(s) => Ownership!GoDark(CameraOf[s])
         /\ StopDrop(s) => Ownership!DropMedia(CameraOf[s])
         /\ OnConnected(s) => Ownership!GoLive(CameraOf[s]) \/ UNCHANGED seen
         /\ \A k \in Kind : DrainBegin(s, k) => Ownership!AddTrack(CameraOf[s], k)
<1> USE CameraOfType, NoneIsNoSession
    DEF IInv, TypeOK, RelayTypeOK, relayVars, serverVars, stopVars, StopGoto
<1>1. ASSUME StopStats(s) PROVE Ownership!GoDark(CameraOf[s])
  <2>1. CameraOf[s] \in Ending
    <3>1. s \in sessions /\ s \in ended
      BY <1>1, ZenonT(30) DEF StopStats, Lifecycle
    <3> QED
      BY <3>1, SMTT(30) DEF Ending, Registry
  <2>2. UNCHANGED <<byIngest, Ending, Offered, Told, Retired>>
    BY <1>1, SMTT(30) DEF StopStats, Ending, Offered, TracksOf, Told, Retired
  <2> QED
    BY <1>1, <2>1, <2>2 DEF StopStats, Ownership!GoDark, Ending, Offered, Told, Retired
<1>2. ASSUME StopDrop(s) PROVE Ownership!DropMedia(CameraOf[s])
  <2>1. CameraOf[s] \in Ending
    <3>1. s \in sessions /\ s \in ended
      BY <1>2, ZenonT(30) DEF StopDrop, Lifecycle
    <3> QED
      BY <3>1, SMTT(30) DEF Ending, Registry
  <2>2. UNCHANGED <<byIngest, Ending, Told, live, Retired>>
    BY <1>2, SMTT(30) DEF StopDrop, Ending, Told, Retired
  <2>3. Offered' = [Offered EXCEPT ![CameraOf[s]] = {}]
    BY <1>2, Zenon DEF StopDrop, Drop, Offered, TracksOf
  <2>4. CameraOf[s] \notin Told
    <3>1. s \in sessions
      BY <1>2, ZenonT(30) DEF StopDrop, Lifecycle
    <3> QED
      BY <1>2, <3>1 DEF StopDrop, Told, Registry
  <2> QED
    BY <2>1, <2>2, <2>3, <2>4, Zenon DEF Ownership!DropMedia, Ending, Offered, Told, Retired
<1>3. ASSUME OnConnected(s) PROVE Ownership!GoLive(CameraOf[s]) \/ UNCHANGED seen
  <2>1. UNCHANGED <<byIngest, Ending, Offered, Told, Retired>>
    BY <1>3, SMTT(30) DEF OnConnected, Ending, Offered, TracksOf, Told, Retired
  <2>2. CASE ~currentLocked(s)
    BY <1>3, <2>1, <2>2, ZenonT(30) DEF OnConnected, seen
  <2>3. CASE currentLocked(s)
    <3>1. CameraOf[s] \notin Ending /\ Ownership!Owned(CameraOf[s])
      BY <2>3, SMTT(30) DEF currentLocked, Ending, Ownership!Owned
    <3> QED
      BY <1>3, <2>1, <2>3, <3>1, SMTT(30) DEF OnConnected, Ownership!GoLive, Ending, Offered, Told, Retired
  <2> QED
    BY <2>2, <2>3, SMTT(30)
<1>4. ASSUME NEW k \in Kind, DrainBegin(s, k) PROVE Ownership!AddTrack(CameraOf[s], k)
  <2>1. CameraOf[s] \notin Ending /\ Ownership!Owned(CameraOf[s]) /\ byIngest[CameraOf[s]] = s
    BY <1>4, ZenonT(30) DEF DrainBegin, currentLocked, Ending, Ownership!Owned
  <2>2. UNCHANGED <<byIngest, Ending, Told, live, Retired>>
    BY <1>4, SMTT(30) DEF DrainBegin, Ending, Told, Retired
  <2>3. Offered' = [Offered EXCEPT ![CameraOf[s]] = @ \cup {<<s, k>>}]
    <3> DEFINE c == CameraOf[s]
               held == IF streams[c] = None THEN [j \in Kind |-> None] ELSE tracks[s]
    <3>1. c \in Camera /\ streams[c] \in {None, s} /\ held \in [Kind -> Session \cup {None}]
      BY <2>1 DEF Media
    <3>2. streams' = [streams EXCEPT ![c] = s] /\ tracks' = [tracks EXCEPT ![s] = [held EXCEPT ![k] = s]]
      BY <1>4, <3>1, ZenonT(30) DEF DrainBegin, PublishAndTrack, Track
    <3>3. \A d \in Camera : d # c => TracksOf(d)' = TracksOf(d)
      <4> SUFFICES ASSUME NEW d \in Camera, d # c PROVE TracksOf(d)' = TracksOf(d)
        BY ZenonT(30)
      <4>1. streams'[d] = streams[d] /\ streams[d] # s
        BY <3>1, <3>2, SMTT(30) DEF Media, Registry
      <4>2. streams[d] # None => tracks'[streams[d]] = tracks[streams[d]]
        BY <3>1, <3>2, <4>1, ZenonT(30)
      <4>3. CASE streams[d] = None
        BY <4>1, <4>3, ZenonT(30) DEF TracksOf
      <4>4. CASE streams[d] # None
        BY <4>1, <4>2, <4>4, SMTT(30) DEF TracksOf
      <4> QED
        BY <4>3, <4>4
    <3>4. TracksOf(c) = {b \in Session \X Kind : held[b[2]] = b[1]}
      BY <3>1, ZenonT(30) DEF TracksOf
    <3>5. \A j \in Kind : held[j] \in {None, s}
      BY <2>1, <3>1, ZenonT(30) DEF Media
    <3> HIDE DEF held, c
    <3>6. TracksOf(c)' = TracksOf(c) \cup {<<s, k>>}
      <4>1. TracksOf(c)' = {b \in Session \X Kind : [held EXCEPT ![k] = s][b[2]] = b[1]}
        BY <3>1, <3>2, ZenonT(30) DEF TracksOf
      <4> QED
        BY <3>1, <3>4, <3>5, <4>1, SMTT(30)
    <3> QED
      BY <3>1, <3>3, <3>6, Zenon DEF Offered, c
  <2> QED
    BY <2>1, <2>2, <2>3, ZenonT(30) DEF Ownership!AddTrack, Ending, Offered, Told, Retired
<1> QED
  BY <1>1, <1>2, <1>3, <1>4, SMTT(30)

(* Every step of the server is a step of CameraOwnership or leaves it as it is. *)
LEMMA OwnershipStep == IInv /\ [Next]_vars => [Ownership!Next]_seen
<1> SUFFICES ASSUME IInv, [Next]_vars PROVE Ownership!Next \/ UNCHANGED seen
  BY SMTT(30)
<1> USE CameraOfType
<1>1. ASSUME NEW s \in Session,
             \/ Register(s) \/ StopMark(s) \/ StopNotify(s) \/ StopForget(s)
             \/ StopStats(s) \/ StopDrop(s) \/ OnConnected(s) \/ \E k \in Kind : DrainBegin(s, k)
      PROVE  Ownership!Next \/ UNCHANGED seen
  BY <1>1, OwnerSteps, MediaSteps, SMTT(30) DEF Ownership!Next
<1>2. ASSUME NEW s \in Session,
             \/ Resolve(s) \/ Reserve(s) \/ ReserveRefused(s) \/ ClearRead(s) \/ ClearNothing(s)
             \/ ClearKeep(s) \/ ClearReplace(s) \/ ClearGone(s) \/ Replaced(s) \/ BuildFails(s)
             \/ RegisterClosed(s) \/ AnswerFails(s) \/ Answers(s) \/ Aborted(s) \/ Confirm(s)
             \/ ConfirmStopped(s) \/ Release(s) \/ Teardown(s) \/ TeardownClose(s)
             \/ PeerConnects(s) \/ PeerDisconnects(s) \/ PeerFails(s)
      PROVE  UNCHANGED <<byIngest, ended, streams, tracks, live, Told, Retired>>
  BY <1>2, ZenonT(30) DEF Resolve, Reserve, ReserveRefused, ClearRead, ClearNothing, ClearKeep,
     ClearReplace, ClearGone, Replaced, BuildFails, RegisterClosed, AnswerFails, Answers,
     Aborted, Confirm, ConfirmStopped, Release, Teardown, TeardownClose, PeerConnects,
     PeerDisconnects, PeerFails, relayVars, serverVars, stopVars, Told, Retired
<1>3. ASSUME NEW s \in Session, TeardownStop(s) \/ OnStop(s)
      PROVE  UNCHANGED <<byIngest, ended, streams, tracks, live, Told, Retired>>
  BY <1>3, SMTT(30) DEF IInv, TypeOK, TeardownStop, OnStop, Once, StopGoto, relayVars,
     serverVars, Told, Retired
<1>4. ASSUME NEW s \in Session, NEW k \in Kind,
             TrackStarts(s, k) \/ DrainRefused(s, k) \/ DrainEnd(s, k)
      PROVE  UNCHANGED <<byIngest, ended, streams, tracks, live, Told, Retired>>
  BY <1>4, SMTT(30) DEF TrackStarts, DrainRefused, DrainEnd, Untrack, relayVars, serverVars, stopVars, Told, Retired
<1>5. ASSUME Close \/ UNCHANGED vars
      PROVE  UNCHANGED <<byIngest, ended, streams, tracks, live, Told, Retired>>
  BY <1>5, ZenonT(30) DEF Close, vars, relayVars, serverVars, stopVars, Told, Retired
<1>6. ASSUME UNCHANGED <<byIngest, ended, streams, tracks, live, Told, Retired>>
      PROVE  UNCHANGED seen
  BY <1>6 DEF seen, Ending, Offered, TracksOf
<1> HIDE DEF seen
<1> QED
  BY <1>1, <1>2, <1>3, <1>4, <1>5, <1>6
  DEF Next, SessionStep, HandlerStep, StopStepOf, TeardownStep, DrainStep

(* The ingest server implements CameraOwnership: for any number of cameras *)
(* and requests, a camera changes hands only after its old publisher's     *)
(* status and media are gone, and only its owner adds media or goes live.  *)
THEOREM Implements == Spec => ImplementsOwnership
<1>1. Init => Ownership!Init
  BY ZenonT(30) DEF Init, RelayInit, Ownership!Init, TracksOf
<1>2. IInv /\ [Next]_vars => [Ownership!Next]_(Ownership!vars)
  BY OwnershipStep DEF seen, Ending, Offered, Told, Retired, Ownership!vars
<1> QED
  BY <1>1, <1>2, Invariance, PTL DEF Spec, ImplementsOwnership, Ownership!Spec
=============================================================================
