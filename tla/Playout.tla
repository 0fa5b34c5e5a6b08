------------------------------ MODULE Playout ------------------------------
(***************************************************************************)
(* One stream's playout buffers and their clocks (internal/relay/delay.go, *)
(* clock.go, relay.go) under the delay controller. Each buffer has a lock  *)
(* of its own, the stream's list of buffers another; a keyframe jump is    *)
(* decided in one track's Push and reaches the other track whenever that   *)
(* one next looks at the curve.                                            *)
(*                                                                         *)
(* A sender timestamp is the tick at which the media was captured, so a    *)
(* buffer's mapping baseRTP -> baseWall is the one number wall, its base   *)
(* minus that tick. Sequence numbers, timestamp resets and the pacing of a *)
(* frame's packets are left out.                                           *)
(***************************************************************************)
EXTENDS DynamicDelay, FiniteSets

CONSTANTS
    Kind, Video,      \* tracks, and the one whose keyframes count
    Starts, Settings, \* delays and options at the start, and set later
    Hysteresis,       \* 2s and
    MinMargin,        \* 250ms: limits of correctionMargin
    Tolerance,        \* 50ms: what sender clocks may differ by
    RecoveryWindow,   \* 30s
    MaxTime,          \* bound on now
    Lags,             \* per kind, times a packet may be on its way
    MaxQueue,         \* bound on packets queued per track
    MaxChanges,       \* bound on ConfigureDelay calls
    MaxTracks         \* bound on Track calls

ASSUME PlayoutConstants ==
    /\ Video \in Kind /\ IsFiniteSet(Kind)
    /\ Starts \subseteq Nat \X Options /\ Settings \subseteq Nat \X Options
    /\ {Hysteresis, MinMargin, Tolerance, RecoveryWindow, MaxTime, MaxQueue,
        MaxChanges, MaxTracks} \subseteq Nat
    /\ Lags \in [Kind -> SUBSET Nat]
    /\ RecoveryWindow < 1000

VARIABLES
    buf,            \* per kind, the Buffer
    place,          \* Stream.buffers: each kind's place in the order of Track, 0 if it has none
    job,            \* the goroutine inside adjustDelay or ConfigureDelay: it holds Stream.mu
    lastAdjust,
    recovery,       \* recoveryAt and recoveryShift
    senderBase,     \* senderBaseWall, as a wall: whether it is known, and where
    aligned,        \* history: tracks on the sender's clock since they joined the curve
    changes, joins  \* ConfigureDelay and Track calls so far

streamVars == <<lastAdjust, recovery, senderBase, aligned>>
calls == <<changes, joins>>
playoutVars == <<now, controllerVars, buf, place, job, streamVars, calls>>

Tracked == {k \in Kind : place[k] # 0}

(* The loops over Stream.buffers go by the order of Track. *)
FirstOf(todo, k) == k \in todo /\ \A j \in todo : place[k] <= place[j]

NewBuffer(delay) ==
    [target |-> delay, based |-> FALSE, wall |-> 0, queue |-> {},
     dynamic |-> FALSE, shift |-> 0, cutoff |-> Never, late |-> 0,
     catchUp |-> FALSE, reported |-> FALSE, recoveryAt |-> Never]

Idle == [op |-> "idle", at |-> 0, late |-> 0, todo |-> {}, changed |-> FALSE]
Free == job = Idle

correctionMargin(delay) == Smaller(Hysteresis, Larger(delay, MinMargin))

(* playoutOf *)
PlayAt(b, ts) == b.wall + ts + b.target

(* The bookkeeping of dynamicOffsetLocked for a curve c: a jump is applied once ... *)
Consumed(b, c) ==
    IF b.dynamic /\ active /\ c.cutoff # b.cutoff
    THEN [b EXCEPT !.wall = @ + (c.shift - b.shift), !.shift = c.shift, !.cutoff = c.cutoff,
                   !.queue = {}, !.catchUp = FALSE, !.late = 0]
    ELSE b

(* ... and its result. *)
Offset(b, c, at) == IF b.dynamic /\ active THEN Delay(c, at) - b.target ELSE 0

-----------------------------------------------------------------------------
(* Push, for a packet captured at ts; key says whether isKeyframe accepts it. *)
Anchored(b, ts) ==
    IF b.based THEN b
    ELSE [Consumed(b, curve) EXCEPT !.wall = now - ts, !.based = TRUE]

(* The rest of Push, once the packet is known not to be stale. *)
Queued(b, c, ts, key) ==
    LET slot == PlayAt(b, ts)
        measured == [b EXCEPT !.late = Larger(@, now - (slot + Offset(b, c, now)))]
    IN IF b.catchUp /\ ~ key THEN measured
       ELSE [measured EXCEPT !.catchUp = FALSE,
                 !.queue = (IF b.catchUp THEN {} ELSE @) \cup {[ts |-> ts, playAt |-> slot]}]

Arriving(k, ts) == Consumed(Anchored(buf[k], ts), curve)

Stale(b, ts) == b.wall + ts < b.cutoff

(* A pending jump is taken at a video keyframe. *)
Jumps(b, k, key) == b.dynamic /\ k = Video /\ key /\ JumpDue

PushStale(k, ts) ==
    /\ k \in Tracked
    /\ Stale(Arriving(k, ts), ts)
    /\ buf' = [buf EXCEPT ![k] = Arriving(k, ts)]
    /\ UNCHANGED <<now, controllerVars, place, job, streamVars, calls>>

PushPlain(k, ts, key) ==
    /\ k \in Tracked /\ Cardinality(buf[k].queue) < MaxQueue
    /\ ~ Stale(Arriving(k, ts), ts) /\ ~ Jumps(Arriving(k, ts), k, key)
    /\ buf' = [buf EXCEPT ![k] = Queued(Arriving(k, ts), curve, ts, key)]
    /\ UNCHANGED <<now, controllerVars, place, job, streamVars, calls>>

PushJump(k, ts) ==
    /\ k \in Tracked
    /\ ~ Stale(Arriving(k, ts), ts) /\ Jumps(Arriving(k, ts), k, TRUE)
    /\ Jump(Arriving(k, ts).wall + ts)
    /\ buf' = [buf EXCEPT ![k] = Queued(Consumed(Arriving(k, ts), curve'), curve', ts, TRUE)]
    /\ UNCHANGED <<now, place, job, streamVars, calls>>

(* Pop looks at the curve, then at the head of the queue: it takes the packet
   if it is due and pacing does not hold it back, and waits otherwise. *)
PopTakes(k) ==
    LET b == Consumed(buf[k], curve) IN
    \E head \in b.queue :
        /\ \A p \in b.queue : head.playAt <= p.playAt
        /\ head.playAt + Offset(b, curve, now) <= now
        /\ buf' = [buf EXCEPT ![k] = [b EXCEPT !.queue = @ \ {head}]]
        /\ UNCHANGED <<now, controllerVars, place, job, streamVars, calls>>

PopWaits(k) ==
    /\ buf[k].queue # {}
    /\ Consumed(buf[k], curve) # buf[k]
    /\ buf' = [buf EXCEPT ![k] = Consumed(@, curve)]
    /\ UNCHANGED <<now, controllerVars, place, job, streamVars, calls>>

(* A report that comes before the first packet is looked at only after it. *)
SenderReport(k) ==
    /\ buf[k].based /\ ~ buf[k].reported
    /\ buf' = [buf EXCEPT ![k].reported = TRUE]
    /\ UNCHANGED <<now, controllerVars, place, job, streamVars, calls>>

-----------------------------------------------------------------------------
(* drain: a new track's buffer, after its ConfigureDelay. *)
Track(k) ==
    /\ Free /\ k \notin Tracked /\ joins < MaxTracks
    /\ joins' = joins + 1
    /\ place' = [place EXCEPT ![k] = joins + 1]
    /\ buf' = [buf EXCEPT ![k] =
           [NewBuffer(base) EXCEPT !.recoveryAt = recovery.at, !.dynamic = active,
                !.shift = IF active THEN curve.shift ELSE 0,
                !.cutoff = IF active THEN curve.cutoff ELSE Never]]
    /\ UNCHANGED <<now, controllerVars, job, streamVars, changes>>

Untrack(k) ==
    /\ Free /\ k \in Tracked
    /\ place' = [place EXCEPT ![k] = 0]
    /\ buf' = [buf EXCEPT ![k] = NewBuffer(0)]
    /\ aligned' = aligned \ {k}
    /\ UNCHANGED <<now, controllerVars, job, lastAdjust, recovery, senderBase, calls>>

-----------------------------------------------------------------------------
Retarget(changed) ==
    IF Tracked = {} THEN Idle
    ELSE [Idle EXCEPT !.op = "retarget", !.todo = Tracked, !.changed = changed]

(* ConfigureDelay: the controller, then the buffers one by one. *)
ConfigureDelay(delay, o) ==
    /\ Free /\ changes < MaxChanges
    /\ changes' = changes + 1 /\ joins' = joins
    /\ \/ ConfigureSpeed(delay, o) /\ job' = Retarget(FALSE)
       \/ ConfigurePolicy(delay, o) /\ job' = Retarget(active')
    /\ UNCHANGED <<now, buf, place, streamVars>>

(* A mutant of Retargeted: queued packets keep their slots. *)
RetargetedAhead(b) ==
    [b EXCEPT !.target = base, !.late = IF job.changed THEN 0 ELSE @,
        !.dynamic = b.dynamic \/ active,
        !.shift = IF active /\ ~ b.dynamic THEN curve.shift ELSE @,
        !.cutoff = IF active /\ ~ b.dynamic THEN curve.cutoff ELSE @]

(* SetTarget moves queued packets along, and the buffer joins the curve where it is. *)
Retargeted(b) ==
    [b EXCEPT !.target = base, !.late = IF job.changed THEN 0 ELSE @,
        !.queue = {[p EXCEPT !.playAt = @ + (base - b.target)] : p \in b.queue},
        !.dynamic = b.dynamic \/ active,
        !.shift = IF active /\ ~ b.dynamic THEN curve.shift ELSE @,
        !.cutoff = IF active /\ ~ b.dynamic THEN curve.cutoff ELSE @]

Release(rest) == IF rest = {} THEN Idle ELSE [job EXCEPT !.todo = rest]

RetargetBuffer(k) ==
    /\ job.op = "retarget" /\ FirstOf(job.todo, k)
    /\ buf' = [buf EXCEPT ![k] = Retargeted(@)]
    /\ job' = Release(job.todo \ {k})
    /\ aligned' = IF active /\ ~ buf[k].dynamic THEN aligned \ {k} ELSE aligned
    /\ UNCHANGED <<now, controllerVars, place, lastAdjust, recovery, senderBase, calls>>

-----------------------------------------------------------------------------
(* adjustDelay: samples the lateness of one buffer after the other, then steps. *)
AdjustBegin ==
    /\ Free /\ active /\ now - lastAdjust >= Second
    /\ lastAdjust' = now
    /\ job' = [Idle EXCEPT !.op = "adjust", !.at = now, !.todo = Tracked]
    /\ UNCHANGED <<now, controllerVars, buf, place, recovery, senderBase, aligned, calls>>

(* A mutant of AdjustSample: lateness is sampled without applying a jump. *)
AdjustSampleOnly(k) ==
    /\ job.op = "adjust" /\ FirstOf(job.todo, k)
    /\ buf' = [buf EXCEPT ![k].late = 0]
    /\ job' = [job EXCEPT !.todo = @ \ {k}, !.late = Larger(@, buf[k].late)]
    /\ UNCHANGED <<now, controllerVars, place, streamVars, calls>>

AdjustSample(k) ==
    /\ job.op = "adjust" /\ FirstOf(job.todo, k)
    /\ buf' = [buf EXCEPT ![k] = [Consumed(@, curve) EXCEPT !.late = 0]]
    /\ job' = [job EXCEPT !.todo = @ \ {k}, !.late = Larger(@, Consumed(buf[k], curve).late)]
    /\ UNCHANGED <<now, controllerVars, place, streamVars, calls>>

AdjustStep ==
    /\ job.op = "adjust" /\ job.todo = {}
    /\ Step(job.at, job.late)
    /\ job' = Idle
    /\ UNCHANGED <<now, buf, place, streamVars, calls>>

-----------------------------------------------------------------------------
(* correctClocks, with the stream and all its buffers locked. *)
Moved(b, by, reset) ==
    [b EXCEPT !.wall = @ + by, !.late = 0, !.catchUp = @ \/ reset,
        !.queue = IF reset THEN {} ELSE {[p EXCEPT !.playAt = @ + by] : p \in b.queue}]

Distance(a, b) == IF a >= b THEN a - b ELSE b - a

(* alignSenderClockLocked *)
OnSenderClock(b, root) ==
    IF Distance(root + b.shift, b.wall) <= Tolerance THEN b
    ELSE Moved(b, root + b.shift - b.wall,
               senderBase.known /\ Distance(root + b.shift, b.wall) > correctionMargin(b.target))

(* depthLocked beyond the target *)
Excess(b) ==
    LET ahead == {p.playAt - now : p \in b.queue} \cup {0}
    IN (CHOOSE d \in ahead : \A e \in ahead : e <= d) - b.target

Excessive(b) == Excess(b) > correctionMargin(b.target)

(* A mutant of Recovered: every track decides for itself. *)
RecoveredAlone(b, clocks, r) ==
    IF b.recoveryAt # r.at /\ Excess(b) > MinMargin
    THEN [Moved(b, - r.shift, TRUE) EXCEPT !.recoveryAt = r.at]
    ELSE b

(* One correction for the stream: the tracks on a sender clock move together,
   others only where they are ahead and have not made it yet. *)
Recovered(b, clocks, r) ==
    IF clocks \/ (b.recoveryAt # r.at /\ Excess(b) > MinMargin)
    THEN [Moved(b, - r.shift, TRUE) EXCEPT !.recoveryAt = r.at]
    ELSE b

(* Whether alignSenderClocksLocked aligns, and to what. *)
SenderClocks(seen) ==
    Cardinality(Tracked) >= 2 /\ \A k \in Tracked : seen[k].based /\ seen[k].reported

SenderRoot(seen) ==
    LET anchor == CHOOSE k \in Tracked : FirstOf(Tracked, k)
    IN IF senderBase.known THEN senderBase.wall ELSE seen[anchor].wall - seen[anchor].shift

(* clockCorrectionLocked: a recent correction is reused for a track that reaches
   the same jump later. *)
Correction(on, over, clocks) ==
    LET worst == CHOOSE k \in over : \A j \in over : Excess(on[j]) <= Excess(on[k])
        fresh == \/ clocks \/ now - recovery.at >= RecoveryWindow
                 \/ \E k \in over : on[k].recoveryAt = recovery.at
    IN IF over # {} /\ fresh THEN [at |-> now, shift |-> Excess(on[worst])] ELSE recovery

correctClocks ==
    LET seen == [k \in Kind |-> Consumed(buf[k], curve)]
        clocks == SenderClocks(seen)
        root == SenderRoot(seen)
        on == [k \in Kind |-> IF clocks /\ k \in Tracked THEN OnSenderClock(seen[k], root)
                            ELSE seen[k]]
        over == {k \in Tracked : Excessive(on[k])}
        next == Correction(on, over, clocks)
    IN /\ Free /\ Tracked # {}
       /\ recovery' = next
       /\ senderBase' = IF clocks THEN [known |-> TRUE,
                                        wall |-> root - (IF over = {} THEN 0 ELSE next.shift)]
                                  ELSE senderBase
       /\ aligned' = IF clocks THEN Tracked ELSE aligned
       /\ buf' = [k \in Kind |-> IF k \in Tracked /\ over # {} THEN Recovered(on[k], clocks, next)
                                 ELSE on[k]]
       /\ UNCHANGED <<now, controllerVars, place, job, lastAdjust, calls>>

-----------------------------------------------------------------------------
Tick ==
    /\ now < MaxTime
    /\ now' = now + 1
    /\ UNCHANGED <<controllerVars, buf, place, job, streamVars, calls>>

PlayoutInit ==
    /\ \E s \in Starts : ControllerInit(s[1], s[2])
    /\ buf = [k \in Kind |-> NewBuffer(0)]
    /\ place = [k \in Kind |-> 0]
    /\ job = Idle
    /\ lastAdjust = Never
    /\ recovery = [at |-> Never, shift |-> 0]
    /\ senderBase = [known |-> FALSE, wall |-> 0]
    /\ aligned = {}
    /\ changes = 0 /\ joins = 0

(* Packets reach a track in any order, each Lags later than captured; an audio packet is
   always accepted where a keyframe is waited for. *)
Arrives(k) ==
    \E ts \in {now - lag : lag \in Lags[k]} \cap Nat, key \in {k # Video, TRUE} :
        PushStale(k, ts) \/ PushPlain(k, ts, key) \/ (key /\ PushJump(k, ts))

PlayoutNext ==
    \/ Tick
    \/ \E k \in Kind :
          \/ Arrives(k) \/ PopTakes(k) \/ PopWaits(k) \/ SenderReport(k)
          \/ Track(k) \/ Untrack(k) \/ RetargetBuffer(k) \/ AdjustSample(k)
    \/ \E s \in Settings : ConfigureDelay(s[1], s[2])
    \/ AdjustBegin \/ AdjustStep \/ correctClocks

PlayoutSpec == PlayoutInit /\ [][PlayoutNext]_playoutVars

-----------------------------------------------------------------------------
(* A keyframe jump reaches every track exactly once: a track that has seen the
   latest cutoff has made all jumps, and a curve is retired only when every
   track has seen it ("Apply jumps before sampling lateness or retiring the
   disabled curve", "A keyframe can jump while the relay is gathering a lateness
   sample"), whatever is configured in between. *)
JumpsShared ==
    /\ active => curve.shift = shift /\ curve.cutoff = cutoff
    /\ \A k \in Kind : buf[k].dynamic =>
          /\ buf[k].cutoff = cutoff => buf[k].shift = shift
          /\ ~ active => buf[k].cutoff = cutoff

(* Queued packets and new arrivals follow one schedule, so a track plays in
   capture order through changes of target, jumps and clock corrections
   ("SetTarget shifts queued packets equally to preserve ordering with new
   arrivals"). *)
OneSchedule ==
    \A k \in Kind : \A p \in buf[k].queue : p.playAt = PlayAt(buf[k], p.ts)

(* Tracks put on the sender's clock stay together to within the tolerance,
   jumps that only one of them has made yet set aside ("correctClocks preserves
   the track offset when excess depth requires a reset"). *)
OneTimeline ==
    \A j, k \in aligned :
        Distance(buf[j].wall - buf[j].shift, buf[k].wall - buf[k].shift) <= 2 * Tolerance

(* "Align scheduling with the same sender clock used by the player": once no
   curve is in effect, aligned tracks are scheduled together. *)
TracksTogether ==
    ~ active => \A j, k \in aligned : Distance(buf[j].wall, buf[k].wall) <= 2 * Tolerance
=============================================================================
