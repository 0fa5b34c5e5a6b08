--------------------------- MODULE PlayoutProofs ---------------------------
(***************************************************************************)
(* For any delays, policies and timing: keyframe jumps are shared by all   *)
(* tracks, the delay the controller aims at stays within its limits, each  *)
(* track follows one schedule, and aligned tracks stay together.           *)
(***************************************************************************)
EXTENDS Playout, FiniteSetTheorems, WellFoundedInduction, TLAPS

Fields == {"target", "based", "wall", "queue", "dynamic", "shift", "cutoff", "late",
           "catchUp", "reported", "recoveryAt"}
Shape(b) == b = [f \in Fields |-> b[f]]

(* Two buffers agree on the jumps they know. *)
SameMarks(a, b) == a.dynamic = b.dynamic /\ a.shift = b.shift /\ a.cutoff = b.cutoff

(* A buffer that is on the curve knows all jumps or will see that it does not. *)
Knows(b) ==
    /\ Shape(b) /\ b.dynamic \in BOOLEAN
    /\ b.cutoff \in Int /\ b.cutoff <= cutoff
    /\ b.dynamic => /\ b.cutoff = cutoff => b.shift = shift
                    /\ ~ active => b.cutoff = cutoff

CurveFields == {"start", "from", "to", "shift", "cutoff", "pending"}
JobFields == {"op", "at", "late", "todo", "changed"}

Control ==
    /\ now \in Nat /\ cutoff \in Int /\ Never <= cutoff /\ cutoff <= now /\ joins \in Nat
    /\ active \in BOOLEAN /\ base \in Nat /\ options \in Options
    /\ curve = [f \in CurveFields |-> curve[f]]
    /\ active => curve.shift = shift /\ curve.cutoff = cutoff
    /\ active /\ curve.pending => options.enabled
    /\ job = [f \in JobFields |-> job[f]]
    /\ place = [k \in Kind |-> place[k]]
    /\ \A k \in Kind : k \in job.todo => place[k] # 0

(* While a disabled curve is being retired, the tracks already visited know. *)
Visited ==
    job.op = "adjust" /\ ~ options.enabled /\ active =>
        \A k \in Kind \ job.todo : buf[k].dynamic => buf[k].cutoff = cutoff

JumpInv ==
    /\ Control
    /\ buf = [k \in Kind |-> buf[k]]
    /\ \A k \in Kind : Knows(buf[k])
    /\ \A k \in Kind : place[k] = 0 => ~ buf[k].dynamic
    /\ Visited

-----------------------------------------------------------------------------
(* dynamicOffsetLocked brings a buffer up to a curve. *)
LEMMA ConsumedMarks ==
    ASSUME NEW b, NEW c, Shape(b)
    PROVE  /\ Shape(Consumed(b, c)) /\ Consumed(b, c).dynamic = b.dynamic
           /\ b.dynamic /\ active => Consumed(b, c).cutoff = c.cutoff
           /\ b.dynamic /\ active /\ c.cutoff # b.cutoff => Consumed(b, c).shift = c.shift
           /\ ~ (b.dynamic /\ active /\ c.cutoff # b.cutoff) => Consumed(b, c) = b
  BY Zenon DEF Shape, Fields, Consumed

LEMMA AnchoredMarks ==
    ASSUME NEW b, NEW ts, Shape(b)
    PROVE  /\ Shape(Anchored(b, ts))
           /\ Anchored(b, ts) = b \/ SameMarks(Anchored(b, ts), Consumed(b, curve))
  <1>1. Shape(Consumed(b, curve))
    BY ConsumedMarks
  <1> QED
    BY <1>1, Zenon DEF Shape, Fields, Anchored, SameMarks

LEMMA QueuedMarks ==
    ASSUME NEW b, NEW c, NEW ts, NEW key, Shape(b)
    PROVE  Shape(Queued(b, c, ts, key)) /\ SameMarks(Queued(b, c, ts, key), b)
  BY Zenon DEF Shape, Fields, Queued, SameMarks

LEMMA MovedMarks ==
    ASSUME NEW b, NEW by, NEW reset, Shape(b)
    PROVE  Shape(Moved(b, by, reset)) /\ SameMarks(Moved(b, by, reset), b)
  BY Zenon DEF Shape, Fields, Moved, SameMarks

LEMMA SenderClockMarks ==
    ASSUME NEW b, NEW root, Shape(b)
    PROVE  Shape(OnSenderClock(b, root)) /\ SameMarks(OnSenderClock(b, root), b)
  BY MovedMarks DEF OnSenderClock, SameMarks

LEMMA RecoveredMarks ==
    ASSUME NEW b, NEW clocks, NEW r, Shape(b)
    PROVE  Shape(Recovered(b, clocks, r)) /\ SameMarks(Recovered(b, clocks, r), b)
  <1> DEFINE m == Moved(b, - r.shift, TRUE)
  <1>1. Shape(m) /\ SameMarks(m, b)
    BY MovedMarks, Zenon
  <1> HIDE DEF m
  <1>2. Shape([m EXCEPT !.recoveryAt = r.at]) /\ SameMarks([m EXCEPT !.recoveryAt = r.at], b)
    BY <1>1 DEF Shape, Fields, SameMarks
  <1> QED
    BY <1>2, Zenon DEF Recovered, m, SameMarks

LEMMA RetargetedMarks ==
    ASSUME NEW b, Shape(b), b.dynamic \in BOOLEAN, active \in BOOLEAN
    PROVE  /\ Shape(Retargeted(b)) /\ Retargeted(b).dynamic = (b.dynamic \/ active)
           /\ b.dynamic \/ ~ active => Retargeted(b).shift = b.shift /\ Retargeted(b).cutoff = b.cutoff
           /\ ~ b.dynamic /\ active => /\ Retargeted(b).shift = curve.shift
                                       /\ Retargeted(b).cutoff = curve.cutoff
  BY ZenonT(30) DEF Shape, Fields, Retargeted

-----------------------------------------------------------------------------
LEMMA ConsumedKnows ==
    ASSUME Control, NEW b, Knows(b)
    PROVE  /\ Knows(Consumed(b, curve)) /\ Consumed(b, curve).dynamic = b.dynamic
           /\ b.cutoff = cutoff => Consumed(b, curve).cutoff = cutoff
           /\ active /\ b.dynamic => Consumed(b, curve).cutoff = cutoff
  <1>1. Shape(b)
    BY DEF Knows
  <1>2. CASE b.dynamic /\ active /\ curve.cutoff # b.cutoff
    <2> DEFINE d == Consumed(b, curve)
    <2>1. Shape(d) /\ d.dynamic = b.dynamic
      BY <1>1, ConsumedMarks
    <2>2. d.cutoff = curve.cutoff /\ d.shift = curve.shift
      BY <1>1, <1>2, ConsumedMarks
    <2>3. curve.cutoff = cutoff /\ curve.shift = shift
      BY <1>2 DEF Control
    <2> HIDE DEF d
    <2>4. Knows(d)
      BY <2>1, <2>2, <2>3, <1>2 DEF Knows, Control
    <2> QED
      BY <2>1, <2>2, <2>3, <2>4 DEF d
  <1>3. CASE ~ (b.dynamic /\ active /\ curve.cutoff # b.cutoff)
    <2>1. Consumed(b, curve) = b
      BY <1>1, <1>3, ConsumedMarks
    <2> QED
      BY <2>1, <1>3 DEF Control
  <1> QED
    BY <1>2, <1>3

LEMMA SameKnows ==
    ASSUME NEW a, NEW b, Knows(b), Shape(a), SameMarks(a, b)
    PROVE  Knows(a)
  BY DEF Knows, SameMarks

(* What a step does to a buffer without touching the controller. *)
Updates(b, a) == /\ Knows(a) /\ a.dynamic = b.dynamic
                 /\ b.cutoff = cutoff => a.cutoff = cutoff

LEMMA ConsumedUpdates ==
    ASSUME Control, NEW b, Knows(b)
    PROVE  Updates(b, Consumed(b, curve))
  BY ConsumedKnows DEF Updates

LEMMA SameUpdates ==
    ASSUME NEW a, NEW b, NEW c, Updates(c, b), Shape(a), SameMarks(a, b)
    PROVE  Updates(c, a)
  BY SameKnows DEF Updates, SameMarks

LEMMA TransitiveUpdates ==
    ASSUME NEW a, NEW b, NEW c, Updates(c, b), Updates(b, a)
    PROVE  Updates(c, a)
  BY DEF Updates

LEMMA UpdatesSelf ==
    ASSUME NEW b, Knows(b)
    PROVE  Updates(b, b)
  BY DEF Updates

LEMMA BuffersOnly ==
    ASSUME JumpInv, UNCHANGED <<now, controllerVars, place, job, joins>>,
           buf' = [k \in Kind |-> buf'[k]],
           \A k \in Kind : Updates(buf[k], buf'[k])
    PROVE  JumpInv'
  <1>1. UNCHANGED <<now, active, curve, options, base, goal, shift, cutoff, place, job, joins>>
    BY DEF controllerVars, curveVars, policyVars, jumpVars
  <1>2. Control'
    BY <1>1 DEF JumpInv, Control
  <1>3. \A k \in Kind : Knows(buf[k])'
    BY <1>1 DEF Updates, Knows, Shape
  <1>4. \A k \in Kind : place'[k] = 0 => ~ buf'[k].dynamic
    BY <1>1 DEF JumpInv, Updates
  <1>5. Visited'
    BY <1>1 DEF JumpInv, Updates, Visited
  <1> QED
    BY <1>2, <1>3, <1>4, <1>5 DEF JumpInv

(* One buffer is replaced. *)
LEMMA OneBuffer ==
    ASSUME JumpInv, UNCHANGED <<now, controllerVars, place, job, joins>>,
           NEW k \in Kind, NEW b, buf' = [buf EXCEPT ![k] = b], Updates(buf[k], b)
    PROVE  JumpInv'
  <1>1. buf' = [j \in Kind |-> IF j = k THEN b ELSE buf[j]]
    BY DEF JumpInv
  <1>2. \A j \in Kind : Updates(buf[j], buf'[j])
    BY <1>1, UpdatesSelf DEF JumpInv
  <1>3. buf' = [j \in Kind |-> buf'[j]]
    BY <1>1, Zenon
  <1> QED
    BY <1>2, <1>3, BuffersOnly

LEMMA ArrivingUpdates ==
    ASSUME JumpInv, NEW k \in Kind, NEW ts
    PROVE  Updates(buf[k], Arriving(k, ts))
  <1> DEFINE b == buf[k]
             a == Anchored(b, ts)
  <1>1. Knows(b) /\ Control
    BY DEF JumpInv
  <1>2. Shape(b)
    BY <1>1 DEF Knows
  <1>3. Shape(a) /\ (a = b \/ SameMarks(a, Consumed(b, curve)))
    BY <1>2, AnchoredMarks
  <1>4. Updates(b, b) /\ Updates(b, Consumed(b, curve))
    BY <1>1, UpdatesSelf, ConsumedUpdates
  <1>5. Updates(b, a)
    <2> HIDE DEF a, b
    <2>1. CASE a = b
      BY <2>1, <1>4
    <2>2. CASE SameMarks(a, Consumed(b, curve))
      BY <2>2, <1>3, <1>4, SameUpdates
    <2> QED
      BY <1>3, <2>1, <2>2
  <1>6. Knows(a)
    BY <1>5 DEF Updates
  <1>7. Updates(a, Consumed(a, curve))
    BY <1>1, <1>6, ConsumedUpdates
  <1>8. Updates(b, Consumed(a, curve))
    <2> HIDE DEF a, b
    <2> QED
      BY <1>5, <1>7, TransitiveUpdates
  <1> QED
    BY <1>8 DEF Arriving

-----------------------------------------------------------------------------
LEMMA PushKeeps ==
    ASSUME JumpInv, NEW k \in Kind, NEW ts, NEW key,
           PushStale(k, ts) \/ PushPlain(k, ts, key)
    PROVE  JumpInv'
  <1>1. UNCHANGED <<now, controllerVars, place, job, joins>>
    BY DEF PushStale, PushPlain, calls
  <1>2. Updates(buf[k], Arriving(k, ts))
    BY ArrivingUpdates
  <1>3. CASE PushStale(k, ts)
    BY <1>1, <1>2, <1>3, OneBuffer, Zenon DEF PushStale
  <1>4. CASE PushPlain(k, ts, key)
    <2> DEFINE a == Arriving(k, ts)
               q == Queued(a, curve, ts, key)
    <2>1. Shape(a)
      BY <1>2 DEF Updates, Knows
    <2>2. Shape(q) /\ SameMarks(q, a)
      BY <2>1, QueuedMarks
    <2>3. Updates(buf[k], q)
      <3> HIDE DEF a, q
      <3>1. Updates(buf[k], a)
        BY <1>2 DEF a
      <3> QED
        BY <2>2, <3>1, SameUpdates
    <2>4. buf' = [buf EXCEPT ![k] = q]
      BY <1>4 DEF PushPlain
    <2> HIDE DEF q
    <2> QED
      BY <1>1, <2>3, <2>4, OneBuffer, Zenon
  <1> QED
    BY <1>3, <1>4

LEMMA PushJumpKeeps ==
    ASSUME JumpInv, NEW k \in Kind, NEW ts, PushJump(k, ts)
    PROVE  JumpInv'
  <1> DEFINE a == Arriving(k, ts)
             d == Consumed(a, curve')
             q == Queued(d, curve', ts, TRUE)
  <1>1. Updates(buf[k], a)
    BY ArrivingUpdates
  <1>2. Knows(a) /\ Shape(a) /\ a.dynamic = buf[k].dynamic
    BY <1>1 DEF Updates, Knows
  <1>3. a.dynamic /\ active /\ curve.pending /\ options.enabled
    BY DEF PushJump, Jumps, JumpDue, JumpInv, Control
  <1>4. Jump(a.wall + ts) /\ UNCHANGED <<now, place, job, joins>> /\ buf' = [buf EXCEPT ![k] = q]
    BY DEF PushJump, calls
  <1>5. /\ cutoff' = now /\ now # cutoff /\ curve'.cutoff = cutoff' /\ curve'.shift = shift'
        /\ curve' = [f \in CurveFields |-> curve'[f]] /\ curve'.pending = FALSE
        /\ UNCHANGED <<active, options, base>>
    BY <1>4 DEF Jump, CurveFields
  <1>6. Control'
    BY <1>4, <1>5 DEF JumpInv, Control, Never
  <1>7. a.cutoff # curve'.cutoff /\ curve'.cutoff \in Int /\ cutoff < cutoff'
    BY <1>2, <1>5 DEF Knows, JumpInv, Control
  <1>8. Shape(d) /\ d.dynamic = a.dynamic /\ d.cutoff = curve'.cutoff /\ d.shift = curve'.shift
    <2>1. Shape(d) /\ d.dynamic = a.dynamic
      BY <1>2, ConsumedMarks
    <2>2. d.cutoff = curve'.cutoff
      BY <1>2, <1>3, ConsumedMarks
    <2>3. d.shift = curve'.shift
      BY <1>2, <1>3, <1>7, ConsumedMarks
    <2> QED
      BY <2>1, <2>2, <2>3
  <1>9. Shape(q) /\ SameMarks(q, d)
    BY <1>8, QueuedMarks, Zenon
  <1> HIDE DEF a, d, q
  <1>10. buf' = [j \in Kind |-> IF j = k THEN q ELSE buf[j]]
    BY <1>4 DEF JumpInv
  <1>11. ASSUME NEW j \in Kind PROVE Knows(buf[j])'
    <2>1. CASE j = k
      BY <2>1, <1>2, <1>5, <1>7, <1>8, <1>9, <1>10 DEF Knows, SameMarks, Shape
    <2>2. CASE j # k
      BY <2>2, <1>3, <1>5, <1>7, <1>10 DEF Knows, JumpInv, Control, Shape
    <2> QED
      BY <2>1, <2>2, Zenon
  <1>12. \A j \in Kind : place'[j] = 0 => ~ buf'[j].dynamic
    BY <1>2, <1>3, <1>4, <1>8, <1>9, <1>10 DEF JumpInv, SameMarks
  <1>13. Visited'
    BY <1>3, <1>5 DEF Visited
  <1>14. buf' = [j \in Kind |-> buf'[j]]
    BY <1>10
  <1> QED
    BY <1>6, <1>11, <1>12, <1>13, <1>14 DEF JumpInv

LEMMA PopKeeps ==
    ASSUME JumpInv, NEW k \in Kind, PopTakes(k) \/ PopWaits(k) \/ SenderReport(k)
    PROVE  JumpInv'
  <1>1. UNCHANGED <<now, controllerVars, place, job, joins>>
    BY DEF PopTakes, PopWaits, SenderReport, calls
  <1> DEFINE b == Consumed(buf[k], curve)
  <1>2. Updates(buf[k], b) /\ Updates(buf[k], buf[k])
    BY ConsumedUpdates, UpdatesSelf, Zenon DEF JumpInv
  <1>3. Shape(b) /\ Shape(buf[k])
    BY <1>2 DEF Updates, Knows
  <1>4. CASE PopTakes(k)
    <2>1. PICK q : buf' = [buf EXCEPT ![k] = [b EXCEPT !.queue = q]]
      BY <1>4, Zenon DEF PopTakes
    <2> HIDE DEF b
    <2>2. Shape([b EXCEPT !.queue = q]) /\ SameMarks([b EXCEPT !.queue = q], b)
      BY <1>3 DEF Shape, Fields, SameMarks
    <2>3. Updates(buf[k], [b EXCEPT !.queue = q])
      BY <1>2, <2>2, SameUpdates
    <2> QED
      BY <1>1, <2>1, <2>3, OneBuffer, Zenon
  <1>5. CASE PopWaits(k)
    <2>1. buf' = [buf EXCEPT ![k] = b]
      BY <1>5 DEF PopWaits
    <2> HIDE DEF b
    <2> QED
      BY <1>1, <1>2, <2>1, OneBuffer, Zenon
  <1>6. CASE SenderReport(k)
    <2> DEFINE r == [buf[k] EXCEPT !.reported = TRUE]
    <2>1. Shape(r) /\ SameMarks(r, buf[k])
      BY <1>3, Zenon DEF Shape, Fields, SameMarks
    <2>2. buf' = [buf EXCEPT ![k] = r]
      BY <1>6 DEF SenderReport
    <2> HIDE DEF r
    <2>3. Updates(buf[k], r)
      BY <1>2, <2>1, SameUpdates
    <2> QED
      BY <1>1, <2>2, <2>3, OneBuffer, Zenon
  <1> QED
    BY <1>4, <1>5, <1>6

-----------------------------------------------------------------------------
LEMMA TrackKeeps ==
    ASSUME JumpInv, NEW k \in Kind, Track(k)
    PROVE  JumpInv'
  <1> DEFINE n == [NewBuffer(base) EXCEPT !.recoveryAt = recovery.at, !.dynamic = active,
                       !.shift = IF active THEN curve.shift ELSE 0,
                       !.cutoff = IF active THEN curve.cutoff ELSE Never]
  <1>1. buf' = [buf EXCEPT ![k] = n] /\ place' = [place EXCEPT ![k] = joins + 1] /\ joins' = joins + 1
    BY DEF Track
  <1>2. UNCHANGED <<now, active, curve, options, base, shift, cutoff, job>> /\ job = Idle
    BY DEF Track, Free, controllerVars, curveVars, policyVars, jumpVars
  <1>3. /\ Shape(n) /\ n.dynamic = active /\ n.shift = (IF active THEN curve.shift ELSE 0)
        /\ n.cutoff = (IF active THEN curve.cutoff ELSE Never)
    BY ZenonT(30) DEF Shape, Fields, NewBuffer
  <1> HIDE DEF n
  <1>4. Knows(n)
    <2>1. Shape(n) /\ n.dynamic \in BOOLEAN /\ n.dynamic = active
      BY <1>3 DEF JumpInv, Control
    <2>2. n.cutoff \in Int /\ n.cutoff <= cutoff
      BY <1>3 DEF JumpInv, Control, Never
    <2>3. active => n.cutoff = cutoff /\ n.shift = shift
      BY <1>3 DEF JumpInv, Control
    <2> QED
      BY <2>1, <2>2, <2>3 DEF Knows
  <1>5. buf' = [j \in Kind |-> IF j = k THEN n ELSE buf[j]]
        /\ place' = [j \in Kind |-> IF j = k THEN joins + 1 ELSE place[j]]
    BY <1>1, ZenonT(30) DEF JumpInv, Control
  <1>6. Control'
    BY <1>1, <1>2, <1>5 DEF JumpInv, Control, Idle
  <1>7. \A j \in Kind : Knows(buf[j])'
    BY <1>2, <1>4, <1>5 DEF Knows, Shape, JumpInv
  <1>8. joins + 1 # 0
    BY DEF JumpInv, Control
  <1>9. \A j \in Kind : place'[j] = 0 => ~ buf'[j].dynamic
    BY <1>5, <1>8 DEF JumpInv
  <1>10. Visited'
    BY <1>2 DEF Visited, Idle
  <1>11. buf' = [j \in Kind |-> buf'[j]]
    BY <1>5
  <1> QED
    BY <1>6, <1>7, <1>9, <1>10, <1>11 DEF JumpInv

LEMMA UntrackKeeps ==
    ASSUME JumpInv, NEW k \in Kind, Untrack(k)
    PROVE  JumpInv'
  <1> DEFINE n == NewBuffer(0)
  <1>1. buf' = [buf EXCEPT ![k] = n] /\ place' = [place EXCEPT ![k] = 0]
    BY DEF Untrack
  <1>2. UNCHANGED <<now, active, curve, options, base, shift, cutoff, job, joins>> /\ job = Idle
    BY DEF Untrack, Free, controllerVars, curveVars, policyVars, jumpVars, calls
  <1>3. Shape(n) /\ n.dynamic = FALSE /\ n.cutoff = Never
    BY Zenon DEF Shape, Fields, NewBuffer
  <1> HIDE DEF n
  <1>4. Knows(n)
    <2>1. n.cutoff \in Int /\ n.cutoff <= cutoff
      BY <1>3 DEF JumpInv, Control, Never
    <2> QED
      BY <1>3, <2>1, Zenon DEF Knows
  <1>5. buf' = [j \in Kind |-> IF j = k THEN n ELSE buf[j]]
        /\ place' = [j \in Kind |-> IF j = k THEN 0 ELSE place[j]]
    BY <1>1, Zenon DEF JumpInv, Control
  <1>6. Control'
    BY <1>1, <1>2, <1>5, Zenon DEF JumpInv, Control, Idle
  <1>7. \A j \in Kind : Knows(buf[j])'
    BY <1>2, <1>4, <1>5 DEF Knows, Shape, JumpInv
  <1>8. \A j \in Kind : place'[j] = 0 => ~ buf'[j].dynamic
    BY <1>3, <1>5 DEF JumpInv
  <1>9. Visited'
    BY <1>2 DEF Visited, Idle
  <1>10. buf' = [j \in Kind |-> buf'[j]]
    BY <1>5
  <1> QED
    BY <1>6, <1>7, <1>8, <1>9, <1>10 DEF JumpInv

LEMMA NormalizeOptions ==
    ASSUME NEW o \in Options, NEW delay \in Nat
    PROVE  /\ Normalize(o, delay) \in Options /\ Normalize(o, delay).enabled = o.enabled
           /\ Normalize(o, delay).maximum >= delay
  BY DEF Normalize, Options, Larger

LEMMA SamePolicyEnabled ==
    ASSUME NEW o \in Options, NEW p \in Options, SamePolicy(o, p)
    PROVE  o.enabled = p.enabled /\ o.maximum = p.maximum
  BY Zenon DEF SamePolicy, Options

LEMMA ConfigureKeeps ==
    ASSUME JumpInv, NEW delay \in Nat, NEW o \in Options, ConfigureDelay(delay, o)
    PROVE  JumpInv'
  <1>1. UNCHANGED <<now, buf, place, joins, shift, cutoff>> /\ job = Idle
    BY Zenon DEF ConfigureDelay, ConfigureSpeed, ConfigurePolicy, Free, jumpVars
  <1>2. PICK c : job' = Retarget(c)
    BY Zenon DEF ConfigureDelay
  <1>3. /\ job' = [f \in JobFields |-> job'[f]] /\ job'.op # "adjust"
        /\ \A k \in Kind : k \in job'.todo => place[k] # 0
    BY <1>2, Zenon DEF Retarget, Idle, JobFields, Tracked
  <1>4. /\ Normalize(o, delay) \in Options /\ Normalize(o, delay).enabled = o.enabled
        /\ o.enabled \in BOOLEAN
    BY NormalizeOptions DEF Options
  <1>5. \/ ConfigureSpeed(delay, o)
        \/ ConfigurePolicy(delay, o)
    BY ZenonT(30) DEF ConfigureDelay
  <1>6. /\ curve' = [f \in CurveFields |-> curve'[f]] /\ active' \in BOOLEAN
        /\ active' => curve'.shift = shift /\ curve'.cutoff = cutoff
        /\ active => active'
        /\ options' \in Options /\ base' \in Nat
        /\ active' /\ curve'.pending => options'.enabled
    <2>1. CASE ConfigureSpeed(delay, o)
      <3>1. options.enabled = options'.enabled /\ options' \in Options
        BY <2>1, <1>4, SamePolicyEnabled DEF ConfigureSpeed, JumpInv, Control
      <3>2. UNCHANGED <<active, curve, base>>
        BY <2>1 DEF ConfigureSpeed, curveVars
      <3> QED
        BY <3>1, <3>2, Zenon DEF JumpInv, Control
    <2>2. CASE ConfigurePolicy(delay, o)
      <3>1. /\ options' \in Options /\ base' = delay /\ active' = (active \/ o.enabled)
        BY <2>2, <1>4 DEF ConfigurePolicy
      <3>2. PICK d : curve' = IF active' THEN Flat(now, d) ELSE curve
        BY <2>2, Zenon DEF ConfigurePolicy
      <3>3. CASE active'
        BY <1>4, <3>1, <3>2, <3>3 DEF Flat, CurveFields, JumpInv, Control
      <3>4. CASE ~ active'
        BY <1>4, <3>1, <3>2, <3>4, Zenon DEF JumpInv, Control
      <3> QED
        BY <3>3, <3>4
    <2> QED
      BY <1>5, <2>1, <2>2, Zenon
  <1>7. Control'
    BY <1>1, <1>3, <1>6, Zenon DEF JumpInv, Control
  <1>8. \A j \in Kind : Knows(buf[j])'
    BY <1>1, <1>6 DEF Knows, Shape, JumpInv, Control
  <1>9. Visited'
    BY <1>3 DEF Visited
  <1> QED
    BY <1>1, <1>7, <1>8, <1>9 DEF JumpInv

LEMMA RetargetKeeps ==
    ASSUME JumpInv, NEW k \in Kind, RetargetBuffer(k)
    PROVE  JumpInv'
  <1> DEFINE b == buf[k]
             n == Retargeted(b)
  <1>1. /\ UNCHANGED <<now, active, curve, options, base, shift, cutoff, place, joins>>
        /\ job.op = "retarget" /\ k \in job.todo /\ job' = Release(job.todo \ {k})
        /\ buf' = [buf EXCEPT ![k] = n]
    BY Zenon DEF RetargetBuffer, FirstOf, controllerVars, curveVars, policyVars, jumpVars, calls
  <1>2. Knows(b) /\ Shape(b) /\ b.dynamic \in BOOLEAN /\ active \in BOOLEAN
    BY Zenon DEF JumpInv, Control, Knows
  <1>3. /\ Shape(n) /\ n.dynamic = (b.dynamic \/ active)
        /\ b.dynamic \/ ~ active => n.shift = b.shift /\ n.cutoff = b.cutoff
        /\ ~ b.dynamic /\ active => n.shift = curve.shift /\ n.cutoff = curve.cutoff
    BY <1>2, RetargetedMarks
  <1> HIDE DEF n, b
  <1>4. Knows(n)
    <2>1. CASE ~ b.dynamic /\ active
      <3>1. n.cutoff = cutoff /\ n.shift = shift /\ n.dynamic = TRUE
        BY <2>1, <1>3, Zenon DEF JumpInv, Control
      <3> QED
        BY <3>1, <2>1, <1>3 DEF Knows, JumpInv, Control
    <2>2. CASE b.dynamic \/ ~ active
      <3>1. n.shift = b.shift /\ n.cutoff = b.cutoff /\ n.dynamic = b.dynamic
        BY <2>2, <1>2, <1>3
      <3> QED
        BY <3>1, <1>2, <1>3, Zenon DEF Knows
    <2> QED
      BY <2>1, <2>2, <1>2, Zenon
  <1>5. buf' = [j \in Kind |-> IF j = k THEN n ELSE buf[j]]
    BY <1>1 DEF JumpInv
  <1>6. /\ job' = [f \in JobFields |-> job'[f]] /\ job'.op # "adjust"
        /\ \A j \in Kind : j \in job'.todo => place[j] # 0
    BY <1>1, Zenon DEF Release, Idle, JobFields, JumpInv, Control
  <1>7. Control'
    BY <1>1, <1>6, Zenon DEF JumpInv, Control
  <1>8. \A j \in Kind : Knows(buf[j])'
    BY <1>1, <1>4, <1>5 DEF Knows, Shape, JumpInv
  <1>9. Visited'
    BY <1>6 DEF Visited
  <1>10. buf' = [j \in Kind |-> buf'[j]]
    BY <1>5
  <1>11. \A j \in Kind : place'[j] = 0 => ~ buf'[j].dynamic
    BY <1>1, <1>5 DEF JumpInv, Control
  <1> QED
    BY <1>7, <1>8, <1>9, <1>10, <1>11, Zenon DEF JumpInv

-----------------------------------------------------------------------------
LEMMA AdjustBeginKeeps ==
    ASSUME JumpInv, AdjustBegin
    PROVE  JumpInv'
  <1>1. /\ UNCHANGED <<now, active, curve, options, base, shift, cutoff, buf, place, joins>>
        /\ job' = [Idle EXCEPT !.op = "adjust", !.at = now, !.todo = Tracked]
    BY DEF AdjustBegin, controllerVars, curveVars, policyVars, jumpVars, calls
  <1>2. job' = [f \in JobFields |-> job'[f]] /\ job'.todo = Tracked
    BY <1>1, ZenonT(30) DEF Idle, JobFields
  <1>3. Control'
    BY <1>1, <1>2, Zenon DEF JumpInv, Control, Tracked
  <1>4. Visited'
    BY <1>1, <1>2, Zenon DEF Visited, JumpInv, Tracked
  <1> QED
    BY <1>1, <1>3, <1>4 DEF JumpInv, Knows, Shape

LEMMA AdjustSampleKeeps ==
    ASSUME JumpInv, NEW k \in Kind, AdjustSample(k)
    PROVE  JumpInv'
  <1> DEFINE b == buf[k]
             d == Consumed(b, curve)
             n == [d EXCEPT !.late = 0]
  <1>1. /\ UNCHANGED <<now, active, curve, options, base, shift, cutoff, place, joins>>
        /\ buf' = [buf EXCEPT ![k] = n]
    BY Zenon DEF AdjustSample, controllerVars, curveVars, policyVars, jumpVars, calls
  <1>2. PICK l : job' = [job EXCEPT !.todo = job.todo \ {k}, !.late = l]
    BY Zenon DEF AdjustSample
  <1>3. Control /\ Knows(b)
    BY DEF JumpInv
  <1>4. /\ Knows(d) /\ d.dynamic = b.dynamic
        /\ active /\ b.dynamic => d.cutoff = cutoff
    BY <1>3, ConsumedKnows, Zenon
  <1>5. Shape(d)
    BY <1>4 DEF Knows
  <1> HIDE DEF d
  <1>6. Shape(n) /\ SameMarks(n, d)
    BY <1>5 DEF Shape, Fields, SameMarks
  <1>7. Knows(n)
    <2> HIDE DEF n
    <2> QED
      BY <1>4, <1>6, SameKnows
  <1> HIDE DEF n
  <1>8. buf' = [j \in Kind |-> IF j = k THEN n ELSE buf[j]]
    BY <1>1 DEF JumpInv
  <1>9. /\ job' = [f \in JobFields |-> job'[f]]
        /\ job'.op = job.op /\ job'.todo = job.todo \ {k}
    BY <1>2, Zenon DEF JumpInv, Control, JobFields
  <1>10. Control'
    BY <1>1, <1>9, Zenon DEF JumpInv, Control
  <1>11. \A j \in Kind : Knows(buf[j])'
    BY <1>1, <1>7, <1>8, ZenonT(30) DEF Knows, Shape, JumpInv
  <1>12. \A j \in Kind : place'[j] = 0 => ~ buf'[j].dynamic
    BY <1>1, <1>4, <1>6, <1>8, Zenon DEF JumpInv, SameMarks
  <1>13. Visited'
    BY <1>1, <1>4, <1>6, <1>8, <1>9, Zenon DEF Visited, JumpInv, SameMarks
  <1>14. buf' = [j \in Kind |-> buf'[j]]
    BY <1>8
  <1> QED
    BY <1>10, <1>11, <1>12, <1>13, <1>14 DEF JumpInv

LEMMA AdjustStepKeeps ==
    ASSUME JumpInv, AdjustStep
    PROVE  JumpInv'
  <1>1. UNCHANGED <<now, buf, place, joins>> /\ job' = Idle /\ job.op = "adjust" /\ job.todo = {}
    BY Zenon DEF AdjustStep, calls
  <1>2. Visited'
    BY <1>1, Zenon DEF Visited, Idle
  <1>3. job' = [f \in JobFields |-> job'[f]] /\ job'.todo = {}
    BY <1>1, Zenon DEF Idle, JobFields
  <1>4. StepNothing(job.at) \/ StepRetires(job.at) \/ StepCurve(job.at, job.late)
    BY Zenon DEF AdjustStep, Step
  <1>5. CASE StepNothing(job.at)
    <2>1. UNCHANGED <<active, curve, options, base, shift, cutoff>>
      BY <1>5, Zenon DEF StepNothing, controllerVars, curveVars, policyVars, jumpVars
    <2>2. Control'
      BY <1>1, <1>3, <2>1, Zenon DEF JumpInv, Control
    <2> QED
      BY <1>1, <1>2, <2>1, <2>2, Zenon DEF JumpInv, Knows, Shape
  <1>6. CASE StepRetires(job.at)
    <2>1. /\ UNCHANGED <<options, base, shift, cutoff>> /\ active' = FALSE /\ curve' = NoCurve
          /\ active /\ ~ options.enabled
      BY <1>6, Zenon DEF StepRetires, StepDue, jumpVars
    <2>2. curve' = [f \in CurveFields |-> curve'[f]]
      BY <2>1 DEF NoCurve, CurveFields
    <2>3. Control'
      BY <1>1, <1>3, <2>1, <2>2, Zenon DEF JumpInv, Control
    <2>4. \A k \in Kind : buf[k].dynamic => buf[k].cutoff = cutoff
      BY <1>1, <2>1, Zenon DEF JumpInv, Visited
    <2>5. \A k \in Kind : Knows(buf[k])'
      BY <1>1, <2>1, <2>4, Zenon DEF JumpInv, Knows, Shape
    <2> QED
      BY <1>1, <1>2, <2>3, <2>5, Zenon DEF JumpInv
  <1>7. CASE StepCurve(job.at, job.late)
    <2>1. UNCHANGED <<active, options, base, shift, cutoff>> /\ options.enabled
      BY <1>7 DEF StepCurve, jumpVars
    <2>2. curve' = [f \in CurveFields |-> curve'[f]]
          /\ curve'.shift = curve.shift /\ curve'.cutoff = curve.cutoff
      BY <1>7, Zenon DEF StepCurve, CurveFields, JumpInv, Control
    <2>3. Control'
      BY <1>1, <1>3, <2>1, <2>2, Zenon DEF JumpInv, Control
    <2> QED
      BY <1>1, <1>2, <2>1, <2>3 DEF JumpInv, Knows, Shape
  <1> QED
    BY <1>4, <1>5, <1>6, <1>7, Zenon

(* The correction moves walls and queues, never what a buffer knows of jumps. *)
LEMMA CorrectKeeps ==
    ASSUME JumpInv, correctClocks
    PROVE  JumpInv'
  <1> DEFINE seen == [k \in Kind |-> Consumed(buf[k], curve)]
             clocks == SenderClocks(seen)
             root == SenderRoot(seen)
             on == [k \in Kind |-> IF clocks /\ k \in Tracked THEN OnSenderClock(seen[k], root)
                                 ELSE seen[k]]
             over == {k \in Tracked : Excessive(on[k])}
             next == Correction(on, over, clocks)
  <1>1. /\ UNCHANGED <<now, controllerVars, place, job, joins>>
        /\ buf' = [k \in Kind |-> IF k \in Tracked /\ over # {} THEN Recovered(on[k], clocks, next)
                                  ELSE on[k]]
    BY Zenon DEF correctClocks, calls
  <1>2. ASSUME NEW k \in Kind PROVE Updates(buf[k], seen[k])
    BY ConsumedUpdates DEF JumpInv
  <1>3. \A k \in Kind : on[k] = IF clocks /\ k \in Tracked THEN OnSenderClock(seen[k], root)
                                ELSE seen[k]
    BY Zenon
  <1> HIDE DEF seen, clocks, root
  <1>4. ASSUME NEW k \in Kind PROVE Updates(buf[k], on[k])
    <2> HIDE DEF on
    <2>1. Updates(buf[k], seen[k]) /\ Shape(seen[k])
      BY <1>2, Zenon DEF Updates, Knows
    <2>2. Shape(OnSenderClock(seen[k], root)) /\ SameMarks(OnSenderClock(seen[k], root), seen[k])
      BY <2>1, SenderClockMarks, Zenon
    <2>3. Updates(buf[k], OnSenderClock(seen[k], root))
      BY <2>1, <2>2, SameUpdates, Zenon
    <2> QED
      BY <1>3, <2>1, <2>3, Zenon
  <1> HIDE DEF on, over, next
  <1>5. ASSUME NEW k \in Kind PROVE Updates(buf[k], buf'[k])
    <2>1. Updates(buf[k], on[k]) /\ Shape(on[k])
      BY <1>4 DEF Updates, Knows
    <2>2. /\ Shape(Recovered(on[k], clocks, next))
          /\ SameMarks(Recovered(on[k], clocks, next), on[k])
      BY <2>1, RecoveredMarks, Zenon
    <2>3. Updates(buf[k], Recovered(on[k], clocks, next))
      BY <2>1, <2>2, SameUpdates, Zenon
    <2>4. buf'[k] = IF k \in Tracked /\ over # {} THEN Recovered(on[k], clocks, next) ELSE on[k]
      BY <1>1
    <2> QED
      BY <2>1, <2>3, <2>4, Zenon
  <1>6. buf' = [k \in Kind |-> buf'[k]]
    BY <1>1, Zenon
  <1> QED
    BY <1>1, <1>5, <1>6, BuffersOnly

LEMMA TickKeeps ==
    ASSUME JumpInv, Tick
    PROVE  JumpInv'
  <1>1. /\ UNCHANGED <<active, curve, options, base, shift, cutoff, buf, place, job, joins>>
        /\ now' = now + 1
    BY Zenon DEF Tick, controllerVars, curveVars, policyVars, jumpVars, calls
  <1>2. Control'
    BY <1>1 DEF JumpInv, Control
  <1> QED
    BY <1>1, <1>2, Zenon DEF JumpInv, Knows, Shape, Visited

LEMMA StutterKeeps ==
    ASSUME JumpInv, UNCHANGED playoutVars
    PROVE  JumpInv'
  <1>1. UNCHANGED <<now, active, curve, options, base, shift, cutoff, buf, place, job, joins>>
    BY Zenon DEF playoutVars, controllerVars, curveVars, policyVars, jumpVars, calls
  <1>2. Control'
    BY <1>1, Zenon DEF JumpInv, Control
  <1> QED
    BY <1>1, <1>2 DEF JumpInv, Knows, Shape, Visited

LEMMA InitJumps ==
    ASSUME PlayoutInit
    PROVE  JumpInv
  <1>1. PICK s \in Starts : ControllerInit(s[1], s[2])
    BY Zenon DEF PlayoutInit
  <1>2. s[1] \in Nat /\ s[2] \in Options
    BY PlayoutConstants, Zenon
  <1>3. /\ buf = [k \in Kind |-> NewBuffer(0)] /\ place = [k \in Kind |-> 0]
        /\ job = Idle /\ joins = 0
    BY DEF PlayoutInit
  <1>4. /\ now = 0 /\ shift = 0 /\ cutoff = Never /\ active \in BOOLEAN
        /\ active => curve = [NoCurve EXCEPT !.start = 0, !.from = s[1], !.to = s[1]]
        /\ ~ active => curve = NoCurve
    BY <1>1, <1>2 DEF ControllerInit, Options
  <1>5. base \in Nat /\ options \in Options
    BY <1>1, <1>2, NormalizeOptions, Zenon DEF ControllerInit
  <1>6. /\ curve = [f \in CurveFields |-> curve[f]] /\ curve.shift = 0 /\ curve.cutoff = Never
        /\ curve.pending = FALSE
    <2>1. CASE active
      BY <1>4, <2>1, Zenon DEF NoCurve, CurveFields
    <2>2. CASE ~ active
      BY <1>4, <2>2 DEF NoCurve, CurveFields
    <2> QED
      BY <2>1, <2>2, Zenon
  <1>7. job = [f \in JobFields |-> job[f]] /\ job.todo = {} /\ job.op = "idle"
    BY <1>3 DEF Idle, JobFields
  <1>8. Control
    BY <1>3, <1>4, <1>5, <1>6, <1>7, SMTT(30) DEF Control, Never
  <1>9. Shape(NewBuffer(0)) /\ NewBuffer(0).dynamic = FALSE /\ NewBuffer(0).cutoff = Never
    BY Zenon DEF Shape, Fields, NewBuffer
  <1>10. Knows(NewBuffer(0))
    <2> DEFINE n == NewBuffer(0)
    <2>1. Shape(n) /\ n.dynamic = FALSE /\ n.cutoff = Never
      BY <1>9
    <2> HIDE DEF n
    <2>2. n.cutoff \in Int /\ n.cutoff <= cutoff
      BY <1>4, <2>1 DEF Never
    <2>3. Knows(n)
      BY <2>1, <2>2, Zenon DEF Knows
    <2> QED
      BY <2>3 DEF n
  <1> QED
    BY <1>3, <1>7, <1>8, <1>9, <1>10, Zenon DEF JumpInv, Visited

LEMMA JumpStep ==
    ASSUME JumpInv, [PlayoutNext]_playoutVars
    PROVE  JumpInv'
  <1>1. CASE \E k \in Kind : Arrives(k)
    BY <1>1, PushKeeps, PushJumpKeeps, Zenon DEF Arrives
  <1>2. CASE \E k \in Kind : PopTakes(k) \/ PopWaits(k) \/ SenderReport(k)
    BY <1>2, PopKeeps
  <1>3. CASE \E k \in Kind : Track(k) \/ Untrack(k) \/ RetargetBuffer(k) \/ AdjustSample(k)
    BY <1>3, TrackKeeps, UntrackKeeps, RetargetKeeps, AdjustSampleKeeps, Zenon
  <1>4. CASE \E s \in Settings : ConfigureDelay(s[1], s[2])
    BY <1>4, ConfigureKeeps, PlayoutConstants
  <1>5. CASE Tick \/ AdjustBegin \/ AdjustStep \/ correctClocks
    BY <1>5, TickKeeps, AdjustBeginKeeps, AdjustStepKeeps, CorrectKeeps
  <1>6. CASE UNCHANGED playoutVars
    BY <1>6, StutterKeeps
  <1> QED
    BY <1>1, <1>2, <1>3, <1>4, <1>5, <1>6, ZenonT(30) DEF PlayoutNext

(* A keyframe jump decided in one track's Push reaches every track exactly
   once, for any set of tracks, any delays, policies, timing and order of the
   calls, and the curve is never retired before it has. *)
THEOREM JumpsReachAll == PlayoutSpec => []JumpsShared
  <1>1. PlayoutInit => JumpInv
    BY InitJumps
  <1>2. JumpInv /\ [PlayoutNext]_playoutVars => JumpInv'
    BY JumpStep, Zenon
  <1>3. JumpInv => JumpsShared
    BY DEF JumpInv, Control, Knows, JumpsShared
  <1> QED
    BY <1>1, <1>2, <1>3, PTL DEF PlayoutSpec

-----------------------------------------------------------------------------
LEMMA DivNat ==
    ASSUME NEW a \in Nat, NEW b \in Nat \ {0}
    PROVE  a \div b \in Nat
  OBVIOUS

LEMMA QuotientInt ==
    ASSUME NEW a \in Int, NEW b \in Nat \ {0}
    PROVE  Quotient(a, b) \in Int /\ (a >= 0 => Quotient(a, b) >= 0)
  <1>1. CASE a >= 0
    <2>1. a \div b \in Nat
      BY <1>1, DivNat
    <2> QED
      BY <1>1, <2>1 DEF Quotient
  <1>2. CASE ~ a >= 0
    <2>1. - a \in Nat
      BY <1>2
    <2>2. (- a) \div b \in Nat
      BY <2>1, DivNat
    <2> QED
      BY <1>2, <2>2 DEF Quotient
  <1> QED
    BY <1>1, <1>2

LEMMA ProductInt ==
    ASSUME NEW a \in Int, NEW b \in Int
    PROVE  a * b \in Int
  OBVIOUS

LEMMA ProductNat ==
    ASSUME NEW a \in Nat, NEW b \in Nat
    PROVE  a * b \in Nat
  OBVIOUS

LEMMA DelayInt ==
    ASSUME NEW s, s.from \in Int, s.to \in Int, s.start \in Int, NEW at \in Int
    PROVE  Delay(s, at) \in Int
  <1> DEFINE part == Smaller(Second, Larger(0, at - s.start))
             grown == (s.to - s.from) * part
  <1>1. part \in Int /\ s.to - s.from \in Int
    BY DelayConstants DEF Smaller, Larger
  <1>2. grown \in Int
    <2> HIDE DEF part
    <2> QED
      BY <1>1, ProductInt
  <1> HIDE DEF grown
  <1>3. Quotient(grown, Second) \in Int
    BY <1>2, DelayConstants, QuotientInt
  <1>4. s.from + Quotient(grown, Second) \in Int
    BY <1>3
  <1> QED
    BY <1>4, Zenon DEF Delay, grown

LEMMA CatchUpNat ==
    ASSUME NEW o \in Options, NEW current \in Int, NEW delay \in Nat
    PROVE  CatchUp(o, current, delay) \in Nat
  <1> DEFINE above == Larger(0, current - delay)
             space == 9 * Larger(1, o.maximum - delay)
             part == (MaxCatchUp - MinCatchUp) * 10 * above
  <1>1. o.maximum \in Nat /\ o.catchUp \in Nat
    BY DEF Options
  <1>2. above \in Nat /\ (MaxCatchUp - MinCatchUp) * 10 \in Nat
    BY DelayConstants DEF Larger
  <1>3. space \in Nat \ {0}
    BY <1>1 DEF Larger
  <1>4. part \in Nat
    <2> HIDE DEF above
    <2> QED
      BY <1>2, ProductNat
  <1> HIDE DEF part, space
  <1>5. Quotient(part, space) \in Int /\ Quotient(part, space) >= 0
    BY <1>3, <1>4, QuotientInt
  <1>6. Smaller(MaxCatchUp, MinCatchUp + Quotient(part, space)) \in Nat
    BY <1>5, DelayConstants DEF Smaller
  <1>7. CatchUp(o, current, delay) = IF o.automatic
            THEN Smaller(MaxCatchUp, MinCatchUp + Quotient(part, space)) ELSE o.catchUp
    BY DEF CatchUp, part, space
  <1> QED
    BY <1>1, <1>6, <1>7

DelayTypes ==
    /\ now \in Nat /\ base \in Nat /\ goal \in Int /\ options \in Options
    /\ curve = [f \in CurveFields |-> curve[f]]
    /\ curve.start \in Int /\ curve.from \in Int /\ curve.to \in Int

DelayInv == DelayTypes /\ DelayBounded

LEMMA ConfigureBounds ==
    ASSUME DelayInv, now' = now, NEW delay \in Nat, NEW o \in Options,
           ConfigureSpeed(delay, o) \/ ConfigurePolicy(delay, o)
    PROVE  DelayInv'
  <1> DEFINE n == Normalize(o, delay)
  <1>1. n \in Options /\ n.maximum >= delay /\ n.maximum \in Nat
    BY NormalizeOptions, Zenon DEF Options
  <1>2. CASE ConfigureSpeed(delay, o)
    <2>1. UNCHANGED <<now, active, curve, base, goal>> /\ options' = n
      BY <1>2, Zenon DEF ConfigureSpeed, curveVars
    <2>2. options.enabled = n.enabled /\ options.maximum = n.maximum
      BY <1>1, <1>2, SamePolicyEnabled, Zenon DEF ConfigureSpeed, DelayInv, DelayTypes
    <2> HIDE DEF n
    <2> QED
      BY <1>1, <2>1, <2>2, Zenon DEF DelayInv, DelayTypes, DelayBounded
  <1>3. CASE ConfigurePolicy(delay, o)
    <2> DEFINE d == IF active /\ o.enabled THEN Delay(curve, now) ELSE delay
    <2>1. options' = n /\ base' = delay /\ goal' = delay
      BY <1>3, Zenon DEF ConfigurePolicy
    <2>2. curve' = IF active' THEN Flat(now, d) ELSE curve
      BY <1>3 DEF ConfigurePolicy
    <2>3. d \in Int
      BY DelayInt DEF DelayInv, DelayTypes
    <2> HIDE DEF d, n
    <2>4. DelayTypes'
      <3>1. CASE active'
        BY <1>1, <2>1, <2>2, <2>3, <3>1 DEF DelayInv, DelayTypes, Flat, CurveFields
      <3>2. CASE ~ active'
        BY <1>1, <2>1, <2>2, <3>2 DEF DelayInv, DelayTypes
      <3> QED
        BY <3>1, <3>2, Zenon
    <2>5. active' => curve'.from = d /\ curve'.to = d
      BY <2>2, Zenon DEF Flat
    <2> QED
      BY <1>1, <2>1, <2>3, <2>4, <2>5 DEF DelayInv, DelayBounded, Larger, Smaller
  <1> QED
    BY <1>2, <1>3

LEMMA GoalBounds ==
    ASSUME DelayInv, NEW at \in Int, NEW late \in Nat
    PROVE  /\ NewGoal(at, late) \in Int
           /\ base <= NewGoal(at, late) /\ NewGoal(at, late) <= options.maximum
  <1> DEFINE w == Wanted(at, late)
  <1>1. w \in Int
    <2>1. Delay(curve, at) \in Int
      BY DelayInt DEF DelayInv, DelayTypes
    <2> QED
      BY <2>1, DelayConstants DEF Wanted
  <1>2. options.maximum \in Nat
    BY DEF DelayInv, DelayTypes, Options
  <1>3. NewGoal(at, late) = IF late > 0 THEN Larger(goal, Smaller(options.maximum, w))
                            ELSE IF at > quietUntil THEN base ELSE goal
    BY DEF NewGoal
  <1> HIDE DEF w
  <1> QED
    BY <1>1, <1>2, <1>3 DEF DelayInv, DelayTypes, DelayBounded, Larger, Smaller

LEMMA StepBounds ==
    ASSUME DelayInv, now' = now, NEW at \in 0 .. now, NEW late \in Nat, Step(at, late)
    PROVE  DelayInv'
  <1>1. CASE StepNothing(at)
    <2>1. UNCHANGED <<now, active, curve, options, base, goal>>
      BY <1>1, Zenon DEF StepNothing, controllerVars, curveVars, policyVars
    <2> QED
      BY <2>1 DEF DelayInv, DelayTypes, DelayBounded
  <1>2. CASE StepRetires(at)
    <2>1. UNCHANGED <<now, options, base, goal>> /\ active' = FALSE /\ curve' = NoCurve
      BY <1>2, Zenon DEF StepRetires
    <2>2. DelayTypes'
      BY <2>1 DEF DelayInv, DelayTypes, NoCurve, CurveFields, Never
    <2> QED
      BY <2>1, <2>2 DEF DelayInv, DelayBounded
  <1>3. CASE StepCurve(at, late)
    <2> DEFINE current == Delay(curve, at)
               down == CatchUp(options, current, base)
               to == Larger(current - down, Smaller(current + Growth, goal'))
    <2>1. UNCHANGED <<now, active, options, base>> /\ goal' = NewGoal(at, late)
      BY <1>3, Zenon DEF StepCurve
    <2>2. PICK p : curve' = [curve EXCEPT !.start = at, !.from = current, !.to = to, !.pending = p]
      BY <1>3, Zenon DEF StepCurve
    <2>3. at \in Int
      BY DEF DelayInv, DelayTypes
    <2>4. current \in Int
      BY <2>3, DelayInt DEF DelayInv, DelayTypes
    <2>5. down \in Nat
      <3> HIDE DEF current
      <3> QED
        BY <2>4, CatchUpNat DEF DelayInv, DelayTypes
    <2>6. goal' \in Int /\ base <= goal' /\ goal' <= options.maximum
      BY <2>1, <2>3, GoalBounds
    <2>7. options.maximum \in Nat /\ base \in Nat
      BY DEF DelayInv, DelayTypes, Options
    <2>8. to \in Int /\ to <= Larger(current, options.maximum) /\ to >= Smaller(current, base)
      <3> HIDE DEF current, down
      <3> QED
        BY <2>4, <2>5, <2>6, <2>7, DelayConstants DEF Larger, Smaller
    <2> HIDE DEF current, to
    <2>9. DelayTypes' /\ curve'.from = current /\ curve'.to = to
      BY <2>1, <2>2, <2>3, <2>4, <2>6, <2>8, Zenon DEF DelayInv, DelayTypes, CurveFields
    <2> QED
      BY <2>1, <2>6, <2>8, <2>9 DEF DelayInv, DelayBounded
  <1> QED
    BY <1>1, <1>2, <1>3, Zenon DEF Step

LEMMA JumpBounds ==
    ASSUME DelayInv, now' = now, NEW mediaTime \in Int, Jump(mediaTime)
    PROVE  DelayInv'
  <1>1. /\ UNCHANGED <<now, active, options, base>> /\ goal' = base
        /\ curve' = [start |-> now, from |-> base, to |-> base,
                     shift |-> shift', cutoff |-> cutoff', pending |-> FALSE]
    BY Zenon DEF Jump
  <1>2. DelayTypes' /\ curve'.from = base /\ curve'.to = base
    BY <1>1 DEF DelayInv, DelayTypes, CurveFields
  <1>3. options.maximum \in Nat /\ base <= options.maximum /\ base \in Nat
    BY DEF DelayInv, DelayTypes, DelayBounded, Options
  <1> QED
    BY <1>1, <1>2, <1>3 DEF DelayInv, DelayBounded, Larger, Smaller

LEMMA InitBounds ==
    ASSUME NEW delay \in Nat, NEW o \in Options, ControllerInit(delay, o)
    PROVE  DelayInv
  <1>1. now = 0 /\ base = delay /\ goal = delay /\ active = o.enabled /\ o.enabled \in BOOLEAN
    BY DEF ControllerInit, Options
  <1>2. options \in Options /\ options.maximum >= delay
    BY NormalizeOptions DEF ControllerInit
  <1>3. /\ curve = [f \in CurveFields |-> curve[f]]
        /\ curve.start \in Int /\ curve.from \in Int /\ curve.to = curve.from
        /\ active => curve.from = delay
    <2>1. CASE active
      <3>1. curve = [NoCurve EXCEPT !.start = 0, !.from = delay, !.to = delay]
        BY <1>1, <2>1 DEF ControllerInit
      <3>2. curve = [start |-> 0, from |-> delay, to |-> delay, shift |-> 0, cutoff |-> Never,
                     pending |-> FALSE]
        BY <3>1, Zenon DEF NoCurve
      <3> QED
        BY <3>2 DEF CurveFields
    <2>2. CASE ~ active
      BY <1>1, <2>2 DEF ControllerInit, NoCurve, CurveFields, Never
    <2> QED
      BY <2>1, <2>2, Zenon
  <1>4. options.maximum \in Nat
    BY <1>2, Zenon DEF Options
  <1> QED
    BY <1>1, <1>2, <1>3, <1>4 DEF DelayInv, DelayTypes, DelayBounded, Larger, Smaller

LEMMA DelayStep ==
    ASSUME DelayInv, [ControllerStep]_<<now, controllerVars>>
    PROVE  DelayInv'
  <1>1. CASE now' = now + 1 /\ UNCHANGED controllerVars
    BY <1>1 DEF controllerVars, curveVars, policyVars, DelayInv, DelayTypes, DelayBounded
  <1>2. CASE now' = now /\ \E delay \in Nat, o \in Options :
                                ConfigureSpeed(delay, o) \/ ConfigurePolicy(delay, o)
    BY <1>2, ConfigureBounds
  <1>3. CASE now' = now /\ \E at \in 0 .. now, late \in Nat : Step(at, late)
    BY <1>3, StepBounds
  <1>4. CASE now' = now /\ \E mediaTime \in Int : Jump(mediaTime)
    BY <1>4, JumpBounds, Zenon
  <1>5. CASE UNCHANGED <<now, controllerVars>>
    BY <1>5 DEF controllerVars, curveVars, policyVars, DelayInv, DelayTypes, DelayBounded
  <1> QED
    BY <1>1, <1>2, <1>3, <1>4, <1>5, Zenon DEF ControllerStep

(* The controller keeps the delay it aims at between the configured delay and
   the maximum, for any lengths of its steps, any lateness, and any sequence
   of Configure, Step and Jump. *)
THEOREM DelayStaysBounded == ControllerSpec => []DelayBounded
  <1>1. (\E delay \in Nat, o \in Options : ControllerInit(delay, o)) => DelayInv
    BY InitBounds
  <1>2. DelayInv /\ [ControllerStep]_<<now, controllerVars>> => DelayInv'
    BY DelayStep
  <1>3. DelayInv => DelayBounded
    BY DEF DelayInv
  <1> QED
    BY <1>1, <1>2, <1>3, PTL DEF ControllerSpec

-----------------------------------------------------------------------------
(* The schedule.  A buffer's queue is on the schedule of its base and target,
   and starts with the base. *)
Entry == [ts : Int, playAt : Int]
OnSchedule(b) == \A p \in b.queue : p \in Entry /\ p.playAt = PlayAt(b, p.ts)

Timed(b) ==
    /\ Shape(b) /\ b.wall \in Int /\ b.shift \in Int /\ b.target \in Nat /\ b.late \in Nat
    /\ IsFiniteSet(b.queue) /\ OnSchedule(b)
    /\ ~ b.based => b.queue = {}

ClockInv ==
    /\ JumpInv /\ DelayInv /\ shift \in Int /\ curve.shift \in Int
    /\ recovery.shift \in Int /\ senderBase.wall \in Int /\ aligned \subseteq Tracked
    /\ job.late \in Nat /\ job.at \in 0 .. now
    /\ \A k \in Kind : place[k] \in Nat /\ Timed(buf[k])

(* Two tracks put on the sender's clock are near it, and stay eligible for it. *)
Near(k) == Distance(buf[k].wall - buf[k].shift, senderBase.wall) <= Tolerance
TogetherInv ==
    /\ \A k \in aligned : buf[k].based /\ buf[k].reported
    /\ \A j, k \in aligned : j # k => senderBase.known /\ Near(j) /\ Near(k)
-----------------------------------------------------------------------------
(* Choices from finite sets: the largest, and the image of one. *)
LEMMA LeastExists ==
    ASSUME NEW S \in SUBSET Nat, S # {}
    PROVE  \E m \in S : \A l \in S : m <= l
  <1> DEFINE R == OpToRel(<, Nat)
  <1>1. IsWellFoundedOn(R, Nat)
    BY NatLessThanWellFounded, Zenon
  <1>2. \A a, b \in Nat : <<a, b>> \in R <=> a < b
    BY DEF OpToRel
  <1> HIDE DEF R
  <1>3. PICK m \in S : \A l \in S : ~ (<<l, m>> \in R)
    BY <1>1, WFMin, Zenon
  <1>4. m \in Nat /\ \A l \in S : l \in Nat /\ ~ (l < m)
    BY <1>2, <1>3, Zenon
  <1> QED
    BY <1>4

(* The member of S with the fewest above it. *)
LEMMA LargestExists ==
    ASSUME NEW S \in SUBSET Int, IsFiniteSet(S), S # {}
    PROVE  \E m \in S : \A x \in S : x <= m
  <1> DEFINE above == [x \in S |-> {y \in S : y > x}]
             counts == {Cardinality(above[x]) : x \in S}
  <1>1. ASSUME NEW x \in S
        PROVE  above[x] \in SUBSET S /\ \A y \in S : y \in above[x] <=> y > x
    OBVIOUS
  <1> HIDE DEF above
  <1>2. ASSUME NEW x \in S
        PROVE  IsFiniteSet(above[x]) /\ Cardinality(above[x]) \in Nat
    BY <1>1, FS_Subset, FS_CardinalityType, Zenon
  <1>3. PICK n \in counts : \A l \in counts : n <= l
    <2>1. counts \in SUBSET Nat /\ counts # {}
      BY <1>2, Zenon
    <2> HIDE DEF counts
    <2> QED
      BY <2>1, LeastExists
  <1>4. PICK m \in S : n = Cardinality(above[m])
    BY <1>3
  <1>5. ASSUME NEW x \in S, ~ (x <= m) PROVE FALSE
    <2>1. x \in Int /\ m \in Int /\ x > m
      BY <1>5
    <2>2. above[x] \in SUBSET above[m]
      <3> SUFFICES ASSUME NEW y \in above[x] PROVE y \in above[m]
        OBVIOUS
      <3>1. y \in S /\ y \in Int /\ y > x
        BY <1>1, ZenonT(30)
      <3>2. y > m
        BY <2>1, <3>1
      <3> QED
        BY <1>1, <3>1, <3>2, Zenon
    <2>3. x \in above[m] /\ x \notin above[x]
      BY <1>1, <2>1
    <2>4. /\ Cardinality(above[x]) <= Cardinality(above[m])
          /\ Cardinality(above[m]) = Cardinality(above[x]) => above[m] = above[x]
      BY <1>2, <2>2, FS_Subset, Zenon
    <2>5. Cardinality(above[m]) <= Cardinality(above[x])
      BY <1>3, <1>4
    <2>6. Cardinality(above[x]) \in Nat /\ Cardinality(above[m]) \in Nat
      BY <1>2, Zenon
    <2>7. Cardinality(above[m]) = Cardinality(above[x])
      BY <2>4, <2>5, <2>6
    <2> QED
      BY <2>3, <2>4, <2>7, Zenon
  <1> QED
    BY <1>5

LEMMA ImageFinite ==
    ASSUME NEW S, IsFiniteSet(S), NEW f, NEW T, f = [x \in S |-> f[x]], T = {f[x] : x \in S}
    PROVE  IsFiniteSet(T)
  <1>1. f \in Surjection(S, T)
    BY DEF Surjection
  <1> QED
    BY <1>1, FS_Surjection

(* Every finite set has a member where a function is largest. *)
LEMMA LargestAt ==
    ASSUME NEW S, IsFiniteSet(S), S # {}, NEW f \in [S -> Int]
    PROVE  \E k \in S : \A j \in S : f[j] <= f[k]
  <1> DEFINE T == {f[x] : x \in S}
  <1>1. T \in SUBSET Int /\ T # {} /\ f = [x \in S |-> f[x]]
    OBVIOUS
  <1>2. IsFiniteSet(T)
    <2>1. T = {f[x] : x \in S}
      OBVIOUS
    <2> HIDE DEF T
    <2> QED
      BY <1>1, <2>1, ImageFinite
  <1>3. PICK m \in T : \A x \in T : x <= m
    <2> HIDE DEF T
    <2> QED
      BY <1>1, <1>2, LargestExists, Zenon
  <1> QED
    BY <1>3

-----------------------------------------------------------------------------
(* What the steps do to a buffer's schedule.  One whose base is set keeps it,
   and its wall but for the jumps it has made, and its sender report. *)
Steady(b, a) ==
    b.based => a.based /\ a.wall - a.shift = b.wall - b.shift /\ (b.reported => a.reported)

(* Whether a buffer is on its schedule depends on few of its fields. *)
LEMMA EmptyTimed ==
    ASSUME NEW n, Shape(n), n.wall \in Int, n.shift \in Int, n.target \in Nat, n.late \in Nat,
           n.queue = {}
    PROVE  Timed(n)
  BY FS_EmptySet, Zenon DEF Timed, OnSchedule

LEMMA SameTimed ==
    ASSUME NEW b, NEW n, Timed(b), Shape(n), n.wall = b.wall, n.shift = b.shift,
           n.target = b.target, n.late \in Nat, n.queue = b.queue, n.based = b.based
    PROVE  Timed(n)
  BY Zenon DEF Timed, OnSchedule, PlayAt

LEMMA ConsumedTimed ==
    ASSUME NEW b, NEW c, Timed(b), c.shift \in Int
    PROVE  Timed(Consumed(b, c)) /\ Steady(b, Consumed(b, c))
           /\ Consumed(b, c).based = b.based /\ Consumed(b, c).reported = b.reported
  <1> DEFINE d == Consumed(b, c)
  <1>1. CASE b.dynamic /\ active /\ c.cutoff # b.cutoff
    <2>1. /\ Shape(d) /\ d.wall = b.wall + (c.shift - b.shift) /\ d.shift = c.shift /\ d.queue = {}
          /\ d.late = 0 /\ d.target = b.target /\ d.based = b.based /\ d.reported = b.reported
      BY <1>1, ZenonT(30) DEF Timed, Shape, Fields, Consumed
    <2>2. IsFiniteSet(d.queue)
      BY <2>1, FS_EmptySet, ZenonT(30)
    <2> HIDE DEF d
    <2>3. Timed(d) /\ Steady(b, d)
      BY <2>1, <2>2 DEF Timed, OnSchedule, Steady
    <2> QED
      BY <2>1, <2>3 DEF d
  <1>2. CASE ~ (b.dynamic /\ active /\ c.cutoff # b.cutoff)
    <2>1. d = b
      BY <1>2 DEF Consumed
    <2> QED
      BY <2>1 DEF Steady
  <1> QED
    BY <1>1, <1>2, Zenon

LEMMA AnchoredTimed ==
    ASSUME NEW b, NEW ts \in Int, Timed(b), ClockInv
    PROVE  Timed(Anchored(b, ts)) /\ Steady(b, Anchored(b, ts)) /\ Anchored(b, ts).based
  <1> DEFINE d == Consumed(b, curve)
             a == [d EXCEPT !.wall = now - ts, !.based = TRUE]
  <1>1. Timed(d) /\ d.based = b.based
    BY ConsumedTimed, Zenon DEF ClockInv
  <1>2. CASE ~ b.based
    <2>1. now \in Int /\ Anchored(b, ts) = a
      BY <1>2 DEF Anchored, ClockInv, JumpInv, Control
    <2> HIDE DEF d
    <2>2. /\ Shape(a) /\ a.wall = now - ts /\ a.based = TRUE /\ a.queue = d.queue
          /\ a.shift = d.shift /\ a.target = d.target /\ a.late = d.late
      BY <1>1, Zenon DEF Timed, Shape, Fields
    <2>3. d.queue = {}
      BY <1>1, <1>2, ZenonT(30) DEF Timed
    <2> HIDE DEF a
    <2>4. Timed(a)
      BY <1>1, <2>1, <2>2, <2>3 DEF Timed, OnSchedule
    <2> QED
      BY <1>2, <2>1, <2>2, <2>4 DEF Steady
  <1>3. CASE b.based
    <2>1. Anchored(b, ts) = b
      BY <1>3 DEF Anchored
    <2> QED
      BY <1>3, <2>1 DEF Steady
  <1> QED
    BY <1>2, <1>3
LEMMA OffsetInt ==
    ASSUME NEW b, NEW c, b.target \in Int, c.from \in Int, c.to \in Int, c.start \in Int, NEW at \in Int
    PROVE  Offset(b, c, at) \in Int
  <1>1. Delay(c, at) \in Int
    BY DelayInt
  <1> QED
    BY <1>1 DEF Offset

LEMMA QueuedTimed ==
    ASSUME NEW b, NEW c, NEW ts \in Int, NEW key, Timed(b), b.based, now \in Int,
           c.from \in Int, c.to \in Int, c.start \in Int
    PROVE  Timed(Queued(b, c, ts, key)) /\ Steady(b, Queued(b, c, ts, key))
  <1> DEFINE slot == PlayAt(b, ts)
             off == Offset(b, c, now)
             entry == [ts |-> ts, playAt |-> slot]
             m == [b EXCEPT !.late = Larger(b.late, now - (slot + off))]
             q == (IF b.catchUp THEN {} ELSE m.queue) \cup {entry}
             n == [m EXCEPT !.catchUp = FALSE, !.queue = q]
  <1>1. off \in Int
    BY OffsetInt DEF Timed
  <1>2. slot \in Int
    BY DEF PlayAt, Timed
  <1>3. entry \in Entry /\ entry.playAt = slot /\ entry.ts = ts
    BY <1>2 DEF Entry
  <1>4. Queued(b, c, ts, key) = IF b.catchUp /\ ~ key THEN m ELSE n
    BY Zenon DEF Queued
  <1> HIDE DEF slot, off
  <1>5. Larger(b.late, now - (slot + off)) \in Nat
    BY <1>1, <1>2 DEF Larger, Timed
  <1>6. /\ Shape(m) /\ m.wall = b.wall /\ m.shift = b.shift /\ m.target = b.target
        /\ m.late \in Nat /\ m.queue = b.queue /\ m.based = b.based /\ m.reported = b.reported
    BY <1>5, Zenon DEF Timed, Shape, Fields
  <1> HIDE DEF m
  <1>7. Timed(m) /\ Steady(b, m)
    BY <1>6, Zenon DEF Timed, OnSchedule, Steady, PlayAt
  <1>8. IsFiniteSet(q)
    <2>1. IsFiniteSet(m.queue) /\ IsFiniteSet({})
      BY <1>7, FS_EmptySet, ZenonT(30) DEF Timed
    <2> HIDE DEF entry
    <2> QED
      BY <2>1, FS_AddElement, Zenon
  <1>9. \A p \in q : p \in Entry /\ p.playAt = PlayAt(b, p.ts)
    <2>1. PlayAt(b, entry.ts) = slot
      BY <1>3 DEF slot
    <2> HIDE DEF entry
    <2> QED
      BY <1>3, <1>6, <2>1, ZenonT(30) DEF Timed, OnSchedule
  <1> HIDE DEF q
  <1>10. /\ Shape(n) /\ n.wall = m.wall /\ n.shift = m.shift /\ n.target = m.target
         /\ n.late = m.late /\ n.queue = q /\ n.based = m.based /\ n.reported = m.reported
    BY <1>6, Zenon DEF Shape, Fields
  <1> HIDE DEF n
  <1>11. \A p : PlayAt(n, p) = PlayAt(b, p)
    BY <1>6, <1>10 DEF PlayAt
  <1>12. Timed(n) /\ Steady(b, n)
    BY <1>6, <1>7, <1>8, <1>9, <1>10, <1>11, ZenonT(30) DEF Timed, OnSchedule, Steady
  <1> QED
    BY <1>4, <1>7, <1>12, ZenonT(30)

(* A queue moved along. *)
Along(p, by) == [p EXCEPT !.playAt = @ + by]
Entries(Q) == IsFiniteSet(Q) /\ \A p \in Q : p \in Entry
MovedAlong(M, Q, by) == \A e \in M : \E p \in Q : e = Along(p, by)
Follows(M, Q, by) == \A e \in M : e \in Entry /\ \E p \in Q : e.ts = p.ts /\ e.playAt = p.playAt + by

LEMMA AlongTimed ==
    ASSUME NEW Q, NEW M, NEW by \in Int, Entries(Q), MovedAlong(M, Q, by)
    PROVE  IsFiniteSet(M) /\ Follows(M, Q, by)
  <1> DEFINE f == [p \in Q |-> Along(p, by)]
             I == {f[p] : p \in Q}
  <1>1. f = [p \in Q |-> f[p]] /\ I = {f[p] : p \in Q} /\ M \in SUBSET I
    BY DEF MovedAlong
  <1>2. ASSUME NEW e \in M
        PROVE  e \in Entry /\ \E p \in Q : e.ts = p.ts /\ e.playAt = p.playAt + by
    <2>1. PICK p \in Q : e = Along(p, by)
      BY DEF MovedAlong
    <2>2. p \in Entry
      BY DEF Entries
    <2>3. e \in Entry /\ e.ts = p.ts /\ e.playAt = p.playAt + by
      BY <2>1, <2>2 DEF Entry, Along
    <2> QED
      BY <2>3
  <1>3. IsFiniteSet(I)
    <2> HIDE DEF f, I
    <2> QED
      BY <1>1, ImageFinite DEF Entries
  <1>4. IsFiniteSet(M)
    <2> HIDE DEF I
    <2> QED
      BY <1>1, <1>3, FS_Subset, Zenon
  <1> QED
    BY <1>2, <1>4, Zenon DEF Follows

LEMMA MovedTimed ==
    ASSUME NEW b, NEW by \in Int, NEW reset, Timed(b)
    PROVE  LET m == Moved(b, by, reset) IN
           /\ Timed(m) /\ m.wall = b.wall + by /\ m.shift = b.shift /\ m.target = b.target
           /\ m.based = b.based /\ m.reported = b.reported
  <1> DEFINE m == Moved(b, by, reset)
             along == {[p EXCEPT !.playAt = @ + by] : p \in b.queue}
  <1>1. /\ Shape(m) /\ m.wall = b.wall + by /\ m.shift = b.shift /\ m.target = b.target
        /\ m.based = b.based /\ m.reported = b.reported /\ m.late = 0
        /\ m.queue = IF reset THEN {} ELSE along
    BY Zenon DEF Timed, Shape, Fields, Moved
  <1>2. /\ IsFiniteSet(along)
        /\ Follows(along, b.queue, by)
    <2>1. MovedAlong(along, b.queue, by)
      BY DEF MovedAlong, Along
    <2>2. Entries(b.queue)
      BY Zenon DEF Timed, OnSchedule, Entries
    <2> HIDE DEF along
    <2> QED
      BY <2>1, <2>2, AlongTimed
  <1>3. b.queue = {} => along = {}
    BY Zenon
  <1> HIDE DEF m, along
  <1>4. IsFiniteSet(m.queue) /\ (~ m.based => m.queue = {})
    <2>1. IsFiniteSet(m.queue)
      BY <1>1, <1>2, FS_EmptySet, Zenon
    <2>2. ~ b.based => b.queue = {}
      BY Zenon DEF Timed
    <2> QED
      BY <1>1, <1>3, <2>1, <2>2, Zenon
  <1>5. ASSUME NEW e \in m.queue PROVE e \in Entry /\ e.playAt = PlayAt(m, e.ts)
    <2>1. e \in along
      BY <1>1
    <2>2. PICK p \in b.queue : e.ts = p.ts /\ e.playAt = p.playAt + by
      BY <1>2, <2>1, ZenonT(30) DEF Follows
    <2>3. p \in Entry /\ p.playAt = PlayAt(b, p.ts)
      BY Zenon DEF Timed, OnSchedule
    <2>4. p.ts \in Int
      BY <2>3, Zenon DEF Entry
    <2> QED
      BY <1>1, <1>2, <2>1, <2>2, <2>3, <2>4 DEF PlayAt, Timed, Follows
  <1>6. m.wall \in Int /\ m.shift \in Int /\ m.target \in Nat /\ m.late \in Nat
    <2>1. b.wall \in Int /\ b.shift \in Int /\ b.target \in Nat
      BY Zenon DEF Timed
    <2> QED BY <1>1, <2>1
  <1>7. Timed(m)
    BY <1>1, <1>4, <1>5, <1>6, Zenon DEF Timed, OnSchedule
  <1> QED
    BY <1>1, <1>7, Zenon DEF m

LEMMA RetargetedTimed ==
    ASSUME NEW b, Timed(b), base \in Nat, curve.shift \in Int
    PROVE  /\ Timed(Retargeted(b)) /\ Retargeted(b).based = b.based
           /\ Retargeted(b).reported = b.reported
           /\ ~ (active /\ ~ b.dynamic) => Steady(b, Retargeted(b))
  <1> DEFINE n == Retargeted(b)
             by == base - b.target
             along == {[p EXCEPT !.playAt = @ + by] : p \in b.queue}
  <1>1. /\ Shape(n) /\ n.wall = b.wall /\ n.target = base
        /\ n.shift = (IF active /\ ~ b.dynamic THEN curve.shift ELSE b.shift)
        /\ n.based = b.based /\ n.reported = b.reported /\ n.late = (IF job.changed THEN 0 ELSE b.late)
        /\ n.queue = along
    BY ZenonT(30) DEF Timed, Shape, Fields, Retargeted
  <1>2. by \in Int
    BY DEF Timed
  <1>3. b.queue = {} => along = {}
    OBVIOUS
  <1>4. /\ IsFiniteSet(along)
        /\ Follows(along, b.queue, by)
    <2> HIDE DEF by
    <2>1. MovedAlong(along, b.queue, by)
      BY DEF MovedAlong, Along
    <2>2. Entries(b.queue)
      BY ZenonT(30) DEF Timed, OnSchedule, Entries
    <2> HIDE DEF along
    <2> QED
      BY <1>2, <2>1, <2>2, AlongTimed, Zenon
  <1> HIDE DEF n, along
  <1>5. ASSUME NEW e \in n.queue PROVE e \in Entry /\ e.playAt = PlayAt(n, e.ts)
    <2>1. e \in along
      BY <1>1
    <2>2. PICK p \in b.queue : e.ts = p.ts /\ e.playAt = p.playAt + by
      BY <1>4, <2>1, Zenon DEF Follows
    <2>3. p \in Entry /\ p.playAt = PlayAt(b, p.ts)
      BY Zenon DEF Timed, OnSchedule
    <2>4. p.ts \in Int
      BY <2>3, Zenon DEF Entry
    <2> QED
      BY <1>1, <1>4, <2>1, <2>2, <2>3, <2>4, SMTT(30) DEF PlayAt, Timed, Follows
  <1>6. n.late \in Nat /\ n.shift \in Int
    BY <1>1, SMTT(30) DEF Timed
  <1>7. Timed(n)
    BY <1>1, <1>3, <1>4, <1>5, <1>6, ZenonT(30) DEF Timed, OnSchedule
  <1>8. ~ (active /\ ~ b.dynamic) => Steady(b, n)
    BY <1>1 DEF Steady
  <1> QED
    BY <1>1, <1>7, <1>8 DEF n
LEMMA SteadySelf ==
    ASSUME NEW b
    PROVE  Steady(b, b)
  BY Zenon DEF Steady

LEMMA SteadyTransitive ==
    ASSUME NEW a, NEW b, NEW c, Steady(c, b), Steady(b, a)
    PROVE  Steady(c, a)
  BY DEF Steady

(* A buffer put on the sender's clock is within the tolerance of it. *)
LEMMA SenderClockTimed ==
    ASSUME NEW b, Timed(b), NEW root \in Int
    PROVE  LET n == OnSenderClock(b, root) IN
           /\ Timed(n) /\ n.shift = b.shift /\ n.based = b.based /\ n.reported = b.reported
           /\ Distance(n.wall - n.shift, root) <= Tolerance
  <1> DEFINE n == OnSenderClock(b, root)
             reset == senderBase.known /\ Distance(root + b.shift, b.wall) > correctionMargin(b.target)
             by == root + b.shift - b.wall
             m == Moved(b, by, reset)
  <1>1. b.wall \in Int /\ b.shift \in Int /\ by \in Int /\ Tolerance \in Nat
    BY PlayoutConstants DEF Timed
  <1>2. n = IF Distance(root + b.shift, b.wall) <= Tolerance THEN b ELSE m
    BY Zenon DEF OnSenderClock
  <1>3. /\ Timed(m) /\ m.wall = b.wall + by /\ m.shift = b.shift
        /\ m.based = b.based /\ m.reported = b.reported
    <2> HIDE DEF by, reset
    <2> QED
      BY <1>1, MovedTimed, Zenon
  <1>4. Distance(root + b.shift, b.wall) <= Tolerance => Distance(b.wall - b.shift, root) <= Tolerance
    BY <1>1 DEF Distance
  <1> HIDE DEF m
  <1>5. Distance(m.wall - m.shift, root) <= Tolerance
    BY <1>1, <1>3 DEF Distance
  <1> QED
    BY <1>2, <1>3, <1>4, <1>5, Zenon

LEMMA ExcessInt ==
    ASSUME NEW b, Timed(b), now \in Int
    PROVE  Excess(b) \in Int
  <1> DEFINE f == [p \in b.queue |-> p.playAt - now]
             I == {f[p] : p \in b.queue}
             ahead == {p.playAt - now : p \in b.queue} \cup {0}
  <1>1. \A p \in b.queue : p.playAt \in Int
    BY DEF Timed, OnSchedule, Entry
  <1>2. f = [p \in b.queue |-> f[p]] /\ I = {f[p] : p \in b.queue} /\ ahead = I \cup {0}
    BY Zenon
  <1>3. ahead \in SUBSET Int /\ ahead # {}
    BY <1>1
  <1> HIDE DEF f
  <1>4. IsFiniteSet(I)
    <2> HIDE DEF I
    <2> QED
      BY <1>2, ImageFinite DEF Timed
  <1> HIDE DEF I
  <1>5. IsFiniteSet(ahead)
    BY <1>2, <1>4, FS_AddElement, Zenon
  <1> DEFINE most == CHOOSE d \in ahead : \A e \in ahead : e <= d
  <1>6. Excess(b) = most - b.target
    BY DEF Excess
  <1> HIDE DEF ahead
  <1>7. \E d \in ahead : \A e \in ahead : e <= d
    BY <1>3, <1>5, LargestExists, Zenon
  <1>8. most \in ahead
    BY <1>7, Zenon
  <1> HIDE DEF most
  <1> QED
    BY <1>3, <1>6, <1>8 DEF Timed

LEMMA RecoveredTimed ==
    ASSUME NEW b, NEW clocks, NEW r, Timed(b), r.shift \in Int
    PROVE  LET n == Recovered(b, clocks, r) IN
           /\ Timed(n) /\ n.shift = b.shift /\ n.based = b.based /\ n.reported = b.reported
           /\ clocks => n.wall = b.wall - r.shift
  <1> DEFINE m == Moved(b, - r.shift, TRUE)
             a == [m EXCEPT !.recoveryAt = r.at]
             n == Recovered(b, clocks, r)
  <1>1. n = IF clocks \/ (b.recoveryAt # r.at /\ Excess(b) > MinMargin) THEN a ELSE b
    BY DEF Recovered
  <1>2. /\ Timed(m) /\ m.wall = b.wall + (- r.shift) /\ m.shift = b.shift
        /\ m.based = b.based /\ m.reported = b.reported
    <2>1. - r.shift \in Int
      OBVIOUS
    <2> QED
      BY <2>1, MovedTimed, ZenonT(30)
  <1> HIDE DEF m, n
  <1>3. /\ Shape(a) /\ a.wall = m.wall /\ a.shift = m.shift /\ a.target = m.target /\ a.late = m.late
        /\ a.queue = m.queue /\ a.based = m.based /\ a.reported = m.reported
    BY <1>2 DEF Timed, Shape, Fields
  <1> HIDE DEF a
  <1>4. Timed(a)
    BY <1>2, <1>3, Zenon DEF Timed, OnSchedule, PlayAt
  <1>5. a.wall = b.wall - r.shift
    BY <1>2, <1>3, ZenonT(30) DEF Timed
  <1>6. Timed(n) /\ n.shift = b.shift /\ n.based = b.based /\ n.reported = b.reported
    BY <1>1, <1>2, <1>3, <1>4, Zenon
  <1>7. clocks => n.wall = b.wall - r.shift
    BY <1>1, <1>5, Zenon
  <1> QED
    BY <1>6, <1>7, Zenon DEF n
(* The first track of the stream exists. *)
LEMMA RootInt ==
    ASSUME ClockInv, Tracked # {}, NEW seen, \A k \in Kind : Timed(seen[k])
    PROVE  SenderRoot(seen) \in Int
  <1> DEFINE places == {place[k] : k \in Tracked}
             anchor == CHOOSE k \in Tracked : FirstOf(Tracked, k)
  <1>1. places \in SUBSET Nat /\ places # {}
    BY DEF ClockInv, Tracked
  <1>2. PICK n \in places : \A l \in places : n <= l
    <2> HIDE DEF places
    <2> QED
      BY <1>1, LeastExists, ZenonT(30)
  <1>3. \E k \in Tracked : FirstOf(Tracked, k)
    BY <1>2, Zenon DEF FirstOf
  <1>4. anchor \in Tracked
    BY <1>3, Zenon
  <1>5. SenderRoot(seen) = IF senderBase.known THEN senderBase.wall
                           ELSE seen[anchor].wall - seen[anchor].shift
    BY DEF SenderRoot
  <1> HIDE DEF anchor
  <1>6. Timed(seen[anchor])
    BY <1>4, Zenon DEF Tracked
  <1> QED
    BY <1>5, <1>6 DEF Timed, ClockInv

LEMMA CorrectionInt ==
    ASSUME ClockInv, NEW on, \A k \in Kind : Timed(on[k]), NEW over \in SUBSET Kind, NEW clocks
    PROVE  Correction(on, over, clocks).shift \in Int
  <1> DEFINE f == [k \in over |-> Excess(on[k])]
             worst == CHOOSE k \in over : \A j \in over : Excess(on[j]) <= Excess(on[k])
             fresh == \/ clocks \/ now - recovery.at >= RecoveryWindow
                      \/ \E k \in over : on[k].recoveryAt = recovery.at
  <1>1. Correction(on, over, clocks) =
            IF over # {} /\ fresh THEN [at |-> now, shift |-> Excess(on[worst])] ELSE recovery
    BY DEF Correction
  <1>2. IsFiniteSet(over)
    BY PlayoutConstants, FS_Subset, Zenon
  <1>3. \A k \in over : Excess(on[k]) \in Int
    BY ExcessInt DEF ClockInv, JumpInv, Control
  <1>4. f \in [over -> Int] /\ \A k \in over : f[k] = Excess(on[k])
    BY <1>3, Zenon
  <1> HIDE DEF f, fresh
  <1>5. over # {} => \E k \in over : \A j \in over : f[j] <= f[k]
    BY <1>2, <1>4, LargestAt, Zenon
  <1>6. over # {} => \E k \in over : \A j \in over : Excess(on[j]) <= Excess(on[k])
    BY <1>4, <1>5, Zenon
  <1>7. over # {} => worst \in over
    BY <1>6, Zenon
  <1> HIDE DEF worst
  <1>8. over # {} => Excess(on[worst]) \in Int
    BY <1>3, <1>7, Zenon
  <1> QED
    BY <1>1, <1>8, SMTT(30) DEF ClockInv

-----------------------------------------------------------------------------
(* What a step does to the schedules: all stay on time, and a track that was
   and remains on the sender's clock is steady. *)
Scheduled == \A j \in Kind : Timed(buf'[j]) /\ (j \in aligned' => Steady(buf[j], buf'[j]))

LEMMA OneTimed ==
    ASSUME ClockInv, NEW k \in Kind, NEW b, buf' = [buf EXCEPT ![k] = b], Timed(b),
           k \in aligned' => Steady(buf[k], b)
    PROVE  Scheduled
  <1>1. buf' = [j \in Kind |-> IF j = k THEN b ELSE buf[j]]
    BY ZenonT(30) DEF ClockInv, JumpInv
  <1>2. \A j \in Kind : Timed(buf[j])
    BY Zenon DEF ClockInv
  <1> QED
    BY <1>1, <1>2, SteadySelf, ZenonT(30) DEF Scheduled

LEMMA ClockTypes ==
    ASSUME ClockInv
    PROVE  /\ now \in Nat /\ now \in Int /\ base \in Nat /\ curve.from \in Int /\ curve.to \in Int
           /\ curve.start \in Int /\ \A k \in Kind : Timed(buf[k])
           /\ curve.shift \in Int
  BY SMTT(30) DEF ClockInv, JumpInv, Control, DelayInv, DelayTypes
LEMMA ArrivingTimed ==
    ASSUME ClockInv, NEW k \in Kind, NEW ts \in Int
    PROVE  /\ Timed(Arriving(k, ts)) /\ Steady(buf[k], Arriving(k, ts)) /\ Arriving(k, ts).based
           /\ Arriving(k, ts).wall + ts \in Int
  <1> DEFINE a == Anchored(buf[k], ts)
             c == Consumed(a, curve)
  <1>1. Timed(a) /\ Steady(buf[k], a) /\ a.based
    BY ClockTypes, AnchoredTimed, Zenon
  <1>2. Arriving(k, ts) = c
    BY Zenon DEF Arriving
  <1> HIDE DEF a
  <1>3. Timed(c) /\ Steady(a, c) /\ c.based
    BY <1>1, ClockTypes, ConsumedTimed, Zenon
  <1> HIDE DEF c
  <1>4. Steady(buf[k], c)
    BY <1>1, <1>3, SteadyTransitive, Zenon
  <1>5. c.wall + ts \in Int
    <2>1. c.wall \in Int
      BY <1>3, Zenon DEF Timed
    <2> QED BY <2>1
  <1> QED
    BY <1>2, <1>3, <1>4, <1>5, Zenon

LEMMA PushScheduled ==
    ASSUME ClockInv, NEW k \in Kind, NEW ts \in Int, NEW key,
           PushStale(k, ts) \/ PushPlain(k, ts, key)
    PROVE  Scheduled
  <1> DEFINE a == Arriving(k, ts)
             q == Queued(a, curve, ts, key)
  <1>1. Timed(a) /\ Steady(buf[k], a) /\ a.based
    BY ArrivingTimed
  <1>2. CASE PushStale(k, ts)
    <2>1. buf' = [buf EXCEPT ![k] = a]
      BY <1>2 DEF PushStale
    <2> HIDE DEF a
    <2> QED
      BY <1>1, <2>1, OneTimed, Zenon
  <1>3. CASE PushPlain(k, ts, key)
    <2>1. buf' = [buf EXCEPT ![k] = q]
      BY <1>3 DEF PushPlain
    <2> HIDE DEF a
    <2>2. Timed(q) /\ Steady(a, q)
      BY <1>1, ClockTypes, QueuedTimed, Zenon
    <2> HIDE DEF q
    <2>3. Steady(buf[k], q)
      BY <1>1, <2>2, SteadyTransitive, Zenon
    <2> QED
      BY <2>1, <2>2, <2>3, OneTimed, ZenonT(30)
  <1> QED
    BY <1>2, <1>3, Zenon

LEMMA PushJumpScheduled ==
    ASSUME ClockInv, NEW k \in Kind, NEW ts \in Int, PushJump(k, ts)
    PROVE  Scheduled /\ shift' \in Int /\ curve'.shift \in Int
  <1> DEFINE a == Arriving(k, ts)
             d == Consumed(a, curve')
             q == Queued(d, curve', ts, TRUE)
  <1>1. Timed(a) /\ Steady(buf[k], a) /\ a.based /\ a.wall + ts \in Int
    BY ArrivingTimed, Zenon
  <1>2. Jump(a.wall + ts) /\ buf' = [buf EXCEPT ![k] = q]
    BY Zenon DEF PushJump
  <1> HIDE DEF a
  <1>3. shift' \in Int /\ curve'.shift = shift' /\ curve'.from = base /\ curve'.to = base
        /\ curve'.start = now
    BY <1>1, <1>2, ClockTypes, SMTT(30) DEF Jump
  <1>4. /\ curve'.shift \in Int /\ curve'.from \in Int /\ curve'.to \in Int /\ curve'.start \in Int
        /\ now \in Int
    BY <1>3, ClockTypes, SMTT(30)
  <1>5. Timed(d) /\ Steady(a, d) /\ d.based
    BY <1>1, <1>4, ConsumedTimed, Zenon
  <1> HIDE DEF d
  <1>6. Timed(q) /\ Steady(d, q)
    BY <1>4, <1>5, QueuedTimed, Zenon
  <1> HIDE DEF q
  <1>7. Steady(buf[k], q)
    BY <1>1, <1>5, <1>6, SteadyTransitive, Zenon
  <1>8. Scheduled
    BY <1>2, <1>6, <1>7, OneTimed, ZenonT(30)
  <1> QED
    BY <1>3, <1>8, Zenon

LEMMA PopScheduled ==
    ASSUME ClockInv, NEW k \in Kind, PopTakes(k) \/ PopWaits(k) \/ SenderReport(k)
    PROVE  Scheduled
  <1> DEFINE b == Consumed(buf[k], curve)
  <1>1. Timed(b) /\ Steady(buf[k], b)
    BY ClockTypes, ConsumedTimed
  <1>2. CASE PopTakes(k)
    <2>1. PICK head \in b.queue : buf' = [buf EXCEPT ![k] = [b EXCEPT !.queue = b.queue \ {head}]]
      BY <1>2, ZenonT(30) DEF PopTakes
    <2> DEFINE q == b.queue \ {head}
               n == [b EXCEPT !.queue = q]
    <2> HIDE DEF b
    <2>2. IsFiniteSet(b.queue) /\ q \in SUBSET b.queue
      BY <1>1, Zenon DEF Timed
    <2> HIDE DEF q
    <2>3. IsFiniteSet(q)
      BY <2>2, FS_Subset, Zenon
    <2>4. /\ Shape(n) /\ n.wall = b.wall /\ n.shift = b.shift /\ n.target = b.target
          /\ n.late = b.late /\ n.queue = q /\ n.based = b.based /\ n.reported = b.reported
      BY <1>1 DEF Timed, Shape, Fields
    <2>5. buf' = [buf EXCEPT ![k] = n]
      BY <2>1, Zenon DEF q
    <2> HIDE DEF n
    <2>6. Timed(n) /\ Steady(b, n)
      BY <1>1, <2>2, <2>3, <2>4, ZenonT(30) DEF Timed, OnSchedule, PlayAt, Steady
    <2>7. Steady(buf[k], n)
      BY <1>1, <2>6, SteadyTransitive, ZenonT(30)
    <2> QED
      BY <2>5, <2>6, <2>7, OneTimed, Zenon
  <1>3. CASE PopWaits(k)
    <2>1. buf' = [buf EXCEPT ![k] = b]
      BY <1>3 DEF PopWaits
    <2> HIDE DEF b
    <2> QED
      BY <1>1, <2>1, OneTimed, Zenon
  <1>4. CASE SenderReport(k)
    <2> DEFINE a == buf[k]
               n == [a EXCEPT !.reported = TRUE]
    <2>1. buf' = [buf EXCEPT ![k] = n] /\ Timed(a)
      BY <1>4, ClockTypes, Zenon DEF SenderReport
    <2> HIDE DEF a
    <2>2. /\ Shape(n) /\ n.wall = a.wall /\ n.shift = a.shift /\ n.target = a.target
          /\ n.late = a.late /\ n.queue = a.queue /\ n.based = a.based /\ n.reported = TRUE
      BY <2>1, Zenon DEF Timed, Shape, Fields
    <2> HIDE DEF n
    <2>3. Timed(n) /\ Steady(a, n)
      BY <2>1, <2>2, Zenon DEF Timed, OnSchedule, PlayAt, Steady
    <2> QED
      BY <2>1, <2>3, OneTimed, Zenon DEF a
  <1> QED
    BY <1>2, <1>3, <1>4, Zenon
(* A track that joins or leaves is not on the sender's clock. *)
LEMMA TrackScheduled ==
    ASSUME ClockInv, NEW k \in Kind, Track(k) \/ Untrack(k)
    PROVE  Scheduled /\ aligned' \subseteq Tracked' /\ \A j \in Kind : place'[j] \in Nat
  <1>1. Control /\ ClockInv /\ joins \in Nat
    BY ZenonT(30) DEF ClockInv, JumpInv, Control
  <1>2. CASE Track(k)
    <2> DEFINE n == [NewBuffer(base) EXCEPT !.recoveryAt = recovery.at, !.dynamic = active,
                         !.shift = IF active THEN curve.shift ELSE 0,
                         !.cutoff = IF active THEN curve.cutoff ELSE Never]
    <2>1. /\ buf' = [buf EXCEPT ![k] = n] /\ place' = [place EXCEPT ![k] = joins + 1]
          /\ aligned' = aligned /\ k \notin Tracked
      BY <1>2 DEF Track, streamVars
    <2>2. /\ Shape(n) /\ n.wall = 0 /\ n.target = base /\ n.late = 0 /\ n.queue = {}
          /\ n.shift = (IF active THEN curve.shift ELSE 0)
      BY ZenonT(30) DEF Shape, Fields, NewBuffer
    <2> HIDE DEF n
    <2>3. Timed(n)
      <3>1. curve.shift \in Int /\ base \in Nat
        BY ClockTypes, Zenon
      <3>2. n.wall \in Int /\ n.shift \in Int /\ n.target \in Nat /\ n.late \in Nat
        BY <2>2, <3>1
      <3> QED BY <2>2, <3>2, EmptyTimed, Zenon
    <2>4. k \notin aligned'
      BY <2>1 DEF ClockInv
    <2>5. Scheduled
      BY <2>1, <2>3, <2>4, OneTimed, ZenonT(30)
    <2>6. place' = [j \in Kind |-> IF j = k THEN joins + 1 ELSE place[j]]
      BY <1>1, <2>1, ZenonT(30) DEF Control
    <2>7. \A j \in Kind : place'[j] \in Nat /\ (place[j] # 0 => place'[j] # 0)
      BY <1>1, <2>6, SMTT(30) DEF ClockInv
    <2> QED
      BY <2>1, <2>5, <2>7, Zenon DEF ClockInv, Tracked
  <1>3. CASE Untrack(k)
    <2> DEFINE n == NewBuffer(0)
    <2>1. /\ buf' = [buf EXCEPT ![k] = n] /\ place' = [place EXCEPT ![k] = 0]
          /\ aligned' = aligned \ {k}
      BY <1>3, Zenon DEF Untrack
    <2>2. /\ Shape(n) /\ n.wall = 0 /\ n.target = 0 /\ n.late = 0 /\ n.queue = {} /\ n.shift = 0
      BY ZenonT(30) DEF Shape, Fields, NewBuffer
    <2> HIDE DEF n
    <2>3. Timed(n)
      <3>1. n.wall \in Int /\ n.shift \in Int /\ n.target \in Nat /\ n.late \in Nat
        BY <2>2
      <3> QED BY <2>2, <3>1, EmptyTimed, Zenon
    <2>4. Scheduled
      BY <2>1, <2>3, OneTimed, Zenon
    <2>5. place' = [j \in Kind |-> IF j = k THEN 0 ELSE place[j]]
      BY <1>1, <2>1 DEF Control
    <2> QED
      BY <2>1, <2>4, <2>5, SMTT(30) DEF ClockInv, Tracked
  <1> QED
    BY <1>2, <1>3, Zenon

(* One that joins the curve is taken off it. *)
LEMMA RetargetScheduled ==
    ASSUME ClockInv, NEW k \in Kind, RetargetBuffer(k)
    PROVE  Scheduled /\ job'.late \in Nat /\ job'.at \in 0 .. now /\ aligned' \subseteq aligned
  <1> DEFINE n == Retargeted(buf[k])
  <1>1. /\ buf' = [buf EXCEPT ![k] = n] /\ job' = Release(job.todo \ {k})
        /\ aligned' = IF active /\ ~ buf[k].dynamic THEN aligned \ {k} ELSE aligned
    BY ZenonT(30) DEF RetargetBuffer
  <1>2. Timed(n) /\ (~ (active /\ ~ buf[k].dynamic) => Steady(buf[k], n))
    BY ClockTypes, RetargetedTimed, Zenon
  <1> HIDE DEF n
  <1>3. Scheduled
    BY <1>1, <1>2, OneTimed, Zenon
  <1>4. job'.late \in Nat /\ job'.at \in 0 .. now
    <2>1. job = [f \in JobFields |-> job[f]] /\ job.late \in Nat /\ job.at \in 0 .. now /\ now \in Nat
      BY DEF ClockInv, JumpInv, Control
    <2> QED
      BY <1>1, <2>1 DEF Release, Idle, JobFields
  <1> QED
    BY <1>1, <1>3, <1>4, ZenonT(30)

LEMMA SampleScheduled ==
    ASSUME ClockInv, NEW k \in Kind, AdjustSample(k)
    PROVE  Scheduled /\ job'.late \in Nat /\ job'.at \in 0 .. now
  <1> DEFINE b == Consumed(buf[k], curve)
             n == [b EXCEPT !.late = 0]
  <1>1. /\ buf' = [buf EXCEPT ![k] = n]
        /\ job' = [job EXCEPT !.todo = job.todo \ {k}, !.late = Larger(job.late, b.late)]
    BY Zenon DEF AdjustSample
  <1>2. Timed(b) /\ Steady(buf[k], b)
    BY ClockTypes, ConsumedTimed
  <1> HIDE DEF b
  <1>3. /\ Shape(n) /\ n.wall = b.wall /\ n.shift = b.shift /\ n.target = b.target
        /\ n.late = 0 /\ n.queue = b.queue /\ n.based = b.based /\ n.reported = b.reported
    BY <1>2, Zenon DEF Timed, Shape, Fields
  <1> HIDE DEF n
  <1>4. Timed(n) /\ Steady(b, n)
    <2>1. n.late = 0
      BY <1>3, Zenon
    <2>2. n.late \in Nat
      BY <2>1
    <2> QED BY <1>2, <1>3, <2>2, SameTimed, Zenon DEF Steady
  <1>5. Steady(buf[k], n)
    BY <1>2, <1>4, SteadyTransitive, Zenon
  <1>6. Scheduled
    BY <1>1, <1>4, <1>5, OneTimed, ZenonT(30)
  <1>7. job'.late = Larger(job.late, b.late) /\ job'.at = job.at
    BY <1>1, Zenon DEF ClockInv, JumpInv, Control, JobFields
  <1>8. Larger(job.late, b.late) \in Nat
    BY <1>2, ZenonT(30) DEF ClockInv, Timed, Larger
  <1> QED
    BY <1>6, <1>7, <1>8, Zenon DEF ClockInv

LEMMA SameScheduled ==
    ASSUME ClockInv, buf' = buf
    PROVE  Scheduled
  BY ClockTypes, SteadySelf, Zenon DEF Scheduled
(* correctClocks, buffer by buffer: with sender clocks every track ends within
   the tolerance of the new sender base. *)
LEMMA CorrectScheduled ==
    ASSUME ClockInv, correctClocks
    PROVE  /\ \A k \in Kind : Timed(buf'[k])
           /\ senderBase'.wall \in Int /\ recovery'.shift \in Int
           /\ \/ /\ aligned' = Tracked /\ senderBase'.known
                 /\ \A k \in Tracked : buf'[k].based /\ buf'[k].reported /\ Near(k)'
              \/ /\ aligned' = aligned /\ senderBase' = senderBase
                 /\ \E k \in Tracked : ~ (buf[k].based /\ buf[k].reported)
                    \/ ~ Cardinality(Tracked) >= 2
                 /\ \A k \in Kind : /\ buf[k].based => buf'[k].based
                                    /\ buf[k].reported => buf'[k].reported
  <1> DEFINE seen == [k \in Kind |-> Consumed(buf[k], curve)]
             clocks == SenderClocks(seen)
             root == SenderRoot(seen)
             on == [k \in Kind |-> IF clocks /\ k \in Tracked THEN OnSenderClock(seen[k], root)
                                 ELSE seen[k]]
             over == {k \in Tracked : Excessive(on[k])}
             next == Correction(on, over, clocks)
  <1>1. /\ recovery' = next /\ Tracked # {}
        /\ senderBase' = IF clocks THEN [known |-> TRUE,
                                         wall |-> root - (IF over = {} THEN 0 ELSE next.shift)]
                                   ELSE senderBase
        /\ aligned' = IF clocks THEN Tracked ELSE aligned
        /\ buf' = [k \in Kind |-> IF k \in Tracked /\ over # {} THEN Recovered(on[k], clocks, next)
                                  ELSE on[k]]
    BY ZenonT(30) DEF correctClocks
  <1>2. Tracked \subseteq Kind /\ over \in SUBSET Kind
    BY ZenonT(30) DEF Tracked
  <1>3. ASSUME NEW k \in Kind
        PROVE  Timed(seen[k]) /\ seen[k].based = buf[k].based /\ seen[k].reported = buf[k].reported
    BY ClockTypes, ConsumedTimed, Zenon
  <1>4. \A k \in Kind : on[k] = IF clocks /\ k \in Tracked THEN OnSenderClock(seen[k], root)
                                ELSE seen[k]
    OBVIOUS
  <1>5. clocks => \A k \in Tracked : seen[k].based /\ seen[k].reported
    BY Zenon DEF SenderClocks
  <1>6. ~ clocks => \/ ~ Cardinality(Tracked) >= 2
                    \/ \E k \in Tracked : ~ (seen[k].based /\ seen[k].reported)
    BY Zenon DEF SenderClocks
  <1> HIDE DEF seen, clocks
  <1>7. root \in Int
    BY <1>1, <1>3, RootInt, ZenonT(30)
  <1> HIDE DEF root
  <1>8. ASSUME NEW k \in Kind
        PROVE  /\ Timed(on[k]) /\ on[k].based = buf[k].based /\ on[k].reported = buf[k].reported
               /\ clocks /\ k \in Tracked => Distance(on[k].wall - on[k].shift, root) <= Tolerance
    <2> HIDE DEF on
    <2> QED
      BY <1>3, <1>4, <1>7, SenderClockTimed
  <1> HIDE DEF on
  <1>9. next.shift \in Int
    <2> HIDE DEF over
    <2> QED
      BY <1>2, <1>8, CorrectionInt, Zenon
  <1> HIDE DEF over, next
  <1>10. ASSUME NEW k \in Kind
         PROVE  /\ Timed(buf'[k]) /\ buf'[k].based = buf[k].based /\ buf'[k].reported = buf[k].reported
                /\ buf'[k].shift = on[k].shift
                /\ clocks /\ k \in Tracked =>
                      buf'[k].wall = on[k].wall - (IF over = {} THEN 0 ELSE next.shift)
    <2> DEFINE r == Recovered(on[k], clocks, next)
    <2>1. /\ Timed(r) /\ r.shift = on[k].shift /\ r.based = on[k].based /\ r.reported = on[k].reported
          /\ clocks => r.wall = on[k].wall - next.shift
      <3>1. Timed(on[k])
        BY <1>8, Zenon
      <3> QED BY <1>9, <3>1, RecoveredTimed, SMTT(30)
    <2>2. buf'[k] = IF k \in Tracked /\ over # {} THEN r ELSE on[k]
      BY <1>1, Zenon
    <2>3. on[k].wall \in Int
      BY <1>8, ZenonT(30) DEF Timed
    <2> HIDE DEF r
    <2>4. CASE k \in Tracked /\ over # {}
      BY <1>8, <2>1, <2>2, <2>4, Zenon
    <2>5. CASE over = {}
      <3>1. on[k].wall = on[k].wall - 0
        BY <2>3
      <3> QED BY <1>8, <2>2, <2>5, <3>1, Zenon
    <2>6. CASE k \notin Tracked
      BY <1>8, <2>2, <2>6, Zenon
    <2> QED
      BY <2>4, <2>5, <2>6, Zenon
  <1>11. senderBase'.wall \in Int /\ recovery'.shift \in Int
    <2>1. senderBase.wall \in Int
      BY Zenon DEF ClockInv
    <2>2. senderBase' = senderBase \/ senderBase'.wall = root - (IF over = {} THEN 0 ELSE next.shift)
      BY <1>1, Zenon
    <2>3. recovery' = next
      BY <1>1, Zenon
    <2> QED BY <1>7, <1>9, <2>1, <2>2, <2>3
  <1>12. CASE clocks
    <2>1. /\ aligned' = Tracked /\ senderBase'.known
          /\ senderBase'.wall = root - (IF over = {} THEN 0 ELSE next.shift)
      BY <1>1, <1>12, Zenon
    <2>2. ASSUME NEW k \in Tracked PROVE buf'[k].based /\ buf'[k].reported /\ Near(k)'
      <3>1. k \in Kind /\ on[k].wall \in Int /\ on[k].shift \in Int
        BY <1>2, <1>8, ZenonT(30) DEF Timed
      <3>2. /\ Distance(on[k].wall - on[k].shift, root) <= Tolerance /\ buf'[k].shift = on[k].shift
            /\ buf'[k].wall = on[k].wall - (IF over = {} THEN 0 ELSE next.shift)
        BY <1>8, <1>10, <1>12, <3>1, ZenonT(30)
      <3>3. Tolerance \in Nat
        BY PlayoutConstants, Zenon
      <3>4. Distance(buf'[k].wall - buf'[k].shift, senderBase'.wall) <= Tolerance
        <4> DEFINE d == IF over = {} THEN 0 ELSE next.shift
        <4>1. d \in Int
          BY <1>9
        <4>2. /\ buf'[k].wall = on[k].wall - d /\ buf'[k].shift = on[k].shift
              /\ senderBase'.wall = root - d
          BY <2>1, <3>2, Zenon
        <4> HIDE DEF d
        <4> DEFINE a == on[k].wall
                   s == on[k].shift
        <4>3. a \in Int /\ s \in Int /\ Distance(a - s, root) <= Tolerance
          BY <3>1, <3>2, Zenon
        <4>4. buf'[k].wall = a - d /\ buf'[k].shift = s
          BY <4>2, Zenon
        <4> HIDE DEF a, s
        <4>5. Distance((a - d) - s, root - d) = Distance(a - s, root)
          BY <1>7, <4>1, <4>3, SMTT(30) DEF Distance
        <4> QED BY <4>2, <4>3, <4>4, <4>5, Zenon
      <3> QED
        BY <1>3, <1>5, <1>10, <1>12, <3>1, <3>4, ZenonT(30) DEF Near, Distance
    <2> QED
      BY <1>10, <1>11, <2>1, <2>2, ZenonT(30)
  <1>13. CASE ~ clocks
    BY <1>1, <1>2, <1>3, <1>6, <1>10, <1>11, <1>13, ZenonT(30)
  <1> QED
    BY <1>12, <1>13, ZenonT(30)
-----------------------------------------------------------------------------
(* Every step of the stream is one of the controller, or leaves it alone. *)
LEMMA StreamDrives ==
    ASSUME ClockInv, [PlayoutNext]_playoutVars
    PROVE  [ControllerStep]_<<now, controllerVars>>
  <1>1. CASE \E k \in Kind : Arrives(k)
    <2>1. PICK k \in Kind : Arrives(k)
      BY <1>1, Zenon
    <2>2. PICK ts \in Nat, key \in {k # Video, TRUE} :
              PushStale(k, ts) \/ PushPlain(k, ts, key) \/ (key /\ PushJump(k, ts))
      BY <2>1, ZenonT(30) DEF Arrives
    <2>3. CASE PushStale(k, ts) \/ PushPlain(k, ts, key)
      BY <2>3 DEF PushStale, PushPlain
    <2>4. CASE PushJump(k, ts)
      <3>1. Jump(Arriving(k, ts).wall + ts) /\ now' = now
        BY <2>4, Zenon DEF PushJump
      <3>2. Arriving(k, ts).wall + ts \in Int
        BY ArrivingTimed
      <3> QED
        BY <3>1, <3>2, Zenon DEF ControllerStep
    <2> QED
      BY <2>2, <2>3, <2>4, Zenon
  <1>2. CASE \E k \in Kind : \/ PopTakes(k) \/ PopWaits(k) \/ SenderReport(k) \/ Track(k)
                             \/ Untrack(k) \/ RetargetBuffer(k) \/ AdjustSample(k)
    BY <1>2, Zenon DEF PopTakes, PopWaits, SenderReport, Track, Untrack, RetargetBuffer, AdjustSample
  <1>3. CASE \E s \in Settings : ConfigureDelay(s[1], s[2])
    BY <1>3, PlayoutConstants, ZenonT(30) DEF ConfigureDelay, ControllerStep
  <1>4. CASE AdjustStep
    <2>1. job.at \in 0 .. now /\ job.late \in Nat /\ Step(job.at, job.late) /\ now' = now
      BY <1>4, ZenonT(30) DEF AdjustStep, ClockInv
    <2> QED
      BY <2>1 DEF ControllerStep
  <1>5. CASE Tick \/ AdjustBegin \/ correctClocks
    BY <1>5, Zenon DEF Tick, AdjustBegin, correctClocks, ControllerStep
  <1>6. CASE UNCHANGED playoutVars
    BY <1>6 DEF playoutVars
  <1> QED
    BY <1>1, <1>2, <1>3, <1>4, <1>5, <1>6, Zenon DEF PlayoutNext

(* Where the controller's shift comes from. *)
LEMMA ShiftInt ==
    ASSUME ClockInv, [PlayoutNext]_playoutVars
    PROVE  shift' \in Int /\ curve'.shift \in Int
  <1>1. [ControllerStep]_<<now, controllerVars>>
    BY StreamDrives, Zenon
  <1>2. curve = [f \in CurveFields |-> curve[f]] /\ curve.shift \in Int /\ shift \in Int /\ now \in Nat
    BY DEF ClockInv, JumpInv, Control
  <1>3. CASE UNCHANGED controllerVars
    BY <1>2, <1>3 DEF controllerVars, curveVars, jumpVars
  <1>4. CASE \E delay \in Nat, o \in Options : ConfigureSpeed(delay, o)
    BY <1>2, <1>4, Zenon DEF ConfigureSpeed, curveVars, jumpVars
  <1>5. CASE \E delay \in Nat, o \in Options : ConfigurePolicy(delay, o)
    <2>1. PICK d : shift' = shift /\ curve' = IF active' THEN Flat(now, d) ELSE curve
      BY <1>5, Zenon DEF ConfigurePolicy, jumpVars
    <2> QED
      BY <1>2, <2>1, Zenon DEF Flat
  <1>6. CASE \E at \in 0 .. now, late \in Nat : Step(at, late)
    <2>1. PICK at \in 0 .. now, late \in Nat : Step(at, late)
      BY <1>6
    <2>2. CASE StepNothing(at)
      BY <1>2, <2>2, Zenon DEF StepNothing, controllerVars, curveVars, jumpVars
    <2>3. CASE StepRetires(at)
      BY <1>2, <2>3 DEF StepRetires, jumpVars, NoCurve
    <2>4. CASE StepCurve(at, late)
      <3>1. shift' = shift /\ curve'.shift = curve.shift
        BY <1>2, <2>4, Zenon DEF StepCurve, jumpVars, CurveFields
      <3> QED
        BY <1>2, <3>1
    <2> QED
      BY <2>1, <2>2, <2>3, <2>4, Zenon DEF Step
  <1>7. CASE \E mediaTime \in Int : Jump(mediaTime)
    BY <1>2, <1>7, SMTT(30) DEF Jump
  <1> QED
    BY <1>1, <1>3, <1>4, <1>5, <1>6, <1>7, Zenon DEF ControllerStep

(* The rest of ClockInv, after a step that leaves the stream's clock alone. *)
LEMMA SteadyClock ==
    ASSUME ClockInv, [PlayoutNext]_playoutVars, Scheduled,
           UNCHANGED <<recovery, senderBase>>, aligned' \subseteq Tracked',
           job'.late \in Nat, job'.at \in 0 .. now', \A k \in Kind : place'[k] \in Nat
    PROVE  ClockInv'
  <1>1. JumpInv' /\ DelayInv'
    BY StreamDrives, DelayStep, JumpStep, Zenon DEF ClockInv
  <1>2. shift' \in Int /\ curve'.shift \in Int
    BY ShiftInt, Zenon
  <1>3. \A k \in Kind : Timed(buf[k])'
    BY Zenon DEF Scheduled, Timed, Shape, OnSchedule, PlayAt
  <1> QED
    BY <1>1, <1>2, <1>3, Zenon DEF ClockInv
(* What SteadyClock asks for, and that no track is put on the sender's clock. *)
SteadyStep ==
    /\ Scheduled /\ UNCHANGED <<recovery, senderBase>>
    /\ aligned' \subseteq aligned /\ aligned' \subseteq Tracked'
    /\ job'.late \in Nat /\ job'.at \in 0 .. now' /\ \A k \in Kind : place'[k] \in Nat

LEMMA StepsSteady ==
    ASSUME ClockInv, [PlayoutNext]_playoutVars, ~ correctClocks
    PROVE  SteadyStep
  <1>1. /\ job.late \in Nat /\ job.at \in 0 .. now /\ \A k \in Kind : place[k] \in Nat
        /\ aligned \subseteq Tracked /\ now \in Nat
    BY ClockTypes, Zenon DEF ClockInv
  <1>2. CASE \E k \in Kind : Arrives(k)
    <2>1. PICK k \in Kind : Arrives(k)
      BY <1>2, Zenon
    <2>2. PICK ts \in Nat, key \in {k # Video, TRUE} :
              PushStale(k, ts) \/ PushPlain(k, ts, key) \/ (key /\ PushJump(k, ts))
      BY <2>1, Zenon DEF Arrives
    <2>3. Scheduled
      BY <2>2, PushScheduled, PushJumpScheduled
    <2>4. UNCHANGED <<now, recovery, senderBase, aligned, job, place>>
      BY <2>2, Zenon DEF PushStale, PushPlain, PushJump, streamVars
    <2> QED
      BY <1>1, <2>3, <2>4, Zenon DEF SteadyStep, Tracked
  <1>3. CASE \E k \in Kind : PopTakes(k) \/ PopWaits(k) \/ SenderReport(k)
    <2>1. Scheduled
      BY <1>3, PopScheduled, Zenon
    <2>2. UNCHANGED <<now, recovery, senderBase, aligned, job, place>>
      BY <1>3, Zenon DEF PopTakes, PopWaits, SenderReport, streamVars
    <2> QED
      BY <1>1, <2>1, <2>2, Zenon DEF SteadyStep, Tracked
  <1>4. CASE \E k \in Kind : Track(k) \/ Untrack(k)
    <2>1. Scheduled /\ aligned' \subseteq Tracked' /\ \A k \in Kind : place'[k] \in Nat
      BY <1>4, TrackScheduled, Zenon
    <2>2. UNCHANGED <<now, recovery, senderBase, job>> /\ aligned' \subseteq aligned
      BY <1>4, Zenon DEF Track, Untrack, streamVars
    <2> QED
      BY <1>1, <2>1, <2>2, Zenon DEF SteadyStep
  <1>5. CASE \E k \in Kind : RetargetBuffer(k)
    <2>1. Scheduled /\ job'.late \in Nat /\ job'.at \in 0 .. now /\ aligned' \subseteq aligned
      BY <1>5, RetargetScheduled, Zenon
    <2>2. UNCHANGED <<now, recovery, senderBase, place>>
      BY <1>5, Zenon DEF RetargetBuffer
    <2> QED
      BY <1>1, <2>1, <2>2, Zenon DEF SteadyStep, Tracked
  <1>6. CASE \E k \in Kind : AdjustSample(k)
    <2>1. Scheduled /\ job'.late \in Nat /\ job'.at \in 0 .. now
      BY <1>6, SampleScheduled, Zenon
    <2>2. UNCHANGED <<now, recovery, senderBase, aligned, place>>
      BY <1>6, Zenon DEF AdjustSample, streamVars
    <2> QED
      BY <1>1, <2>1, <2>2, Zenon DEF SteadyStep, Tracked
  <1>7. CASE \/ \E s \in Settings : ConfigureDelay(s[1], s[2])
             \/ AdjustBegin \/ AdjustStep \/ Tick \/ UNCHANGED playoutVars
    <2>1. UNCHANGED <<buf, recovery, senderBase, aligned, place>>
      BY <1>7, Zenon DEF ConfigureDelay, AdjustBegin, AdjustStep, Tick, playoutVars, streamVars
    <2>2. Scheduled
      BY <2>1, SameScheduled, Zenon
    <2>3. job'.late \in Nat /\ job'.at \in 0 .. now'
      <3>1. CASE \E s \in Settings : ConfigureDelay(s[1], s[2])
        <4>1. PICK c : job' = Retarget(c) /\ now' = now
          BY <3>1, Zenon DEF ConfigureDelay
        <4> QED
          BY <1>1, <4>1 DEF Retarget, Idle
      <3>2. CASE AdjustBegin
        BY <1>1, <3>2 DEF AdjustBegin, Idle
      <3>3. CASE AdjustStep
        BY <1>1, <3>3 DEF AdjustStep, Idle
      <3>4. CASE Tick \/ UNCHANGED playoutVars
        BY <1>1, <3>4 DEF Tick, playoutVars
      <3> QED
        BY <1>7, <3>1, <3>2, <3>3, <3>4, Zenon
    <2> QED
      BY <1>1, <2>1, <2>2, <2>3, Zenon DEF SteadyStep, Tracked
  <1> QED
    BY <1>2, <1>3, <1>4, <1>5, <1>6, <1>7, Zenon DEF PlayoutNext

LEMMA ClockStep ==
    ASSUME ClockInv, [PlayoutNext]_playoutVars
    PROVE  ClockInv'
  <1>1. CASE ~ correctClocks
    BY <1>1, StepsSteady, SteadyClock, Zenon DEF SteadyStep
  <1>2. CASE correctClocks
    <2>1. JumpInv' /\ DelayInv' /\ shift' \in Int /\ curve'.shift \in Int
      BY StreamDrives, DelayStep, JumpStep, ShiftInt, ZenonT(30) DEF ClockInv
    <2>2. UNCHANGED <<now, place, job>>
      BY <1>2, ZenonT(30) DEF correctClocks
    <2>3. /\ \A k \in Kind : Timed(buf'[k])
          /\ senderBase'.wall \in Int /\ recovery'.shift \in Int
          /\ aligned' = Tracked \/ aligned' = aligned
      BY <1>2, CorrectScheduled, ZenonT(30)
    <2>4. \A k \in Kind : Timed(buf[k])'
      BY <2>3, ZenonT(30) DEF Timed, Shape, OnSchedule, PlayAt
    <2>5. aligned' \subseteq Tracked'
      BY <2>2, <2>3, ZenonT(30) DEF ClockInv, Tracked
    <2> QED
      BY <2>1, <2>2, <2>3, <2>4, <2>5, Zenon DEF ClockInv
  <1> QED
    BY <1>1, <1>2

LEMMA InitClock ==
    ASSUME PlayoutInit
    PROVE  ClockInv /\ \E delay \in Nat, o \in Options : ControllerInit(delay, o)
  <1>1. PICK s \in Starts : ControllerInit(s[1], s[2])
    BY DEF PlayoutInit
  <1>2. s[1] \in Nat /\ s[2] \in Options
    BY PlayoutConstants
  <1>3. JumpInv /\ DelayInv
    BY <1>1, <1>2, InitJumps, InitBounds, Zenon
  <1>4. now = 0 /\ shift = 0 /\ curve.shift = 0
    BY <1>1 DEF ControllerInit, NoCurve
  <1>5. Timed(NewBuffer(0))
    <2> DEFINE n == NewBuffer(0)
    <2>1. Shape(n) /\ n.wall = 0 /\ n.target = 0 /\ n.late = 0 /\ n.queue = {} /\ n.shift = 0
      BY ZenonT(30) DEF Shape, Fields, NewBuffer
    <2> HIDE DEF n
    <2>2. Timed(n)
      <3>1. n.wall \in Int /\ n.shift \in Int /\ n.target \in Nat /\ n.late \in Nat
        BY <2>1
      <3> QED BY <2>1, <3>1, EmptyTimed, Zenon
    <2> QED
      BY <2>2, Zenon DEF n
  <1>6. /\ recovery.shift = 0 /\ senderBase.wall = 0 /\ aligned = {} /\ job.late = 0 /\ job.at = 0
        /\ \A k \in Kind : place[k] = 0 /\ buf[k] = NewBuffer(0)
    BY DEF PlayoutInit, Idle
  <1> QED
    BY <1>1, <1>2, <1>3, <1>4, <1>5, <1>6 DEF ClockInv

LEMMA ClockInvariant == PlayoutSpec => []ClockInv
  <1>1. PlayoutInit => ClockInv
    BY InitClock
  <1>2. ClockInv /\ [PlayoutNext]_playoutVars => ClockInv'
    BY ClockStep
  <1> QED
    BY <1>1, <1>2, PTL DEF PlayoutSpec

(* Queued packets and new arrivals of a track follow one schedule through
   changes of target, jumps and clock corrections (SetTarget, Push, Pop,
   dynamicOffsetLocked, correctClocks), for any tracks, settings and timing. *)
THEOREM SchedulesStayOne == PlayoutSpec => []OneSchedule
  <1>1. ClockInv => OneSchedule
    BY DEF ClockInv, Timed, OnSchedule, OneSchedule
  <1> QED
    BY <1>1, ClockInvariant, PTL

(* The stream drives the controller only as it may be driven: the playout of
   all tracks together implements the controller's own specification, whose
   Step takes a time not in the future and a lateness not negative. *)
THEOREM StreamImplementsController == PlayoutSpec => ControllerSpec
  <1>1. PlayoutInit => \E delay \in Nat, o \in Options : ControllerInit(delay, o)
    BY InitClock, Zenon
  <1>2. ClockInv /\ [PlayoutNext]_playoutVars => [ControllerStep]_<<now, controllerVars>>
    BY StreamDrives
  <1> QED
    BY <1>1, <1>2, ClockInvariant, PTL DEF PlayoutSpec, ControllerSpec

(* So the delay the stream's tracks play at stays within its limits, whatever
   lateness their buffers report and whenever a keyframe jumps. *)
THEOREM StreamDelayBounded == PlayoutSpec => []DelayBounded
  BY StreamImplementsController, DelayStaysBounded, PTL
-----------------------------------------------------------------------------
(* A stream has one audio and one video track: the ingest peer adds one
   transceiver of each kind (whip.go).  A third one without a sender report
   would keep the other two from being corrected together. *)
AudioAndVideo == \A j, k \in Kind \ {Video} : j = k

LEMMA TogetherStep ==
    ASSUME AudioAndVideo, ClockInv, TogetherInv, [PlayoutNext]_playoutVars
    PROVE  TogetherInv'
  <1>1. aligned \subseteq Tracked /\ Tracked \subseteq Kind
    BY Zenon DEF ClockInv, Tracked
  <1>2. CASE ~ correctClocks
    <2>1. SteadyStep
      BY <1>2, StepsSteady
    <2>2. ASSUME NEW k \in aligned'
          PROVE  /\ k \in aligned /\ buf'[k].based /\ buf'[k].reported
                 /\ buf'[k].wall - buf'[k].shift = buf[k].wall - buf[k].shift
      BY <1>1, <2>1, Zenon DEF SteadyStep, Scheduled, Steady, TogetherInv
    <2>3. senderBase' = senderBase
      BY <2>1, Zenon DEF SteadyStep
    <2> QED
      BY <2>2, <2>3, ZenonT(30) DEF TogetherInv, Near, Distance
  <1>3. CASE correctClocks
    <2>1. \/ /\ aligned' = Tracked /\ senderBase'.known
             /\ \A k \in Tracked : buf'[k].based /\ buf'[k].reported /\ Near(k)'
          \/ /\ aligned' = aligned /\ senderBase' = senderBase
             /\ \E k \in Tracked : ~ (buf[k].based /\ buf[k].reported)
                \/ ~ Cardinality(Tracked) >= 2
             /\ \A k \in Kind : /\ buf[k].based => buf'[k].based
                                /\ buf[k].reported => buf'[k].reported
      BY <1>3, CorrectScheduled, ZenonT(30)
    <2>2. CASE /\ aligned' = Tracked /\ senderBase'.known
               /\ \A k \in Tracked : buf'[k].based /\ buf'[k].reported /\ Near(k)'
      BY <2>2, ZenonT(30) DEF TogetherInv, Near, Distance
    <2>3. CASE /\ aligned' = aligned /\ senderBase' = senderBase
               /\ \E k \in Tracked : ~ (buf[k].based /\ buf[k].reported)
                  \/ ~ Cardinality(Tracked) >= 2
               /\ \A k \in Kind : /\ buf[k].based => buf'[k].based
                                  /\ buf[k].reported => buf'[k].reported
      <3>1. ASSUME NEW j \in aligned, NEW k \in aligned, j # k PROVE FALSE
        <4>1. \A l \in Kind : l = j \/ l = k
          BY <1>1, <3>1 DEF AudioAndVideo
        <4>2. Tracked = {j, k} /\ Tracked = {j} \cup {k}
          BY <1>1, <4>1, Zenon
        <4>3. Cardinality(Tracked) = 2
          <5>1. IsFiniteSet({j}) /\ Cardinality({j}) = 1 /\ k \notin {j}
            BY <3>1, FS_Singleton, ZenonT(30)
          <5>2. Cardinality({j} \cup {k}) = Cardinality({j}) + 1
            BY <5>1, FS_AddElement, Zenon
          <5> QED
            BY <4>2, <5>1, <5>2
        <4> QED
          BY <2>3, <4>2, <4>3 DEF TogetherInv
      <3>2. \A k \in aligned' : buf'[k].based /\ buf'[k].reported
        BY <1>1, <2>3 DEF TogetherInv
      <3> QED
        BY <2>3, <3>1, <3>2, ZenonT(30) DEF TogetherInv
    <2> QED
      BY <2>1, <2>2, <2>3, ZenonT(30)
  <1> QED
    BY <1>2, <1>3, Zenon

(* Tracks put on the sender's clock stay within twice the tolerance of each
   other, jumps set aside, through reports, jumps, retargeting, tracks that
   leave and come back, and every correction (correctClocks,
   alignSenderClocksLocked), for any delays, tolerances and timing. *)
THEOREM TimelineStaysOne ==
    ASSUME AudioAndVideo
    PROVE  PlayoutSpec => []OneTimeline
  <1>1. PlayoutInit => TogetherInv
    BY DEF PlayoutInit, TogetherInv
  <1>2. ClockInv /\ TogetherInv /\ [PlayoutNext]_playoutVars => TogetherInv'
    BY TogetherStep, Zenon
  <1>3. ClockInv /\ TogetherInv => OneTimeline
    <2> SUFFICES ASSUME ClockInv, TogetherInv, NEW j \in aligned, NEW k \in aligned
                 PROVE  Distance(buf[j].wall - buf[j].shift, buf[k].wall - buf[k].shift)
                            <= 2 * Tolerance
      BY Zenon DEF OneTimeline
    <2>1. /\ buf[j].wall - buf[j].shift \in Int /\ buf[k].wall - buf[k].shift \in Int
          /\ senderBase.wall \in Int /\ Tolerance \in Nat
      <3>1. Timed(buf[j]) /\ Timed(buf[k]) /\ senderBase.wall \in Int
        BY Zenon DEF ClockInv, Tracked
      <3>2. Tolerance \in Nat
        BY PlayoutConstants, Zenon
      <3>3. buf[j].wall \in Int /\ buf[j].shift \in Int /\ buf[k].wall \in Int /\ buf[k].shift \in Int
        BY <3>1, Zenon DEF Timed
      <3> QED BY <3>1, <3>2, <3>3
    <2>2. j # k => Near(j) /\ Near(k)
      BY DEF TogetherInv
    <2> QED
      BY <2>1, <2>2 DEF Near, Distance
  <1> QED
    BY <1>1, <1>2, <1>3, ClockInvariant, PTL DEF PlayoutSpec
=============================================================================
