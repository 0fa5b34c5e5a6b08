-------------------------------- MODULE Feed --------------------------------
(***************************************************************************)
(* One track's buffer and the goroutine of relay.Feed that empties it: Pop *)
(* with its timer and its pacing, and the calls that change the queue      *)
(* under a sleeping reader (delay.go, clock.go, relay.go).                 *)
(*                                                                         *)
(* Times are relative to now, so time never runs out: Tick brings every    *)
(* queued packet, timer and slot one tick nearer.  Which packets are       *)
(* accepted, with which clock they are mapped and when a correction is due *)
(* is the subject of Playout and Timeline; here packets arrive with any    *)
(* lag, and corrections, jumps and steps of the curve come at any time.    *)
(***************************************************************************)
EXTENDS PacketHeap

CONSTANTS
  Targets,           \* delays SetTarget may set
  Lags,              \* how late an arriving packet may be
  Moves,             \* what alignSenderClockLocked may move the clock by
  Offsets,           \* how far the delay curve may be above the target
  MaxFall,           \* what the curve may come down by between two Steps
  maxPaceLag,        \* 33ms
  Cadence,           \* 1s: a longer gap is no frame interval
  Margin,            \* correctionMargin
  MaxLate,           \* no queued packet is later than this
  MaxQueue,          \* bound on the packets queued
  MaxChanges         \* bound on SetTarget, moves, resets and jumps

ASSUME FeedConstants ==
  /\ Targets \subseteq Int /\ Lags \subseteq Int /\ Moves \subseteq Int /\ Offsets \subseteq Int
  /\ MaxFall \in Nat /\ maxPaceLag \in Nat /\ Cadence \in Nat /\ MaxLate \in Nat

VARIABLES
  queue, closed, target,
  reader,    \* "awake" (in Pop, not waiting), "parked" in ready.Wait, "returned"
  timer,     \* ticks until Buffer.timer fires, or Off
  wakes,     \* calls of wake that have fired and wait for the lock
  group,     \* playAt of the group being drained, or Ago
  groupGap, frameGap, nextSlot,
  offset,    \* the curve above the target: dynamicOffsetLocked
  fall,      \* what it may still come down by before the next Step
  changes

queueVars == <<queue, closed, target>>
readerVars == <<reader, timer, wakes>>
paceVars == <<group, groupGap, frameGap, nextSlot>>
curveVars == <<offset, fall>>
feedVars == <<queueVars, readerVars, paceVars, curveVars, changes>>

Off == -1
Low(a, b) == IF a <= b THEN a ELSE b
High(a, b) == IF a >= b THEN a ELSE b

(* The zero time, and every time so far back that no packet is within Cadence of it. *)
Ago == - (Cadence + MaxLate)

Dynamic == Offsets # {0}

Shifted(h, by) == [i \in 1 .. Len(h) |-> [h[i] EXCEPT !.playAt = @ + by]]

(* ready.Signal and Broadcast: there is one reader. *)
Signal == reader' = IF reader = "parked" THEN "awake" ELSE reader

-----------------------------------------------------------------------------
(* Pop.  A parked reader that is signalled stops its timer and looks again. *)
Due == queue[1].playAt + offset

lateAllowance(gap) == IF gap <= 0 THEN maxPaceLag ELSE Low(gap, maxPaceLag)

(* startGroupLocked, on the pacing p of the group before. *)
Learned(p) ==
  LET gap == queue[1].playAt - p.group IN
  IF p.group = Ago \/ gap <= 0 \/ gap >= Cadence THEN p.frameGap
  ELSE IF p.frameGap = 0 THEN gap ELSE (3 * p.frameGap + gap) \div 4

Packets == Len(SelectSeq(queue, LAMBDA item : item.playAt = queue[1].playAt))

StartedGroup(p) ==
  IF queue[1].playAt = p.group THEN p
  ELSE LET gap == Learned(p) IN
       [group |-> queue[1].playAt, frameGap |-> gap, nextSlot |-> 0,
        groupGap |-> IF Packets > 1 THEN ((gap * 4) \div 5) \div Packets ELSE 0]

(* paceHoldLocked for a packet that is due: the pacing it leaves, and the wait. *)
Paced ==
  LET p == StartedGroup([group |-> group, groupGap |-> groupGap,
                         frameGap |-> frameGap, nextSlot |-> nextSlot])
  IN IF - Due > lateAllowance(p.frameGap) THEN [p EXCEPT !.nextSlot = 0] ELSE p

Hold(p) == Low(High(0, p.nextSlot), lateAllowance(p.frameGap))

Pace(p) ==
  /\ group' = p.group /\ groupGap' = p.groupGap
  /\ frameGap' = p.frameGap /\ nextSlot' = p.nextSlot

(* chargePaceLocked *)
Charged(p) ==
  IF p.groupGap <= 0 THEN p
  ELSE [p EXCEPT !.nextSlot =
          (IF @ < - lateAllowance(p.frameGap) THEN 0 ELSE @) + p.groupGap]

Park(wait) == reader' = "parked" /\ timer' = wait /\ wakes' = wakes

PopReturns ==
  /\ reader = "awake" /\ queue = <<>> /\ closed
  /\ reader' = "returned" /\ timer' = Off /\ wakes' = wakes
  /\ UNCHANGED <<queueVars, paceVars, curveVars, changes>>

PopWaits ==
  /\ reader = "awake" /\ queue = <<>> /\ ~closed
  /\ Park(Off)
  /\ UNCHANGED <<queueVars, paceVars, curveVars, changes>>

PopSleeps ==
  /\ reader = "awake" /\ queue # <<>> /\ Due > 0
  /\ Park(Due)
  /\ UNCHANGED <<queueVars, paceVars, curveVars, changes>>

PopHolds ==
  /\ reader = "awake" /\ queue # <<>> /\ Due <= 0
  /\ \E p \in {Paced} : Hold(p) > 0 /\ Park(Hold(p)) /\ Pace(p)
  /\ UNCHANGED <<queueVars, curveVars, changes>>

(* Arrival order is kept as a rank among the packets queued. *)
Renumbered(h, gone) ==
  [i \in 1 .. Len(h) |-> IF h[i].order > gone THEN [h[i] EXCEPT !.order = @ - 1] ELSE h[i]]

PopTakes ==
  /\ reader = "awake" /\ queue # <<>> /\ Due <= 0
  /\ \E p \in {Paced} : Hold(p) = 0 /\ Pace(Charged(p))
  /\ queue' = Renumbered(Popped(queue), queue[1].order)
  /\ timer' = Off
  /\ UNCHANGED <<closed, target, reader, wakes, curveVars, changes>>

(* The timer fires, and its wake gets the lock. *)
TimerFires ==
  /\ timer = 0
  /\ timer' = Off /\ wakes' = wakes + 1
  /\ UNCHANGED <<queueVars, reader, paceVars, curveVars, changes>>

Wake ==
  /\ wakes > 0
  /\ wakes' = wakes - 1
  /\ Signal
  /\ UNCHANGED <<queueVars, timer, paceVars, curveVars, changes>>

-----------------------------------------------------------------------------
(* Mutant: only the first packet wakes the reader. *)
PushFirst(lag) ==
  LET item == [playAt |-> target - lag, order |-> Len(queue) + 1] IN
  /\ ~closed /\ Len(queue) < MaxQueue
  /\ queue' = Pushed(queue, item)
  /\ IF queue = <<>> THEN Signal ELSE reader' = reader
  /\ UNCHANGED <<closed, target, timer, wakes, paceVars, curveVars, changes>>

(* Push of a packet that is accepted: it wakes the reader only from the root. *)
Push(lag) ==
  LET item == [playAt |-> target - lag, order |-> Len(queue) + 1] IN
  /\ ~closed /\ Len(queue) < MaxQueue
  /\ queue' = Pushed(queue, item)
  /\ IF AtRoot(queue, item) THEN Signal ELSE reader' = reader
  /\ UNCHANGED <<closed, target, timer, wakes, paceVars, curveVars, changes>>

Change == changes < MaxChanges /\ changes' = changes + 1

(* SetTarget, called by ConfigureDelay for a tracked buffer. *)
SetTarget(delay) ==
  /\ ~closed /\ delay # target /\ Change
  /\ target' = delay
  /\ queue' = Shifted(queue, delay - target)
  /\ Signal
  /\ UNCHANGED <<closed, timer, wakes, paceVars, curveVars>>

(* moveClockLocked: the queue moves along with the clock ... *)
MoveClock(by) ==
  /\ ~closed /\ Change
  /\ queue' = Shifted(queue, by) /\ group' = Ago
  /\ Signal
  /\ UNCHANGED <<closed, target, timer, wakes, groupGap, frameGap, nextSlot, curveVars>>

(* ... or is dropped. *)
ResetClock ==
  /\ ~closed /\ Change
  /\ queue' = <<>> /\ group' = Ago
  /\ Signal
  /\ UNCHANGED <<closed, target, timer, wakes, groupGap, frameGap, nextSlot, curveVars>>

(* A keyframe jump of the stream, when the buffer first looks at it: in Push, Pop,
   adjustDelay or correctClocks. Nobody is signalled. *)
Jumped(to) ==
  /\ Dynamic /\ Change
  /\ queue' = <<>> /\ group' = Ago
  /\ offset' = to
  /\ UNCHANGED <<closed, target, readerVars, groupGap, frameGap, nextSlot, fall>>

(* adjustDelay: after a Step, which alone lets the curve move on, the readers of
   the stream's buffers are woken.  Untrack has taken a closed one off the list. *)
Adjust ==
  /\ Dynamic /\ fall < MaxFall
  /\ fall' = MaxFall
  /\ IF closed THEN reader' = reader ELSE Signal
  /\ UNCHANGED <<queueVars, timer, wakes, paceVars, offset, changes>>

(* Mutant: nobody is told. *)
CloseQuietly ==
  /\ ~closed
  /\ closed' = TRUE
  /\ queue' = IF Newest(queue) - target > Margin THEN <<>> ELSE queue
  /\ UNCHANGED <<target, readerVars, paceVars, curveVars, changes>>

Close ==
  /\ ~closed
  /\ closed' = TRUE
  /\ queue' = IF Newest(queue) - target > Margin THEN <<>> ELSE queue
  /\ Signal
  /\ UNCHANGED <<target, timer, wakes, paceVars, curveVars, changes>>

-----------------------------------------------------------------------------
(* Time passes while everybody waits: a goroutine that can run does so first. *)
Tick ==
  /\ reader # "awake" /\ wakes = 0 /\ timer # 0
  /\ queue' = Shifted(queue, -1)
  /\ timer' = IF timer = Off THEN Off ELSE timer - 1
  /\ group' = High(Ago, group - 1)
  /\ nextSlot' = High(- (maxPaceLag + 1), nextSlot - 1)
  /\ offset' \in {o \in Offsets : o <= offset + 1 /\ offset - o <= fall}
  /\ fall' = fall - High(0, offset - offset')
  /\ UNCHANGED <<closed, target, reader, wakes, groupGap, frameGap, changes>>

FeedInit ==
  /\ queue = <<>> /\ closed = FALSE /\ target \in Targets
  /\ reader = "awake" /\ timer = Off /\ wakes = 0
  /\ group = Ago /\ groupGap = 0 /\ frameGap = 0 /\ nextSlot = - (maxPaceLag + 1)
  /\ offset \in Offsets /\ fall = MaxFall
  /\ changes = 0

ReaderStep == PopReturns \/ PopWaits \/ PopSleeps \/ PopHolds \/ PopTakes

(* What goes on by itself: the reader, the runtime's timers, and time. *)
Runs == ReaderStep \/ TimerFires \/ Wake \/ Tick

FeedNext ==
  \/ Runs
  \/ \E lag \in Lags : Push(lag)
  \/ \E delay \in Targets : SetTarget(delay)
  \/ \E by \in Moves : MoveClock(by)
  \/ ResetClock
  \/ \E to \in Offsets : Jumped(to)
  \/ Adjust \/ Close

FeedSpec == FeedInit /\ [][FeedNext]_feedVars

FairFeedSpec == FeedSpec /\ WF_feedVars(Runs)

-----------------------------------------------------------------------------
(* A reader that sleeps while packets are queued sleeps for the one to play next
   (the earliest, and of a frame's packets the first to come), and has a timer that
   comes in time: when the packet is due, but for what the curve came down since the
   last Step woke the reader, and never later than two pacing allowances after that,
   whatever was pushed, shifted or paced meanwhile (Push wakes "the reader only when
   its next deadline changes"; "maxPaceLag limits pacing debt"). *)
OnTime ==
  reader = "parked" /\ wakes = 0 /\ queue # <<>> =>
    /\ \A i \in 2 .. Len(queue) : Before(queue[1], queue[i])
    /\ timer # Off
    /\ ~closed => IF Due > 0 THEN timer <= High(Due, maxPaceLag) + MaxFall
                  ELSE timer - Due <= 2 * maxPaceLag + MaxFall

(* Close ends the reader, after what is queued has had its time ("Close releases
   any blocked reader once the queue is drained"). *)
CloseReturns == []<>(closed => reader = "returned")
=============================================================================
