------------------------------ MODULE Timeline ------------------------------
(***************************************************************************)
(* How one track's RTP timestamps become playout times (delay.go, clock.go,*)
(* playback.go) when the sender's clock wraps around, jumps or restarts:   *)
(* 32 bit timestamps, the anchor that follows the stream, sender reports,  *)
(* the correction of excess depth, the roll-back of a correction that      *)
(* turns out to have been a timestamp jump, and the clock epochs.          *)
(*                                                                         *)
(* The sender captures a packet at every tick; the timestamp of capture c  *)
(* is c plus the offset of its clock, modulo Wrap, and a packet or report  *)
(* reaches the relay some Lags later, in any order.  The stream's other    *)
(* track is on time, has reported, and does not jump; delays are fixed.    *)
(***************************************************************************)
EXTENDS Integers, FiniteSets

CONSTANTS
  Wrap,         \* 2^32
  SeqWrap,      \* 2^16
  Start,        \* the timestamp and sequence number of capture 0
  Jumps,        \* what the sender's clock may jump by
  Lags,         \* how long a packet or a report may be on its way
  Reanchor,     \* 60s
  target,
  Margin,       \* correctionMargin(target)
  Tolerance,    \* 50ms
  Silence,      \* bound on the time between accepted packets, reports, corrections
  Held,         \* bound on the time a packet is queued
  MaxTime,      \* bound on now
  MaxQueue      \* bound on the packets queued

ASSUME TimelineConstants ==
  /\ Wrap \in Nat \ {0} /\ SeqWrap \in Nat \ {0} /\ MaxTime \in Nat
  /\ Lags \subseteq Nat /\ Jumps \subseteq Int
  /\ {Start, target} \subseteq Int
  /\ {Reanchor, Margin, Tolerance, Silence, Held} \subseteq Nat

(* Half the wrap exceeds what separates two timestamps that are compared: a jump and
   a silence, or the time a packet is on its way and queued.  It is 6 hours and a half
   for video. *)
ASSUME RecentClock ==
  /\ \A lag \in Lags : lag <= Silence /\ lag <= Held
  /\ \A by \in Jumps \cup {0} : \A size \in {by, -by} :
       Silence + Reanchor + size < Wrap \div 2 /\ Held + size < Wrap \div 2

VARIABLES
  now,
  sender,   \* the capture from which on its clock is off, by how much, and whether
            \* the tracks had been aligned when it jumped (history)
  buf,      \* the Buffer
  queue,    \* its packets: capture, timestamp and playout time
  last,     \* the newest capture accepted and the last correction (history)
  root      \* senderBaseWall minus senderBaseMS, once they are set, and their
            \* first value (history)

timelineVars == <<now, sender, buf, queue, last, root>>

Clock(c) == (Start + c + (IF c >= sender.from THEN sender.by ELSE 0)) % Wrap
Sequence(c) == (Start + c) % SeqWrap

(* The difference in uint32, its upper half read as negative. *)
rtpDelta(timestamp, base) ==
  LET diff == (timestamp - base) % Wrap IN
  IF diff >= Wrap \div 2 THEN diff - Wrap ELSE diff

NoReport == -1
NoCorrection == [shift |-> 0, rtp |-> 0, ms |-> 0]

NewBuffer ==
  [based |-> FALSE, baseRTP |-> 0, baseWall |-> 0,
   senderRTP |-> 0, senderNTP |-> NoReport, clockReset |-> FALSE,
   epoch |-> 0, resetPending |-> FALSE, resetSequence |-> 0,
   correction |-> NoCorrection, catchUp |-> FALSE]

playoutOf(b, timestamp) == b.baseWall + rtpDelta(timestamp, b.baseRTP) + target

Magnitude(d) == IF d < 0 THEN - d ELSE d

-----------------------------------------------------------------------------
(* Push, for the packet captured at c. *)
Anchored(c) ==
  IF buf.based THEN buf
  ELSE [buf EXCEPT !.based = TRUE, !.baseRTP = Clock(c), !.baseWall = now]

(* Behind resetSequence, or nothing has set it yet. *)
Behind(b, c) == b.resetPending \/ (Sequence(c) - b.resetSequence) % SeqWrap >= SeqWrap \div 2

(* Mutant: only lateness counts. *)
LateOnly(b, c) ==
  b.epoch > 0 /\ Behind(b, c) /\ ~b.resetPending /\ now - playoutOf(b, Clock(c)) > Margin

(* staleResetPacketLocked: its answer, ... *)
Stale(b, c) ==
  LET playAt == playoutOf(b, Clock(c)) IN
  /\ b.epoch > 0 /\ Behind(b, c)
  /\ \/ playAt - now > target + Margin
     \/ ~b.resetPending /\ now - playAt > Margin

(* ... and the sequence number it follows. *)
Followed(b, c) ==
  IF b.epoch > 0 /\ ~Behind(b, c) THEN [b EXCEPT !.resetSequence = Sequence(c)] ELSE b

(* Mutant: the anchor stays. *)
AnchorStays(b, c) == b

(* The anchor follows the stream. *)
Recent(b, c) ==
  IF rtpDelta(Clock(c), b.baseRTP) > Reanchor
  THEN [b EXCEPT !.baseWall = playoutOf(b, Clock(c)) - target, !.baseRTP = Clock(c)] ELSE b

(* A packet that is accepted ends the catching up, and may set the sequence number
   and move the anchor. *)
Accepted(b, c) ==
  Recent([b EXCEPT !.catchUp = FALSE, !.resetPending = FALSE,
                   !.resetSequence = IF b.resetPending THEN Sequence(c) ELSE @], c)

PushStale(c) ==
  /\ Stale(Anchored(c), c)
  /\ buf' = Anchored(c)
  /\ UNCHANGED <<now, sender, queue, last, root>>

(* catchUp, and no keyframe. *)
PushSkipped(c) ==
  LET b == Followed(Anchored(c), c) IN
  /\ ~Stale(Anchored(c), c) /\ b.catchUp
  /\ buf' = b
  /\ UNCHANGED <<now, sender, queue, last, root>>

(* Otherwise, and for a keyframe. *)
PushQueued(c) ==
  LET b == Followed(Anchored(c), c)
      packet == [capture |-> c, rtp |-> Clock(c), playAt |-> playoutOf(b, Clock(c))]
  IN /\ ~Stale(Anchored(c), c)
     /\ Cardinality(queue) < MaxQueue
     /\ queue' = (IF b.catchUp THEN {} ELSE queue) \cup {packet}
     /\ buf' = Accepted(b, c)
     /\ last' = [last EXCEPT !.packet = IF @ < c THEN c ELSE @]
     /\ UNCHANGED <<now, sender, root>>

Pop ==
  /\ \E head \in queue :
       /\ head.playAt <= now /\ \A p \in queue : head.playAt <= p.playAt
       /\ queue' = queue \ {head}
  /\ UNCHANGED <<now, sender, buf, last, root>>

-----------------------------------------------------------------------------
(* SenderReport, for a report sent at r: it is ignored unless it is newer; a clock
   that went backwards, or drifted from the time between reports, was reset. *)
SenderReport(r) ==
  LET ticks == rtpDelta(Clock(r), buf.senderRTP)
      drift == r - buf.senderNTP - ticks
      reset == buf.senderNTP # NoReport /\ (ticks < 0 \/ Magnitude(drift) > Margin)
  IN /\ r > buf.senderNTP
     /\ buf' = [buf EXCEPT !.senderRTP = Clock(r), !.senderNTP = r,
                           !.clockReset = @ \/ reset]
     /\ UNCHANGED <<now, sender, queue, last, root>>

senderTime(b, timestamp) == b.senderNTP + rtpDelta(timestamp, b.senderRTP)

(* Mutant: a correction stays, whatever the reports say. *)
NoRollback(b) == 0

(* Mutant: the whole jump is taken back, however little of it was corrected. *)
RollbackWhole(b) ==
  LET by == b.correction.ms - senderTime(b, b.correction.rtp) IN
  IF b.correction.shift = 0 \/ by <= Margin THEN 0 ELSE by

(* senderCorrectionLocked: how much of the last correction a report takes back, ... *)
Rollback(b) ==
  LET by == b.correction.ms - senderTime(b, b.correction.rtp) IN
  IF b.correction.shift = 0 \/ by <= Margin THEN 0
  ELSE IF by <= b.correction.shift THEN by ELSE b.correction.shift

(* ... and whether the correction is settled. *)
Settled(b) ==
  IF \/ Rollback(b) > 0 \/ b.clockReset
     \/ rtpDelta(b.senderRTP, b.correction.rtp) >= 0
  THEN [b EXCEPT !.correction.shift = 0] ELSE b

(* moveClockLocked *)
Moved(b, by, reset) ==
  [b EXCEPT !.baseWall = @ + by, !.catchUp = @ \/ reset]

MovedQueue(q, by, reset) ==
  IF reset THEN {} ELSE {[p EXCEPT !.playAt = @ + by] : p \in q}

(* alignSenderClockLocked, to the wall time of the anchor on the sender's clock. *)
Off(b, at) == at + senderTime(b, b.baseRTP) - b.baseWall
Resets(b, at) == b.clockReset \/ (root.known /\ Magnitude(Off(b, at)) > Margin)
Aligns(b, at) == b.clockReset \/ Magnitude(Off(b, at)) > Tolerance

Aligned(b, at) ==
  LET m == Moved(b, Off(b, at), Resets(b, at)) IN
  IF ~Aligns(b, at) THEN b
  ELSE IF b.clockReset
       THEN [m EXCEPT !.epoch = @ + 1, !.clockReset = FALSE, !.resetPending = TRUE]
       ELSE m

(* What alignSenderClocksLocked makes of the buffer and its queue, once both tracks
   have reported; root.at or the first root is the wall time of the sender's zero. *)
Clocks == buf.based /\ buf.senderNTP # NoReport

AlignedBuffer(at) == IF Clocks THEN Aligned(Settled(buf), at) ELSE buf

AlignedQueue(at) ==
  IF Clocks /\ Aligns(buf, at) THEN MovedQueue(queue, Off(buf, at), Resets(buf, at)) ELSE queue

(* depthLocked beyond the target, when p is the newest packet. *)
Excess(p) == p.playAt - now - target
Newest(p, q) == \A other \in q : other.playAt <= p.playAt

(* clockCorrectionLocked notes which packet a correction was for. *)
Corrected(b, p) ==
  LET noted == [shift |-> b.correction.shift + Excess(p), rtp |-> p.rtp,
                ms |-> senderTime(b, p.rtp)]
  IN Moved([b EXCEPT !.correction = IF Clocks THEN noted ELSE @], - Excess(p), TRUE)

Rooted(at, by) ==
  IF Clocks
  THEN [known |-> TRUE, at |-> at - by, first |-> IF root.known THEN root.first ELSE at]
  ELSE root

(* correctClocks, without excess depth ... *)
AlignTo(at) ==
  /\ \A p \in AlignedQueue(at) : Excess(p) <= Margin
  /\ buf' = AlignedBuffer(at)
  /\ queue' = AlignedQueue(at)
  /\ root' = Rooted(at, 0)
  /\ UNCHANGED <<now, sender>>

(* ... and with it. *)
CorrectTo(at) ==
  /\ \E p \in AlignedQueue(at) :
       /\ Newest(p, AlignedQueue(at)) /\ Excess(p) > Margin
       /\ buf' = Corrected(AlignedBuffer(at), p)
       /\ root' = Rooted(at, Excess(p))
  /\ queue' = {}
  /\ UNCHANGED <<now, sender>>

(* The anchor of the first alignment is the first track of the stream: this one, or
   the other. *)
FirstRoots ==
  {buf.baseWall - senderTime(buf, buf.baseRTP)} \cup Lags

Roots ==
  IF root.known THEN {root.at + Rollback(buf)} ELSE FirstRoots

correctClocks ==
  /\ \E at \in Roots : AlignTo(at) \/ CorrectTo(at)
  /\ last' = [last EXCEPT !.check = now]

-----------------------------------------------------------------------------
(* The sender's clock jumps (external): an encoder restarts, a source is switched. *)
Jump(by) ==
  /\ sender.from > MaxTime
  /\ sender' = [from |-> now + 1, by |-> by, aligned |-> root.known]
  /\ UNCHANGED <<now, buf, queue, last, root>>

(* The sender is not silent for long, and the queue is emptied (external). *)
Tick ==
  /\ now < MaxTime
  /\ buf.based => now < last.packet + Silence
  /\ now < last.check + Silence
  /\ buf.senderNTP # NoReport => now < buf.senderNTP + Silence
  /\ \A p \in queue : now < p.capture + Held
  /\ now' = now + 1
  /\ UNCHANGED <<sender, buf, queue, last, root>>

TimelineInit ==
  /\ now = 0
  /\ sender = [from |-> MaxTime + 1, by |-> 0, aligned |-> FALSE]
  /\ buf = NewBuffer
  /\ queue = {} /\ last = [packet |-> 0, check |-> 0]
  /\ root = [known |-> FALSE, at |-> 0, first |-> 0]

Captured == {now - lag : lag \in Lags} \cap Nat

TimelineNext ==
  \/ Tick
  \/ \E by \in Jumps : Jump(by)
  \/ \E c \in Captured : PushStale(c) \/ PushSkipped(c) \/ PushQueued(c) \/ SenderReport(c)
  \/ Pop \/ correctClocks

TimelineSpec == TimelineInit /\ [][TimelineNext]_timelineVars

-----------------------------------------------------------------------------
Old(c) == c < sender.from

(* Queued packets and the packets to come follow one mapping, with the spacing of
   their captures, however long the stream: across the wrap of the timestamps, beyond
   half the wrap and through every move of the anchor ("Keep the anchor recent so a
   long stream cannot exceed the signed RTP delta range. Queued packets retain exactly
   the same playout times"). *)
OneMapping ==
  \A p \in queue :
    /\ p.playAt = playoutOf(buf, p.rtp)
    /\ \A c \in Captured : Old(c) = Old(p.capture)
         => playoutOf(buf, Clock(c)) - p.playAt = c - p.capture

(* A jump back that neither a packet's delay nor a tolerated misalignment can hide
   from the margin. *)
Evident == \A lag \in Lags : - sender.by > Margin + Tolerance + lag

(* A jump leaves no trace: once the new clock has been reported and applied, the
   schedule does not run ahead of the packets, whatever was corrected while the jump
   looked like excess depth ("A later sender report may identify a depth correction
   as a timestamp jump"). *)
JumpUndone ==
  sender.aligned /\ buf.epoch > 0 /\ ~buf.clockReset /\ (sender.by > 0 \/ Evident)
    => root.at >= - Tolerance

(* No more is taken back than was corrected, and none of it twice: through every jump,
   report, correction and reset the schedule stays no later than the first alignment
   left it, or every viewer of the stream would wait longer than the target
   (senderCorrectionLocked: rollback = min(rollback, b.correctionShift)). *)
TakenBackOnce == root.known => root.at <= root.first

(* Once a jump back is applied, a packet of the old clock that comes late is dropped:
   it would be queued far ahead and taken for excess depth, which moves the schedule
   of both tracks ("Old timestamps can land on either side of the new clock"). *)
OldClockHarmless ==
  sender.aligned /\ buf.epoch > 0 /\ Evident => \A p \in queue : ~Old(p.capture)
=============================================================================
