--------------------------- MODULE TimelineProofs ---------------------------
(***************************************************************************)
(* Queued packets keep to the mapping of the packets to come however long  *)
(* the stream, and no more of a correction is taken back than was made:    *)
(* for any wrap, jumps, lags and silences that RecentClock admits.  In a   *)
(* stream shorter than half the wrap a jump of the sender's clock is       *)
(* undone once it is reported, and packets of a clock that jumped back     *)
(* stay out.                                                               *)
(***************************************************************************)
EXTENDS Timeline, TLAPS

(* The timestamp of capture c before it wraps. *)
Position(c) == Start + c + (IF c >= sender.from THEN sender.by ELSE 0)

CorrectionType == [shift : Int, rtp : Int, ms : Int]

BufferType ==
  [based : BOOLEAN, baseRTP : Int, baseWall : Int,
   senderRTP : Int, senderNTP : Int, clockReset : BOOLEAN,
   epoch : Int, resetPending : BOOLEAN, resetSequence : Int,
   correction : CorrectionType, catchUp : BOOLEAN]

PacketType == [capture : Int, rtp : Int, playAt : Int]

RootType == [known : BOOLEAN, at : Int, first : Int]

Types ==
  /\ now \in 0 .. MaxTime
  /\ sender \in [from : Int, by : Jumps \cup {0}, aligned : BOOLEAN]
  /\ buf \in BufferType
  /\ queue \subseteq PacketType
  /\ last \in [packet : Int, check : Int] /\ last.packet \in 0 .. now
  /\ root \in RootType

(* A timestamp the sender has used. *)
Used(timestamp) == \E c \in 0 .. now : timestamp = Clock(c)

(* The buffer is anchored at an accepted capture, and its newest capture is not
   further ahead of it than the anchor may stay behind. *)
Near(b, newest) ==
  \E a \in 0 .. newest :
    b.baseRTP = Clock(a) /\ Position(newest) - Position(a) <= Reanchor

(* A queued packet is of a recent capture, and due when the anchor says. *)
Queued(p, b, newest) ==
  /\ p.capture \in 0 .. newest /\ now <= p.capture + Held
  /\ p.rtp = Clock(p.capture) /\ p.playAt = playoutOf(b, p.rtp)

(* The anchor follows the newest capture, which the silence keeps recent. *)
MappingInv ==
  /\ Types
  /\ buf.based => Near(buf, last.packet) /\ now <= last.packet + Silence
  /\ ~ buf.based =>
       last.packet = 0 /\ queue = {} /\ ~ buf.catchUp /\ buf.epoch = 0
  /\ \A p \in queue : Queued(p, buf, last.packet)

-----------------------------------------------------------------------------
(* Arithmetic of % on the integers. *)
LEMMA Division ==
  ASSUME NEW w \in Nat \ {0}, NEW x \in Int
  PROVE  \E q \in Int : x = w * q + (x % w) /\ x % w \in 0 .. w - 1
  <1>1. x = w * (x \div w) + (x % w) /\ x % w \in 0 .. w - 1 /\ x \div w \in Int
    OBVIOUS
  <1> QED
    BY <1>1, Zenon

(* What a record of that form notes. *)
LEMMA Noted ==
  \A c, s, r, m : c = [shift |-> s, rtp |-> r, ms |-> m] => c.shift = s /\ c.rtp = r /\ c.ms = m
  OBVIOUS

LEMMA Packet == \A p \in PacketType : p.capture \in Int /\ p.rtp \in Int /\ p.playAt \in Int
  BY DEF PacketType

LEMMA Between == \A n \in Int : \A k \in 0 .. n : k \in Int /\ 0 <= k /\ k <= n
  OBVIOUS

LEMMA Sums == \A a, b \in Int : a + b \in Int
  OBVIOUS

LEMMA Multiples ==
  ASSUME NEW w \in Nat \ {0}, NEW q \in Int, NEW p \in Int,
         NEW r \in 0 .. w - 1, NEW s \in 0 .. w - 1, w * q + r = w * p + s
  PROVE  r = s
  <1>1. w * (q - p) = s - r
    BY SMTT(20)
  <1>2. CASE q - p >= 1
    <2>1. w * (q - p) >= w
      BY <1>2, SMTT(20)
    <2> QED
      BY <1>1, <2>1
  <1>3. CASE q - p <= -1
    <2>1. w * (q - p) <= - w
      BY <1>3, SMTT(20)
    <2> QED
      BY <1>1, <2>1
  <1>4. CASE q = p
    BY <1>4
  <1> QED
    BY <1>2, <1>3, <1>4

LEMMA Remainder ==
  ASSUME NEW w \in Nat \ {0}, NEW q \in Int, NEW r \in 0 .. w - 1
  PROVE  (w * q + r) % w = r
  <1> DEFINE x == w * q + r
  <1>1. x \in Int
    OBVIOUS
  <1>2. PICK p \in Int : x = w * p + (x % w) /\ x % w \in 0 .. w - 1
    BY <1>1, Division, Zenon
  <1> QED
    BY <1>2, Multiples, Zenon

(* rtpDelta undoes the wrap for positions less than half of it apart. *)
LEMMA DeltaExact ==
  ASSUME NEW a \in Int, NEW b \in Int, a - b < Wrap \div 2, b - a < Wrap \div 2
  PROVE  rtpDelta(a % Wrap, b % Wrap) = a - b
  <1>w. Wrap \in Nat \ {0}
    BY TimelineConstants
  <1>1. PICK q \in Int : a = Wrap * q + (a % Wrap) /\ a % Wrap \in 0 .. Wrap - 1
    BY <1>w, Division, Zenon
  <1>2. PICK p \in Int : b = Wrap * p + (b % Wrap) /\ b % Wrap \in 0 .. Wrap - 1
    BY <1>w, Division, Zenon
  <1> DEFINE d == (a % Wrap) - (b % Wrap)
  <1>3. d \in Int /\ d = (a - b) - Wrap * (q - p)
    <2>1. Wrap * (q - p) = Wrap * q - Wrap * p
      BY <1>w, SMTT(20)
    <2>2. Wrap * q \in Int /\ Wrap * p \in Int /\ a % Wrap \in Int /\ b % Wrap \in Int
      BY <1>w, <1>1, <1>2
    <2> QED
      BY <1>1, <1>2, <2>1, <2>2
  <1>h. Wrap \div 2 \in Int /\ 2 * (Wrap \div 2) <= Wrap /\ Wrap \div 2 >= 0
    BY <1>w
  <1>4. CASE a - b >= 0
    <2>1. a - b \in 0 .. Wrap - 1
      BY <1>w, <1>h, <1>4
    <2>2. d = Wrap * (p - q) + (a - b)
      BY <1>w, <1>3, SMTT(20)
    <2>3. d % Wrap = a - b
      BY <1>w, <2>1, <2>2, Remainder
    <2> QED
      BY <1>h, <2>3 DEF rtpDelta
  <1>5. CASE a - b < 0
    <2>1. Wrap + (a - b) \in 0 .. Wrap - 1
      BY <1>w, <1>h, <1>5
    <2>2. d = Wrap * (p - q - 1) + (Wrap + (a - b))
      BY <1>w, <1>3, SMTT(20)
    <2>3. d % Wrap = Wrap + (a - b)
      BY <1>w, <2>1, <2>2, Remainder
    <2>4. Wrap + (a - b) >= Wrap \div 2
      BY <1>w, <1>h
    <2> QED
      BY <1>w, <2>3, <2>4 DEF rtpDelta
  <1> QED
    BY <1>4, <1>5

LEMMA DeltaType ==
  ASSUME NEW a \in Int, NEW b \in Int
  PROVE  rtpDelta(a, b) \in Int
  <1>1. Wrap \in Nat \ {0}
    BY TimelineConstants
  <1>2. (a - b) % Wrap \in Int
    BY <1>1
  <1> QED
    BY <1>1, <1>2 DEF rtpDelta

LEMMA LagsType == \A lag \in Lags : lag \in Int /\ lag >= 0
  <1>1. Lags \subseteq Nat
    BY TimelineConstants, Zenon
  <1> QED
    BY <1>1

LEMMA SenderType ==
  ASSUME Types
  PROVE  sender.by \in Jumps \cup {0} /\ sender.by \in Int /\ sender.from \in Int
  <1>1. sender.by \in Jumps \cup {0} /\ sender.from \in Int
    BY DEF Types
  <1>2. \A by \in Jumps \cup {0} : by \in Int
    BY TimelineConstants
  <1> QED
    BY <1>1, <1>2

LEMMA ClockType ==
  ASSUME Types, NEW c \in Int
  PROVE  Position(c) \in Int /\ Clock(c) = Position(c) % Wrap /\ Clock(c) \in Int
  <1>1. Position(c) \in Int
    BY TimelineConstants, SenderType DEF Position
  <1>2. Clock(c) = Position(c) % Wrap
    BY DEF Clock, Position
  <1> QED
    BY <1>1, <1>2, TimelineConstants

(* Positions differ from captures by a jump at most. *)
LEMMA Jumped ==
  ASSUME Types, NEW c \in Int, NEW d \in Int, NEW n \in Int, c - d <= n,
         NEW bound \in Int,
         \A by \in Jumps \cup {0} : \A size \in {by, -by} : n + size < bound
  PROVE  Position(c) - Position(d) < bound
  <1>1. sender.by \in Jumps \cup {0} /\ sender.by \in Int /\ sender.from \in Int /\ Start \in Int
    BY SenderType, TimelineConstants
  <1>2. n + sender.by < bound /\ n + (- sender.by) < bound
    BY <1>1, Zenon
  <1>3. n + 0 < bound
    <2>1. 0 \in Jumps \cup {0}
      OBVIOUS
    <2> QED
      BY <2>1
  <1> QED
    BY <1>1, <1>2, <1>3 DEF Position

(* Captures that are not too far apart: Held one way and Silence after the anchor. *)
LEMMA HeldApart ==
  ASSUME Types, NEW c \in Int, NEW d \in Int, c - d <= Held
  PROVE  Position(c) - Position(d) < Wrap \div 2
  <1>1. Held \in Int /\ Wrap \div 2 \in Int
    BY TimelineConstants
  <1>2. \A by \in Jumps \cup {0} : \A size \in {by, -by} : Held + size < Wrap \div 2
    BY RecentClock
  <1> QED
    BY <1>1, <1>2, Jumped

LEMMA SilenceApart ==
  ASSUME Types, NEW c \in Int, NEW l \in Int, NEW a \in Int, c - l <= Silence,
         Position(l) - Position(a) <= Reanchor
  PROVE  Position(c) - Position(a) < Wrap \div 2
  <1> DEFINE half == (Wrap \div 2) - Reanchor
  <1>1. Silence \in Int /\ half \in Int /\ Reanchor \in Int /\ Wrap \div 2 \in Int
    BY TimelineConstants
  <1>2. \A by \in Jumps \cup {0} : by \in Int
    BY TimelineConstants
  <1>3. \A by \in Jumps \cup {0} : \A size \in {by, -by} : Silence + size < half
    <2> SUFFICES ASSUME NEW by \in Jumps \cup {0}, NEW size \in {by, -by}
                 PROVE  Silence + size < half
      OBVIOUS
    <2>1. Silence + Reanchor + size < Wrap \div 2
      BY RecentClock
    <2>2. size \in Int
      BY <1>2
    <2> QED
      BY <1>1, <2>1, <2>2
  <1> HIDE DEF half
  <1>4. Position(c) - Position(l) < half
    BY <1>1, <1>3, Jumped
  <1>5. Position(c) \in Int /\ Position(l) \in Int /\ Position(a) \in Int
    BY ClockType
  <1> QED
    BY <1>1, <1>4, <1>5 DEF half

LEMMA Exact ==
  ASSUME Types, NEW c \in Int, NEW d \in Int,
         Position(c) - Position(d) < Wrap \div 2, Position(d) - Position(c) < Wrap \div 2
  PROVE  rtpDelta(Clock(c), Clock(d)) = Position(c) - Position(d)
  BY ClockType, DeltaExact

(* A capture on its way, or queued, against the anchor. *)
LEMMA AnchorExact ==
  ASSUME Types, NEW newest \in 0 .. now, now <= newest + Silence,
         NEW a \in 0 .. newest, Position(newest) - Position(a) <= Reanchor,
         NEW c \in 0 .. now, now <= c + Held
  PROVE  rtpDelta(Clock(c), Clock(a)) = Position(c) - Position(a)
  <1>1. /\ now \in Int /\ newest \in Int /\ a \in Int /\ c \in Int
        /\ Silence \in Int /\ Held \in Int
    BY TimelineConstants DEF Types
  <1>2. c - newest <= Silence /\ a - c <= Held
    BY <1>1
  <1>3. Position(c) - Position(a) < Wrap \div 2
    BY <1>1, <1>2, SilenceApart
  <1>4. Position(a) - Position(c) < Wrap \div 2
    BY <1>1, <1>2, HeldApart
  <1> QED
    BY <1>1, <1>3, <1>4, Exact

(* Two captures on their way, or queued. *)
LEMMA RecentExact ==
  ASSUME Types, NEW c \in 0 .. now, NEW d \in 0 .. now, now <= c + Held, now <= d + Held
  PROVE  rtpDelta(Clock(c), Clock(d)) = Position(c) - Position(d)
  <1>1. now \in Int /\ c \in Int /\ d \in Int /\ Held \in Int
    BY TimelineConstants DEF Types
  <1>2. c - d <= Held /\ d - c <= Held
    BY <1>1
  <1>3. Position(c) - Position(d) < Wrap \div 2 /\ Position(d) - Position(c) < Wrap \div 2
    BY <1>1, <1>2, HeldApart
  <1> QED
    BY <1>1, <1>3, Exact

(* What arrives is recent. *)
LEMMA CapturedRecent ==
  ASSUME Types, NEW c \in Captured
  PROVE  c \in 0 .. now /\ c \in Int /\ now <= c + Held /\ now <= c + Silence
  <1>1. PICK lag \in Lags : c = now - lag /\ c \in Nat
    BY DEF Captured
  <1>2. lag \in Nat /\ lag <= Silence /\ lag <= Held /\ now \in Nat
    BY TimelineConstants, RecentClock DEF Types
  <1> QED
    BY <1>1, <1>2, TimelineConstants

-----------------------------------------------------------------------------
LEMMA InitMapping == TimelineInit => MappingInv
  <1> SUFFICES ASSUME TimelineInit PROVE MappingInv
    OBVIOUS
  <1>1. /\ buf \in BufferType /\ buf.based = FALSE /\ buf.catchUp = FALSE /\ buf.epoch = 0
    BY DEF TimelineInit, NewBuffer, NoReport, NoCorrection, BufferType, CorrectionType
  <1>2. last \in [packet : Int, check : Int] /\ last.packet = 0
    BY DEF TimelineInit
  <1>3. Types
    BY <1>1, <1>2, TimelineConstants DEF TimelineInit, Types, RootType
  <1> QED
    BY <1>1, <1>2, <1>3 DEF TimelineInit, MappingInv

(* The anchor and the queued packets have timestamps the sender has used. *)
LEMMA MappingUsed ==
  ASSUME MappingInv
  PROVE  /\ buf.based => Used(buf.baseRTP)
         /\ queue # {} => buf.based
         /\ \A p \in queue : Used(p.rtp) /\ p.playAt = playoutOf(buf, p.rtp)
  <1>1. \A k \in 0 .. last.packet : k \in 0 .. now
    BY DEF MappingInv, Types
  <1> QED
    BY <1>1 DEF MappingInv, Near, Queued, Used

LEMMA MappingHolds ==
  ASSUME MappingInv
  PROVE  OneMapping
  <1> SUFFICES ASSUME NEW p \in queue
               PROVE  /\ p.playAt = playoutOf(buf, p.rtp)
                      /\ \A c \in Captured : Old(c) = Old(p.capture)
                           => playoutOf(buf, Clock(c)) - p.playAt = c - p.capture
    BY DEF OneMapping
  <1>1. Types /\ buf.based /\ Near(buf, last.packet) /\ now <= last.packet + Silence
    BY MappingUsed DEF MappingInv
  <1>2. Queued(p, buf, last.packet) /\ last.packet \in 0 .. now
    BY DEF MappingInv, Types
  <1>3. PICK a \in 0 .. last.packet :
          buf.baseRTP = Clock(a) /\ Position(last.packet) - Position(a) <= Reanchor
    BY <1>1 DEF Near
  <1>4. p.capture \in 0 .. now /\ now <= p.capture + Held /\ p.rtp = Clock(p.capture)
        /\ p.playAt = playoutOf(buf, p.rtp)
    BY <1>1, <1>2 DEF Queued, Types
  <1>5. rtpDelta(Clock(p.capture), buf.baseRTP) = Position(p.capture) - Position(a)
    BY <1>1, <1>2, <1>3, <1>4, AnchorExact
  <1>6. ASSUME NEW c \in Captured, Old(c) = Old(p.capture)
        PROVE  playoutOf(buf, Clock(c)) - p.playAt = c - p.capture
    <2>1. c \in 0 .. now /\ c \in Int /\ now <= c + Held
      BY <1>1, CapturedRecent
    <2>2. rtpDelta(Clock(c), buf.baseRTP) = Position(c) - Position(a)
      BY <1>1, <1>2, <1>3, <2>1, AnchorExact
    <2>3. /\ a \in Int /\ p.capture \in Int /\ Start \in Int /\ target \in Int
          /\ sender.by \in Int /\ sender.from \in Int /\ buf.baseWall \in Int
      BY <1>1, <1>2, <1>4, SenderType, TimelineConstants DEF Types, BufferType
    <2>4. Position(c) \in Int /\ Position(a) \in Int /\ Position(p.capture) \in Int
      BY <1>1, <2>1, <2>3, ClockType
    <2>5. Position(c) - Position(p.capture) = c - p.capture
      BY <1>6, <2>1, <2>3 DEF Old, Position
    <2>6. playoutOf(buf, Clock(c)) = buf.baseWall + (Position(c) - Position(a)) + target
      BY <2>2 DEF playoutOf
    <2>7. p.playAt = buf.baseWall + (Position(p.capture) - Position(a)) + target
      BY <1>4, <1>5 DEF playoutOf
    <2> QED
      BY <2>1, <2>3, <2>4, <2>5, <2>6, <2>7
  <1> QED
    BY <1>4, <1>6

-----------------------------------------------------------------------------
SameAnchor(b, d) == b.based = d.based /\ b.baseRTP = d.baseRTP /\ b.baseWall = d.baseWall

LEMMA SequenceType ==
  ASSUME NEW c \in Int
  PROVE  Sequence(c) \in Int
  BY TimelineConstants DEF Sequence

LEMMA FollowedBuffer ==
  ASSUME NEW b \in BufferType, NEW c \in Int
  PROVE  Followed(b, c) \in BufferType /\ SameAnchor(Followed(b, c), b)
         /\ Followed(b, c).catchUp = b.catchUp
  BY SequenceType DEF Followed, BufferType, SameAnchor

LEMMA SameAnchorMaps ==
  ASSUME NEW b, NEW d, NEW timestamp, SameAnchor(b, d)
  PROVE  playoutOf(b, timestamp) = playoutOf(d, timestamp)
  BY DEF SameAnchor, playoutOf

(* A buffer that Push finds, or anchors at the packet it is given. *)
LEMMA AnchoredBuffer ==
  ASSUME MappingInv, NEW c \in 0 .. now
  PROVE  /\ Anchored(c) \in BufferType /\ Anchored(c).based /\ Used(Anchored(c).baseRTP)
         /\ buf.based => Anchored(c) = buf
         /\ ~ buf.based => /\ Anchored(c).baseRTP = Clock(c)
                           /\ ~ Anchored(c).catchUp /\ Anchored(c).epoch = 0
  <1>1. Clock(c) \in Int /\ Used(Clock(c)) /\ now \in Int /\ buf \in BufferType
    BY ClockType DEF MappingInv, Types, Used
  <1>2. CASE buf.based
    BY <1>1, <1>2, MappingUsed DEF Anchored
  <1>3. CASE ~ buf.based
    <2>1. ~ buf.catchUp /\ buf.epoch = 0
      BY <1>3 DEF MappingInv
    <2> QED
      BY <1>1, <1>3, <2>1, Zenon DEF Anchored, BufferType
  <1> QED
    BY <1>2, <1>3

(* Recent: the anchor stays near the newest capture, and a move leaves the playout
   time of every recent capture. *)
LEMMA RecentNear ==
  ASSUME Types, NEW b \in BufferType, b.based, NEW newest \in 0 .. now, Near(b, newest),
         now <= newest + Silence, NEW c \in 0 .. now, now <= c + Held
  PROVE  LET d == Recent(b, c) IN
         /\ d \in BufferType /\ d.based /\ Near(d, IF newest < c THEN c ELSE newest)
         /\ \A n \in 0 .. now : now <= n + Held => playoutOf(d, Clock(n)) = playoutOf(b, Clock(n))
  <1> DEFINE next == IF newest < c THEN c ELSE newest
             wall == playoutOf(b, Clock(c)) - target
             m == [b EXCEPT !.baseWall = wall, !.baseRTP = Clock(c)]
             delta == rtpDelta(Clock(c), b.baseRTP)
             d == Recent(b, c)
  <1>1. PICK a \in 0 .. newest : b.baseRTP = Clock(a) /\ Position(newest) - Position(a) <= Reanchor
    BY DEF Near
  <1>2. /\ newest \in Int /\ c \in Int /\ now \in Int /\ a \in Int /\ Reanchor \in Nat
        /\ target \in Int /\ b.baseWall \in Int /\ next \in 0 .. now
    BY TimelineConstants DEF Types, BufferType
  <1>3. /\ Position(newest) \in Int /\ Position(c) \in Int /\ Position(a) \in Int /\ Clock(c) \in Int
    BY <1>2, ClockType
  <1>4. delta = Position(c) - Position(a)
    BY <1>1, AnchorExact
  <1>5. wall = b.baseWall + (Position(c) - Position(a)) /\ wall \in Int
    BY <1>2, <1>3, <1>4 DEF playoutOf
  <1>6. CASE delta > Reanchor
    <2> HIDE DEF wall
    <2>1. d = m
      BY <1>6 DEF Recent, wall
    <2>2. m \in BufferType /\ m.based /\ m.baseRTP = Clock(c) /\ m.baseWall = wall
      BY <1>3, <1>5, Zenon DEF BufferType
    <2>3. c \in 0 .. next /\ Position(next) - Position(c) <= Reanchor
      BY <1>1, <1>2, <1>3, <1>4, <1>6
    <2> HIDE DEF m, next
    <2>4. Near(m, next)
      BY <2>2, <2>3 DEF Near
    <2>5. ASSUME NEW n \in 0 .. now, now <= n + Held
          PROVE  playoutOf(m, Clock(n)) = playoutOf(b, Clock(n))
      <3>1. rtpDelta(Clock(n), Clock(c)) = Position(n) - Position(c)
        BY <2>5, RecentExact
      <3>2. rtpDelta(Clock(n), Clock(a)) = Position(n) - Position(a)
        BY <1>1, <2>5, AnchorExact
      <3>3. Position(n) \in Int
        BY <1>2, ClockType
      <3> QED
        BY <1>1, <1>2, <1>3, <1>5, <2>2, <3>1, <3>2, <3>3 DEF playoutOf
    <2> QED
      BY <2>1, <2>2, <2>4, <2>5 DEF next
  <1>7. CASE ~ (delta > Reanchor)
    <2>1. d = b
      BY <1>7 DEF Recent
    <2>2. a \in 0 .. next /\ Position(next) - Position(a) <= Reanchor
      BY <1>1, <1>2, <1>3, <1>4, <1>7
    <2> HIDE DEF next
    <2>3. Near(b, next)
      BY <1>1, <2>2 DEF Near
    <2> QED
      BY <2>1, <2>3 DEF next
  <1> QED
    BY <1>6, <1>7

LEMMA AcceptedNear ==
  ASSUME Types, NEW b \in BufferType, b.based, NEW newest \in 0 .. now, Near(b, newest),
         now <= newest + Silence, NEW c \in 0 .. now, now <= c + Held
  PROVE  LET d == Accepted(b, c) IN
         /\ d \in BufferType /\ d.based /\ Near(d, IF newest < c THEN c ELSE newest)
         /\ \A n \in 0 .. now : now <= n + Held => playoutOf(d, Clock(n)) = playoutOf(b, Clock(n))
  <1> DEFINE m == [b EXCEPT !.catchUp = FALSE, !.resetPending = FALSE,
                   !.resetSequence = IF b.resetPending THEN Sequence(c) ELSE @]
  <1>1. Sequence(c) \in Int
    BY SequenceType DEF Types
  <1>2. m \in BufferType /\ SameAnchor(m, b)
    BY <1>1, Zenon DEF BufferType, SameAnchor
  <1>3. Accepted(b, c) = Recent(m, c)
    BY DEF Accepted
  <1> HIDE DEF m
  <1>4. m.based /\ Near(m, newest)
    BY <1>2, Zenon DEF SameAnchor, Near
  <1> QED
    BY <1>2, <1>3, <1>4, RecentNear, SameAnchorMaps

-----------------------------------------------------------------------------
(* A step that leaves the anchor, the queue and the newest capture. *)
LEMMA SameMapping ==
  ASSUME MappingInv, UNCHANGED <<now, sender, queue, last, root>>, buf' \in BufferType,
         SameAnchor(buf', buf), ~ buf.based => ~ buf'.catchUp /\ buf'.epoch = 0
  PROVE  MappingInv'
  <1>1. Types'
    BY DEF MappingInv, Types, BufferType, CorrectionType, PacketType, RootType
  <1>2. /\ buf'.based = buf.based /\ buf'.baseRTP = buf.baseRTP /\ buf'.baseWall = buf.baseWall
        /\ now' = now /\ sender' = sender /\ last' = last /\ queue' = queue
    BY DEF SameAnchor
  <1>3. \A c : Clock(c)' = Clock(c) /\ Position(c)' = Position(c)
    BY <1>2 DEF Clock, Position
  <1>4. Near(buf, last.packet) => Near(buf, last.packet)'
    BY <1>2, <1>3 DEF Near
  <1>5. \A p : Queued(p, buf, last.packet) => Queued(p, buf, last.packet)'
    BY <1>2, <1>3 DEF Queued, playoutOf, rtpDelta
  <1> QED
    BY <1>1, <1>2, <1>4, <1>5 DEF MappingInv

LEMMA PushStaleMaps ==
  ASSUME MappingInv, NEW c \in 0 .. now, PushStale(c)
  PROVE  MappingInv'
  <1>1. Anchored(c).epoch > 0
    BY DEF PushStale, Stale
  <1>2. buf.based
    BY <1>1, AnchoredBuffer
  <1>3. Anchored(c) = buf /\ buf \in BufferType
    BY <1>2, AnchoredBuffer DEF MappingInv, Types
  <1> QED
    BY <1>2, <1>3, SameMapping, Zenon DEF PushStale, SameAnchor

LEMMA PushSkippedMaps ==
  ASSUME MappingInv, NEW c \in 0 .. now, PushSkipped(c)
  PROVE  MappingInv'
  <1>1. c \in Int /\ Anchored(c) \in BufferType
    BY AnchoredBuffer DEF MappingInv, Types
  <1>2. /\ buf' = Followed(Anchored(c), c) /\ buf'.catchUp
        /\ UNCHANGED <<now, sender, queue, last, root>>
    BY DEF PushSkipped
  <1>3. Anchored(c).catchUp
    BY <1>1, <1>2, FollowedBuffer
  <1>4. buf.based
    BY <1>3, AnchoredBuffer
  <1>5. Anchored(c) = buf
    BY <1>4, AnchoredBuffer
  <1>6. buf' \in BufferType /\ SameAnchor(buf', buf)
    BY <1>1, <1>2, <1>5, FollowedBuffer
  <1> QED
    BY <1>2, <1>4, <1>6, SameMapping

LEMMA PushQueuedMaps ==
  ASSUME MappingInv, NEW c \in Captured, PushQueued(c)
  PROVE  MappingInv'
  <1> DEFINE b == Followed(Anchored(c), c)
             packet == [capture |-> c, rtp |-> Clock(c), playAt |-> playoutOf(b, Clock(c))]
             d == Accepted(b, c)
             newest == IF buf.based THEN last.packet ELSE c
             next == IF newest < c THEN c ELSE newest
  <1>1. /\ Types /\ c \in 0 .. now /\ c \in Int /\ now <= c + Held /\ now <= c + Silence
        /\ Clock(c) \in Int /\ now \in Int /\ last.packet \in 0 .. now
    BY CapturedRecent, ClockType DEF MappingInv, Types
  <1>2. b \in BufferType /\ SameAnchor(b, Anchored(c))
    BY <1>1, AnchoredBuffer, FollowedBuffer
  <1>3. /\ buf' = d /\ UNCHANGED <<now, sender, root>>
        /\ queue' \subseteq queue \cup {packet}
        /\ last' = [last EXCEPT !.packet = IF @ < c THEN c ELSE @]
    BY DEF PushQueued
  <1>4. playoutOf(b, Clock(c)) \in Int
    <2>1. rtpDelta(Clock(c), b.baseRTP) \in Int /\ b.baseWall \in Int
      BY <1>1, <1>2, DeltaType DEF BufferType
    <2> QED
      BY <2>1, TimelineConstants DEF playoutOf
  <1>5. /\ packet \in PacketType /\ packet.capture = c /\ packet.rtp = Clock(c)
        /\ packet.playAt = playoutOf(b, Clock(c))
    BY <1>1, <1>4 DEF PacketType
  <1> HIDE DEF b, packet
  <1>6. b.based /\ (buf.based => SameAnchor(b, buf))
    BY <1>1, <1>2, AnchoredBuffer DEF SameAnchor
  <1>7. newest \in 0 .. now /\ now <= newest + Silence
    BY <1>1 DEF MappingInv
  <1>8. Near(b, newest)
    <2>1. CASE buf.based
      BY <1>6, <2>1 DEF MappingInv, Near, SameAnchor
    <2>2. CASE ~ buf.based
      <3>1. b.baseRTP = Clock(c)
        BY <1>1, <1>2, <2>2, AnchoredBuffer DEF SameAnchor
      <3>2. c \in 0 .. c /\ Position(c) - Position(c) <= Reanchor
        BY <1>1, ClockType, TimelineConstants
      <3> QED
        BY <2>2, <3>1, <3>2 DEF Near
    <2> QED
      BY <2>1, <2>2
  <1> HIDE DEF newest
  <1>9. /\ d \in BufferType /\ d.based /\ Near(d, next)
        /\ \A n \in 0 .. now : now <= n + Held => playoutOf(d, Clock(n)) = playoutOf(b, Clock(n))
    BY <1>1, <1>2, <1>6, <1>7, <1>8, AcceptedNear
  <1> HIDE DEF d
  <1>10. /\ last'.packet = next /\ last' \in [packet : Int, check : Int]
         /\ next \in 0 .. now /\ c \in 0 .. next /\ now <= next + Silence
         /\ buf.based => last.packet <= next
    <2>1. last \in [packet : Int, check : Int] /\ (~ buf.based => last.packet = 0) /\ Silence \in Int
      BY TimelineConstants DEF MappingInv, Types
    <2> QED
      BY <1>1, <1>3, <1>7, <2>1 DEF newest
  <1> HIDE DEF next
  <1>11. \A p \in queue' : p \in PacketType /\ Queued(p, d, next)
    <2> SUFFICES ASSUME NEW p \in queue'
                 PROVE  p \in PacketType /\ Queued(p, d, next)
      OBVIOUS
    <2>1. CASE p = packet
      BY <1>1, <1>5, <1>9, <1>10, <2>1 DEF Queued
    <2>2. CASE p \in queue
      <3>1. /\ p \in PacketType /\ p.capture \in 0 .. last.packet /\ now <= p.capture + Held
            /\ p.rtp = Clock(p.capture) /\ p.playAt = playoutOf(buf, p.rtp) /\ buf.based
        BY <2>2, MappingUsed DEF MappingInv, Types, Queued
      <3>2. playoutOf(b, p.rtp) = playoutOf(buf, p.rtp)
        BY <1>6, <3>1, SameAnchorMaps
      <3>3. p.capture \in 0 .. now /\ p.capture \in 0 .. next
        BY <1>1, <1>10, <3>1
      <3> QED
        BY <1>9, <3>1, <3>2, <3>3 DEF Queued
    <2> QED
      BY <1>3, <2>1, <2>2
  <1>12. Types'
    BY <1>1, <1>3, <1>9, <1>10, <1>11 DEF Types, BufferType, CorrectionType, PacketType, RootType
  <1>13. Near(buf, last.packet)'
    BY <1>3, <1>9, <1>10 DEF Near, Clock, Position
  <1>14. \A p \in queue' : Queued(p, buf, last.packet)'
    BY <1>3, <1>10, <1>11 DEF Queued, Clock, playoutOf, rtpDelta
  <1>15. buf'.based /\ now' <= last'.packet + Silence
    BY <1>3, <1>9, <1>10
  <1> QED
    BY <1>12, <1>13, <1>14, <1>15 DEF MappingInv

LEMMA SenderReportMaps ==
  ASSUME MappingInv, NEW r \in 0 .. now, SenderReport(r)
  PROVE  MappingInv'
  <1>1. Clock(r) \in Int /\ r \in Int /\ buf \in BufferType
    BY ClockType DEF MappingInv, Types
  <1>2. PICK reset \in BOOLEAN :
          buf' = [buf EXCEPT !.senderRTP = Clock(r), !.senderNTP = r, !.clockReset = @ \/ reset]
    BY Zenon DEF SenderReport
  <1>3. /\ buf' \in BufferType /\ SameAnchor(buf', buf)
        /\ buf'.catchUp = buf.catchUp /\ buf'.epoch = buf.epoch
    BY <1>1, <1>2, Zenon DEF BufferType, SameAnchor
  <1>4. UNCHANGED <<now, sender, queue, last, root>>
    BY DEF SenderReport
  <1>5. ~ buf.based => ~ buf'.catchUp /\ buf'.epoch = 0
    BY <1>3 DEF MappingInv
  <1> QED
    BY <1>3, <1>4, <1>5, SameMapping

LEMMA PopMaps ==
  ASSUME MappingInv, Pop
  PROVE  MappingInv'
  <1>1. queue' \subseteq queue /\ UNCHANGED <<now, sender, buf, last, root>>
    BY DEF Pop
  <1>2. Types'
    BY <1>1 DEF MappingInv, Types, BufferType, CorrectionType, PacketType, RootType
  <1>3. \A c : Clock(c)' = Clock(c) /\ Position(c)' = Position(c)
    BY <1>1 DEF Clock, Position
  <1>4. Near(buf, last.packet) => Near(buf, last.packet)'
    BY <1>1, <1>3 DEF Near
  <1>5. \A p : Queued(p, buf, last.packet) => Queued(p, buf, last.packet)'
    BY <1>1, <1>3 DEF Queued, playoutOf, rtpDelta
  <1> QED
    BY <1>1, <1>2, <1>4, <1>5 DEF MappingInv

(* Time passes, or the clock jumps: the captures so far keep their timestamps. *)
LEMMA CapturesKept ==
  ASSUME MappingInv, Tick \/ \E by \in Jumps : Jump(by)
  PROVE  /\ now' \in 0 .. MaxTime /\ now <= now' /\ now \in 0 .. MaxTime
         /\ \A c \in 0 .. now : c \in 0 .. now' /\ Clock(c)' = Clock(c) /\ Position(c)' = Position(c)
         /\ \A x : Used(x) => \E c \in 0 .. now' : x = Clock(c)'
  <1>1. now' \in 0 .. MaxTime /\ now <= now' /\ now \in 0 .. MaxTime
    BY TimelineConstants DEF MappingInv, Types, Tick, Jump
  <1>2. \A c \in 0 .. now : Clock(c)' = Clock(c) /\ Position(c)' = Position(c)
    <2>1. CASE Tick
      BY <2>1 DEF Tick, Clock, Position
    <2>2. CASE \E by \in Jumps : Jump(by)
      <3>1. sender.from > MaxTime /\ sender'.from = now + 1 /\ sender.from \in Int
        BY <2>2 DEF Jump, MappingInv, Types
      <3>2. \A c \in 0 .. now : ~ (c >= sender.from) /\ ~ (c >= sender'.from)
        BY <1>1, <3>1, TimelineConstants
      <3> QED
        BY <3>2 DEF Clock, Position
    <2> QED
      BY <2>1, <2>2
  <1>3. \A c \in 0 .. now : c \in 0 .. now'
    BY <1>1, TimelineConstants
  <1>4. \A x : Used(x) => \E c \in 0 .. now' : x = Clock(c)'
    BY <1>2, <1>3 DEF Used
  <1> QED
    BY <1>1, <1>2, <1>3, <1>4, Zenon

LEMMA SenderMaps ==
  ASSUME MappingInv, Tick \/ \E by \in Jumps : Jump(by)
  PROVE  MappingInv'
  <1>1. UNCHANGED <<buf, queue, last, root>>
    BY DEF Tick, Jump
  <1>2. /\ now' \in 0 .. MaxTime /\ now <= now' /\ now \in 0 .. MaxTime
        /\ \A c \in 0 .. now : Clock(c)' = Clock(c) /\ Position(c)' = Position(c)
    BY CapturesKept
  <1>3. sender' \in [from : Int, by : Jumps \cup {0}, aligned : BOOLEAN]
    BY TimelineConstants DEF MappingInv, Types, Tick, Jump, RootType
  <1>4. last.packet \in 0 .. now /\ last.packet \in 0 .. now' /\ \A k \in 0 .. last.packet : k \in 0 .. now
    BY <1>2 DEF MappingInv, Types
  <1>5. Types'
    BY <1>1, <1>2, <1>3, <1>4 DEF MappingInv, Types, BufferType, CorrectionType, PacketType, RootType
  <1>6. Near(buf, last.packet) => Near(buf, last.packet)'
    BY <1>1, <1>2, <1>4 DEF Near
  <1>7. buf.based => now' <= last.packet + Silence
    BY <1>2, <1>4, TimelineConstants DEF MappingInv, Tick, Jump
  <1>8. \A p \in queue : p.capture \in Int /\ now' <= p.capture + Held
    BY <1>2, <1>4, TimelineConstants DEF MappingInv, Queued, Tick, Jump
  <1>9. \A p \in queue : Queued(p, buf, last.packet)'
    BY <1>1, <1>2, <1>4, <1>8 DEF MappingInv, Queued, playoutOf, rtpDelta
  <1> QED
    BY <1>1, <1>5, <1>6, <1>7, <1>9 DEF MappingInv

-----------------------------------------------------------------------------
(* correctClocks moves the anchor and the queued packets together. *)
LEMMA SenderTimeType ==
  ASSUME NEW b \in BufferType, NEW timestamp \in Int
  PROVE  senderTime(b, timestamp) \in Int
  <1>1. b.senderNTP \in Int /\ b.senderRTP \in Int
    BY DEF BufferType
  <1>2. rtpDelta(timestamp, b.senderRTP) \in Int
    BY <1>1, DeltaType, Zenon
  <1> QED
    BY <1>1, <1>2 DEF senderTime

LEMMA RollbackType ==
  ASSUME NEW b \in BufferType
  PROVE  Rollback(b) \in Int
  <1>1. b.correction.ms \in Int /\ b.correction.rtp \in Int /\ b.correction.shift \in Int
    BY DEF BufferType, CorrectionType
  <1>2. senderTime(b, b.correction.rtp) \in Int
    BY <1>1, SenderTimeType
  <1> QED
    BY <1>1, <1>2 DEF Rollback

LEMMA OffType ==
  ASSUME NEW b \in BufferType, NEW at \in Int
  PROVE  Off(b, at) \in Int
  <1>1. b.baseWall \in Int /\ b.baseRTP \in Int
    BY DEF BufferType
  <1> QED
    BY <1>1, SenderTimeType DEF Off

LEMMA RootsType ==
  ASSUME Types, NEW at \in Roots
  PROVE  at \in Int
  <1>1. buf \in BufferType /\ root.at \in Int
    BY DEF Types, RootType
  <1>2. buf.baseWall \in Int /\ buf.baseRTP \in Int
    BY <1>1 DEF BufferType
  <1>3. senderTime(buf, buf.baseRTP) \in Int /\ Rollback(buf) \in Int
    BY <1>1, <1>2, SenderTimeType, RollbackType
  <1>4. \A lag \in Lags : lag \in Int
    BY TimelineConstants
  <1> QED
    BY <1>1, <1>2, <1>3, <1>4 DEF Roots, FirstRoots

(* Settled leaves all but the pending correction. *)
LEMMA SettledBuffer ==
  ASSUME NEW b \in BufferType, NEW at
  PROVE  /\ Settled(b) \in BufferType /\ SameAnchor(Settled(b), b)
         /\ Off(Settled(b), at) = Off(b, at) /\ Resets(Settled(b), at) = Resets(b, at)
         /\ Aligns(Settled(b), at) = Aligns(b, at)
  <1>1. /\ Settled(b) \in BufferType
        /\ Settled(b).based = b.based /\ Settled(b).baseRTP = b.baseRTP
        /\ Settled(b).baseWall = b.baseWall /\ Settled(b).senderRTP = b.senderRTP
        /\ Settled(b).senderNTP = b.senderNTP /\ Settled(b).clockReset = b.clockReset
    BY DEF Settled, BufferType, CorrectionType
  <1>2. Off(Settled(b), at) = Off(b, at)
    BY <1>1 DEF Off, senderTime
  <1> QED
    BY <1>1, <1>2 DEF SameAnchor, Resets, Aligns

MovedBy(d, b, by) ==
  d \in BufferType /\ d.based = b.based /\ d.baseRTP = b.baseRTP /\ d.baseWall = b.baseWall + by

LEMMA MovedMoves ==
  ASSUME NEW b \in BufferType, NEW by \in Int, NEW reset \in BOOLEAN
  PROVE  MovedBy(Moved(b, by, reset), b, by)
  <1> DEFINE wall == b.baseWall + by
             catchUp == b.catchUp \/ reset
  <1>1. wall \in Int /\ catchUp \in BOOLEAN
    BY DEF BufferType
  <1>2. Moved(b, by, reset) = [b EXCEPT !.baseWall = wall, !.catchUp = catchUp]
    BY DEF Moved
  <1> HIDE DEF catchUp
  <1> QED
    BY <1>1, <1>2, Zenon DEF MovedBy, BufferType

(* The aligned buffer has moved by what the queue has moved, if it is left. *)
LEMMA AlignedMoves ==
  ASSUME Types, NEW at \in Int
  PROVE  \E by \in Int :
           /\ MovedBy(AlignedBuffer(at), buf, by)
           /\ \A p \in AlignedQueue(at) : \E o \in queue :
                p = [o EXCEPT !.playAt = @ + by]
  <1> DEFINE by == Off(buf, at)
             s == Settled(buf)
             reset == Resets(buf, at)
  <1>1. buf \in BufferType /\ by \in Int /\ reset \in BOOLEAN
    BY OffType DEF Types, Resets, BufferType
  <1>2. /\ s \in BufferType /\ SameAnchor(s, buf)
        /\ Off(s, at) = by /\ Resets(s, at) = reset /\ Aligns(s, at) = Aligns(buf, at)
    BY <1>1, SettledBuffer
  <1>3. CASE Clocks /\ Aligns(buf, at)
    <2> DEFINE m == Moved(s, by, reset)
    <2>1. MovedBy(m, s, by)
      BY <1>1, <1>2, MovedMoves
    <2>2. \/ AlignedBuffer(at) = m
          \/ AlignedBuffer(at) = [m EXCEPT !.epoch = @ + 1, !.clockReset = FALSE, !.resetPending = TRUE]
      BY <1>2, <1>3 DEF AlignedBuffer, Aligned
    <2> HIDE DEF m
    <2>3. MovedBy(AlignedBuffer(at), s, by)
      <3> DEFINE epoch == m.epoch + 1
      <3>1. epoch \in Int /\ m \in BufferType
        BY <2>1 DEF MovedBy, BufferType
      <3>2. [m EXCEPT !.epoch = epoch, !.clockReset = FALSE, !.resetPending = TRUE] \in BufferType
        BY <3>1, Zenon DEF BufferType
      <3>3. CASE AlignedBuffer(at) = m
        BY <2>1, <3>3
      <3>4. CASE AlignedBuffer(at) = [m EXCEPT !.epoch = epoch, !.clockReset = FALSE, !.resetPending = TRUE]
        <4>1. /\ AlignedBuffer(at).based = m.based /\ AlignedBuffer(at).baseRTP = m.baseRTP
              /\ AlignedBuffer(at).baseWall = m.baseWall
          BY <3>1, <3>4 DEF BufferType
        <4> QED
          BY <2>1, <3>2, <3>4, <4>1 DEF MovedBy
      <3> QED
        BY <2>2, <3>3, <3>4
    <2>4. MovedBy(AlignedBuffer(at), buf, by)
      BY <1>2, <2>3 DEF MovedBy, SameAnchor
    <2>5. \A p \in AlignedQueue(at) : \E o \in queue : p = [o EXCEPT !.playAt = @ + by]
      BY <1>3 DEF AlignedQueue, MovedQueue
    <2> QED
      BY <1>1, <2>4, <2>5
  <1>4. CASE ~ (Clocks /\ Aligns(buf, at))
    <2>1. AlignedBuffer(at) = s \/ AlignedBuffer(at) = buf
      BY <1>2, <1>4 DEF AlignedBuffer, Aligned
    <2>2. MovedBy(AlignedBuffer(at), buf, 0)
      BY <1>1, <1>2, <2>1 DEF MovedBy, SameAnchor, BufferType
    <2>3. AlignedQueue(at) = queue
      BY <1>4 DEF AlignedQueue
    <2>4. \A o \in queue : o = [o EXCEPT !.playAt = @ + 0]
      BY DEF Types, PacketType
    <2> QED
      BY <2>2, <2>3, <2>4
  <1> QED
    BY <1>3, <1>4

(* What correctClocks leaves when it moves the anchor and the queue together. *)
LEMMA MovedMaps ==
  ASSUME MappingInv, UNCHANGED <<now, sender>>, last' = [last EXCEPT !.check = now],
         root' \in RootType, NEW by \in Int, MovedBy(buf', buf, by),
         \A p \in queue' : \E o \in queue : p = [o EXCEPT !.playAt = @ + by],
         ~ buf.based => ~ buf'.catchUp /\ buf'.epoch = 0
  PROVE  MappingInv'
  <1>1. /\ buf' \in BufferType /\ buf'.based = buf.based /\ buf'.baseRTP = buf.baseRTP
        /\ buf'.baseWall = buf.baseWall + by
    BY DEF MovedBy
  <1>2. last' \in [packet : Int, check : Int] /\ last'.packet = last.packet /\ last.packet \in 0 .. now
    <2>1. now \in Int /\ last \in [packet : Int, check : Int] /\ last.packet \in 0 .. now
      BY DEF MappingInv, Types
    <2> QED
      BY <2>1
  <1>3. \A c : Clock(c)' = Clock(c) /\ Position(c)' = Position(c)
    BY DEF Clock, Position
  <1>4. \A p \in queue' : p \in PacketType /\ Queued(p, buf', last.packet) /\ buf.based
    <2> SUFFICES ASSUME NEW p \in queue'
                 PROVE  p \in PacketType /\ Queued(p, buf', last.packet) /\ buf.based
      OBVIOUS
    <2>1. PICK o \in queue : p = [o EXCEPT !.playAt = @ + by]
      BY Zenon
    <2>2. o \in PacketType /\ Queued(o, buf, last.packet) /\ buf.based /\ buf \in BufferType
      BY MappingUsed DEF MappingInv, Types
    <2>3. p \in PacketType /\ p.capture = o.capture /\ p.rtp = o.rtp /\ p.playAt = o.playAt + by
      BY <2>1, <2>2 DEF PacketType
    <2>4. rtpDelta(o.rtp, buf.baseRTP) \in Int /\ buf.baseWall \in Int /\ target \in Int
      BY <2>2, DeltaType, TimelineConstants, Zenon DEF PacketType, BufferType
    <2>5. playoutOf(buf', p.rtp) = playoutOf(buf, o.rtp) + by
      BY <1>1, <2>3, <2>4 DEF playoutOf
    <2> QED
      BY <2>2, <2>3, <2>5 DEF Queued
  <1>5. Types'
    BY <1>1, <1>2, <1>4, Zenon DEF MappingInv, Types, BufferType, CorrectionType, PacketType, RootType
  <1>6. Near(buf, last.packet) => Near(buf, last.packet)'
    BY <1>1, <1>2, <1>3 DEF Near
  <1>7. \A p \in queue' : Queued(p, buf, last.packet)'
    BY <1>2, <1>3, <1>4 DEF Queued, playoutOf, rtpDelta
  <1>8. ~ buf.based => queue' = {}
    BY <1>4
  <1> QED
    BY <1>1, <1>2, <1>5, <1>6, <1>7, <1>8 DEF MappingInv

LEMMA RootedType ==
  ASSUME Types, NEW at \in Int, NEW by \in Int
  PROVE  Rooted(at, by) \in RootType
  <1>1. root \in RootType /\ root.first \in Int
    BY DEF Types, RootType
  <1> QED
    BY <1>1 DEF Rooted, RootType

LEMMA AlignToMaps ==
  ASSUME MappingInv, NEW at \in Int, AlignTo(at), last' = [last EXCEPT !.check = now]
  PROVE  MappingInv'
  <1>1. Types
    BY DEF MappingInv
  <1>2. PICK by \in Int :
          /\ MovedBy(AlignedBuffer(at), buf, by)
          /\ \A p \in AlignedQueue(at) : \E o \in queue : p = [o EXCEPT !.playAt = @ + by]
    BY <1>1, AlignedMoves
  <1>3. /\ buf' = AlignedBuffer(at) /\ queue' = AlignedQueue(at)
        /\ UNCHANGED <<now, sender>> /\ root' \in RootType
    BY <1>1, RootedType DEF AlignTo
  <1>4. ~ buf.based => ~ buf'.catchUp /\ buf'.epoch = 0
    BY <1>3 DEF AlignedBuffer, Clocks, MappingInv
  <1> QED
    BY <1>2, <1>3, <1>4, MovedMaps

LEMMA CorrectToMaps ==
  ASSUME MappingInv, NEW at \in Int, CorrectTo(at), last' = [last EXCEPT !.check = now]
  PROVE  MappingInv'
  <1>1. Types
    BY DEF MappingInv
  <1> DEFINE b == AlignedBuffer(at)
  <1>2. PICK by \in Int :
          /\ MovedBy(b, buf, by)
          /\ \A p \in AlignedQueue(at) : \E o \in queue : p = [o EXCEPT !.playAt = @ + by]
    BY <1>1, AlignedMoves
  <1>3. PICK p \in AlignedQueue(at) :
          buf' = Corrected(b, p) /\ root' = Rooted(at, Excess(p))
    BY Zenon DEF CorrectTo
  <1>4. queue' = {} /\ UNCHANGED <<now, sender>>
    BY DEF CorrectTo
  <1>5. PICK o \in queue : p = [o EXCEPT !.playAt = @ + by]
    BY <1>2
  <1>6. o \in PacketType /\ buf.based
    BY MappingUsed DEF MappingInv, Types
  <1>7. p.playAt \in Int /\ p.rtp \in Int
    BY <1>5, <1>6 DEF PacketType
  <1>8. Excess(p) \in Int /\ - Excess(p) \in Int
    BY <1>1, <1>7, TimelineConstants DEF Excess, Types
  <1>9. b \in BufferType /\ b.based = buf.based /\ b.baseRTP = buf.baseRTP /\ b.baseWall = buf.baseWall + by
    BY <1>2 DEF MovedBy
  <1> HIDE DEF b
  <1> DEFINE noted == [shift |-> b.correction.shift + Excess(p), rtp |-> p.rtp,
                       ms |-> senderTime(b, p.rtp)]
             correction == IF Clocks THEN noted ELSE b.correction
             c == [b EXCEPT !.correction = correction]
  <1>10. correction \in CorrectionType
    <2>1. b.correction \in CorrectionType /\ b.correction.shift \in Int /\ senderTime(b, p.rtp) \in Int
      BY <1>7, <1>9, SenderTimeType DEF BufferType, CorrectionType
    <2>2. b.correction.shift + Excess(p) \in Int
      BY <1>8, <2>1
    <2>3. noted \in CorrectionType
      BY <1>7, <2>1, <2>2 DEF CorrectionType
    <2> QED
      BY <2>1, <2>3
  <1>11. buf' = Moved(c, - Excess(p), TRUE)
    BY <1>3, <1>9 DEF Corrected
  <1> HIDE DEF correction
  <1>12. c \in BufferType /\ c.based = b.based /\ c.baseRTP = b.baseRTP /\ c.baseWall = b.baseWall
    BY <1>9, <1>10 DEF BufferType
  <1> HIDE DEF c
  <1>13. MovedBy(buf', c, - Excess(p))
    BY <1>8, <1>11, <1>12, MovedMoves, Zenon
  <1>14. by - Excess(p) \in Int /\ MovedBy(buf', buf, by - Excess(p))
    <2>1. buf.baseWall \in Int
      BY <1>1 DEF Types, BufferType
    <2> QED
      BY <1>8, <1>9, <1>12, <1>13, <2>1 DEF MovedBy
  <1>15. root' \in RootType
    BY <1>1, <1>3, <1>8, RootedType
  <1> QED
    BY <1>4, <1>6, <1>14, <1>15, MovedMaps

-----------------------------------------------------------------------------
LEMMA NextMapping == MappingInv /\ [TimelineNext]_timelineVars => MappingInv'
  <1> SUFFICES ASSUME MappingInv, [TimelineNext]_timelineVars PROVE MappingInv'
    OBVIOUS
  <1>1. CASE Tick \/ \E by \in Jumps : Jump(by)
    BY <1>1, SenderMaps
  <1>2. ASSUME NEW c \in Captured,
               PushStale(c) \/ PushSkipped(c) \/ PushQueued(c) \/ SenderReport(c)
        PROVE  MappingInv'
    <2>1. c \in 0 .. now
      BY CapturedRecent DEF MappingInv
    <2> QED
      BY <1>2, <2>1, PushStaleMaps, PushSkippedMaps, PushQueuedMaps, SenderReportMaps
  <1>3. CASE Pop
    BY <1>3, PopMaps
  <1>4. CASE correctClocks
    <2>1. PICK at \in Roots : AlignTo(at) \/ CorrectTo(at)
      BY <1>4 DEF correctClocks
    <2>2. at \in Int
      BY RootsType, Zenon DEF MappingInv
    <2>3. last' = [last EXCEPT !.check = now]
      BY <1>4 DEF correctClocks
    <2> QED
      BY <2>1, <2>2, <2>3, AlignToMaps, CorrectToMaps
  <1>5. CASE UNCHANGED timelineVars
    <2>1. UNCHANGED <<now, sender, queue, last, root, buf>>
      BY <1>5 DEF timelineVars
    <2>2. buf \in BufferType /\ (~ buf.based => ~ buf.catchUp /\ buf.epoch = 0)
      BY DEF MappingInv, Types
    <2> QED
      BY <2>1, <2>2, SameMapping DEF SameAnchor
  <1> QED
    BY <1>1, <1>2, <1>3, <1>4, <1>5 DEF TimelineNext

(* Every packet in the queue is due when the present anchor says, and the packets to
   come keep its spacing: whatever was pushed, reported, aligned, corrected and taken
   back, however often the timestamps wrapped and the anchor moved, and across a jump
   of the sender's clock (Push, moveClockLocked). *)
THEOREM AlwaysOneMapping == TimelineSpec => []OneMapping
  <1>1. MappingInv => OneMapping
    BY MappingHolds
  <1> QED
    BY <1>1, InitMapping, NextMapping, PTL DEF TimelineSpec

-----------------------------------------------------------------------------
(* What has been corrected and not taken back accounts for the way the root moved. *)
BackInv ==
  /\ MappingInv
  /\ buf.correction.shift >= 0
  /\ ~ root.known => buf.correction.shift = 0
  /\ root.known => root.at + buf.correction.shift <= root.first

LEMMA BackTypes ==
  ASSUME BackInv
  PROVE  /\ Types /\ buf \in BufferType /\ root \in RootType
         /\ buf.correction \in CorrectionType /\ buf.correction.shift \in Int
         /\ root.at \in Int /\ root.first \in Int /\ root.known \in BOOLEAN
  BY DEF BackInv, MappingInv, Types, BufferType, CorrectionType, RootType

(* Steps that leave the correction and the root. *)
LEMMA SameCorrection ==
  ASSUME BackInv, MappingInv', buf'.correction = buf.correction, root' = root
  PROVE  BackInv'
  BY DEF BackInv

LEMMA PushKeepsCorrection ==
  ASSUME BackInv, NEW c \in Captured, PushStale(c) \/ PushSkipped(c) \/ PushQueued(c)
  PROVE  buf'.correction = buf.correction /\ root' = root
  <1>1. c \in 0 .. now /\ c \in Int /\ MappingInv
    BY BackTypes, CapturedRecent DEF BackInv
  <1> DEFINE a == Anchored(c)
             b == Followed(a, c)
             follows == IF b.resetPending THEN Sequence(c) ELSE b.resetSequence
             d == [b EXCEPT !.catchUp = FALSE, !.resetPending = FALSE, !.resetSequence = follows]
  <1>2. a \in BufferType
    BY <1>1, AnchoredBuffer
  <1>3. a.correction = buf.correction
    BY BackTypes, Zenon DEF Anchored, BufferType
  <1> HIDE DEF a
  <1>4. b \in BufferType /\ b.correction = a.correction
    BY <1>1, <1>2, FollowedBuffer, Zenon DEF Followed, BufferType
  <1> HIDE DEF b
  <1>5. d.correction = b.correction /\ Recent(d, c).correction = d.correction
    <2>1. follows \in Int
      BY <1>1, <1>4, SequenceType DEF BufferType
    <2> HIDE DEF follows
    <2>2. d \in BufferType /\ d.correction = b.correction
      BY <1>4, <2>1, Zenon DEF BufferType
    <2> HIDE DEF d
    <2> QED
      BY <2>2, Zenon DEF Recent, BufferType
  <1>6. root' = root /\ (buf' = a \/ buf' = b \/ buf' = Recent(d, c))
    BY Zenon DEF PushStale, PushSkipped, PushQueued, Accepted, a, b
  <1> QED
    BY <1>3, <1>4, <1>5, <1>6

(* senderCorrectionLocked takes back at most what was corrected, and settles it. *)
LEMMA RollbackSettles ==
  ASSUME BackInv
  PROVE  /\ Settled(buf).correction.shift \in Int /\ Settled(buf).correction.shift >= 0
         /\ Rollback(buf) + Settled(buf).correction.shift <= buf.correction.shift
         /\ buf.correction.shift = 0 => Settled(buf).correction.shift = 0
  <1> DEFINE shift == buf.correction.shift
             by == buf.correction.ms - senderTime(buf, buf.correction.rtp)
  <1>1. shift \in Int /\ by \in Int /\ Margin \in Nat /\ shift >= 0
    <2>1. buf.correction.ms \in Int /\ buf.correction.rtp \in Int
      BY BackTypes DEF CorrectionType
    <2>2. senderTime(buf, buf.correction.rtp) \in Int
      BY <2>1, BackTypes, SenderTimeType
    <2> QED
      BY <2>1, <2>2, BackTypes, TimelineConstants DEF BackInv
  <1>2. Rollback(buf) = IF shift = 0 \/ by <= Margin THEN 0 ELSE IF by <= shift THEN by ELSE shift
    BY DEF Rollback
  <1>3. /\ [buf EXCEPT !.correction.shift = 0].correction.shift = 0
    BY BackTypes, Zenon DEF BufferType, CorrectionType
  <1>4. \/ Settled(buf).correction.shift = 0
        \/ Settled(buf).correction.shift = shift /\ ~ (Rollback(buf) > 0)
    BY <1>3, Zenon DEF Settled
  <1> HIDE DEF shift, by
  <1>5. Rollback(buf) \in Int /\ Rollback(buf) >= 0 /\ Rollback(buf) <= shift
    BY <1>1, <1>2
  <1> QED
    BY <1>1, <1>4, <1>5 DEF shift

LEMMA AlignedCorrection ==
  ASSUME BackInv, NEW at \in Int
  PROVE  AlignedBuffer(at).correction = IF Clocks THEN Settled(buf).correction ELSE buf.correction
  <1> DEFINE s == Settled(buf)
             off == Off(s, at)
             reset == Resets(s, at)
             m == Moved(s, off, reset)
             e == m.epoch + 1
  <1>1. s \in BufferType
    BY BackTypes, SettledBuffer
  <1> HIDE DEF s
  <1>2. off \in Int /\ reset \in BOOLEAN
    BY <1>1, OffType DEF Resets, BufferType
  <1> HIDE DEF off, reset
  <1>3. m \in BufferType
    BY <1>1, <1>2, MovedMoves DEF MovedBy
  <1>4. m.correction = s.correction
    BY <1>1, Zenon DEF Moved, BufferType
  <1> HIDE DEF m
  <1>5. [m EXCEPT !.epoch = e, !.clockReset = FALSE, !.resetPending = TRUE].correction = m.correction
    BY <1>3, Zenon DEF BufferType
  <1>6. Aligned(s, at).correction = s.correction
    BY <1>4, <1>5, Zenon DEF Aligned, m, off, reset
  <1> QED
    BY <1>6, Zenon DEF AlignedBuffer, s

(* The root that correctClocks starts from. *)
LEMMA RootBack ==
  ASSUME BackInv, NEW at \in Roots, Clocks
  PROVE  at + Settled(buf).correction.shift <= IF root.known THEN root.first ELSE at
  <1>1. at \in Int
    BY BackTypes, RootsType
  <1>2. CASE root.known
    <2>1. at = root.at + Rollback(buf) /\ Rollback(buf) \in Int
      BY <1>2, BackTypes, RollbackType DEF Roots
    <2> QED
      BY <1>2, <2>1, BackTypes, RollbackSettles DEF BackInv
  <1>3. CASE ~ root.known
    BY <1>1, <1>3, RollbackSettles DEF BackInv
  <1> QED
    BY <1>2, <1>3

LEMMA AlignToBack ==
  ASSUME BackInv, MappingInv', NEW at \in Roots, AlignTo(at)
  PROVE  BackInv'
  <1>1. at \in Int /\ buf' = AlignedBuffer(at) /\ root' = Rooted(at, 0)
    BY BackTypes, RootsType DEF AlignTo
  <1>2. CASE Clocks
    <2>1. /\ root'.known /\ root'.at = at
          /\ root'.first = IF root.known THEN root.first ELSE at
      BY <1>1, <1>2 DEF Rooted
    <2>2. buf'.correction.shift = Settled(buf).correction.shift
      BY <1>1, <1>2, AlignedCorrection
    <2> QED
      BY <1>2, <2>1, <2>2, RootBack, RollbackSettles DEF BackInv
  <1>3. CASE ~ Clocks
    <2>1. root' = root /\ buf'.correction = buf.correction
      BY <1>1, <1>3, AlignedCorrection DEF Rooted
    <2> QED
      BY <2>1, SameCorrection
  <1> QED
    BY <1>2, <1>3

LEMMA CorrectToBack ==
  ASSUME BackInv, MappingInv', NEW at \in Roots, CorrectTo(at)
  PROVE  BackInv'
  <1> DEFINE b == AlignedBuffer(at)
  <1>1. at \in Int /\ MappingInv
    BY BackTypes, RootsType DEF BackInv
  <1>2. PICK p \in AlignedQueue(at) :
          buf' = Corrected(b, p) /\ root' = Rooted(at, Excess(p)) /\ Excess(p) > Margin
    BY Zenon DEF CorrectTo
  <1>3. PICK by \in Int :
          /\ MovedBy(b, buf, by)
          /\ \A q \in AlignedQueue(at) : \E o \in queue : q = [o EXCEPT !.playAt = @ + by]
    BY <1>1, BackTypes, AlignedMoves
  <1>4. PICK o \in queue : p = [o EXCEPT !.playAt = @ + by]
    BY <1>3
  <1>5. o \in PacketType
    BY BackTypes DEF Types
  <1>6. p.playAt \in Int
    BY <1>4, <1>5 DEF PacketType
  <1>7. Excess(p) \in Int /\ - Excess(p) \in Int /\ Excess(p) >= 0
    BY <1>2, <1>6, BackTypes, TimelineConstants DEF Excess, Types
  <1>8. b \in BufferType
    BY <1>3 DEF MovedBy
  <1>9. b.correction = IF Clocks THEN Settled(buf).correction ELSE buf.correction
    BY <1>1, AlignedCorrection
  <1> HIDE DEF b
  <1> DEFINE noted == [shift |-> b.correction.shift + Excess(p), rtp |-> p.rtp,
                       ms |-> senderTime(b, p.rtp)]
             correction == IF Clocks THEN noted ELSE b.correction
  <1>10. buf'.correction = correction
    <2>1. buf' = Moved([b EXCEPT !.correction = correction], - Excess(p), TRUE)
      BY <1>2 DEF Corrected
    <2> HIDE DEF correction
    <2>2. [b EXCEPT !.correction = correction].correction = correction
      BY <1>8, Zenon DEF BufferType
    <2> QED
      BY <1>8, <2>1, <2>2, Zenon DEF Moved, BufferType
  <1>11. CASE Clocks
    <2>1. /\ root'.known /\ root'.at = at - Excess(p)
          /\ root'.first = IF root.known THEN root.first ELSE at
      BY <1>2, <1>11 DEF Rooted
    <2>2. buf'.correction.shift = Settled(buf).correction.shift + Excess(p)
      BY <1>9, <1>10, <1>11
    <2>3. root.first \in Int
      BY BackTypes
    <2> QED
      BY <1>1, <1>7, <1>11, <2>1, <2>2, <2>3, RootBack, RollbackSettles DEF BackInv
  <1>12. CASE ~ Clocks
    <2>1. root' = root /\ buf'.correction = buf.correction
      BY <1>2, <1>9, <1>10, <1>12 DEF Rooted
    <2> QED
      BY <2>1, SameCorrection
  <1> QED
    BY <1>11, <1>12

LEMMA NextBack == BackInv /\ [TimelineNext]_timelineVars => BackInv'
  <1> SUFFICES ASSUME BackInv, [TimelineNext]_timelineVars PROVE BackInv'
    OBVIOUS
  <1>0. MappingInv'
    BY NextMapping DEF BackInv
  <1>1. CASE Tick \/ (\E by \in Jumps : Jump(by)) \/ Pop \/ UNCHANGED timelineVars
    <2>1. buf' = buf /\ root' = root
      BY <1>1 DEF Tick, Jump, Pop, timelineVars
    <2> QED
      BY <1>0, <2>1, SameCorrection
  <1>2. ASSUME NEW c \in Captured, PushStale(c) \/ PushSkipped(c) \/ PushQueued(c)
        PROVE  BackInv'
    BY <1>0, <1>2, PushKeepsCorrection, SameCorrection
  <1>3. ASSUME NEW c \in Captured, SenderReport(c)
        PROVE  BackInv'
    <2>1. root' = root /\ buf'.correction = buf.correction
      BY <1>3, BackTypes, Zenon DEF SenderReport, BufferType
    <2> QED
      BY <1>0, <2>1, SameCorrection
  <1>4. CASE correctClocks
    <2>1. PICK at \in Roots : AlignTo(at) \/ CorrectTo(at)
      BY <1>4 DEF correctClocks
    <2> QED
      BY <1>0, <2>1, AlignToBack, CorrectToBack
  <1> QED
    BY <1>1, <1>2, <1>3, <1>4 DEF TimelineNext

(* However often the clock jumps, is reported and is corrected, no more is taken back
   than was corrected and nothing twice, so that the schedule is never later than the
   first alignment left it (senderCorrectionLocked, clockCorrectionLocked). *)
THEOREM NeverTakenBackTwice == TimelineSpec => []TakenBackOnce
  <1>1. TimelineInit => BackInv
    <2> SUFFICES ASSUME TimelineInit PROVE BackInv
      OBVIOUS
    <2>1. buf.correction.shift = 0 /\ ~ root.known
      BY DEF TimelineInit, NewBuffer, NoCorrection
    <2> QED
      BY <2>1, InitMapping DEF BackInv
  <1>2. BackInv => TakenBackOnce
    <2> SUFFICES ASSUME BackInv, root.known PROVE root.at <= root.first
      BY DEF TakenBackOnce
    <2> QED
      BY BackTypes DEF BackInv
  <1> QED
    BY <1>1, <1>2, NextBack, PTL DEF TimelineSpec

-----------------------------------------------------------------------------
(* The whole stream is shorter than half the wrap, however the clock jumps. *)
HalfWrap ==
  \A by \in Jumps \cup {0} : \A size \in {by, -by} : MaxTime + size < Wrap \div 2
HalfSequence == MaxTime < SeqWrap \div 2
ShortStream == HalfWrap /\ HalfSequence

ShortTypes == Types /\ HalfWrap

(* Time on the sender's first clock, the level of the schedule on it, and what the
   latest report adds to it: nothing on the old clock, the jump taken back on the
   new one. *)
Elapsed(timestamp) == rtpDelta(timestamp, Start % Wrap)
Level(b) == b.baseWall - Elapsed(b.baseRTP)
Sent(b) == b.senderNTP - Elapsed(b.senderRTP)

(* Packets, reports and corrections are the sender's; the reports find a jump once. *)
ReportInv ==
  /\ sender.from >= 1
  /\ \/ buf.senderNTP = NoReport
     \/ buf.senderNTP \in 0 .. now /\ buf.senderRTP = Clock(buf.senderNTP)
  /\ \A p \in queue : p.capture \in 0 .. now /\ p.rtp = Clock(p.capture)
  /\ root.known => Clocks
  /\ sender.aligned => root.known
  /\ buf.correction.shift >= 0
  /\ buf.correction.shift # 0 => root.known /\ Used(buf.correction.rtp)
  /\ buf.epoch >= 0
  /\ buf.clockReset =>
       /\ buf.epoch = 0 /\ buf.senderNTP >= sender.from
       /\ sender.by < 0 \/ sender.by > Margin
  /\ buf.epoch > 0 => buf.senderNTP >= sender.from /\ root.known

(* Until a reported jump is applied the schedule has not run ahead, but by a jump
   forward that the last correction has noted. *)
Before ==
  /\ sender.from > MaxTime \/ sender.aligned
  /\ buf.epoch = 0
  /\ buf.senderNTP < sender.from \/ buf.clockReset

BeforeInv ==
  Before =>
    /\ buf.based =>
         \/ Level(buf) >= 0
         \/ /\ sender.from <= now /\ sender.by > 0 /\ Level(buf) + sender.by >= 0
            /\ buf.correction.shift # 0 /\ Elapsed(buf.correction.rtp) >= sender.from
    /\ root.known =>
         /\ Magnitude(root.at - Level(buf)) <= Tolerance
         /\ root.at + buf.correction.shift >= - Tolerance
    /\ buf.correction.shift # 0 => buf.correction.ms = Elapsed(buf.correction.rtp)

(* Afterwards it is where the new reports say, and packets of a clock that jumped
   back are told apart by their sequence numbers. *)
After == sender.aligned /\ buf.epoch > 0

AfterInv ==
  After =>
    /\ root.at = Level(buf) + sender.by
    /\ buf.correction.shift # 0 => buf.correction.ms = Elapsed(buf.correction.rtp) - sender.by
    /\ sender.by > 0 \/ Evident => root.at >= - Tolerance
    /\ Evident =>
         /\ \A p \in queue : ~Old(p.capture)
         /\ \/ buf.resetPending
            \/ \E c \in 0 .. now : c >= sender.from /\ buf.resetSequence = Sequence(c)

UndoInv == ShortStream /\ MappingInv /\ ReportInv /\ BeforeInv /\ AfterInv

(* The differences of used timestamps are those of their positions. *)
LEMMA ClockDelta ==
  ASSUME ShortTypes, NEW c \in 0 .. now, NEW d \in 0 .. now
  PROVE  rtpDelta(Clock(c), Clock(d)) = Position(c) - Position(d)
  <1>1. /\ c \in Int /\ d \in Int /\ c - d <= MaxTime /\ d - c <= MaxTime /\ MaxTime \in Int
        /\ Wrap \div 2 \in Int /\ Types
    BY TimelineConstants DEF ShortTypes, Types
  <1>2. \A by \in Jumps \cup {0} : \A size \in {by, -by} : MaxTime + size < Wrap \div 2
    BY DEF ShortTypes, HalfWrap
  <1>3. Position(c) - Position(d) < Wrap \div 2 /\ Position(d) - Position(c) < Wrap \div 2
    BY <1>1, <1>2, Jumped
  <1> QED
    BY <1>1, <1>3, Exact

LEMMA CombinedDelta ==
  ASSUME ShortTypes, NEW x, NEW y, NEW z, Used(x), Used(y), Used(z)
  PROVE  /\ rtpDelta(x, z) = rtpDelta(x, y) + rtpDelta(y, z)
         /\ rtpDelta(x, y) \in Int /\ rtpDelta(y, z) \in Int
  <1>1. PICK a \in 0 .. now : x = Clock(a)
    BY DEF Used
  <1>2. PICK b \in 0 .. now : y = Clock(b)
    BY DEF Used
  <1>3. PICK c \in 0 .. now : z = Clock(c)
    BY DEF Used
  <1>4. Position(a) \in Int /\ Position(b) \in Int /\ Position(c) \in Int
    BY ClockType DEF ShortTypes, Types
  <1> QED
    BY <1>1, <1>2, <1>3, <1>4, ClockDelta

(* Recent and Accepted: moving the anchor to a used timestamp leaves the playout
   time of every used timestamp. *)
LEMMA RecentMaps ==
  ASSUME ShortTypes, NEW b \in BufferType, b.based, Used(b.baseRTP), NEW c \in 0 .. now
  PROVE  /\ Recent(b, c) \in BufferType /\ Recent(b, c).based /\ Used(Recent(b, c).baseRTP)
         /\ \A x : Used(x) => playoutOf(Recent(b, c), x) = playoutOf(b, x)
  <1>1. Used(Clock(c)) /\ Clock(c) \in Int
    BY ClockType DEF ShortTypes, Used, Types
  <1>2. b.baseWall \in Int /\ target \in Int
    BY TimelineConstants DEF BufferType
  <1> DEFINE wall == playoutOf(b, Clock(c)) - target
             m == [b EXCEPT !.baseWall = wall, !.baseRTP = Clock(c)]
  <1>3. wall \in Int /\ wall = b.baseWall + rtpDelta(Clock(c), b.baseRTP)
    <2>1. rtpDelta(Clock(c), b.baseRTP) \in Int
      BY <1>1, DeltaType DEF BufferType
    <2> QED
      BY <1>2, <2>1 DEF playoutOf
  <1> HIDE DEF wall
  <1>4. m \in BufferType /\ m.based /\ m.baseRTP = Clock(c) /\ m.baseWall = wall
    BY <1>1, <1>3, Zenon DEF BufferType
  <1>5. ASSUME NEW x, Used(x)
        PROVE  playoutOf(m, x) = playoutOf(b, x)
    <2>1. /\ rtpDelta(x, b.baseRTP) = rtpDelta(x, Clock(c)) + rtpDelta(Clock(c), b.baseRTP)
          /\ rtpDelta(x, Clock(c)) \in Int /\ rtpDelta(Clock(c), b.baseRTP) \in Int
      BY <1>1, <1>5, CombinedDelta
    <2> HIDE DEF m
    <2> QED
      BY <1>2, <1>3, <1>4, <2>1 DEF playoutOf
  <1>6. Recent(b, c) = m \/ Recent(b, c) = b
    BY DEF Recent, m, wall
  <1> HIDE DEF m
  <1> QED
    BY <1>1, <1>4, <1>5, <1>6

LEMMA AcceptedMaps ==
  ASSUME ShortTypes, NEW b \in BufferType, b.based, Used(b.baseRTP), NEW c \in 0 .. now
  PROVE  /\ Accepted(b, c) \in BufferType /\ Accepted(b, c).based /\ Used(Accepted(b, c).baseRTP)
         /\ \A x : Used(x) => playoutOf(Accepted(b, c), x) = playoutOf(b, x)
  <1> DEFINE m == [b EXCEPT !.catchUp = FALSE, !.resetPending = FALSE,
                   !.resetSequence = IF b.resetPending THEN Sequence(c) ELSE @]
  <1>1. Sequence(c) \in Int
    BY SequenceType DEF ShortTypes, Types
  <1>2. m \in BufferType /\ SameAnchor(m, b)
    BY <1>1, Zenon DEF BufferType, SameAnchor
  <1>3. Accepted(b, c) = Recent(m, c)
    BY DEF Accepted
  <1> HIDE DEF m
  <1>4. m.based /\ Used(m.baseRTP)
    BY <1>2 DEF SameAnchor
  <1> QED
    BY <1>2, <1>3, <1>4, RecentMaps, SameAnchorMaps

(* Differences of used timestamps are differences of elapsed time. *)
LEMMA ElapsedOf ==
  ASSUME ShortTypes, sender.from >= 1, NEW c \in 0 .. now
  PROVE  /\ Elapsed(Clock(c)) = c + (IF c >= sender.from THEN sender.by ELSE 0)
         /\ Elapsed(Clock(c)) \in Int
  <1>1. 0 \in 0 .. now /\ now \in Int /\ sender.from \in Int /\ sender.by \in Int /\ Start \in Int
    BY SenderType, TimelineConstants DEF ShortTypes, Types
  <1>2. Clock(0) = Start % Wrap /\ Position(0) = Start
    BY <1>1 DEF Clock, Position
  <1>3. rtpDelta(Clock(c), Clock(0)) = Position(c) - Position(0)
    BY <1>1, ClockDelta, Zenon
  <1> QED
    BY <1>1, <1>2, <1>3 DEF Elapsed, Position

LEMMA ElapsedDelta ==
  ASSUME ShortTypes, sender.from >= 1, NEW x, NEW y, Used(x), Used(y)
  PROVE  rtpDelta(x, y) = Elapsed(x) - Elapsed(y) /\ Elapsed(x) \in Int /\ Elapsed(y) \in Int
  <1>1. PICK a \in 0 .. now : x = Clock(a)
    BY DEF Used
  <1>2. PICK b \in 0 .. now : y = Clock(b)
    BY DEF Used
  <1>3. sender.from \in Int /\ sender.by \in Int /\ Start \in Int /\ a \in Int /\ b \in Int
    BY SenderType, TimelineConstants DEF ShortTypes, Types
  <1>4. rtpDelta(x, y) = Position(a) - Position(b)
    BY <1>1, <1>2, ClockDelta, Zenon
  <1> QED
    BY <1>1, <1>2, <1>3, <1>4, ElapsedOf DEF Position

LEMMA PlayoutAt ==
  ASSUME ShortTypes, sender.from >= 1, NEW b \in BufferType, Used(b.baseRTP), NEW x, Used(x)
  PROVE  /\ playoutOf(b, x) = Level(b) + Elapsed(x) + target
         /\ Level(b) \in Int /\ Elapsed(x) \in Int /\ Elapsed(b.baseRTP) \in Int
  <1>1. b.baseWall \in Int /\ target \in Int
    BY TimelineConstants DEF BufferType
  <1> QED
    BY <1>1, ElapsedDelta DEF playoutOf, Level

LEMMA SenderAt ==
  ASSUME ShortTypes, sender.from >= 1, NEW b \in BufferType, Used(b.senderRTP), NEW x, Used(x)
  PROVE  senderTime(b, x) = Sent(b) + Elapsed(x) /\ Sent(b) \in Int /\ Elapsed(x) \in Int
  <1>1. b.senderNTP \in Int
    BY Zenon DEF BufferType
  <1> QED
    BY <1>1, ElapsedDelta DEF senderTime, Sent

LEMMA OffAt ==
  ASSUME ShortTypes, sender.from >= 1, NEW b \in BufferType, NEW at \in Int,
         Used(b.senderRTP), Used(b.baseRTP)
  PROVE  Off(b, at) = at + Sent(b) - Level(b) /\ Sent(b) \in Int /\ Level(b) \in Int
  <1>1. b.baseWall \in Int
    BY Zenon DEF BufferType
  <1>2. senderTime(b, b.baseRTP) = Sent(b) + Elapsed(b.baseRTP) /\ Sent(b) \in Int
        /\ Elapsed(b.baseRTP) \in Int
    BY SenderAt, Zenon
  <1> QED
    BY <1>1, <1>2 DEF Off, Level

(* Two buffers that map one used timestamp alike have one level. *)
LEMMA SameLevel ==
  ASSUME ShortTypes, sender.from >= 1, NEW b \in BufferType, NEW d \in BufferType,
         Used(b.baseRTP), Used(d.baseRTP), NEW x, Used(x), playoutOf(b, x) = playoutOf(d, x)
  PROVE  Level(b) = Level(d)
  <1>1. /\ playoutOf(b, x) = Level(b) + Elapsed(x) + target /\ Level(b) \in Int /\ Elapsed(x) \in Int
    BY PlayoutAt, Zenon
  <1>2. /\ playoutOf(d, x) = Level(d) + Elapsed(x) + target /\ Level(d) \in Int
    BY PlayoutAt, Zenon
  <1>3. target \in Int
    BY TimelineConstants
  <1> DEFINE l == Level(b)
             m == Level(d)
             e == Elapsed(x)
  <1>4. l \in Int /\ m \in Int /\ e \in Int /\ l + e + target = m + e + target
    BY <1>1, <1>2, Zenon
  <1> HIDE DEF l, m, e
  <1>5. l = m
    BY <1>3, <1>4
  <1> QED
    BY <1>5, Zenon DEF l, m

(* A capture before another is behind it in sequence, across the wrap. *)
LEMMA EarlierBehind ==
  ASSUME ShortStream, NEW c \in 0 .. MaxTime, NEW d \in 0 .. MaxTime, c < d
  PROVE  (Sequence(c) - Sequence(d)) % SeqWrap >= SeqWrap \div 2
  <1>w. SeqWrap \in Nat \ {0} /\ Start \in Int /\ MaxTime \in Nat
    BY TimelineConstants
  <1> DEFINE a == Start + c
             b == Start + d
  <1>0. a \in Int /\ b \in Int /\ a - b = c - d /\ c \in Int /\ d \in Int
    BY <1>w
  <1>1. PICK q \in Int : a = SeqWrap * q + (a % SeqWrap) /\ a % SeqWrap \in 0 .. SeqWrap - 1
    BY <1>w, <1>0, Division, Zenon
  <1>2. PICK p \in Int : b = SeqWrap * p + (b % SeqWrap) /\ b % SeqWrap \in 0 .. SeqWrap - 1
    BY <1>w, <1>0, Division, Zenon
  <1>3. Sequence(c) = a % SeqWrap /\ Sequence(d) = b % SeqWrap
    BY DEF Sequence
  <1> HIDE DEF a, b
  <1> DEFINE x == (a % SeqWrap) - (b % SeqWrap)
  <1>h. /\ SeqWrap \div 2 \in Int /\ 2 * (SeqWrap \div 2) <= SeqWrap /\ SeqWrap \div 2 >= 0
        /\ d - c < SeqWrap \div 2
    BY <1>w, <1>0 DEF ShortStream, HalfSequence
  <1>4. x \in Int /\ x = (a - b) - SeqWrap * (q - p)
    <2>1. SeqWrap * (q - p) = SeqWrap * q - SeqWrap * p
      BY <1>w, SMTT(20)
    <2> DEFINE y == SeqWrap * q
               z == SeqWrap * p
               r == a % SeqWrap
               s == b % SeqWrap
    <2>2. y \in Int /\ z \in Int /\ r \in Int /\ s \in Int /\ a = y + r /\ b = z + s
      BY <1>w, <1>1, <1>2
    <2> HIDE DEF y, z, r, s
    <2>3. r - s \in Int /\ r - s = (a - b) - (y - z)
      BY <1>0, <2>2
    <2> QED
      BY <2>1, <2>3 DEF y, z, r, s
  <1>5. SeqWrap + (a - b) \in 0 .. SeqWrap - 1
    BY <1>w, <1>0, <1>h
  <1>6. x = SeqWrap * (p - q - 1) + (SeqWrap + (a - b))
    BY <1>w, <1>0, <1>4, SMTT(20)
  <1>7. x % SeqWrap = SeqWrap + (a - b)
    BY <1>w, <1>5, <1>6, Remainder, SMTT(30)
  <1>8. SeqWrap + (a - b) >= SeqWrap \div 2
    BY <1>w, <1>0, <1>h
  <1> QED
    BY <1>3, <1>7, <1>8, Zenon
LEMMA UndoTypes ==
  ASSUME UndoInv
  PROVE  /\ Types /\ ShortTypes /\ sender.from \in Int /\ sender.from >= 1 /\ sender.by \in Int
         /\ sender.aligned \in BOOLEAN
         /\ MaxTime \in Nat /\ Margin \in Nat /\ Tolerance \in Nat /\ target \in Int
         /\ now \in Nat /\ now <= MaxTime /\ root.at \in Int /\ root.known \in BOOLEAN
         /\ buf \in BufferType /\ buf.senderNTP \in Int /\ buf.epoch \in Int
         /\ buf.clockReset \in BOOLEAN /\ buf.based \in BOOLEAN /\ buf.correction \in CorrectionType
         /\ buf.correction.shift \in Int /\ buf.correction.ms \in Int
         /\ buf.based => Used(buf.baseRTP) /\ Level(buf) \in Int
         /\ buf.senderNTP # NoReport => Used(buf.senderRTP)
         /\ buf.correction.shift # 0 =>
              Used(buf.correction.rtp) /\ Elapsed(buf.correction.rtp) \in Int
  <1>1. Types /\ ShortTypes /\ sender.from >= 1
    BY DEF UndoInv, MappingInv, ReportInv, ShortTypes, ShortStream
  <1>2. sender.from \in Int /\ sender.by \in Int /\ sender.aligned \in BOOLEAN
    BY <1>1, SenderType DEF Types
  <1>3. MaxTime \in Nat /\ Margin \in Nat /\ Tolerance \in Nat /\ target \in Int
    BY TimelineConstants
  <1>4. /\ now \in Nat /\ now <= MaxTime /\ root.at \in Int /\ root.known \in BOOLEAN
        /\ buf \in BufferType
    BY <1>1, <1>3 DEF Types, RootType
  <1>5. /\ buf.senderNTP \in Int /\ buf.epoch \in Int /\ buf.baseWall \in Int
        /\ buf.clockReset \in BOOLEAN /\ buf.based \in BOOLEAN
        /\ buf.correction \in CorrectionType
    BY <1>4 DEF BufferType
  <1>6. buf.correction.shift \in Int /\ buf.correction.ms \in Int
    BY <1>5, Zenon DEF CorrectionType
  <1>7. buf.based => Used(buf.baseRTP) /\ Level(buf) \in Int
    BY <1>1, <1>4, MappingUsed, PlayoutAt, Zenon DEF UndoInv
  <1>8. buf.senderNTP # NoReport => Used(buf.senderRTP)
    BY Zenon DEF UndoInv, ReportInv, Used
  <1>9. buf.correction.shift # 0 =>
          Used(buf.correction.rtp) /\ Elapsed(buf.correction.rtp) \in Int
    BY <1>1, ElapsedDelta, Zenon DEF UndoInv, ReportInv
  <1> QED
    BY <1>1, <1>2, <1>3, <1>4, <1>5, <1>6, <1>7, <1>8, <1>9, Zenon

(* A reset that is applied begins an epoch of the clock that was reported. *)
LEMMA EpochNext ==
  ASSUME UndoInv, NEW e, e = IF buf.clockReset THEN buf.epoch + 1 ELSE buf.epoch
  PROVE  e >= 0 /\ (e > 0 => buf.senderNTP >= sender.from)
  <1>1. /\ buf.epoch \in Int /\ buf.epoch >= 0
        /\ buf.clockReset => buf.senderNTP >= sender.from
        /\ buf.epoch > 0 => buf.senderNTP >= sender.from
    BY UndoTypes, Zenon DEF UndoInv, ReportInv
  <1> QED
    BY <1>1

(* The report is on the old clock or on the new one. *)
LEMMA SentOf ==
  ASSUME UndoInv, buf.senderNTP # NoReport
  PROVE  /\ Sent(buf) = IF buf.senderNTP >= sender.from THEN - sender.by ELSE 0
         /\ Sent(buf) \in Int
         /\ Elapsed(buf.senderRTP) =
              buf.senderNTP + (IF buf.senderNTP >= sender.from THEN sender.by ELSE 0)
  <1>1. buf.senderNTP \in 0 .. now /\ buf.senderRTP = Clock(buf.senderNTP)
    BY Zenon DEF UndoInv, ReportInv
  <1>2. Elapsed(buf.senderRTP) =
          buf.senderNTP + (IF buf.senderNTP >= sender.from THEN sender.by ELSE 0)
    BY <1>1, UndoTypes, ElapsedOf, Zenon
  <1> QED
    BY <1>1, <1>2, UndoTypes DEF Sent

(* Where a packet in the queue is due. *)
LEMMA QueuedAt ==
  ASSUME UndoInv, NEW p \in queue
  PROVE  /\ p \in PacketType /\ p.capture \in 0 .. now /\ p.rtp = Clock(p.capture) /\ Used(p.rtp)
         /\ buf.based /\ p.playAt = Level(buf) + Elapsed(p.rtp) + target
         /\ Elapsed(p.rtp) =
              p.capture + (IF p.capture >= sender.from THEN sender.by ELSE 0)
  <1>1. /\ p \in PacketType /\ Used(p.rtp) /\ buf.based /\ p.playAt = playoutOf(buf, p.rtp)
        /\ p.capture \in 0 .. now /\ p.rtp = Clock(p.capture)
    BY MappingUsed, Zenon DEF UndoInv, MappingInv, Types, ReportInv
  <1>2. p.playAt = Level(buf) + Elapsed(p.rtp) + target
    BY <1>1, UndoTypes, PlayoutAt, Zenon
  <1>3. Elapsed(p.rtp) = p.capture + (IF p.capture >= sender.from THEN sender.by ELSE 0)
    BY <1>1, UndoTypes, ElapsedOf, Zenon
  <1> QED
    BY <1>1, <1>2, <1>3, Zenon

LEMMA InitUndo == ShortStream /\ TimelineInit => UndoInv
  <1> SUFFICES ASSUME ShortStream, TimelineInit PROVE UndoInv
    OBVIOUS
  <1>1. MappingInv
    BY InitMapping, Zenon
  <1>2. /\ buf.senderNTP = NoReport /\ buf.correction.shift = 0 /\ buf.epoch = 0
        /\ ~ buf.clockReset /\ ~ buf.based /\ ~ root.known /\ ~ sender.aligned /\ queue = {}
        /\ sender.from = MaxTime + 1
    BY DEF TimelineInit, NewBuffer, NoCorrection
  <1>3. MaxTime \in Nat
    BY TimelineConstants, Zenon
  <1>4. ReportInv
    BY <1>2, <1>3 DEF ReportInv
  <1> QED
    BY <1>1, <1>2, <1>4 DEF UndoInv, BeforeInv, AfterInv, After

(* Time passes, or the clock jumps. *)
LEMMA SenderUndo ==
  ASSUME UndoInv, Tick \/ \E by \in Jumps : Jump(by)
  PROVE  UndoInv'
  <1>1. MappingInv'
    BY SenderMaps DEF UndoInv
  <1>2. UNCHANGED <<buf, queue, root>>
    BY DEF Tick, Jump
  <1>3. /\ now' \in 0 .. MaxTime /\ now <= now' /\ now \in 0 .. MaxTime
        /\ \A c \in 0 .. now : c \in 0 .. now' /\ Clock(c)' = Clock(c)
        /\ \A x : Used(x) => \E c \in 0 .. now' : x = Clock(c)'
    BY CapturesKept, Zenon DEF UndoInv
  <1>4. /\ Level(buf)' = Level(buf) /\ Elapsed(buf.correction.rtp)' = Elapsed(buf.correction.rtp)
        /\ Magnitude(root.at - Level(buf))' = Magnitude(root.at - Level(buf))
    BY <1>2, Zenon DEF Level, Elapsed, rtpDelta, Magnitude
  <1>5. /\ buf.senderNTP = NoReport \/ (buf.senderNTP \in 0 .. now' /\ buf.senderRTP = Clock(buf.senderNTP)')
        /\ \A p \in queue : p.capture \in 0 .. now' /\ p.rtp = Clock(p.capture)'
        /\ buf.correction.shift # 0 => \E c \in 0 .. now' : buf.correction.rtp = Clock(c)'
    BY <1>2, <1>3 DEF UndoInv, ReportInv, NoReport
  <1>6. CASE Tick
    <2>1. UNCHANGED sender
      BY <1>6, Zenon DEF Tick
    <2>2. ReportInv'
      BY <1>2, <1>5, <2>1, Zenon DEF UndoInv, ReportInv, Clocks, NoReport, Used
    <2>3. BeforeInv'
      <3>1. sender.from <= now => sender.from <= now'
        BY <1>3, UndoTypes
      <3> QED
        BY <1>2, <1>4, <2>1, <3>1, Zenon DEF UndoInv, BeforeInv, Before
    <2>4. AfterInv'
      BY <1>2, <1>3, <1>4, <2>1, Zenon DEF UndoInv, AfterInv, After, Evident, Old, Sequence
    <2> QED
      BY <1>1, <2>2, <2>3, <2>4, Zenon DEF UndoInv
  <1>7. CASE \E by \in Jumps : Jump(by)
    <2>1. /\ now' = now /\ sender.from > MaxTime /\ sender'.from = now + 1
          /\ sender'.aligned = root.known
      BY <1>7 DEF Jump
    <2>2. buf.senderNTP <= now
      BY UndoTypes DEF UndoInv, ReportInv, NoReport
    <2>3. buf.senderNTP < sender.from /\ buf.senderNTP < sender'.from /\ sender'.from >= 1
      <3>1. /\ now \in Nat /\ now <= MaxTime /\ MaxTime \in Nat /\ sender.from \in Int
            /\ buf.senderNTP \in Int
        BY UndoTypes, Zenon
      <3> QED
        BY <2>1, <2>2, <3>1
    <2>4. ~ buf.clockReset /\ buf.epoch = 0
      BY <2>3, UndoTypes DEF UndoInv, ReportInv
    <2>5. Before
      BY <2>1, <2>3, <2>4, Zenon DEF Before
    <2>6. ReportInv'
      BY <1>2, <1>5, <2>1, <2>3, <2>4 DEF UndoInv, ReportInv, Clocks, NoReport, Used
    <2>7. buf.based => Level(buf) >= 0
      BY <2>1, <2>5, UndoTypes DEF UndoInv, BeforeInv
    <2>8. BeforeInv'
      BY <1>2, <1>4, <2>5, <2>7, Zenon DEF UndoInv, BeforeInv
    <2>9. AfterInv'
      <3>1. ~ (buf'.epoch > 0)
        BY <1>2, <2>4
      <3> QED
        BY <3>1, Zenon DEF AfterInv, After
    <2> QED
      BY <1>1, <2>6, <2>8, <2>9 DEF UndoInv
  <1> QED
    BY <1>6, <1>7

(* What an operation leaves that does not change the sender. *)
LEMMA SenderKept ==
  ASSUME UNCHANGED <<now, sender>>
  PROVE  /\ Level(buf)' = Level(buf') /\ Elapsed(buf.correction.rtp)' = Elapsed(buf'.correction.rtp)
         /\ Magnitude(root.at - Level(buf))' = Magnitude(root'.at - Level(buf'))
         /\ Used(buf.correction.rtp)' = Used(buf'.correction.rtp)
         /\ Clock(buf.senderNTP)' = Clock(buf'.senderNTP)
         /\ \A p : Clock(p.capture)' = Clock(p.capture) /\ Old(p.capture)' = Old(p.capture)
         /\ Clocks' = (buf'.based /\ buf'.senderNTP # NoReport)
         /\ Evident' = Evident
         /\ \A c : Sequence(c)' = Sequence(c)
         /\ Before' = /\ sender.from > MaxTime \/ sender.aligned
                      /\ buf'.epoch = 0
                      /\ buf'.senderNTP < sender.from \/ buf'.clockReset
         /\ After' = (sender.aligned /\ buf'.epoch > 0)
  BY DEF Level, Elapsed, rtpDelta, Magnitude, Used, Clock, Old, Clocks, NoReport, Evident, Sequence,
         Before, After

(* Nothing is lost by waiting. *)
LEMMA NothingNew ==
  ASSUME UndoInv, UNCHANGED <<now, sender, buf, queue, root>>
  PROVE  ReportInv' /\ BeforeInv' /\ AfterInv'
  <1>1. ReportInv'
    BY SenderKept, ZenonT(30) DEF UndoInv, ReportInv, NoReport, Clocks
  <1>2. buf' = buf /\ root' = root /\ queue' = queue /\ now' = now /\ sender' = sender
    OBVIOUS
  <1>3. BeforeInv'
    BY <1>2, SenderKept, ZenonT(30) DEF UndoInv, BeforeInv, Before
  <1>4. AfterInv'
    BY <1>2, SenderKept, ZenonT(30) DEF UndoInv, AfterInv, After
  <1> QED
    BY <1>1, <1>3, <1>4, Zenon

(* The queue loses packets. *)
LEMMA PopUndo ==
  ASSUME UndoInv, Pop
  PROVE  UndoInv'
  <1>1. queue' \subseteq queue /\ UNCHANGED <<now, sender, buf, root>>
    BY DEF Pop
  <1>2. MappingInv'
    BY PopMaps, Zenon DEF UndoInv
  <1>3. ReportInv'
    BY <1>1, SenderKept, ZenonT(30) DEF UndoInv, ReportInv, NoReport, Clocks
  <1>4. BeforeInv' /\ AfterInv'
    BY <1>1, SenderKept DEF UndoInv, BeforeInv, AfterInv, Before, After
  <1> QED
    BY <1>2, <1>3, <1>4 DEF UndoInv
(* A report that finds the clock reset is the first one after a jump. *)
LEMMA ResetFound ==
  ASSUME UndoInv, NEW r \in 0 .. now, r > buf.senderNTP, buf.senderNTP # NoReport,
         \/ rtpDelta(Clock(r), buf.senderRTP) < 0
         \/ Magnitude(r - buf.senderNTP - rtpDelta(Clock(r), buf.senderRTP)) > Margin
  PROVE  /\ buf.senderNTP < sender.from /\ r >= sender.from
         /\ sender.by < 0 \/ sender.by > Margin
  <1> DEFINE ticks == rtpDelta(Clock(r), buf.senderRTP)
             sent == buf.senderNTP
             from == sender.from
             by == sender.by
  <1>1. /\ r \in Int /\ sent \in Int /\ from \in Int /\ by \in Int /\ Margin \in Nat /\ ShortTypes
        /\ sender.from >= 1 /\ Used(Clock(r)) /\ Used(buf.senderRTP)
    BY UndoTypes DEF Used
  <1>2. ticks = Elapsed(Clock(r)) - Elapsed(buf.senderRTP)
    BY <1>1, ElapsedDelta, Zenon
  <1>3. Elapsed(Clock(r)) = r + (IF r >= from THEN by ELSE 0)
    BY <1>1, ElapsedOf, Zenon
  <1>4. Elapsed(buf.senderRTP) = sent + (IF sent >= from THEN by ELSE 0)
    BY SentOf
  <1>5. ticks < 0 \/ Magnitude(r - sent - ticks) > Margin
    OBVIOUS
  <1>6. r > sent
    BY Zenon
  <1> HIDE DEF ticks, sent, from, by
  <1>7. sent < from /\ r >= from /\ (by < 0 \/ by > Margin)
    BY <1>1, <1>2, <1>3, <1>4, <1>5, <1>6 DEF Magnitude
  <1> QED
    BY <1>7, Zenon DEF sent, from, by

LEMMA SenderReportUndo ==
  ASSUME UndoInv, NEW r \in 0 .. now, SenderReport(r)
  PROVE  UndoInv'
  <1> DEFINE reset == /\ buf.senderNTP # NoReport
                      /\ \/ rtpDelta(Clock(r), buf.senderRTP) < 0
                         \/ Magnitude(r - buf.senderNTP - rtpDelta(Clock(r), buf.senderRTP)) > Margin
  <1>1. MappingInv'
    BY SenderReportMaps DEF UndoInv
  <1>2. /\ buf' = [buf EXCEPT !.senderRTP = Clock(r), !.senderNTP = r, !.clockReset = @ \/ reset]
        /\ r > buf.senderNTP /\ UNCHANGED <<now, sender, queue, root>> /\ reset \in BOOLEAN
    BY DEF SenderReport
  <1>3. reset => /\ buf.senderNTP < sender.from /\ r >= sender.from
                 /\ sender.by < 0 \/ sender.by > Margin
    BY <1>2, ResetFound
  <1> HIDE DEF reset
  <1>4. /\ buf'.senderRTP = Clock(r) /\ buf'.senderNTP = r
        /\ buf'.clockReset <=> buf.clockReset \/ reset
        /\ buf'.based = buf.based /\ buf'.correction = buf.correction /\ buf'.epoch = buf.epoch
        /\ buf'.resetPending = buf.resetPending /\ buf'.resetSequence = buf.resetSequence
        /\ SameAnchor(buf', buf)
    BY <1>2, UndoTypes, Zenon DEF BufferType, SameAnchor
  <1>5. Level(buf') = Level(buf)
    BY <1>4, Zenon DEF Level, SameAnchor
  <1>6. /\ r \in Int /\ buf.senderNTP \in Int /\ sender.from \in Int /\ buf.epoch \in Int
        /\ sender.from >= 1 /\ r # NoReport
    BY UndoTypes DEF NoReport
  <1>7. ReportInv'
    <2>1. (buf'.senderNTP \in 0 .. now /\ buf'.senderRTP = Clock(buf.senderNTP)')
      BY <1>2, <1>4, SenderKept, Zenon
    <2>2. buf'.clockReset =>
            /\ buf'.epoch = 0 /\ buf'.senderNTP >= sender.from
            /\ sender.by < 0 \/ sender.by > Margin
      BY <1>2, <1>3, <1>4, <1>6 DEF UndoInv, ReportInv
    <2>3. buf'.epoch > 0 => buf'.senderNTP >= sender.from /\ root.known
      BY <1>2, <1>4, <1>6 DEF UndoInv, ReportInv
    <2>4. root.known => buf'.based /\ buf'.senderNTP # NoReport
      BY <1>4, <1>6, Zenon DEF UndoInv, ReportInv, Clocks
    <2> QED
      BY <1>2, <1>4, <1>6, <2>1, <2>2, <2>3, <2>4, SenderKept, Zenon DEF UndoInv, ReportInv
  <1>8. Before' => Before
    BY <1>2, <1>3, <1>4, <1>6, SenderKept DEF Before
  <1>9. BeforeInv'
    BY <1>2, <1>4, <1>5, <1>8, SenderKept, Zenon DEF UndoInv, BeforeInv
  <1>10. AfterInv'
    BY <1>2, <1>4, <1>5, SenderKept, Zenon DEF UndoInv, AfterInv, After
  <1> QED
    BY <1>1, <1>7, <1>9, <1>10 DEF UndoInv
-----------------------------------------------------------------------------
(* Push leaves the reports, the epoch and the correction. *)
SameReports(d, b) ==
  /\ d.senderRTP = b.senderRTP /\ d.senderNTP = b.senderNTP /\ d.clockReset = b.clockReset
  /\ d.epoch = b.epoch /\ d.correction = b.correction

LEMMA AnchoredReports ==
  ASSUME UndoInv, NEW c \in 0 .. now
  PROVE  /\ SameReports(Anchored(c), buf)
         /\ Anchored(c).resetPending = buf.resetPending
         /\ Anchored(c).resetSequence = buf.resetSequence
         /\ Level(Anchored(c)) = IF buf.based THEN Level(buf) ELSE now - Elapsed(Clock(c))
  <1>1. CASE buf.based
    BY <1>1, Zenon DEF Anchored, SameReports
  <1>2. CASE ~ buf.based
    <2>1. Anchored(c) = [buf EXCEPT !.based = TRUE, !.baseRTP = Clock(c), !.baseWall = now]
      BY <1>2 DEF Anchored
    <2>2. Anchored(c).baseRTP = Clock(c) /\ Anchored(c).baseWall = now
      BY <2>1, UndoTypes DEF BufferType
    <2>3. /\ SameReports(Anchored(c), buf)
          /\ Anchored(c).resetPending = buf.resetPending
          /\ Anchored(c).resetSequence = buf.resetSequence
      BY <2>1, UndoTypes, Zenon DEF BufferType, SameReports
    <2> QED
      BY <1>2, <2>2, <2>3 DEF Level
  <1> QED
    BY <1>1, <1>2

(* A packet of a clock that jumped back is stale once the jump is applied. *)
LEMMA OldStale ==
  ASSUME UndoInv, After, Evident, NEW c \in Captured, c \in 0 .. now, c < sender.from
  PROVE  Stale(buf, c)
  <1> DEFINE level == Level(buf)
             by == sender.by
             playAt == playoutOf(buf, Clock(c))
  <1>1. PICK lag \in Lags : c = now - lag
    BY Zenon DEF Captured
  <1>2. /\ level \in Int /\ by \in Int /\ now \in Int /\ lag \in Int /\ c \in Int /\ target \in Int
        /\ Margin \in Int /\ Tolerance \in Int /\ buf.based /\ Used(buf.baseRTP) /\ Used(Clock(c))
        /\ buf.epoch > 0
    BY UndoTypes, TimelineConstants DEF UndoInv, ReportInv, After, Clocks, Used
  <1>3. root.at = level + by /\ root.at >= - Tolerance /\ - by > Margin + Tolerance + lag
    BY Zenon DEF UndoInv, AfterInv, Evident
  <1>4. playAt = level + Elapsed(Clock(c)) + target
    BY <1>2, UndoTypes, PlayoutAt, Zenon
  <1>5. Elapsed(Clock(c)) = c
    BY <1>2, UndoTypes, ElapsedOf
  <1> HIDE DEF level, by, playAt
  <1>6. playAt - now > target + Margin
    BY <1>1, <1>2, <1>3, <1>4, <1>5
  <1>7. Behind(buf, c)
    <2>1. CASE buf.resetPending
      BY <2>1 DEF Behind
    <2>2. CASE ~ buf.resetPending
      <3>1. PICK n \in 0 .. now : n >= sender.from /\ buf.resetSequence = Sequence(n)
        BY <2>2, Zenon DEF UndoInv, AfterInv
      <3>2. c < n
        BY <1>2, <3>1, UndoTypes
      <3>3. (Sequence(c) - Sequence(n)) % SeqWrap >= SeqWrap \div 2
        BY <3>2, UndoTypes, EarlierBehind DEF UndoInv
      <3> QED
        BY <3>1, <3>3, Zenon DEF Behind
    <2> QED
      BY <2>1, <2>2
  <1> QED
    BY <1>2, <1>6, <1>7, Zenon DEF Stale, playAt

(* A push that leaves the level, and lets no packet of the old clock in once a jump
   back is applied. *)
LEMMA PushUndo ==
  ASSUME UndoInv, NEW c \in 0 .. now, MappingInv', UNCHANGED <<now, sender, root>>,
         SameReports(buf', buf), buf'.based, Level(buf') = Level(Anchored(c)),
         \A p \in queue' : p \in queue \/ (p.capture = c /\ p.rtp = Clock(c)),
         After /\ Evident =>
           /\ queue' \subseteq queue \/ c >= sender.from
           /\ \/ buf'.resetPending
              \/ \E n \in 0 .. now : n >= sender.from /\ buf'.resetSequence = Sequence(n)
  PROVE  UndoInv'
  <1>1. /\ buf'.senderRTP = buf.senderRTP /\ buf'.senderNTP = buf.senderNTP
        /\ buf'.clockReset = buf.clockReset /\ buf'.epoch = buf.epoch
        /\ buf'.correction = buf.correction
    BY DEF SameReports
  <1>2. \A p \in queue' : p.capture \in 0 .. now /\ p.rtp = Clock(p.capture)
    BY Zenon DEF UndoInv, ReportInv
  <1>3. ReportInv'
    BY <1>1, <1>2, SenderKept, Zenon DEF UndoInv, ReportInv, NoReport, Clocks
  <1>4. buf.based => Level(buf') = Level(buf)
    BY AnchoredReports, Zenon
  <1>5. (Before' <=> Before) /\ (After' <=> After)
    BY <1>1, SenderKept, Zenon DEF Before, After
  <1>6. root.known => buf.based
    BY DEF UndoInv, ReportInv, Clocks
  <1>7. BeforeInv'
    <2>1. CASE buf.based
      BY <1>1, <1>4, <1>5, <2>1, SenderKept, Zenon DEF UndoInv, BeforeInv
    <2>2. CASE ~ buf.based
      <3>1. ~ root.known /\ buf.correction.shift = 0 /\ ~ sender.aligned
        BY <1>6, <2>2, Zenon DEF UndoInv, ReportInv
      <3>2. Before => Level(buf') >= 0
        <4> SUFFICES ASSUME Before PROVE Level(buf') >= 0
          BY Zenon
        <4>1. sender.from > MaxTime
          BY <3>1, Zenon DEF Before
        <4>2. Elapsed(Clock(c)) = c
          BY <4>1, UndoTypes, ElapsedOf
        <4>3. Level(buf') = now - c
          BY <2>2, <4>2, AnchoredReports, Zenon
        <4> QED
          BY <4>3, UndoTypes
      <3> QED
        BY <1>1, <1>5, <3>1, <3>2, SenderKept, Zenon DEF BeforeInv
    <2> QED
      BY <2>1, <2>2, Zenon
  <1>8. AfterInv'
    <2> SUFFICES ASSUME After PROVE AfterInv'
      BY <1>5, Zenon DEF AfterInv
    <2>1. Level(buf') = Level(buf)
      BY <1>4, <1>6, Zenon DEF After, UndoInv, ReportInv
    <2>2. Evident => \A p \in queue' : ~ Old(p.capture)
      <3> SUFFICES ASSUME Evident, NEW p \in queue' PROVE ~ Old(p.capture)
        BY Zenon
      <3>1. CASE p \in queue
        BY <3>1, Zenon DEF UndoInv, AfterInv
      <3>2. CASE p.capture = c /\ c >= sender.from
        BY <3>2, UndoTypes DEF Old
      <3> QED
        BY <3>1, <3>2, Zenon
    <2> QED
      BY <1>1, <2>1, <2>2, SenderKept, ZenonT(30) DEF UndoInv, AfterInv
  <1> QED
    BY <1>3, <1>7, <1>8, Zenon DEF UndoInv
LEMMA PushStaleUndo ==
  ASSUME UndoInv, NEW c \in 0 .. now, PushStale(c)
  PROVE  UndoInv'
  <1>1. buf' = Anchored(c) /\ UNCHANGED <<now, sender, queue, root>>
    BY Zenon DEF PushStale
  <1>2. MappingInv'
    BY PushStaleMaps DEF UndoInv
  <1>3. /\ SameReports(buf', buf) /\ Level(buf') = Level(Anchored(c))
        /\ buf'.resetPending = buf.resetPending /\ buf'.resetSequence = buf.resetSequence
    BY <1>1, AnchoredReports, Zenon
  <1>4. buf'.based
    BY <1>1, AnchoredBuffer, Zenon DEF UndoInv
  <1>5. After /\ Evident =>
           \/ buf'.resetPending
           \/ \E n \in 0 .. now : n >= sender.from /\ buf'.resetSequence = Sequence(n)
    BY <1>3, Zenon DEF UndoInv, AfterInv
  <1> QED
    BY <1>1, <1>2, <1>3, <1>4, <1>5, PushUndo, Zenon

(* A packet that is not stale is of the new clock once a jump back is applied, and so
   is the sequence number it leaves. *)
LEMMA FollowedReports ==
  ASSUME UndoInv, NEW c \in Captured, c \in 0 .. now, ~ Stale(Anchored(c), c)
  PROVE  LET b == Followed(Anchored(c), c) IN
         /\ b \in BufferType /\ b.based /\ Used(b.baseRTP) /\ SameReports(b, buf)
         /\ Level(b) = Level(Anchored(c))
         /\ After /\ Evident =>
              /\ c >= sender.from
              /\ \/ b.resetPending
                 \/ \E n \in 0 .. now : n >= sender.from /\ b.resetSequence = Sequence(n)
  <1> DEFINE a == Anchored(c)
             b == Followed(a, c)
  <1>1. /\ a \in BufferType /\ a.based /\ Used(a.baseRTP) /\ (buf.based => a = buf)
    BY AnchoredBuffer, Zenon DEF UndoInv
  <1>2. /\ SameReports(a, buf)
        /\ a.resetPending = buf.resetPending /\ a.resetSequence = buf.resetSequence
    BY AnchoredReports
  <1>3. ~ Stale(a, c)
    BY Zenon
  <1> HIDE DEF a
  <1>4. b \in BufferType /\ SameAnchor(b, a)
    BY <1>1, UndoTypes, FollowedBuffer
  <1>5. /\ SameReports(b, a) /\ b.resetPending = a.resetPending
        /\ b.resetSequence = a.resetSequence \/ b.resetSequence = Sequence(c)
    BY <1>1, Zenon DEF Followed, BufferType, SameReports
  <1> HIDE DEF b
  <1>6. b.based /\ Used(b.baseRTP) /\ Level(b) = Level(a)
    BY <1>1, <1>4, Zenon DEF SameAnchor, Level
  <1>7. SameReports(b, buf)
    BY <1>2, <1>5, Zenon DEF SameReports
  <1>8. ASSUME After, Evident
        PROVE  /\ c >= sender.from
               /\ \/ b.resetPending
                  \/ \E n \in 0 .. now : n >= sender.from /\ b.resetSequence = Sequence(n)
    <2>1. a = buf
      BY <1>1, <1>8, Zenon DEF UndoInv, ReportInv, After, Clocks
    <2>2. c >= sender.from
      BY <1>3, <1>8, <2>1, OldStale, UndoTypes
    <2> QED
      BY <1>2, <1>5, <1>8, <2>2, Zenon DEF UndoInv, AfterInv
  <1> QED
    BY <1>4, <1>6, <1>7, <1>8, Zenon DEF a, b

LEMMA PushSkippedUndo ==
  ASSUME UndoInv, NEW c \in Captured, c \in 0 .. now, PushSkipped(c)
  PROVE  UndoInv'
  <1>1. /\ buf' = Followed(Anchored(c), c) /\ ~ Stale(Anchored(c), c)
        /\ UNCHANGED <<now, sender, queue, root>>
    BY DEF PushSkipped
  <1>2. MappingInv'
    BY PushSkippedMaps, Zenon DEF UndoInv
  <1> QED
    BY <1>1, <1>2, FollowedReports, PushUndo, Zenon

LEMMA PushQueuedUndo ==
  ASSUME UndoInv, NEW c \in Captured, c \in 0 .. now, PushQueued(c)
  PROVE  UndoInv'
  <1> DEFINE b == Followed(Anchored(c), c)
             packet == [capture |-> c, rtp |-> Clock(c), playAt |-> playoutOf(b, Clock(c))]
             follows == IF b.resetPending THEN Sequence(c) ELSE b.resetSequence
             d == [b EXCEPT !.catchUp = FALSE, !.resetPending = FALSE, !.resetSequence = follows]
  <1>1. /\ buf' = Accepted(b, c) /\ ~ Stale(Anchored(c), c)
        /\ queue' = (IF b.catchUp THEN {} ELSE queue) \cup {packet}
        /\ UNCHANGED <<now, sender, root>>
    BY Zenon DEF PushQueued
  <1>2. MappingInv'
    BY PushQueuedMaps DEF UndoInv
  <1>3. /\ b \in BufferType /\ b.based /\ Used(b.baseRTP) /\ SameReports(b, buf)
        /\ Level(b) = Level(Anchored(c))
        /\ After /\ Evident =>
             /\ c >= sender.from
             /\ \/ b.resetPending
                \/ \E n \in 0 .. now : n >= sender.from /\ b.resetSequence = Sequence(n)
    BY <1>1, FollowedReports, Zenon
  <1>4. packet.capture = c /\ packet.rtp = Clock(c)
    OBVIOUS
  <1>5. \A p \in queue' : p \in queue \/ (p.capture = c /\ p.rtp = Clock(c))
    BY <1>1, <1>4, Zenon
  <1> HIDE DEF b, packet
  <1>6. /\ buf' \in BufferType /\ buf'.based /\ Used(buf'.baseRTP)
        /\ \A x : Used(x) => playoutOf(buf', x) = playoutOf(b, x)
    BY <1>1, <1>3, UndoTypes, AcceptedMaps, Zenon
  <1>7. Level(buf') = Level(b)
    BY <1>3, <1>6, UndoTypes, SameLevel, Zenon DEF Used
  <1>8. buf' = Recent(d, c)
    BY <1>1, Zenon DEF Accepted
  <1>9. follows \in Int
    BY <1>3, SequenceType, UndoTypes DEF BufferType
  <1> HIDE DEF follows
  <1>a. SameReports(d, b) /\ d \in BufferType /\ d.resetSequence = follows
    BY <1>3, <1>9, Zenon DEF BufferType, SameReports
  <1> HIDE DEF d
  <1>10. SameReports(buf', d) /\ buf'.resetSequence = d.resetSequence
    BY <1>8, <1>a, Zenon DEF Recent, BufferType, SameReports
  <1>11. SameReports(buf', buf)
    BY <1>3, <1>10, <1>a DEF SameReports
  <1>12. After /\ Evident =>
           \E n \in 0 .. now : n >= sender.from /\ buf'.resetSequence = Sequence(n)
    BY <1>3, <1>10, <1>a, ZenonT(30) DEF follows
  <1> QED
    BY <1>1, <1>2, <1>3, <1>5, <1>6, <1>7, <1>11, <1>12, PushUndo, Zenon
-----------------------------------------------------------------------------
(* What alignSenderClocksLocked makes of a buffer with an anchor and a report. *)
Shift(at) == IF Aligns(buf, at) THEN Off(buf, at) ELSE 0

LEMMA AlignedShape ==
  ASSUME UndoInv, Clocks, NEW at \in Int
  PROVE  LET b == AlignedBuffer(at) IN
         /\ b \in BufferType /\ b.based /\ b.baseRTP = buf.baseRTP
         /\ Level(b) = Level(buf) + Shift(at) /\ Shift(at) \in Int
         /\ b.senderRTP = buf.senderRTP /\ b.senderNTP = buf.senderNTP /\ ~ b.clockReset
         /\ b.epoch = IF buf.clockReset THEN buf.epoch + 1 ELSE buf.epoch
         /\ b.resetPending = (buf.resetPending \/ buf.clockReset)
         /\ b.resetSequence = buf.resetSequence
         /\ b.correction = Settled(buf).correction
  <1> DEFINE s == Settled(buf)
             off == Off(buf, at)
             reset == Resets(buf, at)
             m == Moved(s, off, reset)
             b == AlignedBuffer(at)
  <1>1. buf \in BufferType /\ buf.baseWall \in Int /\ off \in Int /\ reset \in BOOLEAN
    BY UndoTypes, OffType DEF BufferType, Resets
  <1>2. /\ s \in BufferType /\ s.based = buf.based /\ s.baseRTP = buf.baseRTP
        /\ s.baseWall = buf.baseWall /\ s.senderRTP = buf.senderRTP
        /\ s.senderNTP = buf.senderNTP /\ s.clockReset = buf.clockReset /\ s.epoch = buf.epoch
        /\ s.resetPending = buf.resetPending /\ s.resetSequence = buf.resetSequence
    BY <1>1 DEF Settled, BufferType, CorrectionType
  <1>3. Off(s, at) = off /\ Resets(s, at) = reset /\ Aligns(s, at) = Aligns(buf, at)
    BY <1>1, SettledBuffer
  <1>4. MovedBy(m, s, off)
    BY <1>1, <1>2, MovedMoves, Zenon
  <1>5. /\ m \in BufferType /\ m.based = s.based /\ m.baseRTP = s.baseRTP
        /\ m.baseWall = buf.baseWall + off
    BY <1>2, <1>4, Zenon DEF MovedBy
  <1>6. /\ m.senderRTP = s.senderRTP /\ m.senderNTP = s.senderNTP /\ m.clockReset = s.clockReset
        /\ m.epoch = s.epoch /\ m.resetPending = s.resetPending
        /\ m.resetSequence = s.resetSequence /\ m.correction = s.correction
    BY <1>2 DEF Moved, BufferType
  <1>7. b = IF ~ Aligns(buf, at) THEN s
            ELSE IF buf.clockReset
                 THEN [m EXCEPT !.epoch = @ + 1, !.clockReset = FALSE, !.resetPending = TRUE]
                 ELSE m
    BY <1>2, <1>3, Zenon DEF AlignedBuffer, Aligned
  <1>8. Level(buf) = buf.baseWall - Elapsed(buf.baseRTP) /\ Level(buf) \in Int
        /\ Elapsed(buf.baseRTP) \in Int /\ buf.based
    BY <1>1, UndoTypes, ElapsedDelta, Zenon DEF Level, Clocks
  <1>9. buf.clockReset => Aligns(buf, at)
    BY Zenon DEF Aligns
  <1> HIDE DEF s, off, reset, m, b
  <1>10. CASE ~ Aligns(buf, at)
    <2>1. b = s /\ ~ buf.clockReset /\ Shift(at) = 0
      BY <1>7, <1>9, <1>10, Zenon DEF Shift
    <2>2. Level(b) = Level(buf) + Shift(at) /\ Shift(at) \in Int
      <3>1. Level(b) = Level(buf)
        BY <1>2, <2>1, Zenon DEF Level
      <3> QED
        BY <1>8, <2>1, <3>1
    <2>3. /\ ~ b.clockReset /\ b.epoch = (IF buf.clockReset THEN buf.epoch + 1 ELSE buf.epoch)
          /\ b.resetPending = (buf.resetPending \/ buf.clockReset)
      BY <1>2, <2>1, UndoTypes, Zenon DEF BufferType
    <2>4. b.correction = Settled(buf).correction
      BY <2>1 DEF s
    <2>5. b \in BufferType /\ b.based /\ b.baseRTP = buf.baseRTP /\ b.senderRTP = buf.senderRTP
          /\ b.senderNTP = buf.senderNTP /\ b.resetSequence = buf.resetSequence
      BY <1>2, <1>8, <2>1, Zenon
    <2> QED
      BY <2>2, <2>3, <2>4, <2>5, Zenon DEF b
  <1>11. CASE Aligns(buf, at) /\ ~ buf.clockReset
    <2>1. b = m /\ Shift(at) = off
      BY <1>7, <1>11, Zenon DEF Shift, off
    <2>2. Level(b) = Level(buf) + off
      BY <1>1, <1>2, <1>5, <1>8, <2>1 DEF Level
    <2>3. /\ ~ b.clockReset /\ b.epoch = (IF buf.clockReset THEN buf.epoch + 1 ELSE buf.epoch)
          /\ b.resetPending = (buf.resetPending \/ buf.clockReset)
      BY <1>2, <1>6, <1>11, <2>1, UndoTypes, ZenonT(30) DEF BufferType
    <2> QED
      BY <1>1, <1>2, <1>5, <1>6, <1>8, <2>1, <2>2, <2>3, ZenonT(30) DEF b, s
  <1>12. CASE buf.clockReset
    <2> DEFINE epoch == m.epoch + 1
    <2>1. Shift(at) = off /\ epoch \in Int /\ epoch = buf.epoch + 1
      BY <1>2, <1>5, <1>6, <1>9, <1>12 DEF Shift, off, BufferType
    <2>2. b = [m EXCEPT !.epoch = epoch, !.clockReset = FALSE, !.resetPending = TRUE]
      BY <1>7, <1>9, <1>12, Zenon
    <2> HIDE DEF epoch
    <2>3. b \in BufferType
      BY <1>5, <2>1, <2>2, Zenon DEF BufferType
    <2>4. /\ b.based = m.based /\ b.baseRTP = m.baseRTP /\ b.baseWall = m.baseWall
          /\ b.senderRTP = m.senderRTP /\ b.senderNTP = m.senderNTP /\ ~ b.clockReset
          /\ b.epoch = epoch /\ b.resetPending
          /\ b.resetSequence = m.resetSequence /\ b.correction = m.correction
      BY <1>5, <2>2 DEF BufferType
    <2>5. Level(b) = Level(buf) + off
      BY <1>1, <1>2, <1>5, <1>8, <2>4 DEF Level
    <2>6. b.resetPending = (buf.resetPending \/ buf.clockReset)
      BY <1>12, <2>3, <2>4, Zenon DEF BufferType
    <2> QED
      BY <1>1, <1>2, <1>5, <1>6, <1>8, <1>12, <2>1, <2>3, <2>4, <2>5, <2>6, Zenon DEF b, s
  <1> QED
    BY <1>10, <1>11, <1>12, Zenon
(* The queue moves with the buffer, unless a reset empties it. *)
LEMMA AlignedPackets ==
  ASSUME UndoInv, Clocks, NEW at \in Int, NEW p \in AlignedQueue(at)
  PROVE  /\ ~ buf.clockReset
         /\ \E o \in queue :
              p.capture = o.capture /\ p.rtp = o.rtp /\ p.playAt = o.playAt + Shift(at)
  <1>1. CASE Aligns(buf, at)
    <2>1. p \in MovedQueue(queue, Off(buf, at), Resets(buf, at))
      BY <1>1 DEF AlignedQueue
    <2>2. ~ Resets(buf, at) /\ \E o \in queue : p = [o EXCEPT !.playAt = @ + Off(buf, at)]
      BY <2>1 DEF MovedQueue
    <2>3. PICK o \in queue : p = [o EXCEPT !.playAt = @ + Off(buf, at)]
      BY <2>2, Zenon
    <2>4. o \in PacketType
      BY QueuedAt
    <2>5. p.capture = o.capture /\ p.rtp = o.rtp /\ p.playAt = o.playAt + Off(buf, at)
      BY <2>3, <2>4, Zenon DEF PacketType
    <2> QED
      BY <1>1, <2>2, <2>5, Zenon DEF Resets, Shift
  <1>2. CASE ~ Aligns(buf, at)
    <2>1. p \in queue /\ Shift(at) = 0 /\ ~ buf.clockReset
      BY <1>2 DEF AlignedQueue, Shift, Aligns
    <2>2. p.playAt \in Int
      BY <2>1, QueuedAt, ZenonT(30) DEF PacketType
    <2> QED
      BY <2>1, <2>2
  <1> QED
    BY <1>1, <1>2, Zenon

(* How much a report takes back, and when it settles the correction. *)
LEMMA RollbackOf ==
  ASSUME UndoInv, Clocks
  PROVE  LET shift == buf.correction.shift
             roll == buf.correction.ms - Sent(buf) - Elapsed(buf.correction.rtp)
         IN  /\ shift = 0 => Rollback(buf) = 0
             /\ shift # 0 => /\ roll \in Int
                             /\ Rollback(buf) = IF roll <= Margin THEN 0
                                                ELSE IF roll <= shift THEN roll ELSE shift
  <1>1. CASE buf.correction.shift = 0
    BY <1>1, Zenon DEF Rollback
  <1>2. CASE buf.correction.shift # 0
    <2>1. /\ senderTime(buf, buf.correction.rtp) = Sent(buf) + Elapsed(buf.correction.rtp)
          /\ Sent(buf) \in Int /\ Elapsed(buf.correction.rtp) \in Int
      BY <1>2, UndoTypes, SenderAt, Zenon DEF Clocks
    <2>2. buf.correction.ms - senderTime(buf, buf.correction.rtp)
            = buf.correction.ms - Sent(buf) - Elapsed(buf.correction.rtp)
      BY <2>1, UndoTypes
    <2>3. buf.correction.ms - Sent(buf) - Elapsed(buf.correction.rtp) \in Int
      BY <2>1, UndoTypes
    <2> QED
      BY <1>2, <2>2, <2>3, Zenon DEF Rollback
  <1> QED
    BY <1>1, <1>2, Zenon

LEMMA SettledShift ==
  ASSUME UndoInv, Clocks
  PROVE  LET c == Settled(buf).correction IN
         /\ c \in CorrectionType /\ c.rtp = buf.correction.rtp /\ c.ms = buf.correction.ms
         /\ c.shift = buf.correction.shift \/ c.shift = 0
         /\ buf.clockReset => c.shift = 0
         /\ \/ c.shift = buf.correction.shift \/ Rollback(buf) > 0 \/ buf.clockReset
            \/ Elapsed(buf.correction.rtp) <= Elapsed(buf.senderRTP)
  <1> DEFINE d == buf.correction
             c == Settled(buf).correction
  <1>1. buf \in BufferType /\ d \in CorrectionType
    BY UndoTypes, Zenon
  <1>2. CASE \/ Rollback(buf) > 0 \/ buf.clockReset
             \/ rtpDelta(buf.senderRTP, buf.correction.rtp) >= 0
    <2>1. Settled(buf) = [buf EXCEPT !.correction.shift = 0]
      BY <1>2 DEF Settled
    <2>2. c = [d EXCEPT !.shift = 0]
      BY <1>1, <2>1 DEF BufferType
    <2>3. c \in CorrectionType /\ c.rtp = d.rtp /\ c.ms = d.ms /\ c.shift = 0
      BY <1>1, <2>2 DEF CorrectionType
    <2>4. d.shift # 0 /\ rtpDelta(buf.senderRTP, d.rtp) >= 0 =>
            Elapsed(d.rtp) <= Elapsed(buf.senderRTP)
      <3> SUFFICES ASSUME d.shift # 0, rtpDelta(buf.senderRTP, d.rtp) >= 0
                   PROVE  Elapsed(d.rtp) <= Elapsed(buf.senderRTP)
        BY Zenon
      <3>1. /\ rtpDelta(buf.senderRTP, d.rtp) = Elapsed(buf.senderRTP) - Elapsed(d.rtp)
            /\ Elapsed(buf.senderRTP) \in Int /\ Elapsed(d.rtp) \in Int
        BY UndoTypes, ElapsedDelta, Zenon DEF Clocks
      <3> QED
        BY <3>1
    <2> HIDE DEF c, d
    <2>5. \/ c.shift = d.shift \/ Rollback(buf) > 0 \/ buf.clockReset
          \/ Elapsed(d.rtp) <= Elapsed(buf.senderRTP)
      BY <1>2, <2>3, <2>4, Zenon DEF d
    <2> QED
      BY <2>3, <2>5 DEF c, d
  <1>3. CASE ~ (\/ Rollback(buf) > 0 \/ buf.clockReset
                \/ rtpDelta(buf.senderRTP, buf.correction.rtp) >= 0)
    BY <1>1, <1>3, Zenon DEF Settled
  <1> QED
    BY <1>2, <1>3, ZenonT(30)
(* What a settled correction still notes. *)
LEMMA SettledNotes ==
  ASSUME UndoInv, Clocks
  PROVE  LET c == Settled(buf).correction IN
         c.shift \in Int /\ c.shift >= 0 /\ (c.shift # 0 => Used(c.rtp))
  <1> DEFINE c == Settled(buf).correction
             d == buf.correction
  <1>1. c.rtp = d.rtp /\ (c.shift = d.shift \/ c.shift = 0)
    BY SettledShift, Zenon
  <1>2. d.shift \in Int /\ d.shift >= 0 /\ (d.shift # 0 => Used(d.rtp))
    BY UndoTypes, Zenon DEF UndoInv, ReportInv
  <1> HIDE DEF c, d
  <1>3. c.shift \in Int /\ c.shift >= 0 /\ (c.shift # 0 => Used(c.rtp))
    BY <1>1, <1>2
  <1> QED
    BY <1>3, Zenon DEF c

(* The two stages, for a buffer whose clock is not about to be reset and a root. *)
ScheduledBefore(b, at) ==
  (sender.from > MaxTime \/ sender.aligned) /\ b.epoch = 0 /\ b.senderNTP < sender.from =>
    /\ \/ Level(b) >= 0
       \/ /\ sender.from <= now /\ sender.by > 0 /\ Level(b) + sender.by >= 0
          /\ b.correction.shift # 0 /\ Elapsed(b.correction.rtp) >= sender.from
    /\ Magnitude(at - Level(b)) <= Tolerance
    /\ at + b.correction.shift >= - Tolerance
    /\ b.correction.shift # 0 => b.correction.ms = Elapsed(b.correction.rtp)

ScheduledAfter(b, at) ==
  sender.aligned /\ b.epoch > 0 =>
    /\ at = Level(b) + sender.by
    /\ b.correction.shift # 0 => b.correction.ms = Elapsed(b.correction.rtp) - sender.by
    /\ sender.by > 0 \/ Evident => at >= - Tolerance

(* Without a reset the reports agree with the schedule: nothing is taken back, and the
   first root is no earlier than the first packet. *)
LEMMA AlignedBefore ==
  ASSUME UndoInv, Clocks, NEW at \in Roots
  PROVE  ScheduledBefore(AlignedBuffer(at), at)
  <1> DEFINE b == AlignedBuffer(at)
             c == Settled(buf).correction
             d == buf.correction
             level == Level(buf)
             off == Off(buf, at)
  <1>1. at \in Int
    BY UndoTypes, RootsType, ZenonT(30)
  <1>2. /\ Level(b) = level + Shift(at) /\ b.senderNTP = buf.senderNTP /\ b.correction = c
        /\ b.epoch = IF buf.clockReset THEN buf.epoch + 1 ELSE buf.epoch
    BY <1>1, AlignedShape, ZenonT(30)
  <1>3. /\ c.rtp = d.rtp /\ c.ms = d.ms
        /\ c.shift = d.shift \/ c.shift = 0
        /\ \/ c.shift = d.shift \/ Rollback(buf) > 0 \/ buf.clockReset
           \/ Elapsed(d.rtp) <= Elapsed(buf.senderRTP)
    BY SettledShift
  <1>4. Shift(at) = IF Aligns(buf, at) THEN off ELSE 0
    BY ZenonT(30) DEF Shift
  <1>5. off = at + Sent(buf) - level /\ Sent(buf) \in Int /\ level \in Int
    BY <1>1, UndoTypes, OffAt, Zenon DEF Clocks
  <1>u. /\ root.at \in Int /\ Tolerance \in Nat /\ Margin \in Nat /\ now \in Nat
        /\ sender.from \in Int /\ sender.by \in Int /\ buf.senderNTP \in Int
        /\ buf.epoch \in Int /\ d.shift \in Int /\ d.ms \in Int
        /\ d.shift # 0 => Elapsed(d.rtp) \in Int
    BY UndoTypes, Zenon
  <1> HIDE DEF b, c, level, off
  <1> SUFFICES ASSUME sender.from > MaxTime \/ sender.aligned, b.epoch = 0,
                      b.senderNTP < sender.from
               PROVE  /\ \/ Level(b) >= 0
                         \/ /\ sender.from <= now /\ sender.by > 0 /\ Level(b) + sender.by >= 0
                            /\ c.shift # 0 /\ Elapsed(c.rtp) >= sender.from
                      /\ Magnitude(at - Level(b)) <= Tolerance
                      /\ at + c.shift >= - Tolerance
                      /\ c.shift # 0 => c.ms = Elapsed(c.rtp)
    BY <1>2, Zenon DEF ScheduledBefore, b
  <1>6. ~ buf.clockReset /\ buf.epoch = 0
    BY <1>2, <1>u DEF UndoInv, ReportInv
  <1>7. Before /\ buf.senderNTP < sender.from
    BY <1>2, <1>6, ZenonT(30) DEF Before
  <1>8. Sent(buf) = 0 /\ Elapsed(buf.senderRTP) = buf.senderNTP
    BY <1>7, SentOf, UndoTypes DEF Clocks
  <1>9. Aligns(buf, at) <=> Magnitude(off) > Tolerance
    BY <1>6, Zenon DEF Aligns, off
  <1>10. /\ \/ level >= 0
            \/ /\ sender.from <= now /\ sender.by > 0 /\ level + sender.by >= 0
               /\ d.shift # 0 /\ Elapsed(d.rtp) >= sender.from
         /\ d.shift # 0 => d.ms = Elapsed(d.rtp)
    BY <1>7, Zenon DEF UndoInv, BeforeInv, Clocks, level
  <1>11. d.shift \in Int /\ d.shift >= 0 /\ Tolerance \in Nat
    BY UndoTypes, Zenon DEF UndoInv, ReportInv
  <1>12. CASE root.known
    <2>1. Magnitude(root.at - level) <= Tolerance /\ root.at + d.shift >= - Tolerance
      BY <1>7, <1>12, ZenonT(30) DEF UndoInv, BeforeInv, level
    <2>2. Rollback(buf) = 0
      <3>1. d.shift # 0 => d.ms - Sent(buf) - Elapsed(d.rtp) = 0
        BY <1>8, <1>10, <1>u
      <3>2. /\ d.shift = 0 => Rollback(buf) = 0
            /\ d.shift # 0 =>
                 Rollback(buf) = IF d.ms - Sent(buf) - Elapsed(d.rtp) <= Margin THEN 0
                                 ELSE IF d.ms - Sent(buf) - Elapsed(d.rtp) <= d.shift
                                 THEN d.ms - Sent(buf) - Elapsed(d.rtp) ELSE d.shift
        BY RollbackOf, Zenon
      <3>3. 0 <= Margin
        BY TimelineConstants
      <3> QED
        BY <3>1, <3>2, <3>3, Zenon
    <2>3. at = root.at
      BY <1>12, <2>2, <1>u DEF Roots
    <2>4. off = root.at - level
      BY <1>5, <1>8, <2>3, <1>u
    <2>5. Level(b) = level
      <3>1. Magnitude(root.at - level) \in Int
        BY <1>5, <1>u DEF Magnitude
      <3>2. ~ Aligns(buf, at)
        BY <1>9, <1>11, <2>1, <2>4, <3>1
      <3> QED
        BY <1>2, <1>4, <1>5, <3>2
    <2>6. c.shift = d.shift \/ (c.shift = 0 /\ (d.shift = 0 \/ Elapsed(d.rtp) < sender.from))
      BY <1>3, <1>6, <1>7, <1>8, <2>2, <1>u, SMTT(30)
    <2>7. CASE c.shift = d.shift
      BY <1>3, <1>10, <2>1, <2>3, <2>5, <2>7, ZenonT(30)
    <2>8. CASE c.shift = 0 /\ c.shift # d.shift
      <3>1. level >= 0
        BY <1>10, <2>6, <2>8, <1>u
      <3>2. root.at >= - Tolerance
        BY <1>5, <1>11, <2>1, <3>1, <1>u DEF Magnitude
      <3> QED
        BY <2>1, <2>3, <2>5, <2>8, <3>1, <3>2, <1>u, SMTT(30)
    <2> QED
      BY <2>6, <2>7, <2>8, ZenonT(30)
  <1>13. CASE ~ root.known
    <2>1. d.shift = 0 /\ c.shift = 0 /\ ~ sender.aligned
      BY <1>3, <1>13, Zenon DEF UndoInv, ReportInv
    <2>2. level >= 0
      BY <1>10, <2>1, Zenon
    <2>3. at >= 0
      <3>1. buf.baseWall - senderTime(buf, buf.baseRTP) = level
        <4>1. senderTime(buf, buf.baseRTP) = Sent(buf) + Elapsed(buf.baseRTP)
              /\ Elapsed(buf.baseRTP) \in Int
          BY UndoTypes, SenderAt, Zenon DEF Clocks
        <4>2. buf.baseWall \in Int
          BY UndoTypes, Zenon DEF BufferType
        <4>3. level = buf.baseWall - Elapsed(buf.baseRTP)
          BY Zenon DEF level, Level
        <4> QED
          BY <1>8, <4>1, <4>2, <4>3
      <3>2. at = level \/ at \in Lags
        BY <1>13, <3>1, Zenon DEF Roots, FirstRoots
      <3>3. \A lag \in Lags : lag >= 0
        BY LagsType, Zenon
      <3> QED
        BY <2>2, <3>2, <3>3, Zenon
    <2>4. Level(b) = at \/ (Level(b) = level /\ Magnitude(at - level) <= Tolerance)
      BY <1>1, <1>2, <1>4, <1>5, <1>8, <1>9, <1>11 DEF Magnitude
    <2>5. Magnitude(at - Level(b)) <= Tolerance /\ Level(b) >= 0
      BY <1>1, <1>5, <1>11, <2>2, <2>3, <2>4 DEF Magnitude
    <2> QED
      BY <1>1, <1>11, <2>1, <2>3, <2>5
  <1> QED
    BY <1>12, <1>13
(* A reset puts the schedule where the new reports say, and takes back what a jump
   forward had moved it; from then on the reports agree with it again. *)
LEMMA AlignedAfter ==
  ASSUME UndoInv, Clocks, NEW at \in Roots
  PROVE  /\ ScheduledAfter(AlignedBuffer(at), at)
         /\ After /\ ~ buf.clockReset => ~ Aligns(buf, at)
  <1> DEFINE b == AlignedBuffer(at)
             c == Settled(buf).correction
             d == buf.correction
             level == Level(buf)
             off == Off(buf, at)
             by == sender.by
             shift == d.shift
             roll == d.ms - Sent(buf) - Elapsed(d.rtp)
  <1>1. at \in Int /\ by \in Int /\ root.at \in Int /\ Tolerance \in Nat /\ Margin \in Nat
    BY UndoTypes, RootsType, Zenon
  <1>2. /\ Level(b) = level + Shift(at) /\ b.correction = c
        /\ b.epoch = IF buf.clockReset THEN buf.epoch + 1 ELSE buf.epoch
    BY <1>1, AlignedShape, Zenon
  <1>3. /\ c.rtp = d.rtp /\ c.ms = d.ms
        /\ c.shift = shift \/ c.shift = 0
        /\ buf.clockReset => c.shift = 0
    BY SettledShift, Zenon
  <1>4. Shift(at) = IF Aligns(buf, at) THEN off ELSE 0
    BY Zenon DEF Shift
  <1>5. off = at + Sent(buf) - level /\ Sent(buf) \in Int /\ level \in Int
    BY <1>1, UndoTypes, OffAt, Zenon DEF Clocks
  <1>6. /\ shift = 0 => Rollback(buf) = 0
        /\ shift # 0 => /\ roll \in Int
                        /\ Rollback(buf) = IF roll <= Margin THEN 0
                                           ELSE IF roll <= shift THEN roll ELSE shift
    BY RollbackOf, Zenon
  <1>7. shift \in Int /\ shift >= 0 /\ d.ms \in Int
    BY UndoTypes, Zenon DEF UndoInv, ReportInv
  <1>8. shift # 0 => Elapsed(d.rtp) \in Int
    BY UndoTypes, Zenon
  <1>9. root.known => at = root.at + Rollback(buf)
    BY Zenon DEF Roots
  <1>10. sender.aligned => root.known
    BY Zenon DEF UndoInv, ReportInv
  <1> HIDE DEF b, c, level, off, by
  <1>11. CASE buf.clockReset
    <2> SUFFICES ASSUME sender.aligned
                 PROVE  /\ at = Level(b) + by
                        /\ c.shift = 0
                        /\ by > 0 \/ Evident => at >= - Tolerance
      BY <1>2, <1>11, Zenon DEF ScheduledAfter, b, by
    <2>1. Before /\ buf.senderNTP >= sender.from /\ (by < 0 \/ by > Margin)
      BY <1>11, Zenon DEF Before, UndoInv, ReportInv, by
    <2>2. Sent(buf) = - by
      BY <2>1, SentOf, Zenon DEF Clocks, by
    <2>3. at = Level(b) + by
      BY <1>1, <1>2, <1>4, <1>5, <1>11, <2>2 DEF Aligns
    <2>4. /\ level >= 0 \/ (by > 0 /\ level + by >= 0 /\ shift # 0)
          /\ Magnitude(root.at - level) <= Tolerance
          /\ root.at + shift >= - Tolerance
          /\ shift # 0 => d.ms = Elapsed(d.rtp)
      BY <1>10, <2>1, Zenon DEF UndoInv, BeforeInv, Clocks, level, by
    <2>5. shift # 0 => roll = by
      BY <1>1, <1>7, <1>8, <2>2, <2>4
    <2> HIDE DEF shift, roll
    <2>6. at = root.at + Rollback(buf)
      BY <1>9, <1>10, Zenon
    <2>7. at >= - Tolerance
      <3>1. root.at - level <= Tolerance /\ level - root.at <= Tolerance
        BY <1>1, <1>5, <2>4 DEF Magnitude
      <3>2. CASE shift = 0
        BY <1>1, <1>5, <1>6, <2>4, <2>6, <3>1, <3>2, Zenon
      <3>3. CASE shift # 0 /\ by < 0
        BY <1>1, <1>5, <1>6, <2>4, <2>5, <2>6, <3>1, <3>3
      <3>4. CASE shift # 0 /\ by > Margin
        BY <1>1, <1>5, <1>6, <1>7, <2>4, <2>5, <2>6, <3>1, <3>4
      <3> QED
        BY <2>1, <3>2, <3>3, <3>4, Zenon
    <2> QED
      BY <1>3, <1>11, <2>3, <2>7, Zenon
  <1>12. CASE ~ buf.clockReset
    <2> SUFFICES ASSUME After
                 PROVE  /\ at = Level(b) + by
                        /\ c.shift # 0 => c.ms = Elapsed(c.rtp) - by
                        /\ by > 0 \/ Evident => at >= - Tolerance
                        /\ ~ Aligns(buf, at)
      BY <1>2, <1>12, Zenon DEF ScheduledAfter, After, b, by
    <2>1. buf.senderNTP >= sender.from
      BY Zenon DEF After, UndoInv, ReportInv
    <2>2. Sent(buf) = - by
      BY <2>1, SentOf, Zenon DEF Clocks, by
    <2>3. /\ root.at = level + by
          /\ shift # 0 => d.ms = Elapsed(d.rtp) - by
          /\ by > 0 \/ Evident => root.at >= - Tolerance
      BY Zenon DEF UndoInv, AfterInv, level, by
    <2>4. shift # 0 => roll = 0
      BY <1>1, <1>7, <1>8, <2>2, <2>3
    <2>5. Rollback(buf) = 0
      BY <1>1, <1>6, <2>4
    <2>6. at = root.at
      BY <1>1, <1>9, <1>10, <2>5 DEF After
    <2>7. off = 0
      BY <1>1, <1>5, <2>2, <2>3, <2>6
    <2>8. ~ Aligns(buf, at)
      BY <1>1, <1>12, <2>7 DEF Aligns, Magnitude, off
    <2>9. Level(b) = level
      BY <1>2, <1>4, <1>5, <2>8
    <2> QED
      BY <1>3, <2>3, <2>6, <2>8, <2>9, Zenon
  <1>13. After /\ ~ buf.clockReset => ~ Aligns(buf, at)
    BY <1>12
  <1> QED
    BY <1>11, <1>12, <1>13, Zenon
(* correctClocks, once the tracks have reported: what is left to show. *)
LEMMA ScheduledUndo ==
  ASSUME UndoInv, Clocks, UNCHANGED <<now, sender>>, MappingInv',
         root'.known, buf'.based, ~ buf'.clockReset,
         buf'.senderRTP = buf.senderRTP, buf'.senderNTP = buf.senderNTP,
         buf'.epoch = IF buf.clockReset THEN buf.epoch + 1 ELSE buf.epoch,
         \A p \in queue' : \E o \in queue : p.capture = o.capture /\ p.rtp = o.rtp,
         buf'.correction.shift >= 0,
         buf'.correction.shift # 0 => Used(buf'.correction.rtp),
         ScheduledBefore(buf', root'.at), ScheduledAfter(buf', root'.at),
         buf.clockReset => queue' = {} /\ buf'.resetPending,
         ~ buf.clockReset => /\ buf'.resetPending = buf.resetPending
                             /\ buf'.resetSequence = buf.resetSequence
  PROVE  UndoInv'
  <1>1. \A p \in queue' : p.capture \in 0 .. now /\ p.rtp = Clock(p.capture)
    BY SMTT(30) DEF UndoInv, ReportInv
  <1>2. /\ buf.senderNTP \in 0 .. now /\ buf.senderRTP = Clock(buf.senderNTP)
    BY Zenon DEF UndoInv, ReportInv, Clocks
  <1>3. buf'.epoch >= 0 /\ (buf'.epoch > 0 => buf.senderNTP >= sender.from)
    BY EpochNext, Zenon
  <1>4. Clock(buf'.senderNTP) = Clock(buf.senderNTP)
    BY ZenonT(30)
  <1>5. ReportInv'
    BY <1>1, <1>2, <1>3, <1>4, SenderKept, ZenonT(30) DEF UndoInv, ReportInv, NoReport, Clocks
  <1>6. BeforeInv'
    BY SenderKept, ZenonT(30) DEF BeforeInv, ScheduledBefore
  <1>7. AfterInv'
    <2>1. ASSUME sender.aligned, buf'.epoch > 0, Evident
          PROVE  /\ \A p \in queue' : ~ Old(p.capture)
                 /\ \/ buf'.resetPending
                    \/ \E n \in 0 .. now : n >= sender.from /\ buf'.resetSequence = Sequence(n)
      <3>1. CASE buf.clockReset
        BY <3>1, ZenonT(30)
      <3>2. CASE ~ buf.clockReset
        <4>1. After
          BY <2>1, <3>2, Zenon DEF After
        <4> QED
          BY <2>1, <3>2, <4>1, ZenonT(30) DEF UndoInv, AfterInv, Old
      <3> QED
        BY <3>1, <3>2, Zenon
    <2> QED
      BY <2>1, SenderKept, Zenon DEF AfterInv, ScheduledAfter
  <1> QED
    BY <1>5, <1>6, <1>7, Zenon DEF UndoInv

LEMMA AlignToUndo ==
  ASSUME UndoInv, NEW at \in Roots, AlignTo(at), last' = [last EXCEPT !.check = now]
  PROVE  UndoInv'
  <1>1. at \in Int
    BY UndoTypes, RootsType, Zenon
  <1>2. MappingInv'
    BY <1>1, AlignToMaps, Zenon DEF UndoInv
  <1>3. /\ buf' = AlignedBuffer(at) /\ queue' = AlignedQueue(at) /\ UNCHANGED <<now, sender>>
        /\ root' = Rooted(at, 0)
    BY Zenon DEF AlignTo
  <1>4. CASE ~ Clocks
    <2>1. UNCHANGED <<now, sender, buf, queue, root>>
      BY <1>3, <1>4, Zenon DEF AlignedBuffer, AlignedQueue, Rooted
    <2> QED
      BY <1>2, <2>1, NothingNew, Zenon DEF UndoInv
  <1>5. CASE Clocks
    <2>1. root'.known /\ root'.at = at
      BY <1>1, <1>3, <1>5 DEF Rooted
    <2>2. ScheduledBefore(buf', root'.at) /\ ScheduledAfter(buf', root'.at)
      BY <1>3, <1>5, <2>1, AlignedBefore, AlignedAfter, Zenon
    <2>3. /\ buf'.based /\ buf'.senderRTP = buf.senderRTP /\ buf'.senderNTP = buf.senderNTP
          /\ ~ buf'.clockReset
          /\ buf'.epoch = IF buf.clockReset THEN buf.epoch + 1 ELSE buf.epoch
          /\ buf'.resetPending = (buf.resetPending \/ buf.clockReset)
          /\ buf'.resetSequence = buf.resetSequence
          /\ buf'.correction = Settled(buf).correction
      BY <1>1, <1>3, <1>5, AlignedShape, Zenon
    <2>4. /\ buf'.correction.shift >= 0
          /\ buf'.correction.shift # 0 => Used(buf'.correction.rtp)
      BY <1>5, <2>3, SettledNotes, Zenon
    <2>5. /\ \A p \in queue' : \E o \in queue : p.capture = o.capture /\ p.rtp = o.rtp
          /\ buf.clockReset => queue' = {}
      BY <1>1, <1>3, <1>5, AlignedPackets, Zenon
    <2>6. /\ buf.clockReset => buf'.resetPending
          /\ ~ buf.clockReset => buf'.resetPending = buf.resetPending
      BY <2>3, UndoTypes, Zenon DEF BufferType
    <2> QED
      BY <1>2, <1>3, <1>5, <2>1, <2>2, <2>3, <2>4, <2>5, <2>6, ScheduledUndo, Zenon
  <1> QED
    BY <1>4, <1>5, Zenon
(* clockCorrectionLocked puts the packet it is for on time. *)
LEMMA CorrectedShape ==
  ASSUME NEW b \in BufferType, NEW p, Excess(p) \in Int, p.rtp \in Int
  PROVE  LET d == Corrected(b, p) IN
         /\ d.based = b.based /\ d.baseRTP = b.baseRTP /\ d.baseWall = b.baseWall - Excess(p)
         /\ d.senderRTP = b.senderRTP /\ d.senderNTP = b.senderNTP /\ d.clockReset = b.clockReset
         /\ d.epoch = b.epoch /\ d.resetPending = b.resetPending
         /\ d.resetSequence = b.resetSequence
         /\ Clocks => d.correction = [shift |-> b.correction.shift + Excess(p), rtp |-> p.rtp,
                                      ms |-> senderTime(b, p.rtp)]
         /\ ~ Clocks => d.correction = b.correction
  <1> DEFINE noted == [shift |-> b.correction.shift + Excess(p), rtp |-> p.rtp,
                       ms |-> senderTime(b, p.rtp)]
             correction == IF Clocks THEN noted ELSE b.correction
             wall == b.baseWall - Excess(p)
             d == Corrected(b, p)
  <1>1. b.baseWall \in Int
    BY DEF BufferType
  <1>2. b.baseWall + (- Excess(p)) = wall
    BY <1>1
  <1>3. d = [[b EXCEPT !.correction = correction] EXCEPT !.baseWall = @ + (- Excess(p)),
                                                         !.catchUp = @ \/ TRUE]
    BY DEF Corrected, Moved
  <1> HIDE DEF correction, wall, d
  <1>4. /\ d.based = b.based /\ d.baseRTP = b.baseRTP /\ d.baseWall = wall
        /\ d.senderRTP = b.senderRTP /\ d.senderNTP = b.senderNTP /\ d.clockReset = b.clockReset
        /\ d.epoch = b.epoch /\ d.resetPending = b.resetPending
        /\ d.resetSequence = b.resetSequence /\ d.correction = correction
    BY <1>2, <1>3, Zenon DEF BufferType
  <1> QED
    BY <1>4, Zenon DEF wall, correction, d

(* Before both tracks have reported there is nothing to note: the schedule is moved to
   a packet of the first clock. *)
LEMMA CorrectUnreported ==
  ASSUME UndoInv, NEW at \in Roots, CorrectTo(at), ~ Clocks,
         last' = [last EXCEPT !.check = now]
  PROVE  UndoInv'
  <1>1. MappingInv'
    BY UndoTypes, RootsType, CorrectToMaps, Zenon DEF UndoInv
  <1>2. PICK p \in queue :
          buf' = Corrected(buf, p) /\ root' = root /\ queue' = {} /\ UNCHANGED <<now, sender>>
    BY Zenon DEF CorrectTo, AlignedQueue, AlignedBuffer, Rooted
  <1> DEFINE level == Level(buf)
             late == Elapsed(p.rtp)
  <1>3. /\ p \in PacketType /\ p.capture \in 0 .. now /\ buf.based /\ Used(p.rtp)
        /\ p.playAt = level + late + target
        /\ late = p.capture + (IF p.capture >= sender.from THEN sender.by ELSE 0)
    BY QueuedAt, Zenon
  <1>4. /\ p.rtp \in Int /\ p.playAt \in Int /\ now \in Int /\ level \in Int /\ late \in Int
        /\ target \in Int /\ MaxTime \in Int /\ now <= MaxTime
    BY <1>3, UndoTypes, ElapsedDelta DEF PacketType
  <1>5. Excess(p) \in Int
    BY <1>4, SMTT(30) DEF Excess
  <1>6. /\ buf'.based /\ buf'.baseRTP = buf.baseRTP /\ buf'.baseWall = buf.baseWall - Excess(p)
        /\ buf'.senderRTP = buf.senderRTP /\ buf'.senderNTP = buf.senderNTP
        /\ buf'.clockReset = buf.clockReset /\ buf'.epoch = buf.epoch
        /\ buf'.correction = buf.correction
    BY <1>2, <1>3, <1>4, <1>5, CorrectedShape, UndoTypes, ZenonT(30)
  <1>7. ~ root.known /\ ~ sender.aligned /\ buf.correction.shift = 0 /\ buf.epoch = 0
    BY UndoTypes DEF UndoInv, ReportInv
  <1>8. ReportInv'
    BY <1>2, <1>6, <1>7, SenderKept, ZenonT(30) DEF UndoInv, ReportInv, NoReport
  <1>9. AfterInv'
    BY <1>2, <1>7, SenderKept, Zenon DEF AfterInv
  <1>10. Level(buf') = now - late
    <2>1. buf.baseWall \in Int /\ Elapsed(buf.baseRTP) \in Int
      BY <1>3, UndoTypes, ElapsedDelta, Zenon DEF BufferType
    <2>2. level = buf.baseWall - Elapsed(buf.baseRTP)
      BY Zenon DEF Level
    <2>3. Level(buf') = buf.baseWall - Excess(p) - Elapsed(buf.baseRTP)
      BY <1>6, Zenon DEF Level
    <2>4. Excess(p) = p.playAt - now - target
      BY Zenon DEF Excess
    <2> HIDE DEF level, late
    <2> QED
      BY <1>3, <1>4, <1>5, <2>1, <2>2, <2>3, <2>4
  <1>11. sender.from > MaxTime => now - late >= 0
    BY <1>3, <1>4, UndoTypes, SMTT(30)
  <1>12. BeforeInv'
    BY <1>2, <1>6, <1>7, <1>10, <1>11, SenderKept, Zenon DEF BeforeInv
  <1> QED
    BY <1>1, <1>8, <1>9, <1>12, Zenon DEF UndoInv
(* Afterwards the correction notes the packet, its time and how far the schedule and
   the root were moved. *)
LEMMA CorrectReported ==
  ASSUME UndoInv, NEW at \in Roots, CorrectTo(at), Clocks,
         last' = [last EXCEPT !.check = now]
  PROVE  UndoInv'
  <1> DEFINE b == AlignedBuffer(at)
             by == sender.by
             from == sender.from
  <1>1. at \in Int /\ by \in Int /\ from \in Int /\ now \in Int /\ target \in Int
        /\ Margin \in Nat /\ Tolerance \in Nat
    BY UndoTypes, RootsType
  <1>2. MappingInv'
    BY <1>1, CorrectToMaps DEF UndoInv
  <1>3. PICK p \in AlignedQueue(at) :
          /\ Excess(p) > Margin /\ buf' = Corrected(b, p)
          /\ root' = Rooted(at, Excess(p))
    BY Zenon DEF CorrectTo
  <1>4. queue' = {} /\ UNCHANGED <<now, sender>>
    BY ZenonT(30) DEF CorrectTo
  <1>5. /\ b \in BufferType /\ b.based /\ b.baseRTP = buf.baseRTP
        /\ Level(b) = Level(buf) + Shift(at) /\ Shift(at) \in Int
        /\ b.senderRTP = buf.senderRTP /\ b.senderNTP = buf.senderNTP /\ ~ b.clockReset
        /\ b.epoch = IF buf.clockReset THEN buf.epoch + 1 ELSE buf.epoch
        /\ b.resetPending = (buf.resetPending \/ buf.clockReset)
        /\ b.resetSequence = buf.resetSequence
        /\ b.correction = Settled(buf).correction
    BY <1>1, AlignedShape, Zenon
  <1>6. ScheduledBefore(b, at) /\ ScheduledAfter(b, at)
    BY AlignedBefore, AlignedAfter, Zenon
  <1>7. ~ buf.clockReset
    BY <1>1, AlignedPackets, Zenon
  <1>8. PICK o \in queue :
          p.capture = o.capture /\ p.rtp = o.rtp /\ p.playAt = o.playAt + Shift(at)
    BY <1>1, AlignedPackets, Zenon
  <1> HIDE DEF b
  <1> DEFINE level == Level(b)
             k == p.capture
             late == Elapsed(p.rtp)
             x == Excess(p)
             shift == b.correction.shift
  <1>9. /\ o \in PacketType /\ k \in 0 .. now /\ Used(p.rtp)
        /\ o.playAt = Level(buf) + late + target
        /\ late = k + (IF k >= from THEN by ELSE 0)
    BY <1>8, QueuedAt, Zenon
  <1>10. level \in Int /\ late \in Int /\ k \in Int /\ o.playAt \in Int /\ p.rtp \in Int
         /\ Level(buf) \in Int /\ 0 <= k /\ k <= now
    <2>1. late \in Int /\ Level(buf) \in Int
      BY <1>9, UndoTypes, ElapsedDelta, Zenon DEF Clocks
    <2>2. k \in Int /\ 0 <= k /\ k <= now /\ o.playAt \in Int /\ p.rtp \in Int
      BY <1>1, <1>8, <1>9, Between, Packet, Zenon
    <2> QED
      BY <1>5, <2>1, <2>2, Sums, Zenon
  <1>11. x = level + late - now /\ x \in Int
    <2>1. x = p.playAt - now - target
      BY Zenon DEF Excess
    <2> HIDE DEF level, late, x
    <2>2. x = ((Level(buf) + late + target) + Shift(at)) - now - target
      BY <1>8, <1>9, <2>1, Zenon
    <2>3. Level(buf) \in Int /\ Shift(at) \in Int /\ late \in Int /\ target \in Int /\ now \in Int
      BY <1>1, <1>5, <1>10, Zenon
    <2>4. x = (Level(buf) + Shift(at)) + late - now /\ x \in Int
      BY <2>2, <2>3
    <2>5. level = Level(buf) + Shift(at)
      BY <1>5, Zenon DEF level
    <2> QED
      BY <2>4, <2>5, Zenon
  <1>12. shift \in Int /\ shift >= 0
    BY <1>5, SettledNotes, Zenon
  <1>13. /\ buf'.based = b.based /\ buf'.baseRTP = b.baseRTP /\ buf'.baseWall = b.baseWall - x
         /\ buf'.senderRTP = b.senderRTP /\ buf'.senderNTP = b.senderNTP
         /\ buf'.clockReset = b.clockReset
         /\ buf'.epoch = b.epoch /\ buf'.resetPending = b.resetPending
         /\ buf'.resetSequence = b.resetSequence
         /\ buf'.correction = [shift |-> shift + x, rtp |-> p.rtp, ms |-> senderTime(b, p.rtp)]
    BY <1>3, <1>5, <1>10, <1>11, CorrectedShape, ZenonT(30)
  <1>14. /\ buf'.correction.shift = shift + x /\ buf'.correction.rtp = p.rtp
         /\ buf'.correction.ms = senderTime(b, p.rtp)
    <2> DEFINE noted == [shift |-> shift + x, rtp |-> p.rtp, ms |-> senderTime(b, p.rtp)]
    <2>1. buf'.correction = noted
      BY <1>13, Zenon
    <2>2. noted.shift = shift + x /\ noted.rtp = p.rtp /\ noted.ms = senderTime(b, p.rtp)
      BY Noted, Zenon
    <2> HIDE DEF noted
    <2> QED
      BY <2>1, <2>2, Zenon
  <1>15. senderTime(b, p.rtp) = Sent(buf) + late /\ Sent(buf) \in Int
         /\ Sent(buf) = IF buf.senderNTP >= from THEN - by ELSE 0
    <2>1. senderTime(b, p.rtp) = senderTime(buf, p.rtp)
      BY <1>5, Zenon DEF senderTime
    <2> QED
      BY <1>9, <2>1, UndoTypes, SenderAt, SentOf, Zenon DEF Clocks
  <1>16. Level(buf') = level - x
    <2>1. b.baseWall \in Int /\ Elapsed(b.baseRTP) \in Int
      BY <1>5, UndoTypes, ElapsedDelta, Zenon DEF BufferType, Clocks
    <2>2. level = b.baseWall - Elapsed(b.baseRTP)
      BY Zenon DEF Level
    <2>3. Level(buf') = b.baseWall - x - Elapsed(b.baseRTP)
      BY <1>13, Zenon DEF Level
    <2> HIDE DEF level, x
    <2> QED
      BY <1>11, <2>1, <2>2, <2>3, SMTT(30)
  <1>17. root'.known /\ root'.at = at - x
    BY <1>3 DEF Rooted
  <1>18. x > 0
    BY <1>1, <1>3, <1>11, SMTT(30)
  <1>19. b.epoch > 0 => buf.senderNTP >= from
    BY <1>5, <1>7, Zenon DEF UndoInv, ReportInv
  <1>20. sender.aligned /\ b.epoch > 0 /\ Evident => k >= from
    <2>1. sender.aligned /\ b.epoch > 0 => After
      BY <1>5, <1>7, Zenon DEF After
    <2>2. After /\ Evident => ~ Old(o.capture)
      BY Zenon DEF UndoInv, AfterInv
    <2> QED
      BY <1>1, <1>8, <1>10, <2>1, <2>2, SMTT(30) DEF Old
  <1> HIDE DEF level, late, x, shift, k, by, from
  <1>21. level - x = now - late
    BY <1>1, <1>10, <1>11
  <1>22. ScheduledBefore(buf', root'.at)
    <2> SUFFICES ASSUME sender.from > MaxTime \/ sender.aligned, b.epoch = 0,
                        buf.senderNTP < from
                 PROVE  /\ \/ level - x >= 0
                           \/ from <= now /\ by > 0 /\ level - x + by >= 0 /\ late >= from
                        /\ Magnitude(at - x - (level - x)) <= Tolerance
                        /\ at - x + (shift + x) >= - Tolerance
                        /\ Sent(buf) + late = late
                        /\ shift + x # 0
      BY <1>5, <1>13, <1>14, <1>15, <1>16, <1>17, ZenonT(30) DEF ScheduledBefore, late, by, from
    <2>1. Magnitude(at - level) <= Tolerance /\ at + shift >= - Tolerance
      BY <1>5, <1>6, Zenon DEF ScheduledBefore, level, shift, from
    <2>2. at - x - (level - x) = at - level /\ at - x + (shift + x) = at + shift
      BY <1>1, <1>10, <1>11, <1>12, SMTT(30)
    <2>3. Sent(buf) = 0
      BY <1>1, <1>15, UndoTypes
    <2>4. \/ level - x >= 0
          \/ from <= now /\ by > 0 /\ level - x + by >= 0 /\ late >= from
      BY <1>1, <1>9, <1>10, <1>21
    <2>5. Sent(buf) + late = late /\ shift + x # 0
      BY <1>10, <1>11, <1>12, <1>18, <2>3
    <2> QED
      BY <2>1, <2>2, <2>4, <2>5, Zenon
  <1>23. ScheduledAfter(buf', root'.at)
    <2> SUFFICES ASSUME sender.aligned, b.epoch > 0
                 PROVE  /\ at - x = level - x + by
                        /\ Sent(buf) + late = late - by
                        /\ by > 0 \/ Evident => at - x >= - Tolerance
      BY <1>13, <1>14, <1>15, <1>16, <1>17, Zenon DEF ScheduledAfter, late, by
    <2>1. at = level + by
      BY <1>6, Zenon DEF ScheduledAfter, level, by
    <2>2. Sent(buf) = - by
      BY <1>15, <1>19, Zenon
    <2>3. at - x = now - late + by
      BY <1>1, <1>10, <1>11, <1>21, <2>1
    <2>4. by > 0 \/ Evident => at - x >= - Tolerance
      BY <1>1, <1>9, <1>10, <1>20, <2>3, SMTT(30)
    <2> QED
      BY <1>1, <1>10, <1>11, <2>1, <2>2, <2>4, SMTT(30)
  <1>24. buf'.resetPending = buf.resetPending
    BY <1>5, <1>7, <1>13, UndoTypes, ZenonT(30) DEF BufferType
  <1>25. buf'.correction.shift >= 0 /\ Used(buf'.correction.rtp)
    BY <1>9, <1>11, <1>12, <1>14, <1>18
  <1> QED
    BY <1>2, <1>4, <1>5, <1>7, <1>13, <1>17, <1>22, <1>23, <1>24, <1>25, ScheduledUndo, Zenon
-----------------------------------------------------------------------------
LEMMA NextUndo == UndoInv /\ [TimelineNext]_timelineVars => UndoInv'
  <1> SUFFICES ASSUME UndoInv, [TimelineNext]_timelineVars PROVE UndoInv'
    OBVIOUS
  <1>1. CASE Tick \/ \E by \in Jumps : Jump(by)
    BY <1>1, SenderUndo
  <1>2. ASSUME NEW c \in Captured,
               PushStale(c) \/ PushSkipped(c) \/ PushQueued(c) \/ SenderReport(c)
        PROVE  UndoInv'
    <2>1. c \in 0 .. now
      BY TimelineConstants, UndoTypes DEF Captured
    <2> QED
      BY <1>2, <2>1, PushStaleUndo, PushSkippedUndo, PushQueuedUndo, SenderReportUndo, Zenon
  <1>3. CASE Pop
    BY <1>3, PopUndo
  <1>4. CASE correctClocks
    BY <1>4, AlignToUndo, CorrectUnreported, CorrectReported, Zenon DEF correctClocks
  <1>5. CASE UNCHANGED timelineVars
    <2>1. UNCHANGED <<now, sender, buf, queue, root>>
      BY <1>5 DEF timelineVars
    <2>2. MappingInv'
      BY <1>5, NextMapping, Zenon DEF UndoInv
    <2> QED
      BY <2>1, <2>2, NothingNew, Zenon DEF UndoInv
  <1> QED
    BY <1>1, <1>2, <1>3, <1>4, <1>5 DEF TimelineNext

(* In a stream shorter than half the wrap, a jump of the sender's clock leaves no trace
   in the schedule once its report is applied: what correctClocks moved while the jump
   looked like excess depth, senderCorrectionLocked has taken back, for any margins,
   lags and jumps, and any order of packets, reports and corrections. *)
THEOREM JumpsUndone == ShortStream => (TimelineSpec => []JumpUndone)
  <1> SUFFICES ASSUME ShortStream PROVE TimelineSpec => []JumpUndone
    OBVIOUS
  <1>1. UndoInv => JumpUndone
    BY Zenon DEF UndoInv, AfterInv, After, JumpUndone
  <1>2. TimelineInit => UndoInv
    BY InitUndo
  <1> QED
    BY <1>1, <1>2, NextUndo, PTL DEF TimelineSpec

(* In such a stream staleResetPacketLocked lets no packet of the old clock into the
   queue once a jump back is applied, whatever the new clock's packets did to
   resetSequence before. *)
THEOREM OldClockStaysHarmless == ShortStream => (TimelineSpec => []OldClockHarmless)
  <1> SUFFICES ASSUME ShortStream PROVE TimelineSpec => []OldClockHarmless
    OBVIOUS
  <1>1. UndoInv => OldClockHarmless
    BY DEF UndoInv, AfterInv, After, OldClockHarmless
  <1>2. TimelineInit => UndoInv
    BY InitUndo
  <1> QED
    BY <1>1, <1>2, NextUndo, PTL DEF TimelineSpec
=============================================================================
