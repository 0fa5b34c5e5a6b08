------------------------- MODULE PacketBufferProofs -------------------------
(***************************************************************************)
(* Proofs about the receive buffer, for any set of readers, packets and    *)
(* sizes.  The argument about wake-ups needs only the sign of used, never  *)
(* which packets the ring holds.  That the ring implements PacketQueue     *)
(* needs just that: its bytes are whole packets, each behind its length.   *)
(***************************************************************************)
EXTENDS PacketBuffer, SequenceTheorems, WellFoundedInduction, TLAPS

(* What that argument needs to know of the ring: indices are in range whenever *)
(* something is stored.  That the lengths in it add up to used is not needed.  *)
RingShape ==
  /\ data \in Seq(Nat) /\ Len(data) <= receiveBufferBytes
  /\ head \in Nat
  /\ used \in Int /\ used <= Len(data)

BufferInv == WaitTypeOK /\ RingShape /\ DeadlineReachesAll /\ NoLostWakeup

-----------------------------------------------------------------------------
(* Go's % of a non-negative index is an index. *)
LEMMA Remainder == \A x \in Int, n \in Nat \ {0} : x % n \in 0 .. n - 1
  OBVIOUS

LEMMA Product == \A a, b \in Nat : a * b \in Nat
  OBVIOUS

LEMMA Quotient == \A a \in Nat, b \in Nat \ {0} : a \div b \in Nat
  OBVIOUS

LEMMA IsSequence ==
  \A n \in Nat : \A f \in [1 .. n -> Nat] : f \in Seq(Nat) /\ Len(f) = n
  BY SeqDef, LenProperties

(* A stored byte is a byte of the ring. *)
LEMMA AtType ==
  ASSUME RingShape, used > 0, NEW i \in Nat
  PROVE  At(i) \in Nat
  <1>1. Len(data) \in Nat \ {0}
    BY LenProperties DEF RingShape
  <1>2. (head + i) % Len(data) \in 0 .. Len(data) - 1
    <2>1. head + i \in Int
      BY DEF RingShape
    <2> QED BY <1>1, <2>1, Remainder, Zenon
  <1>3. ((head + i) % Len(data)) + 1 \in 1 .. Len(data)
    BY <1>1, <1>2
  <1> QED BY <1>3, ElementOfSeq DEF RingShape, At

(* min and max of the code are the ones of arithmetic. *)
LEMMA MinMax ==
  ASSUME NEW a \in Int, NEW b \in Int
  PROVE  /\ min(a, b) \in {a, b} /\ min(a, b) <= a /\ min(a, b) <= b
         /\ max(a, b) \in {a, b} /\ max(a, b) >= a /\ max(a, b) >= b
  BY DEF min, max

(* The ring grows to at least what is needed and at most the limit. *)
LEMMA GrownType ==
  ASSUME RingShape, NEW need \in Nat, need <= receiveBufferBytes
  PROVE  /\ Grown(need) \in Seq(Nat)
         /\ Len(Grown(need)) \in need .. receiveBufferBytes
  <1> DEFINE n == min(receiveBufferBytes, max(minAlloc, max(2 * Len(data), need)))
  <1>1. n \in need .. receiveBufferBytes
    <2>1. Len(data) \in Nat
      BY LenProperties DEF RingShape
    <2>2. 2 * Len(data) \in Int
      BY <2>1
    <2>3. max(2 * Len(data), need) \in Int /\ max(2 * Len(data), need) >= need
      BY <2>2, MinMax
    <2>4. /\ max(minAlloc, max(2 * Len(data), need)) \in Int
          /\ max(minAlloc, max(2 * Len(data), need)) >= need
      BY <2>3, MinMax, MinAllocType
    <2> HIDE DEF n
    <2>5. n \in Int /\ n >= need /\ n <= receiveBufferBytes
      BY <2>4, MinMax, SizeType DEF n
    <2> QED BY <2>5, SizeType
  <1> HIDE DEF n
  <1>2. n \in Nat
    BY <1>1, SizeType
  <1>3. \A i \in 1 .. n : (IF i <= used THEN At(i - 1) ELSE 0) \in Nat
    <2> SUFFICES ASSUME NEW i \in 1 .. n, i <= used PROVE At(i - 1) \in Nat
      OBVIOUS
    <2>1. used > 0 /\ i - 1 \in Nat
      BY <1>2 DEF RingShape
    <2> QED BY <2>1, AtType
  <1>4. Grown(need) = [i \in 1 .. n |-> IF i <= used THEN At(i - 1) ELSE 0]
    BY DEF Grown, n
  <1>5. Grown(need) \in [1 .. n -> Nat]
    BY <1>3, <1>4
  <1>6. Grown(need) \in Seq(Nat) /\ Len(Grown(need)) = n
    BY <1>2, <1>5, IsSequence
  <1> QED BY <1>1, <1>6

(* Laying bytes into a ring keeps its size. *)
LEMMA LayType ==
  ASSUME NEW ring \in Seq(Nat), NEW tail, NEW bytes \in Seq(Nat), ring # << >> => tail \in Int
  PROVE  Lay(ring, tail, bytes) \in Seq(Nat) /\ Len(Lay(ring, tail, bytes)) = Len(ring)
  <1>1. Len(ring) \in Nat /\ DOMAIN ring = 1 .. Len(ring)
    BY LenProperties
  <1>2. ASSUME NEW i \in 1 .. Len(ring)
        PROVE  LET k == (i - 1 - tail) % Len(ring)
               IN  (IF k < Len(bytes) THEN bytes[k + 1] ELSE ring[i]) \in Nat
    <2> DEFINE k == (i - 1 - tail) % Len(ring)
    <2>1. k \in Nat
      <3>1. Len(ring) \in Nat \ {0} /\ ring # << >>
        BY <1>1
      <3>2. i - 1 - tail \in Int
        BY <3>1
      <3>3. k \in 0 .. Len(ring) - 1
        BY <3>1, <3>2, Remainder, Zenon
      <3> QED BY <3>1, <3>3
    <2> HIDE DEF k
    <2>2. ring[i] \in Nat
      BY ElementOfSeq
    <2>3. k < Len(bytes) => bytes[k + 1] \in Nat
      <3>1. Len(bytes) \in Nat
        BY LenProperties
      <3>2. k < Len(bytes) => k + 1 \in 1 .. Len(bytes)
        BY <2>1, <3>1
      <3> QED BY <3>2, ElementOfSeq
    <2>4. (IF k < Len(bytes) THEN bytes[k + 1] ELSE ring[i]) \in Nat
      BY <2>2, <2>3
    <2> QED BY <2>4 DEF k
  <1>3. Lay(ring, tail, bytes) \in [1 .. Len(ring) -> Nat]
    BY <1>1, <1>2, Zenon DEF Lay
  <1> QED BY <1>1, <1>3, IsSequence, Zenon

LEMMA FramedType ==
  ASSUME NEW p \in Packet
  PROVE  Framed(p) \in Seq(Nat) /\ Len(p) \in Nat
  <1>1. p \in Seq(0 .. Base - 1)
    BY PacketType
  <1>2. Len(p) \in Nat /\ DOMAIN p = 1 .. Len(p) /\ p \in [1 .. Len(p) -> 0 .. Base - 1]
    BY <1>1, LenProperties, Zenon
  <1>3. p \in Seq(Nat)
    <2>1. p \in [1 .. Len(p) -> Nat]
      BY <1>2, SizeType
    <2> QED BY <1>2, <2>1, SeqDef
  <1>4. Len(p) \div Base \in Nat /\ Len(p) % Base \in Nat
    <2>1. Base \in Nat \ {0} /\ Len(p) \in Int
      BY <1>2, SizeType
    <2>2. Len(p) \div Base \in Nat
      BY <1>2, <2>1, Quotient, Zenon
    <2>3. Len(p) % Base \in 0 .. Base - 1
      BY <2>1, Remainder, Zenon
    <2>4. Base - 1 \in Int
      BY <2>1
    <2> QED BY <2>2, <2>3, <2>4
  <1>5. <<Len(p) \div Base, Len(p) % Base>> \in Seq(Nat)
    BY <1>4
  <1> QED BY <1>2, <1>3, <1>5, ConcatProperties DEF Framed

-----------------------------------------------------------------------------
(* Write keeps the ring well formed, whether it grows or not. *)
LEMMA WriteShape ==
  ASSUME RingShape, NEW p \in Packet, Write(p)
  PROVE  RingShape'
  <1> DEFINE need == used + Len(p) + 2
  <1>1. Len(p) \in Nat /\ Framed(p) \in Seq(Nat)
    BY FramedType
  <1>2. need \in Int /\ need <= receiveBufferBytes /\ used' = need
    BY <1>1 DEF Write, RingShape
  <1>3. Len(data) \in Nat /\ used \in Int /\ head \in Nat
    BY LenProperties DEF RingShape
  <1>4. CASE need > Len(data)
    <2>1. need \in Nat
      BY <1>2, <1>3, <1>4
    <2>2. data' = Lay(Grown(need), used, Framed(p)) /\ head' = 0
      BY <1>4 DEF Write
    <2> HIDE DEF need
    <2>3. Grown(need) \in Seq(Nat) /\ Len(Grown(need)) \in need .. receiveBufferBytes
      BY <1>2, <2>1, GrownType
    <2>4. data' \in Seq(Nat) /\ Len(data') = Len(Grown(need))
      BY <1>1, <1>3, <2>2, <2>3, LayType
    <2> QED BY <1>2, <2>1, <2>2, <2>3, <2>4, SizeType DEF RingShape
  <1>5. CASE need <= Len(data)
    <2> DEFINE tail == (head + used) % Len(data)
    <2>1. data' = Lay(data, tail, Framed(p)) /\ head' = head
      BY <1>2, <1>3, <1>5 DEF Write
    <2>2. data # << >> => tail \in Int
      <3> SUFFICES ASSUME data # << >> PROVE tail \in Int
        OBVIOUS
      <3>1. Len(data) \in Nat \ {0} /\ head + used \in Int
        BY <1>3, EmptySeq DEF RingShape
      <3>2. tail \in 0 .. Len(data) - 1
        BY <3>1, Remainder, Zenon
      <3> QED BY <3>1, <3>2
    <2> HIDE DEF tail
    <2>3. data \in Seq(Nat)
      BY DEF RingShape
    <2>4. data' \in Seq(Nat) /\ Len(data') = Len(data)
      BY <1>1, <2>1, <2>2, <2>3, LayType
    <2> QED BY <1>2, <1>5, <2>1, <2>4 DEF RingShape
  <1> QED BY <1>2, <1>3, <1>4, <1>5

(* readPacket only ever takes bytes away. *)
LEMMA ReadShape ==
  ASSUME RingShape, NEW r \in Reader, NEW room \in Room, readPacket(r, room)
  PROVE  RingShape'
  <1> DEFINE size == At(0) * Base + At(1)
  <1>1. used > 0 /\ Len(data) \in Nat \ {0} /\ head \in Nat /\ used \in Int
    BY LenProperties DEF readPacket, RingShape
  <1>2. size \in Nat
    <2>1. At(0) \in Nat /\ At(1) \in Nat /\ Base \in Nat
      BY <1>1, AtType, SizeType
    <2>2. At(0) * Base \in Nat
      BY <2>1, Product, Zenon
    <2> QED BY <2>1, <2>2
  <1>3. /\ used' = used - (size + 2) /\ data' = data
        /\ head' = IF used' = 0 THEN 0 ELSE (head + 2 + size) % Len(data)
    BY DEF readPacket
  <1> HIDE DEF size
  <1>4. head' \in Nat
    <2>1. head + 2 + size \in Int
      BY <1>1, <1>2
    <2>2. (head + 2 + size) % Len(data) \in 0 .. Len(data) - 1
      BY <1>1, <2>1, Remainder, Zenon
    <2>3. (head + 2 + size) % Len(data) \in Nat
      BY <1>1, <2>2
    <2> QED BY <1>3, <2>3
  <1> QED BY <1>1, <1>2, <1>3, <1>4 DEF RingShape

-----------------------------------------------------------------------------
(* No reader is stranded: the deadline reaches every sleeper, and queued      *)
(* packets always have a token or a reader about to look.  A reader that takes *)
(* the token looks next; it returns without a packet only when the deadline    *)
(* has passed, and then nobody sleeps on.                                      *)
LEMMA BufferInvStep == BufferInv /\ [BufferNext]_bufferVars => BufferInv'
  <1> SUFFICES ASSUME BufferInv, [BufferNext]_bufferVars PROVE BufferInv'
    OBVIOUS
  <1> USE DEF BufferInv
  <1>1. ASSUME NEW p \in Packet, Write(p) PROVE BufferInv'
    <2>1. RingShape'
      BY <1>1, WriteShape
    <2> QED BY <1>1, <2>1 DEF Write, WaitTypeOK, DeadlineReachesAll, NoLostWakeup, Asleep
  <1>2. ASSUME NEW r \in Reader, Calls(r), UNCHANGED ringVars PROVE BufferInv'
    BY <1>2 DEF Calls, Moves, ringVars, WaitTypeOK, RingShape, DeadlineReachesAll, NoLostWakeup, Asleep
  <1>3. ASSUME NEW r \in Reader, TimesOut(r), UNCHANGED ringVars PROVE BufferInv'
    BY <1>3 DEF TimesOut, Returns, Moves, ringVars, WaitTypeOK, RingShape, DeadlineReachesAll, NoLostWakeup, Asleep
  <1>4. ASSUME NEW r \in Reader, Ends(r) PROVE BufferInv'
    BY <1>4 DEF Ends, EndsEmpty, Returns, Moves, ringVars, WaitTypeOK, RingShape, DeadlineReachesAll, NoLostWakeup, Asleep
  <1>5. ASSUME NEW r \in Reader, Sleeps(r) PROVE BufferInv'
    BY <1>5 DEF Sleeps, SleepsEmpty, Moves, ringVars, WaitTypeOK, RingShape, DeadlineReachesAll, NoLostWakeup, Asleep
  <1>6. ASSUME NEW r \in Reader, NEW room \in Room, readPacket(r, room) PROVE BufferInv'
    <2>1. RingShape'
      BY <1>6, ReadShape
    <2>2. PICK err, bytes : Takes(r, err, bytes, used' # 0)
      BY <1>6 DEF readPacket
    <2>3. used' > 0 => used' # 0
      BY <2>1 DEF RingShape
    <2> QED BY <2>1, <2>2, <2>3, Zenon DEF Takes, Returns, Moves, WaitTypeOK, DeadlineReachesAll, NoLostWakeup, Asleep
  <1>7. ASSUME NEW r \in Reader, WokenByToken(r), UNCHANGED ringVars PROVE BufferInv'
    BY <1>7, Zenon DEF WokenByToken, Moves, ringVars, WaitTypeOK, RingShape, DeadlineReachesAll, NoLostWakeup, Asleep
  <1>8. ASSUME NEW r \in Reader, WokenByEnd(r), UNCHANGED ringVars PROVE BufferInv'
    BY <1>8 DEF WokenByEnd, Moves, ringVars, WaitTypeOK, RingShape, DeadlineReachesAll, NoLostWakeup, Asleep
  <1>9. ASSUME Expire, UNCHANGED ringVars PROVE BufferInv'
    BY <1>9 DEF Expire, ringVars, WaitTypeOK, RingShape, DeadlineReachesAll, NoLostWakeup, Asleep
  <1>10. ASSUME Close, UNCHANGED ringVars PROVE BufferInv'
    BY <1>10 DEF Close, ringVars, WaitTypeOK, RingShape, DeadlineReachesAll, NoLostWakeup, Asleep
  <1>11. ASSUME NEW d \in {"none", "armed", "passed"}, SetReadDeadline(d), UNCHANGED ringVars
         PROVE  BufferInv'
    BY <1>11 DEF SetReadDeadline, ringVars, WaitTypeOK, RingShape, DeadlineReachesAll, NoLostWakeup, Asleep
  <1>12. ASSUME UNCHANGED bufferVars PROVE BufferInv'
    BY <1>12 DEF bufferVars, waitVars, ringVars, WaitTypeOK, RingShape, DeadlineReachesAll, NoLostWakeup, Asleep
  <1> QED BY <1>1, <1>2, <1>3, <1>4, <1>5, <1>6, <1>7, <1>8, <1>9, <1>10, <1>11, <1>12
          DEF BufferNext, Look, Woken

(* Initially nothing is stored and nobody sleeps. *)
LEMMA BufferInvInit == BufferInit => BufferInv
  <1> SUFFICES ASSUME BufferInit PROVE BufferInv
    OBVIOUS
  <1>1. WaitTypeOK /\ DeadlineReachesAll /\ NoLostWakeup
    BY Zenon DEF BufferInit, WaitInit, WaitTypeOK, DeadlineReachesAll, NoLostWakeup, Asleep
  <1>2. data \in Seq(Nat) /\ Len(data) = 0
    BY EmptySeq DEF BufferInit
  <1> QED BY <1>1, <1>2, SizeType DEF BufferInit, BufferInv, RingShape

LEMMA BufferInvariant == BufferSpec => []BufferInv
  BY BufferInvInit, BufferInvStep, PTL DEF BufferSpec

(* For any number of readers, no queued packet is slept on: Write and        *)
(* readPacket hand the one-slot token on whenever packets are left.          *)
THEOREM NeverLosesWakeup == BufferSpec => []NoLostWakeup
  BY BufferInvariant, PTL DEF BufferInv

(* For any number of readers and any sequence of deadlines, a passed deadline *)
(* has reached every sleeping Read.                                           *)
THEOREM DeadlineWakesAll == BufferSpec => []DeadlineReachesAll
  BY BufferInvariant, PTL DEF BufferInv
-----------------------------------------------------------------------------
(* The ring is a queue.  First what Unframed computes, whose recursion is on the *)
(* number of bytes left.                                                         *)
LEMMA LeastExists ==
  ASSUME NEW S \in SUBSET Nat, S # {}
  PROVE  \E m \in S : \A l \in S : m <= l
  <1> DEFINE R == OpToRel(<, Nat)
  <1>1. IsWellFoundedOn(R, Nat)
    BY NatLessThanWellFounded, Zenon
  <1>2. \A a, b \in Nat : <<a, b>> \in R <=> a < b
    BY DEF OpToRel
  <1> HIDE DEF R
  <1>3. PICK m \in S : \A l \in S : ~ (<<l, m>> \in R)
    BY <1>1, WFMin, Zenon
  <1>4. m \in Nat /\ \A l \in S : l \in Nat /\ ~ (l < m)
    BY <1>2, <1>3, Zenon
  <1> QED
    BY <1>4

(* The length written at offset o, and one turn of the recursion. *)
Size(b, o) == b[o + 1] * Base + b[o + 2]

Turn(b, f, u) ==
  IF u = 0 THEN << >>
  ELSE IF u = 1 \/ Size(b, Len(b) - u) + 2 > u THEN <<"torn">>
  ELSE <<SubSeq(b, Len(b) - u + 3, Len(b) - u + 2 + Size(b, Len(b) - u))>>
         \o f[u - Size(b, Len(b) - u) - 2]

Solves(b, f, n) == f = [u \in 0 .. n |-> Turn(b, f, u)]

LEMMA UnframedSolves ==
  ASSUME NEW b
  PROVE  Unframed(b) = (CHOOSE f : Solves(b, f, Len(b)))[Len(b)]
  BY DEF Unframed, Solves, Turn, Size

LEMMA LengthType ==
  ASSUME NEW b \in Seq(Nat), NEW o \in Nat, o + 2 <= Len(b)
  PROVE  Size(b, o) \in Nat
  <1>1. Len(b) \in Nat
    BY LenProperties
  <1>2. o + 1 \in 1 .. Len(b) /\ o + 2 \in 1 .. Len(b)
    BY <1>1
  <1>3. b[o + 1] \in Nat /\ b[o + 2] \in Nat
    BY <1>2, ElementOfSeq
  <1>4. b[o + 1] * Base \in Nat
    BY <1>3, SizeType, Product
  <1> QED
    BY <1>3, <1>4 DEF Size

(* A turn looks only at fewer bytes. *)
LEMMA TurnLooksBack ==
  ASSUME NEW b \in Seq(Nat), NEW u \in 0 .. Len(b), NEW f, NEW g,
         \A v \in 0 .. u - 1 : f[v] = g[v]
  PROVE  Turn(b, f, u) = Turn(b, g, u)
  <1>1. Len(b) \in Nat /\ u \in Nat
    BY LenProperties
  <1>2. CASE u = 0 \/ u = 1
    BY <1>2 DEF Turn
  <1>3. CASE ~ (u = 0 \/ u = 1)
    <2> DEFINE size == Size(b, Len(b) - u)
    <2>1. size \in Nat
      BY <1>1, <1>3, LengthType
    <2> HIDE DEF size
    <2>2. ~ (size + 2 > u) => f[u - size - 2] = g[u - size - 2]
      BY <1>1, <1>3, <2>1
    <2> QED
      BY <1>3, <2>2 DEF Turn, size
  <1> QED
    BY <1>2, <1>3

LEMMA SolutionExists ==
  ASSUME NEW b \in Seq(Nat), NEW n \in 0 .. Len(b)
  PROVE  \E f : Solves(b, f, n)
  <1> DEFINE S == {m \in 0 .. Len(b) : ~ \E f : Solves(b, f, m)}
  <1>1. Len(b) \in Nat /\ S \in SUBSET Nat
    BY LenProperties
  <1> SUFFICES ASSUME S # {} PROVE FALSE
    OBVIOUS
  <1>2. PICK m \in S : \A l \in S : m <= l
    BY <1>1, LeastExists, Zenon
  <1>3. m \in 0 .. Len(b) /\ ~ \E f : Solves(b, f, m)
    OBVIOUS
  <1>4. CASE m = 0
    <2> DEFINE f == [u \in 0 .. 0 |-> Turn(b, << >>, u)]
    <2>1. ASSUME NEW u \in 0 .. 0 PROVE Turn(b, << >>, u) = Turn(b, f, u)
      BY DEF Turn
    <2>2. f = [u \in 0 .. 0 |-> Turn(b, f, u)]
      BY <2>1
    <2> QED
      BY <1>3, <1>4, <2>2 DEF Solves
  <1>5. CASE m > 0
    <2>0. m - 1 \in 0 .. Len(b) /\ ~ (m <= m - 1)
      BY <1>1, <1>3, <1>5
    <2>1. m - 1 \in 0 .. Len(b) /\ ~ (m - 1 \in S)
      BY <1>2, <2>0, Zenon
    <2>2. PICK g : Solves(b, g, m - 1)
      BY <2>1
    <2>3. \A u \in 0 .. m - 1 : g[u] = Turn(b, g, u)
      BY <2>2, Zenon DEF Solves
    <2> DEFINE f == [u \in 0 .. m |-> Turn(b, g, u)]
    <2>4. \A v \in 0 .. m - 1 : f[v] = g[v]
      BY <1>1, <1>3, <2>3
    <2>5. ASSUME NEW u \in 0 .. m PROVE Turn(b, g, u) = Turn(b, f, u)
      <3>1. u \in 0 .. Len(b) /\ \A v \in 0 .. u - 1 : v \in 0 .. m - 1
        BY <1>1, <1>3
      <3> HIDE DEF f
      <3> QED
        BY <2>4, <3>1, TurnLooksBack
    <2>6. f = [u \in 0 .. m |-> Turn(b, f, u)]
      BY <2>5
    <2> QED
      BY <1>3, <2>6, Zenon DEF Solves
  <1> QED
    BY <1>1, <1>3, <1>4, <1>5
(* The bytes b are the packets q one behind another, each behind its length;  *)
(* off[i] bytes lie before the i-th.                                          *)
Holds(b, q, off) ==
  /\ off \in [1 .. Len(q) + 1 -> 0 .. Len(b)]
  /\ off[1] = 0 /\ off[Len(q) + 1] = Len(b)
  /\ \A i \in 1 .. Len(q) :
       /\ off[i + 1] = off[i] + Len(q[i]) + 2
       /\ Size(b, off[i]) = Len(q[i])
       /\ \A k \in 1 .. Len(q[i]) : b[off[i] + 2 + k] = q[i][k]

(* Where the i-th packet lies. *)
LEMMA HoldsAt ==
  ASSUME NEW b \in Seq(Nat), NEW q \in Seq(Seq(Nat)), NEW off, Holds(b, q, off),
         NEW i \in 1 .. Len(q)
  PROVE  /\ Len(b) \in Nat /\ Len(q) \in Nat /\ q[i] \in Seq(Nat) /\ Len(q[i]) \in Nat
         /\ off[i] \in Nat /\ off[i + 1] = off[i] + Len(q[i]) + 2 /\ off[i + 1] <= Len(b)
         /\ Size(b, off[i]) = Len(q[i])
         /\ SubSeq(b, off[i] + 3, off[i] + 2 + Len(q[i])) = q[i]
  <1>1. Len(b) \in Nat /\ Len(q) \in Nat
    BY LenProperties
  <1>2. q[i] \in Seq(Nat)
    BY ElementOfSeq
  <1>3. Len(q[i]) \in Nat
    BY <1>2, LenProperties
  <1>4. i \in 1 .. Len(q) + 1 /\ i + 1 \in 1 .. Len(q) + 1
    BY <1>1
  <1>5. off[i] \in 0 .. Len(b) /\ off[i + 1] \in 0 .. Len(b)
    BY <1>4, Zenon DEF Holds
  <1>6. /\ off[i + 1] = off[i] + Len(q[i]) + 2 /\ Size(b, off[i]) = Len(q[i])
        /\ \A k \in 1 .. Len(q[i]) : b[off[i] + 2 + k] = q[i][k]
    BY Zenon DEF Holds
  <1> DEFINE o == off[i]
             n == Len(q[i])
             s == SubSeq(b, o + 3, o + 2 + n)
             m == Len(b)
             next == off[i + 1]
  <1>8. m \in Nat /\ n \in Nat /\ o \in 0 .. m /\ next \in 0 .. m /\ next = o + n + 2
    BY <1>1, <1>3, <1>5, <1>6
  <1>7. s = q[i]
    <2> HIDE DEF s, o, n, m, next
    <2>1. o \in Nat /\ o + 3 \in Int /\ o + 2 + n \in Int /\ o + 2 + n <= m
      BY <1>8
    <2>2. \A j \in o + 3 .. o + 2 + n : b[j] \in Nat
      <3>1. \A j \in o + 3 .. o + 2 + n : j \in 1 .. m
        BY <1>8, <2>1
      <3> QED
        BY <3>1, ElementOfSeq DEF m
    <2>3. s \in Seq(Nat) /\ Len(s) = n /\ \A j \in 1 .. n : s[j] = b[o + 2 + j]
      <3> DEFINE first == o + 3
                 last == o + 2 + n
      <3>1. first \in Int /\ last \in Int
        BY <2>1
      <3>2. \A j \in first .. last : b[j] \in Nat
        BY <2>2
      <3> HIDE DEF first, last
      <3>3. /\ SubSeq(b, first, last) \in Seq(Nat)
            /\ Len(SubSeq(b, first, last)) = IF first <= last THEN last - first + 1 ELSE 0
            /\ \A j \in 1 .. last - first + 1 : SubSeq(b, first, last)[j] = b[first + j - 1]
        BY <3>1, <3>2, SubSeqProperties
      <3>4. s = SubSeq(b, first, last)
        BY DEF first, last, s
      <3>5. /\ s \in Seq(Nat)
            /\ Len(s) = IF first <= last THEN last - first + 1 ELSE 0
            /\ \A j \in 1 .. last - first + 1 : s[j] = b[first + j - 1]
        BY <3>3, <3>4
      <3>6. last - first + 1 = n /\ (first <= last \/ n = 0)
        BY <1>8 DEF first, last
      <3>7. \A j \in 1 .. n : first + j - 1 = o + 2 + j
        BY <1>8 DEF first
      <3>8. Len(s) = n
        BY <1>8, <3>1, <3>5, <3>6
      <3> QED
        BY <3>5, <3>6, <3>7, <3>8
    <2>6. \A j \in 1 .. Len(s) : s[j] = q[i][j]
      BY <1>6, <2>3 DEF o, n
    <2> QED
      BY <1>2, <2>3, <2>6, SeqEqual DEF n
  <1> QED
    BY <1>1, <1>2, <1>6, <1>7, <1>8

LEMMA HoldsEach ==
  ASSUME NEW b \in Seq(Nat), NEW q \in Seq(Seq(Nat)), NEW off, Holds(b, q, off)
  PROVE  \A i \in 1 .. Len(q) : /\ Len(q[i]) \in Nat /\ off[i] \in Nat
                                /\ off[i + 1] = off[i] + Len(q[i]) + 2 /\ off[i + 1] <= Len(b)
                                /\ Size(b, off[i]) = Len(q[i])
  BY HoldsAt

LEMMA UnframedIs ==
  ASSUME NEW b \in Seq(Nat), NEW q \in Seq(Seq(Nat)), NEW off, Holds(b, q, off)
  PROVE  Unframed(b) = q
  <1> DEFINE f == CHOOSE f : Solves(b, f, Len(b))
             n == Len(q)
             S == {d \in 0 .. n : f[Len(b) - off[n + 1 - d]] # SubSeq(q, n + 1 - d, n)}
  <1>1. Len(b) \in Nat /\ n \in Nat
    BY LenProperties
  <1>2. \E g : Solves(b, g, Len(b))
    BY <1>1, SolutionExists
  <1>3. Solves(b, f, Len(b))
    BY <1>2
  <1>4. Unframed(b) = f[Len(b)]
    BY UnframedSolves
  <1> HIDE DEF f
  <1>5. \A u \in 0 .. Len(b) : f[u] = Turn(b, f, u)
    BY <1>3, Zenon DEF Solves
  <1>6. S = {}
    <2> SUFFICES ASSUME S # {} PROVE FALSE
      OBVIOUS
    <2>1. S \in SUBSET Nat
      BY <1>1
    <2>2. PICK d \in S : \A l \in S : d <= l
      BY <2>1, LeastExists, Zenon
    <2>3. d \in 0 .. n /\ f[Len(b) - off[n + 1 - d]] # SubSeq(q, n + 1 - d, n)
      OBVIOUS
    <2>4. CASE d = 0
      <3>1. Len(b) - off[n + 1] = 0
        BY <1>1 DEF Holds
      <3>2. f[0] = << >>
        <4>1. 0 \in 0 .. Len(b)
          BY <1>1
        <4>2. f[0] = Turn(b, f, 0)
          BY <1>5, <4>1
        <4> QED
          BY <4>2 DEF Turn
      <3>3. SubSeq(q, n + 1, n) = << >>
        BY <1>1, SubSeqEmpty
      <3>4. n + 1 - d = n + 1
        BY <1>1, <2>4
      <3> QED
        BY <2>3, <3>1, <3>2, <3>3, <3>4, Zenon
    <2>5. CASE d > 0
      <3> DEFINE i == n + 1 - d
                 u == Len(b) - off[i]
                 size == Len(q[i])
      <3>1. i \in 1 .. n /\ i + 1 = n + 1 - (d - 1) /\ d - 1 \in 0 .. n /\ d \in Nat
        BY <1>1, <2>3, <2>5
      <3>2. ~ (d - 1 \in S)
        <4> HIDE DEF S
        <4>1. d - 1 \in S => d <= d - 1
          BY <2>2
        <4> QED
          BY <3>1, <4>1
      <3>3. f[Len(b) - off[i + 1]] = SubSeq(q, i + 1, n)
        BY <3>1, <3>2
      <3> HIDE DEF S
      <3>4. /\ size \in Nat /\ off[i] \in Nat /\ off[i + 1] = off[i] + size + 2
            /\ off[i + 1] <= Len(b) /\ Size(b, off[i]) = size
            /\ SubSeq(b, off[i] + 3, off[i] + 2 + size) = q[i]
        BY <3>1, HoldsAt
      <3> DEFINE here == off[i]
                 next == off[i + 1]
                 total == Len(b)
      <3>9. /\ size \in Nat /\ here \in Nat /\ next = here + size + 2 /\ next <= total
            /\ total \in Nat /\ u = total - here
        BY <1>1, <3>4
      <3> HIDE DEF i, size, here, next, total, u
      <3>5. /\ u \in 0 .. total /\ total - u = here /\ u >= size + 2
            /\ u - size - 2 = total - next
        BY <3>9
      <3>6. f[u] = <<q[i]>> \o f[u - size - 2]
        <4>1. f[u] = Turn(b, f, u)
          BY <1>5, <3>5 DEF total
        <4>2. u # 0 /\ u # 1 /\ ~ (size + 2 > u)
          BY <3>5, <3>9
        <4>3. Turn(b, f, u) = <<SubSeq(b, off[i] + 3, off[i] + 2 + size)>> \o f[u - size - 2]
          BY <3>4, <3>5, <4>2, Zenon DEF Turn, here, total
        <4> QED
          BY <3>4, <4>1, <4>3, Zenon
      <3>7. SubSeq(q, i, n) = <<q[i]>> \o SubSeq(q, i + 1, n)
        <4>1. i \in 1 .. Len(q) /\ n \in i .. Len(q)
          BY <1>1, <3>1
        <4> QED
          BY <4>1, SubSeqRecursiveFirst
      <3>8. f[u] = SubSeq(q, i, n)
        BY <3>3, <3>5, <3>6, <3>7, Zenon DEF next, total
      <3> QED
        BY <2>3, <3>8 DEF i, u
    <2> QED
      BY <1>1, <2>3, <2>4, <2>5
  <1>7. f[Len(b) - off[1]] = SubSeq(q, 1, n)
    <2>1. n \in 0 .. n /\ n + 1 - n = 1
      BY <1>1
    <2> QED
      BY <1>6, <2>1, Zenon
  <1>8. Len(b) - off[1] = Len(b)
    BY <1>1 DEF Holds
  <1> QED
    BY <1>4, <1>7, <1>8, SubSeqFull, Zenon
(* The bytes the queue counts are the bytes the ring stores. *)
Counts(q, f) ==
  f = [n \in 0 .. Len(q) |-> IF n = 0 THEN 0 ELSE f[n - 1] + Len(q[n]) + 2]

LEMMA StoredCounts ==
  ASSUME NEW q
  PROVE  Queue!Stored(q) = (CHOOSE f : Counts(q, f))[Len(q)]
  BY DEF Queue!Stored, Counts

LEMMA StoredIs ==
  ASSUME NEW b \in Seq(Nat), NEW q \in Seq(Seq(Nat)), NEW off, Holds(b, q, off)
  PROVE  Queue!Stored(q) = Len(b)
  <1> DEFINE f == CHOOSE f : Counts(q, f)
             g == [n \in 0 .. Len(q) |-> off[n + 1]]
             S == {n \in 0 .. Len(q) : f[n] # off[n + 1]}
  <1>1. Len(b) \in Nat /\ Len(q) \in Nat
    BY LenProperties
  <1>2. \A n \in 1 .. Len(q) : off[n + 1] = off[n] + Len(q[n]) + 2
    BY DEF Holds
  <1>3. Counts(q, g)
    <2>1. ASSUME NEW n \in 0 .. Len(q)
          PROVE  off[n + 1] = IF n = 0 THEN 0 ELSE g[n - 1] + Len(q[n]) + 2
      <3>1. CASE n = 0
        BY <3>1 DEF Holds
      <3>2. CASE n # 0
        <4>1. n \in 1 .. Len(q) /\ n - 1 \in 0 .. Len(q) /\ n - 1 + 1 = n
          BY <1>1, <3>2
        <4>2. g[n - 1] = off[n]
          BY <4>1
        <4> HIDE DEF g
        <4> QED
          BY <1>2, <3>2, <4>1, <4>2
      <3> QED
        BY <3>1, <3>2
    <2>2. g = [n \in 0 .. Len(q) |-> off[n + 1]]
      OBVIOUS
    <2> HIDE DEF g
    <2> QED
      BY <2>1, <2>2, Zenon DEF Counts
  <1>4. Counts(q, f)
    <2> HIDE DEF g
    <2> QED
      BY <1>3
  <1>5. Queue!Stored(q) = f[Len(q)]
    BY StoredCounts
  <1> HIDE DEF f, g
  <1>6. \A n \in 0 .. Len(q) : f[n] = IF n = 0 THEN 0 ELSE f[n - 1] + Len(q[n]) + 2
    BY <1>4, Zenon DEF Counts
  <1>7. S = {}
    <2> SUFFICES ASSUME S # {} PROVE FALSE
      OBVIOUS
    <2>1. S \in SUBSET Nat
      BY <1>1
    <2>2. PICK n \in S : \A l \in S : n <= l
      BY <2>1, LeastExists, Zenon
    <2>3. n \in 0 .. Len(q) /\ f[n] # off[n + 1]
      OBVIOUS
    <2>4. CASE n = 0
      BY <1>6, <2>3, <2>4 DEF Holds
    <2>5. CASE n # 0
      <3>1. n \in 1 .. Len(q) /\ n - 1 \in 0 .. Len(q) /\ n - 1 + 1 = n /\ ~ (n <= n - 1)
        BY <1>1, <2>3, <2>5
      <3>2. ~ (n - 1 \in S)
        <4> HIDE DEF S
        <4> QED
          BY <2>2, <3>1
      <3>3. f[n - 1] = off[n]
        BY <3>1, <3>2
      <3> HIDE DEF S
      <3>4. f[n] = f[n - 1] + Len(q[n]) + 2
        BY <1>6, <2>3, <2>5
      <3> QED
        BY <1>2, <2>3, <3>1, <3>3, <3>4
    <2> QED
      BY <2>4, <2>5
  <1>8. f[Len(q)] = off[Len(q) + 1]
    <2>1. Len(q) \in 0 .. Len(q)
      BY <1>1
    <2> QED
      BY <1>7, <2>1
  <1> QED
    BY <1>5, <1>8 DEF Holds

(* What Framed puts in front of a packet: its length. *)
LEMMA FramedIs ==
  ASSUME NEW p \in Seq(Nat)
  PROVE  /\ Framed(p) \in Seq(Nat) /\ Len(p) \in Nat /\ Len(Framed(p)) = Len(p) + 2
         /\ Framed(p)[1] * Base + Framed(p)[2] = Len(p)
         /\ \A k \in 1 .. Len(p) : Framed(p)[2 + k] = p[k]
  <1> DEFINE high == Len(p) \div Base
             low == Len(p) % Base
             front == <<high, low>>
  <1>1. Len(p) \in Nat /\ Base \in Nat \ {0}
    BY LenProperties, SizeType
  <1>2. high \in Nat /\ low \in Nat
    <2>1. high \in Nat
      BY <1>1, Quotient, Zenon
    <2>2. low \in 0 .. Base - 1
      <3>1. Len(p) \in Int
        BY <1>1
      <3> QED BY <1>1, <3>1, Remainder, Zenon
    <2> HIDE DEF low, high
    <2> QED BY <1>1, <2>1, <2>2
  <1>3. high * Base + low = Len(p)
    BY <1>1
  <1> HIDE DEF high, low
  <1>4. front \in Seq(Nat) /\ Len(front) = 2 /\ front[1] = high /\ front[2] = low
    BY <1>2
  <1> HIDE DEF front
  <1>5. Framed(p) = front \o p
    BY DEF Framed, front, high, low
  <1>6. /\ front \o p \in Seq(Nat)
        /\ Len(front \o p) = Len(front) + Len(p)
        /\ \A i \in 1 .. Len(front) + Len(p) :
              (front \o p)[i] = IF i <= Len(front) THEN front[i] ELSE p[i - Len(front)]
    BY <1>4, ConcatProperties, Zenon
  <1> DEFINE w == Framed(p)
  <1>7. /\ w \in Seq(Nat) /\ Len(w) = 2 + Len(p)
        /\ \A i \in 1 .. 2 + Len(p) : w[i] = IF i <= 2 THEN front[i] ELSE p[i - 2]
    BY <1>4, <1>5, <1>6
  <1> HIDE DEF w
  <1>8. w[1] = high /\ w[2] = low
    BY <1>1, <1>4, <1>7
  <1>9. \A k \in 1 .. Len(p) : w[2 + k] = p[k]
    <2>1. \A k \in 1 .. Len(p) : 2 + k \in 1 .. 2 + Len(p) /\ ~ (2 + k <= 2) /\ 2 + k - 2 = k
      BY <1>1
    <2> QED BY <1>7, <2>1
  <1>10. w[1] * Base + w[2] = Len(p) /\ Len(w) = Len(p) + 2
    BY <1>1, <1>3, <1>7, <1>8
  <1> QED
    BY <1>1, <1>7, <1>9, <1>10 DEF w
(* A packet written behind the others is the last of them. *)
LEMMA HoldsAppend ==
  ASSUME NEW b \in Seq(Nat), NEW q \in Seq(Seq(Nat)), NEW off, Holds(b, q, off),
         NEW p \in Seq(Nat)
  PROVE  \E o : Holds(b \o Framed(p), Append(q, p), o)
  <1> DEFINE w == Framed(p)
             c == b \o w
             a == Append(q, p)
             n == Len(q)
             m == Len(b)
             size == Len(p)
             o == [i \in 1 .. n + 2 |-> IF i <= n + 1 THEN off[i] ELSE m + size + 2]
  <1>1. m \in Nat /\ n \in Nat /\ size \in Nat
    BY LenProperties
  <1>2. /\ w \in Seq(Nat) /\ Len(w) = size + 2 /\ w[1] * Base + w[2] = size
        /\ \A k \in 1 .. size : w[2 + k] = p[k]
    BY FramedIs
  <1> HIDE DEF w
  <1>3. /\ c \in Seq(Nat) /\ Len(c) = m + (size + 2)
        /\ \A i \in 1 .. m + (size + 2) : c[i] = IF i <= m THEN b[i] ELSE w[i - m]
    <2>1. /\ c \in Seq(Nat) /\ Len(c) = Len(b) + Len(w)
          /\ \A i \in 1 .. Len(b) + Len(w) : c[i] = IF i <= Len(b) THEN b[i] ELSE w[i - Len(b)]
      BY <1>2, ConcatProperties, Zenon
    <2>2. Len(b) = m /\ Len(w) = size + 2
      BY <1>2
    <2> HIDE DEF m, size, c
    <2> QED BY <2>1, <2>2
  <1>4. /\ a \in Seq(Seq(Nat)) /\ Len(a) = n + 1
        /\ \A i \in 1 .. n : a[i] = q[i]
        /\ a[n + 1] = p
    BY AppendProperties
  <1>5. /\ off \in [1 .. n + 1 -> 0 .. m] /\ off[1] = 0 /\ off[n + 1] = m
    BY DEF Holds
  <1>6. \A i \in 1 .. n : /\ Len(q[i]) \in Nat /\ off[i] \in Nat
                          /\ off[i + 1] = off[i] + Len(q[i]) + 2 /\ off[i + 1] <= m
                          /\ Size(b, off[i]) = Len(q[i])
    BY HoldsAt
  <1>7. \A i \in 1 .. n : \A k \in 1 .. Len(q[i]) : b[off[i] + 2 + k] = q[i][k]
    BY DEF Holds
  <1> HIDE DEF a, c, m, n, size
  <1>8. o \in [1 .. Len(a) + 1 -> 0 .. Len(c)] /\ o[1] = 0 /\ o[Len(a) + 1] = Len(c)
    <2>1. \A i \in 1 .. n + 2 : (IF i <= n + 1 THEN off[i] ELSE m + size + 2) \in 0 .. m + (size + 2)
      <3>1. \A i \in 1 .. n + 1 : off[i] \in 0 .. m
        BY <1>5, Zenon
      <3>2. \A i \in 1 .. n + 1 : off[i] \in 0 .. m + (size + 2)
        BY <1>1, <3>1
      <3>3. m + size + 2 \in 0 .. m + (size + 2)
        BY <1>1
      <3> QED BY <1>1, <3>2, <3>3
    <2>2. Len(a) + 1 = n + 2
      BY <1>1, <1>4
    <2>3. o \in [1 .. n + 2 -> 0 .. m + (size + 2)]
      BY <2>1
    <2>4. 1 \in 1 .. n + 2 /\ 1 <= n + 1 /\ n + 2 \in 1 .. n + 2 /\ ~ (n + 2 <= n + 1)
      BY <1>1
    <2>5. o[1] = off[1] /\ o[n + 2] = m + size + 2
      BY <2>4
    <2> HIDE DEF o
    <2>6. m + size + 2 = m + (size + 2)
      BY <1>1
    <2> QED BY <1>3, <1>5, <2>2, <2>3, <2>5, <2>6
  <1>9. ASSUME NEW i \in 1 .. Len(a)
        PROVE  /\ o[i + 1] = o[i] + Len(a[i]) + 2 /\ Size(c, o[i]) = Len(a[i])
               /\ \A k \in 1 .. Len(a[i]) : c[o[i] + 2 + k] = a[i][k]
    <2>1. CASE i \in 1 .. n
      <3> DEFINE at == off[i]
                 len == Len(q[i])
      <3>1. o[i] = at /\ o[i + 1] = off[i + 1]
        <4>1. i \in 1 .. n + 2 /\ i <= n + 1 /\ i + 1 \in 1 .. n + 2 /\ i + 1 <= n + 1
          BY <1>1, <2>1
        <4> QED BY <4>1
      <3>2. a[i] = q[i]
        BY <1>4, <2>1
      <3>3. /\ len \in Nat /\ at \in Nat /\ off[i + 1] = at + len + 2 /\ at + len + 2 <= m
            /\ Size(b, at) = len /\ \A k \in 1 .. len : b[at + 2 + k] = q[i][k]
        BY <1>6, <1>7, <2>1, Zenon
      <3> HIDE DEF o, at, len
      <3>4. \A j \in 1 .. len + 2 : at + j \in 1 .. m + (size + 2) /\ at + j <= m
        BY <1>1, <3>3
      <3>5. \A j \in 1 .. len + 2 : c[at + j] = b[at + j]
        BY <1>3, <3>4
      <3>6. c[at + 1] = b[at + 1] /\ c[at + 2] = b[at + 2]
        BY <3>3, <3>5
      <3>7. Size(c, at) = Size(b, at)
        BY <3>6 DEF Size
      <3>8. \A k \in 1 .. len : c[at + 2 + k] = b[at + 2 + k]
        <4>1. \A k \in 1 .. len : 2 + k \in 1 .. len + 2 /\ at + (2 + k) = at + 2 + k
          BY <3>3
        <4> QED BY <3>5, <4>1
      <3> QED BY <3>1, <3>2, <3>3, <3>7, <3>8, Zenon DEF len
    <2>2. CASE i = n + 1
      <3>1. o[i] = m /\ o[i + 1] = m + size + 2
        <4>1. i \in 1 .. n + 2 /\ i <= n + 1 /\ i + 1 \in 1 .. n + 2 /\ ~ (i + 1 <= n + 1)
          BY <1>1, <2>2
        <4> QED BY <1>5, <2>2, <4>1
      <3>2. a[i] = p
        BY <1>4, <2>2
      <3> HIDE DEF o
      <3>3. \A j \in 1 .. size + 2 :
               m + j \in 1 .. m + (size + 2) /\ ~ (m + j <= m) /\ m + j - m = j
        BY <1>1
      <3>4. \A j \in 1 .. size + 2 : c[m + j] = w[j]
        <4> SUFFICES ASSUME NEW j \in 1 .. size + 2 PROVE c[m + j] = w[j]
          OBVIOUS
        <4> DEFINE x == m + j
        <4>1. x \in 1 .. m + (size + 2) /\ ~ (x <= m) /\ x - m = j
          BY <1>1
        <4> HIDE DEF x
        <4>2. c[x] = w[x - m]
          BY <1>3, <4>1
        <4> QED BY <4>1, <4>2 DEF x
      <3>5. c[m + 1] = w[1] /\ c[m + 2] = w[2]
        <4>1. 1 \in 1 .. size + 2 /\ 2 \in 1 .. size + 2
          BY <1>1
        <4> QED BY <3>4, <4>1, Zenon
      <3>6. Size(c, m) = size
        BY <1>2, <3>5 DEF Size
      <3>7. \A k \in 1 .. size : c[m + 2 + k] = p[k]
        <4>1. \A k \in 1 .. size : 2 + k \in 1 .. size + 2 /\ m + (2 + k) = m + 2 + k
          BY <1>1
        <4> QED BY <1>2, <3>4, <4>1
      <3> QED BY <3>1, <3>2, <3>6, <3>7 DEF size
    <2>3. Len(a) = n + 1
      BY <1>4
    <2>4. i \in 1 .. n \/ i = n + 1
      BY <1>1, <2>3
    <2> QED BY <2>1, <2>2, <2>4, Zenon
  <1> HIDE DEF o
  <1>10. Holds(c, a, o)
    BY <1>8, <1>9 DEF Holds
  <1> QED
    BY <1>10 DEF c, a, w

(* Without its first packet the rest moves to the front. *)
LEMMA HoldsTail ==
  ASSUME NEW b \in Seq(Nat), NEW q \in Seq(Seq(Nat)), NEW off, Holds(b, q, off), q # << >>,
         NEW c \in Seq(Nat), Len(c) = Len(b) - (Len(q[1]) + 2),
         \A i \in 1 .. Len(c) : c[i] = b[i + (Len(q[1]) + 2)]
  PROVE  \E o : Holds(c, Tail(q), o)
  <1> DEFINE n == Len(q)
             m == Len(b)
             t == Tail(q)
             cut == Len(q[1]) + 2
             o == [i \in 1 .. n |-> off[i + 1] - cut]
             S == {i \in 1 .. n : ~ (off[i + 1] >= cut)}
  <1>1. m \in Nat /\ n \in Nat /\ n # 0 /\ Len(c) \in Nat
    BY LenProperties, EmptySeq, Zenon
  <1>2. t \in Seq(Seq(Nat)) /\ Len(t) = n - 1 /\ \A i \in 1 .. Len(t) : t[i] = q[i + 1]
    BY HeadTailProperties
  <1>3. \A i \in 1 .. n : /\ Len(q[i]) \in Nat /\ off[i] \in Nat
                          /\ off[i + 1] = off[i] + Len(q[i]) + 2 /\ off[i + 1] <= m
                          /\ Size(b, off[i]) = Len(q[i])
    BY HoldsEach, Zenon
  <1>4. \A i \in 1 .. n : \A k \in 1 .. Len(q[i]) : b[off[i] + 2 + k] = q[i][k]
    BY Zenon DEF Holds
  <1>5. off[1] = 0 /\ off[n + 1] = m
    BY DEF Holds
  <1>6. cut \in Nat /\ cut >= 2
    BY <1>1, <1>3
  <1>7. Len(c) = m - cut /\ \A i \in 1 .. Len(c) : c[i] = b[i + cut]
    BY Zenon
  <1>8. off[2] = cut
    <2>1. 1 \in 1 .. n /\ 1 + 1 = 2
      BY <1>1
    <2>2. off[2] = off[1] + Len(q[1]) + 2 /\ Len(q[1]) \in Nat
      BY <1>3, <2>1
    <2> QED BY <1>5, <2>2
  <1> HIDE DEF n, m, t, cut
  <1>9. S = {}
    <2> SUFFICES ASSUME S # {} PROVE FALSE
      OBVIOUS
    <2>1. S \in SUBSET Nat
      BY <1>1
    <2>2. PICK i \in S : \A l \in S : i <= l
      BY <2>1, LeastExists, Zenon
    <2>3. i \in 1 .. n /\ ~ (off[i + 1] >= cut)
      OBVIOUS
    <2>4. CASE i = 1
      BY <1>6, <1>8, <2>3, <2>4
    <2>5. CASE i # 1
      <3>1. i - 1 \in 1 .. n /\ i - 1 + 1 = i /\ ~ (i <= i - 1)
        BY <1>1, <2>3, <2>5
      <3>2. ~ (i - 1 \in S)
        <4> HIDE DEF S
        <4> QED BY <2>2, <3>1
      <3>3. off[i] >= cut
        BY <3>1, <3>2
      <3>4. Len(q[i]) \in Nat /\ off[i] \in Nat /\ off[i + 1] = off[i] + Len(q[i]) + 2
        BY <1>3, <2>3
      <3>5. off[i + 1] >= cut
        BY <1>6, <3>3, <3>4
      <3> QED BY <2>3, <3>5
    <2> QED BY <2>4, <2>5
  <1>10. \A i \in 1 .. n : off[i + 1] >= cut
    BY <1>9, Zenon
  <1> HIDE DEF S
  <1>11. \A i \in 1 .. n : off[i + 1] \in Nat /\ off[i + 1] - cut \in 0 .. Len(c)
    <2> SUFFICES ASSUME NEW i \in 1 .. n
                 PROVE  off[i + 1] \in Nat /\ off[i + 1] - cut \in 0 .. Len(c)
      OBVIOUS
    <2> DEFINE end == off[i + 1]
               here == off[i]
               len == Len(q[i])
               room == Len(c)
    <2>1. len \in Nat /\ here \in Nat /\ end = here + len + 2 /\ end <= m /\ end >= cut
      BY <1>3, <1>10
    <2>2. room \in Nat /\ room = m - cut
      BY <1>1, <1>7, Zenon
    <2> HIDE DEF end, here, len, room
    <2>3. end \in Nat /\ end - cut \in 0 .. room
      BY <1>1, <1>6, <2>1, <2>2
    <2> QED BY <2>3 DEF end, room
  <1>12. o \in [1 .. Len(t) + 1 -> 0 .. Len(c)] /\ o[1] = 0 /\ o[Len(t) + 1] = Len(c)
    <2>1. o \in [1 .. n -> 0 .. Len(c)]
      BY <1>11
    <2>2. Len(t) + 1 = n /\ 1 \in 1 .. n /\ n \in 1 .. n /\ 1 + 1 = 2
      BY <1>1, <1>2
    <2>3. o[1] = off[2] - cut /\ o[n] = off[n + 1] - cut
      BY <2>2
    <2> HIDE DEF o
    <2>4. off[2] - cut = 0
      BY <1>6, <1>8
    <2>5. off[n + 1] - cut = Len(c)
      BY <1>5, <1>7, Zenon
    <2> QED BY <2>1, <2>2, <2>3, <2>4, <2>5
  <1>13. ASSUME NEW i \in 1 .. Len(t)
         PROVE  /\ o[i + 1] = o[i] + Len(t[i]) + 2 /\ Size(c, o[i]) = Len(t[i])
                /\ \A k \in 1 .. Len(t[i]) : c[o[i] + 2 + k] = t[i][k]
    <2> DEFINE j == i + 1
               at == off[j]
               len == Len(q[j])
    <2>1. i \in 1 .. n /\ j \in 1 .. n /\ t[i] = q[j]
      BY <1>1, <1>2
    <2>2. o[i] = at - cut /\ o[j] = off[j + 1] - cut
      BY <2>1
    <2> HIDE DEF o, j
    <2>3. /\ len \in Nat /\ at \in Nat /\ off[j + 1] = at + len + 2 /\ at + len + 2 <= m
          /\ Size(b, at) = len /\ \A k \in 1 .. len : b[at + 2 + k] = q[j][k]
      BY <1>3, <1>4, <2>1, Zenon
    <2>4. at >= cut
      BY <1>10, <2>1 DEF j
    <2> HIDE DEF at, len
    <2> DEFINE to == at - cut
               room == Len(c)
    <2>7. /\ to \in Int /\ to = at - cut /\ room \in Nat /\ room = m - cut
          /\ len \in Nat /\ at \in Nat /\ at + len + 2 <= m
      <3>1. room \in Nat /\ room = m - cut
        BY <1>1, <1>7, Zenon
      <3>2. len \in Nat /\ at \in Nat /\ at + len + 2 <= m
        BY <2>3
      <3>3. at - cut \in Int
        BY <1>6, <3>2
      <3> QED BY <3>1, <3>2, <3>3, Zenon
    <2> HIDE DEF to, room
    <2>5. \A k \in 1 .. len + 2 : to + k \in 1 .. room /\ to + k + cut = at + k
      BY <1>1, <1>6, <2>4, <2>7
    <2>6. \A k \in 1 .. len + 2 : c[to + k] = b[at + k]
      <3> SUFFICES ASSUME NEW k \in 1 .. len + 2 PROVE c[to + k] = b[at + k]
        BY Zenon
      <3>1. c[to + k] = b[to + k + cut]
        BY <1>7, <2>5, Zenon DEF room
      <3> QED BY <2>5, <3>1, Zenon
    <2>8. c[to + 1] = b[at + 1] /\ c[to + 2] = b[at + 2]
      <3>1. 1 \in 1 .. len + 2 /\ 2 \in 1 .. len + 2
        BY <2>7
      <3> QED BY <2>6, <3>1, Zenon
    <2>9. Size(c, to) = Size(b, at)
      BY <2>8 DEF Size
    <2>10. \A k \in 1 .. len : c[to + 2 + k] = b[at + 2 + k]
      <3>1. \A k \in 1 .. len : /\ 2 + k \in 1 .. len + 2 /\ to + (2 + k) = to + 2 + k
                                /\ at + (2 + k) = at + 2 + k
        BY <2>3, <2>7
      <3> SUFFICES ASSUME NEW k \in 1 .. len PROVE c[to + 2 + k] = b[at + 2 + k]
        BY Zenon
      <3>2. c[to + (2 + k)] = b[at + (2 + k)]
        BY <2>6, <3>1, Zenon
      <3> QED BY <3>1, <3>2, Zenon
    <2>11. o[i] = to
      BY <2>2 DEF to
    <2>12. o[i + 1] = to + len + 2
      BY <1>6, <2>2, <2>3 DEF to, j
    <2>13. Len(t[i]) = len
      BY <2>1 DEF len
    <2> QED BY <2>1, <2>3, <2>9, <2>10, <2>11, <2>12, <2>13, Zenon
  <1> HIDE DEF o
  <1>14. Holds(c, t, o)
    BY <1>12, <1>13 DEF Holds
  <1> QED
    BY <1>14 DEF t
-----------------------------------------------------------------------------
(* Indices in the ring: the % of Go's index arithmetic can be put off to the end. *)
LEMMA Divided ==
  ASSUME NEW w \in Nat \ {0}, NEW x \in Int
  PROVE  \E q \in Int : x = w * q + (x % w) /\ x % w \in 0 .. w - 1
  <1>1. x = w * (x \div w) + (x % w) /\ x % w \in 0 .. w - 1 /\ x \div w \in Int
    OBVIOUS
  <1> QED
    BY <1>1, Zenon

LEMMA OneRemainder ==
  ASSUME NEW w \in Nat \ {0}, NEW q \in Int, NEW p \in Int,
         NEW r \in 0 .. w - 1, NEW s \in 0 .. w - 1, w * q + r = w * p + s
  PROVE  r = s
  <1>1. w * (q - p) = s - r
    BY SMTT(20)
  <1>2. CASE q - p >= 1
    <2>1. w * (q - p) >= w
      BY <1>2, SMTT(20)
    <2> QED
      BY <1>1, <2>1
  <1>3. CASE q - p <= -1
    <2>1. w * (q - p) <= - w
      BY <1>3, SMTT(20)
    <2> QED
      BY <1>1, <2>1
  <1>4. CASE q = p
    BY <1>4
  <1> QED
    BY <1>2, <1>3, <1>4

LEMMA Laps ==
  ASSUME NEW w \in Nat \ {0}, NEW x \in Int, NEW y \in Int, NEW k \in Int, y = w * k + x
  PROVE  y % w = x % w
  <1>1. PICK q \in Int : x = w * q + (x % w) /\ x % w \in 0 .. w - 1
    BY Divided, Zenon
  <1>2. PICK p \in Int : y = w * p + (y % w) /\ y % w \in 0 .. w - 1
    BY Divided, Zenon
  <1> DEFINE r == x % w
             s == y % w
  <1>3. r \in 0 .. w - 1 /\ s \in 0 .. w - 1 /\ x = w * q + r /\ y = w * p + s
    BY <1>1, <1>2
  <1> HIDE DEF r, s
  <1>4. w * (k + q) = w * k + w * q /\ w * k \in Int /\ w * q \in Int /\ w * p \in Int
    BY SMTT(20)
  <1>5. w * (k + q) + r = w * p + s
    BY <1>3, <1>4
  <1>6. k + q \in Int
    OBVIOUS
  <1>7. r = s
    BY <1>3, <1>5, <1>6, OneRemainder, Zenon
  <1> QED
    BY <1>7 DEF r, s

LEMMA Ahead ==
  ASSUME NEW w \in Nat \ {0}, NEW a \in Int, NEW c \in Int
  PROVE  ((a % w) + c) % w = (a + c) % w
  <1>1. PICK q \in Int : a = w * q + (a % w) /\ a % w \in 0 .. w - 1
    BY Divided, Zenon
  <1> DEFINE r == a % w
  <1>2. r \in 0 .. w - 1 /\ a = w * q + r
    BY <1>1
  <1> HIDE DEF r
  <1>3. w * q \in Int
    BY SMTT(20)
  <1>4. r + c \in Int /\ a + c \in Int /\ a + c = w * q + (r + c)
    BY <1>2, <1>3
  <1>5. (a + c) % w = (r + c) % w
    BY <1>4, Laps, Zenon
  <1> QED
    BY <1>5 DEF r

LEMMA Apart ==
  ASSUME NEW w \in Nat \ {0}, NEW a \in Int, NEW b \in Int
  PROVE  ((a % w) - (b % w)) % w = (a - b) % w
  <1>1. PICK q \in Int : a = w * q + (a % w) /\ a % w \in 0 .. w - 1
    BY Divided, Zenon
  <1>2. PICK p \in Int : b = w * p + (b % w) /\ b % w \in 0 .. w - 1
    BY Divided, Zenon
  <1> DEFINE r == a % w
             s == b % w
  <1>3. r \in 0 .. w - 1 /\ s \in 0 .. w - 1 /\ a = w * q + r /\ b = w * p + s
    BY <1>1, <1>2
  <1> HIDE DEF r, s
  <1>4. w * (q - p) = w * q - w * p /\ w * q \in Int /\ w * p \in Int
    BY SMTT(20)
  <1>5. r - s \in Int /\ a - b \in Int /\ q - p \in Int /\ a - b = w * (q - p) + (r - s)
    BY <1>3, <1>4
  <1>6. (a - b) % w = (r - s) % w
    BY <1>5, Laps, Zenon
  <1> QED
    BY <1>6 DEF r, s

LEMMA Within ==
  ASSUME NEW w \in Nat \ {0}, NEW x \in 0 .. w - 1
  PROVE  x % w = x
  OBVIOUS

LEMMA Behind ==
  ASSUME NEW w \in Nat \ {0}, NEW x \in Int, - w <= x, x < 0
  PROVE  x % w = x + w
  <1>1. x + w \in 0 .. w - 1 /\ x + w \in Int /\ x \in Int /\ x = w * (- 1) + (x + w) /\ - 1 \in Int
    OBVIOUS
  <1>2. x % w = (x + w) % w
    BY <1>1, Laps, Zenon
  <1>3. (x + w) % w = x + w
    BY <1>1, Within
  <1> QED
    BY <1>2, <1>3

(* Where the i-th byte behind h lies in a ring of w bytes. *)
Place(h, i, w) == ((h + (i - 1)) % w) + 1

(* Laying bytes behind u stored ones that begin at h: those stay, the new ones *)
(* follow, wherever the ring ends.                                             *)
LEMMA LayAt ==
  ASSUME NEW ring \in Seq(Nat), ring # << >>, NEW h \in Nat, NEW u \in Nat,
         NEW bytes \in Seq(Nat), u + Len(bytes) <= Len(ring),
         NEW i \in 1 .. u + Len(bytes)
  PROVE  Lay(ring, (h + u) % Len(ring), bytes)[Place(h, i, Len(ring))] =
           IF i <= u THEN ring[Place(h, i, Len(ring))] ELSE bytes[i - u]
  <1> DEFINE w == Len(ring)
             n == Len(bytes)
             y == (h + (i - 1)) % w
             tail == (h + u) % w
             end == (h + u) % Len(ring)
             x == Place(h, i, Len(ring))
             k == ((y + 1) - 1 - tail) % w
  <1>1. w \in Nat \ {0} /\ n \in Nat /\ DOMAIN ring = 1 .. w
    BY LenProperties, EmptySeq
  <1>2. i \in Nat /\ i >= 1 /\ i <= u + n /\ u + n <= w
    BY <1>1
  <1> HIDE DEF w, n
  <1>3. h + (i - 1) \in Int /\ h + u \in Int /\ (h + (i - 1)) - (h + u) = i - 1 - u
    BY <1>2
  <1>4. y \in 0 .. w - 1 /\ tail \in 0 .. w - 1
    BY <1>1, <1>3, Remainder, Zenon
  <1>5. (y - tail) % w = (i - 1 - u) % w
    BY <1>1, <1>3, Apart, ZenonT(30)
  <1>6. (y + 1) - 1 - tail = y - tail /\ y + 1 \in 1 .. w
    <2> HIDE DEF y, tail
    <2> QED BY <1>1, <1>4
  <1>7. k = (i - 1 - u) % w
    BY <1>5, <1>6
  <1>8. Lay(ring, tail, bytes)[y + 1] = IF k < n THEN bytes[k + 1] ELSE ring[y + 1]
    <2>1. y + 1 \in DOMAIN ring
      BY <1>1, <1>6
    <2> DEFINE z == y + 1
    <2>2. z \in DOMAIN ring
      BY <2>1
    <2> HIDE DEF z, y, tail
    <2>3. Lay(ring, tail, bytes)[z] =
            IF (z - 1 - tail) % Len(ring) < Len(bytes)
            THEN bytes[((z - 1 - tail) % Len(ring)) + 1] ELSE ring[z]
      BY <2>2, Zenon DEF Lay
    <2> QED BY <2>3 DEF z, w, n
  <1>11. end = tail /\ x = y + 1
    BY DEF Place, w
  <1> HIDE DEF y, tail, k, end, x
  <1>9. ASSUME i <= u PROVE Lay(ring, end, bytes)[x] = ring[x]
    <2>1. i - 1 - u \in Int /\ - w <= i - 1 - u /\ i - 1 - u < 0
      BY <1>1, <1>2, <1>9
    <2>2. k = i - 1 - u + w
      BY <1>1, <1>7, <2>1, Behind, Zenon
    <2>3. ~ (k < n)
      BY <1>1, <1>2, <2>2
    <2> QED BY <1>8, <1>9, <1>11, <2>3
  <1>10. ASSUME ~ (i <= u) PROVE Lay(ring, end, bytes)[x] = bytes[i - u]
    <2>1. i - 1 - u \in 0 .. w - 1 /\ i - 1 - u < n
      BY <1>1, <1>2, <1>10
    <2>2. k = i - 1 - u
      BY <1>1, <1>7, <2>1, Within, Zenon
    <2>3. k < n /\ k + 1 = i - u
      BY <1>1, <1>2, <2>1, <2>2
    <2> QED BY <1>8, <1>10, <1>11, <2>3
  <1>12. Lay(ring, end, bytes)[x] = IF i <= u THEN ring[x] ELSE bytes[i - u]
    BY <1>9, <1>10
  <1> QED
    BY <1>12, Zenon DEF end, x
(* The stored bytes are a sequence, of the ring before and after a step. *)
Row(d, h, u) == [i \in 1 .. u |-> d[Place(h, i, Len(d))]]

LEMMA RowType ==
  ASSUME NEW d \in Seq(Nat), NEW h \in Nat, NEW u \in Nat, u <= Len(d)
  PROVE  /\ Row(d, h, u) \in Seq(Nat) /\ Len(Row(d, h, u)) = u
         /\ \A i \in 1 .. u : Row(d, h, u)[i] = d[Place(h, i, Len(d))]
  <1>1. \A i \in 1 .. u : d[Place(h, i, Len(d))] \in Nat
    <2> SUFFICES ASSUME NEW i \in 1 .. u PROVE d[Place(h, i, Len(d))] \in Nat
      OBVIOUS
    <2>1. Len(d) \in Nat \ {0} /\ h + (i - 1) \in Int
      BY LenProperties
    <2>2. (h + (i - 1)) % Len(d) \in 0 .. Len(d) - 1
      BY <2>1, Remainder, Zenon
    <2>3. Place(h, i, Len(d)) \in 1 .. Len(d)
      BY <2>1, <2>2 DEF Place
    <2> QED BY <2>3, ElementOfSeq
  <1>2. /\ Row(d, h, u) \in [1 .. u -> Nat]
        /\ \A i \in 1 .. u : Row(d, h, u)[i] = d[Place(h, i, Len(d))]
    BY <1>1 DEF Row
  <1> QED
    BY <1>2, IsSequence

LEMMA BytesRow ==
  Bytes = Row(data, head, used) /\ Bytes' = Row(data', head', used')
  BY DEF Bytes, Row, Place, At

LEMMA BytesType ==
  ASSUME RingShape, used >= 0
  PROVE  /\ Bytes \in Seq(Nat) /\ Len(Bytes) = used
         /\ \A i \in 1 .. used : Bytes[i] = data[Place(head, i, Len(data))]
  <1>1. data \in Seq(Nat) /\ head \in Nat /\ used \in Nat /\ used <= Len(data)
    BY DEF RingShape
  <1> QED
    BY <1>1, BytesRow, RowType, Zenon

LEMMA BytesTypeNext ==
  ASSUME RingShape', used' >= 0
  PROVE  /\ Bytes' \in Seq(Nat) /\ Len(Bytes') = used'
         /\ \A i \in 1 .. used' : Bytes'[i] = data'[Place(head', i, Len(data'))]
  <1>1. data' \in Seq(Nat) /\ head' \in Nat /\ used' \in Nat /\ used' <= Len(data')
    BY DEF RingShape
  <1> QED
    BY <1>1, BytesRow, RowType, Zenon

LEMMA PacketSeq ==
  ASSUME NEW p \in Packet
  PROVE  p \in Seq(Nat)
  <1>1. p \in Seq(0 .. Base - 1)
    BY PacketType
  <1>2. Len(p) \in Nat /\ DOMAIN p = 1 .. Len(p) /\ p \in [1 .. Len(p) -> 0 .. Base - 1]
    BY <1>1, LenProperties, Zenon
  <1>3. p \in [1 .. Len(p) -> Nat]
    BY <1>2, SizeType
  <1> QED
    BY <1>2, <1>3, SeqDef

(* Write appends the framed packet to the stored bytes, in a ring that has *)
(* room for it and in one that grows first.                                *)
LEMMA WriteBytes ==
  ASSUME RingShape, used >= 0, NEW p \in Packet, Write(p)
  PROVE  Bytes' = Bytes \o Framed(p) /\ used' = used + (Len(p) + 2) /\ p \in Seq(Nat)
  <1> DEFINE w == Framed(p)
             n == Len(p)
             need == used + n + 2
             c == Bytes \o w
  <1>1. p \in Seq(Nat)
    BY PacketSeq
  <1>2. w \in Seq(Nat) /\ n \in Nat /\ Len(w) = n + 2
    BY <1>1, FramedIs
  <1>3. RingShape'
    BY WriteShape
  <1>4. used' = need /\ need <= receiveBufferBytes
    BY DEF Write
  <1>5. used \in Nat /\ head \in Nat /\ Len(data) \in Nat /\ used <= Len(data) /\ data \in Seq(Nat)
    BY LenProperties DEF RingShape
  <1> HIDE DEF w, n
  <1>6. need \in Nat /\ need = used + (n + 2) /\ used < need
    BY <1>2, <1>5
  <1>7. /\ Bytes \in Seq(Nat) /\ Len(Bytes) = used 
        /\ \A i \in 1 .. used : Bytes[i] = data[Place(head, i, Len(data))]
    BY BytesType
  <1>8. /\ Bytes' \in Seq(Nat) /\ Len(Bytes') = need
        /\ \A i \in 1 .. need : Bytes'[i] = data'[Place(head', i, Len(data'))]
    <2>1. used' >= 0
      BY <1>4, <1>6
    <2> HIDE DEF need
    <2> QED BY <1>3, <1>4, <2>1, BytesTypeNext
  <1>9. /\ c \in Seq(Nat) /\ Len(c) = need
        /\ \A i \in 1 .. need : c[i] = IF i <= used THEN Bytes[i] ELSE w[i - used]
    <2>1. /\ c \in Seq(Nat) /\ Len(c) = Len(Bytes) + Len(w)
          /\ \A i \in 1 .. Len(Bytes) + Len(w) :
                c[i] = IF i <= Len(Bytes) THEN Bytes[i] ELSE w[i - Len(Bytes)]
      BY <1>2, <1>7, ConcatProperties, Zenon
    <2>2. Len(Bytes) = used /\ Len(Bytes) + Len(w) = need
      BY <1>2, <1>6, <1>7
    <2> HIDE DEF need, c
    <2> QED BY <2>1, <2>2
  <1> HIDE DEF need, c
  <1>10. \A i \in 1 .. need : data'[Place(head', i, Len(data'))] =
                                  IF i <= used THEN Bytes[i] ELSE w[i - used]
    <2> SUFFICES ASSUME NEW i \in 1 .. need
                 PROVE  data'[Place(head', i, Len(data'))] =
                          IF i <= used THEN Bytes[i] ELSE w[i - used]
      OBVIOUS
    <2>i. i \in 1 .. used + Len(w) /\ i \in Nat
      BY <1>2, <1>6
    <2>1. CASE need > Len(data)
      <3> DEFINE g == Grown(need)
                 v == Len(g)
      <3>1. data' = Lay(g, used, w) /\ head' = 0
        BY <2>1 DEF Write, need, n, w
      <3>2. g \in Seq(Nat) /\ v \in need .. receiveBufferBytes
        BY <1>4, <1>6, GrownType
      <3>3. g = [j \in 1 .. min(receiveBufferBytes, max(minAlloc, max(2 * Len(data), need))) |->
                   IF j <= used THEN At(j - 1) ELSE 0]
        BY DEF Grown
      <3>4. DOMAIN g = 1 .. v
        BY <3>2, LenProperties
      <3> HIDE DEF g
      <3>5. \A j \in DOMAIN g : g[j] = IF j <= used THEN At(j - 1) ELSE 0
        BY <3>3
      <3>6. v \in Nat \ {0} /\ need <= v /\ used < v
        BY <1>5, <1>6, <3>2, SizeType
      <3>7. g # << >> /\ used + Len(w) <= Len(g)
        <4>1. g # << >>
          BY <3>2, <3>6, EmptySeq
        <4>2. used + Len(w) <= v
          BY <1>2, <1>5, <1>6, <3>6
        <4> QED BY <4>1, <4>2
      <3>8. Len(data') = v
        BY <1>2, <1>5, <3>1, <3>2, LayType
      <3> DEFINE x == Place(0, i, v)
      <3>9. x = i /\ i \in 1 .. v /\ 0 + (i - 1) = i - 1
        <4>1. i - 1 \in 0 .. v - 1 /\ 0 + (i - 1) = i - 1 /\ i \in 1 .. v
          BY <1>6, <2>i, <3>6
        <4>2. (i - 1) % v = i - 1
          BY <3>6, <4>1, Within
        <4> QED BY <2>i, <4>1, <4>2 DEF Place
      <3>10. (0 + used) % v = used
        <4>1. used \in 0 .. v - 1 /\ 0 + used = used
          BY <1>5, <3>6
        <4>2. used % v = used
          BY <3>6, <4>1, Within
        <4> QED BY <4>1, <4>2
      <3>11. 0 \in Nat
        OBVIOUS
      <3>12. Lay(g, used, w)[x] = IF i <= used THEN g[x] ELSE w[i - used]
        <4>1. used = (0 + used) % Len(g) /\ x = Place(0, i, Len(g))
          BY <3>10
        <4> HIDE DEF x
        <4>2. g \in Seq(Nat) /\ used \in Nat /\ w \in Seq(Nat)
          BY <1>2, <1>5, <3>2
        <4>3. Lay(g, (0 + used) % Len(g), w)[Place(0, i, Len(g))] =
                IF i <= used THEN g[Place(0, i, Len(g))] ELSE w[i - used]
          BY <2>i, <3>7, <3>11, <4>2, LayAt, Zenon
        <4> QED BY <4>1, <4>3
      <3>13. data'[Place(head', i, Len(data'))] = data'[x]
        BY <3>1, <3>8
      <3> HIDE DEF x, v
      <3>14. i <= used => g[i] = Bytes[i]
        <4>1. i <= used => g[i] = At(i - 1)
          BY <3>4, <3>5, <3>9
        <4>2. At(i - 1) = data[Place(head, i, Len(data))]
          BY DEF At, Place
        <4> QED BY <1>5, <1>7, <2>i, <4>1, <4>2
      <3> QED BY <3>1, <3>9, <3>12, <3>13, <3>14
    <2>2. CASE ~ (need > Len(data))
      <3> DEFINE v == Len(data)
                 x == Place(head, i, v)
                 tail == (head + used) % v
      <3>1. data' = Lay(data, tail, w) /\ head' = head
        BY <2>2 DEF Write, need, n, w
      <3>2. v \in Nat \ {0} /\ need <= v /\ used + Len(w) <= v
        BY <1>2, <1>5, <1>6, <2>2
      <3>3. data # << >>
        BY <1>5, <3>2, EmptySeq
      <3>4. tail \in 0 .. v - 1
        <4>1. head + used \in Int
          BY <1>5
        <4> QED BY <3>2, <4>1, Remainder, Zenon
      <3>5. Len(data') = v
        <4>1. data # << >> => tail \in Int
          <5> HIDE DEF tail, v
          <5> QED BY <3>2, <3>4
        <4> HIDE DEF tail
        <4> QED BY <1>2, <1>5, <3>1, <4>1, LayType
      <3>6. Lay(data, tail, w)[x] = IF i <= used THEN data[x] ELSE w[i - used]
        <4>1. tail = (head + used) % Len(data) /\ x = Place(head, i, Len(data))
          OBVIOUS
        <4>2. used + Len(w) <= Len(data)
          BY <3>2
        <4> HIDE DEF x, tail, v
        <4>3. data \in Seq(Nat) /\ head \in Nat /\ used \in Nat /\ w \in Seq(Nat)
          BY <1>2, <1>5
        <4>4. Lay(data, (head + used) % Len(data), w)[Place(head, i, Len(data))] =
                IF i <= used THEN data[Place(head, i, Len(data))] ELSE w[i - used]
          BY <2>i, <3>3, <4>2, <4>3, LayAt, Zenon
        <4> QED BY <4>1, <4>4
      <3>7. data'[Place(head', i, Len(data'))] = data'[x]
        BY <3>1, <3>5
      <3>8. i <= used => Bytes[i] = data[x]
        BY <1>5, <1>7, <2>i
      <3> HIDE DEF x, v, tail
      <3> QED BY <3>1, <3>6, <3>7, <3>8
    <2> QED BY <2>1, <2>2
  <1>11. \A i \in 1 .. need : Bytes'[i] = c[i]
    BY <1>8, <1>9, <1>10
  <1>12. Bytes' = c
    BY <1>8, <1>9, <1>11, SeqEqual
  <1> QED
    BY <1>1, <1>4, <1>6, <1>12 DEF c, w, n
-----------------------------------------------------------------------------
(* The inductive invariant of the ring: its bytes are whole packets. *)
Holding == \E q \in Seq(Seq(Nat)) : \E off : Holds(Bytes, q, off)

RingInv == RingShape /\ used >= 0 /\ Holding

LEMMA NothingHeld ==
  ASSUME NEW b \in Seq(Nat), NEW q \in Seq(Seq(Nat)), NEW off, Holds(b, q, off)
  PROVE  (Len(b) = 0) <=> (q = << >>)
  <1>1. Len(q) \in Nat /\ Len(b) \in Nat
    BY LenProperties
  <1>2. CASE q = << >>
    <2>1. Len(q) = 0
      BY <1>2
    <2>2. Len(q) + 1 = 1
      BY <2>1
    <2> QED BY <1>2, <2>2 DEF Holds
  <1>3. CASE q # << >>
    <2>1. 1 \in 1 .. Len(q)
      BY <1>1, <1>3, EmptySeq
    <2>2. Len(q[1]) \in Nat /\ off[1] \in Nat /\ off[1 + 1] = off[1] + Len(q[1]) + 2 /\ off[1 + 1] <= Len(b)
      BY <2>1, HoldsAt
    <2>3. Len(b) >= 2
      BY <1>1, <2>2
    <2> QED BY <1>3, <2>3
  <1> QED
    BY <1>2, <1>3

(* The queue the ring stands for: its packets, its size, and when it is empty. *)
LEMMA ContentsHeld ==
  ASSUME RingInv
  PROVE  /\ Contents \in Seq(Seq(Nat))
         /\ \E off : Holds(Bytes, Contents, off)
         /\ Queue!Stored(Contents) = used
         /\ (used = 0) <=> (Contents = << >>)
  <1>1. Bytes \in Seq(Nat) /\ Len(Bytes) = used
    BY BytesType DEF RingInv
  <1>2. PICK q \in Seq(Seq(Nat)) : \E off : Holds(Bytes, q, off)
    BY DEF RingInv, Holding
  <1>3. PICK off : Holds(Bytes, q, off)
    BY <1>2
  <1>4. Contents = q
    BY <1>1, <1>3, UnframedIs DEF Contents
  <1>5. Queue!Stored(q) = used
    BY <1>1, <1>3, StoredIs
  <1>6. (used = 0) <=> (q = << >>)
    BY <1>1, <1>3, NothingHeld
  <1> QED
    BY <1>3, <1>4, <1>5, <1>6

LEMMA ContentsNext ==
  ASSUME Bytes' \in Seq(Nat), NEW q \in Seq(Seq(Nat)), NEW off, Holds(Bytes', q, off)
  PROVE  Contents' = q /\ Holding'
  <1>1. Unframed(Bytes') = q
    BY UnframedIs
  <1>2. Contents' = Unframed(Bytes')
    BY DEF Contents, Unframed
  <1>3. Holding'
    <2>1. \E z : Holds(Bytes', q, z)
      OBVIOUS
    <2>2. \E s \in Seq(Seq(Nat)) : \E z : Holds(Bytes', s, z)
      BY <2>1
    <2> QED BY <2>2, Zenon DEF Holding
  <1> QED
    BY <1>1, <1>2, <1>3

(* Write is Enqueue. *)
LEMMA WriteEnqueues ==
  ASSUME RingInv, NEW p \in Packet, Write(p)
  PROVE  RingInv' /\ Contents' = Append(Contents, p) /\ Queue!Enqueue(p)
  <1>1. RingShape /\ used >= 0 /\ used \in Nat
    BY DEF RingInv, RingShape
  <1>2. Bytes' = Bytes \o Framed(p) /\ used' = used + (Len(p) + 2) /\ p \in Seq(Nat)
    BY <1>1, WriteBytes
  <1>3. RingShape'
    BY <1>1, WriteShape
  <1>4. Len(p) \in Nat
    BY <1>2, LenProperties
  <1>5. used' >= 0
    BY <1>1, <1>2, <1>4
  <1>6. Bytes' \in Seq(Nat)
    BY <1>3, <1>5, BytesTypeNext
  <1>7. Bytes \in Seq(Nat)
    BY <1>1, BytesType
  <1>8. Contents \in Seq(Seq(Nat)) /\ Queue!Stored(Contents) = used
    BY ContentsHeld
  <1>9. PICK off : Holds(Bytes, Contents, off)
    BY ContentsHeld
  <1>10. PICK o : Holds(Bytes \o Framed(p), Append(Contents, p), o)
    BY <1>2, <1>7, <1>8, <1>9, HoldsAppend
  <1>11. Append(Contents, p) \in Seq(Seq(Nat))
    BY <1>2, <1>8, AppendProperties
  <1>12. Contents' = Append(Contents, p) /\ Holding'
    BY <1>2, <1>6, <1>10, <1>11, ContentsNext, Zenon
  <1>13. Queue!Enqueue(p)
    <2>1. ~closed /\ used + Len(p) + 2 <= receiveBufferBytes /\ wake' = TRUE
      BY DEF Write
    <2>2. UNCHANGED <<closed, deadline, reading, expired, got>>
      BY DEF Write
    <2> QED BY <1>8, <1>12, <2>1, <2>2 DEF Queue!Enqueue
  <1> QED
    BY <1>3, <1>5, <1>12, <1>13 DEF RingInv
(* The first packet in the ring: where readPacket finds its length and bytes. *)
LEMMA FirstPacket ==
  ASSUME RingInv, used > 0
  PROVE  LET first == Contents[1]
             size == At(0) * Base + At(1)
         IN  /\ Contents # << >> /\ first \in Seq(Nat) /\ Len(first) \in Nat
             /\ size = Len(first) /\ size + 2 <= used
             /\ \A k \in 1 .. size : At(k + 1) = first[k]
  <1> DEFINE b == Bytes
             q == Contents
             size == Len(q[1])
  <1>1. RingShape /\ used \in Nat /\ used >= 0
    BY DEF RingInv, RingShape
  <1>2. b \in Seq(Nat) /\ Len(b) = used
    BY <1>1, BytesType
  <1>3. \A i \in 1 .. used : b[i] = At(i - 1)
    BY BytesRow DEF Row, Place, At
  <1>4. q \in Seq(Seq(Nat)) /\ q # << >>
    BY ContentsHeld
  <1>5. PICK off : Holds(b, q, off)
    BY ContentsHeld
  <1> HIDE DEF b, q
  <1>6. Len(q) \in Nat /\ 1 \in 1 .. Len(q)
    BY <1>4, LenProperties, EmptySeq
  <1>7. /\ q[1] \in Seq(Nat) /\ size \in Nat /\ off[1] = 0
        /\ off[1 + 1] = off[1] + size + 2 /\ off[1 + 1] <= used /\ Size(b, 0) = size
    <2>1. off[1] = 0
      BY <1>5 DEF Holds
    <2> QED BY <1>2, <1>4, <1>5, <1>6, <2>1, HoldsAt
  <1>8. \A k \in 1 .. size : b[0 + 2 + k] = q[1][k]
    BY <1>5, <1>6, <1>7 DEF Holds
  <1> HIDE DEF size
  <1>9. size + 2 <= used
    BY <1>1, <1>7
  <1>10. At(0) = b[1] /\ At(1) = b[2]
    <2>1. 1 \in 1 .. used /\ 2 \in 1 .. used /\ 1 - 1 = 0 /\ 2 - 1 = 1
      BY <1>1, <1>7, <1>9
    <2>2. b[1] = At(1 - 1) /\ b[2] = At(2 - 1)
      BY <1>3, <2>1
    <2> QED BY <2>1, <2>2
  <1>11. At(0) * Base + At(1) = size
    BY <1>7, <1>10 DEF Size
  <1>12. \A k \in 1 .. size : At(k + 1) = q[1][k]
    <2> SUFFICES ASSUME NEW k \in 1 .. size PROVE At(k + 1) = q[1][k]
      OBVIOUS
    <2> DEFINE i == 0 + 2 + k
    <2>1. i \in 1 .. used /\ i - 1 = k + 1
      BY <1>1, <1>7, <1>9
    <2>2. b[i] = q[1][k]
      BY <1>8
    <2> HIDE DEF i
    <2>3. b[i] = At(i - 1)
      BY <1>3, <2>1
    <2> QED BY <2>1, <2>2, <2>3
  <1> QED
    BY <1>4, <1>7, <1>9, <1>11, <1>12 DEF q, size

(* readPacket takes the first packet's bytes off the front. *)
LEMMA ReadBytes ==
  ASSUME RingInv, NEW r \in Reader, NEW room \in Room, readPacket(r, room)
  PROVE  LET n == Len(Contents[1]) + 2
         IN  /\ RingShape' /\ used' = used - n /\ used' >= 0
             /\ Bytes' \in Seq(Nat) /\ Len(Bytes') = used'
             /\ \A i \in 1 .. used' : Bytes'[i] = Bytes[i + n]
  <1> DEFINE size == At(0) * Base + At(1)
             n == Len(Contents[1]) + 2
             v == Len(data)
  <1>1. RingShape /\ used \in Nat /\ used > 0 /\ used >= 0 /\ used <= v
    BY DEF RingInv, RingShape, readPacket
  <1>2. Len(Contents[1]) \in Nat /\ size = Len(Contents[1]) /\ size + 2 <= used
    BY <1>1, FirstPacket
  <1>3. RingShape'
    BY <1>1, ReadShape
  <1>4. /\ used' = used - (size + 2) /\ data' = data
        /\ head' = IF used' = 0 THEN 0 ELSE (head + 2 + size) % v
    BY DEF readPacket
  <1> HIDE DEF size
  <1>5. n \in Nat /\ size + 2 = n /\ size \in Nat
    BY <1>2
  <1> HIDE DEF n
  <1>6. used' = used - n /\ used' >= 0 /\ used' \in Nat
    <2>1. used' = used - n /\ n <= used
      BY <1>2, <1>4, <1>5
    <2>2. used \in Nat
      BY <1>1
    <2> QED BY <1>5, <2>1, <2>2
  <1>7. /\ Bytes' \in Seq(Nat) /\ Len(Bytes') = used'
        /\ \A i \in 1 .. used' : Bytes'[i] = data'[Place(head', i, Len(data'))]
    BY <1>3, <1>6, BytesTypeNext
  <1>8. \A i \in 1 .. used : Bytes[i] = data[Place(head, i, v)]
    BY <1>1, BytesType
  <1>9. ASSUME NEW i \in 1 .. used' PROVE Bytes'[i] = Bytes[i + n]
    <2>1. used' # 0 /\ i \in Nat /\ i + n \in 1 .. used
      BY <1>1, <1>5, <1>6
    <2>2. v \in Nat \ {0} /\ head \in Nat
      BY <1>1, LenProperties DEF RingShape
    <2> HIDE DEF v
    <2>3. head' = (head + 2 + size) % v
      BY <1>4, <2>1
    <2> DEFINE a == head + 2 + size
    <2>4. a \in Int /\ i - 1 \in Int /\ a + (i - 1) = head + ((i + n) - 1)
      BY <1>5, <2>1, <2>2
    <2> HIDE DEF a
    <2>5. ((a % v) + (i - 1)) % v = (a + (i - 1)) % v
      BY <2>2, <2>4, Ahead, Zenon
    <2>6. Place(head', i, v) = Place(head, i + n, v)
      BY <2>3, <2>4, <2>5 DEF Place, a
    <2>7. Bytes'[i] = data[Place(head', i, v)]
      BY <1>4, <1>7 DEF v
    <2> QED BY <1>8, <2>1, <2>6, <2>7
  <1> QED
    BY <1>3, <1>6, <1>7, <1>9 DEF n

(* readPacket is Dequeue. *)
LEMMA ReadDequeues ==
  ASSUME RingInv, NEW r \in Reader, NEW room \in Room, readPacket(r, room)
  PROVE  RingInv' /\ Contents' = Tail(Contents) /\ Queue!Dequeue(r, room)
  <1> DEFINE q == Contents
             first == q[1]
             size == At(0) * Base + At(1)
             n == min(size, room)
             taken == [k \in 1 .. n |-> At(k + 1)]
  <1>1. used > 0 /\ RingShape /\ used >= 0
    BY DEF readPacket, RingInv
  <1>2. /\ q # << >> /\ first \in Seq(Nat) /\ Len(first) \in Nat
        /\ size = Len(first) /\ \A k \in 1 .. size : At(k + 1) = first[k]
    BY <1>1, FirstPacket
  <1>3. /\ RingShape' /\ used' = used - (Len(first) + 2) /\ used' >= 0
        /\ Bytes' \in Seq(Nat) /\ Len(Bytes') = used'
        /\ \A i \in 1 .. used' : Bytes'[i] = Bytes[i + (Len(first) + 2)]
    BY ReadBytes
  <1>4. Bytes \in Seq(Nat) /\ Len(Bytes) = used
    BY <1>1, BytesType
  <1>5. q \in Seq(Seq(Nat))
    BY ContentsHeld
  <1>6. PICK off : Holds(Bytes, q, off)
    BY ContentsHeld
  <1> HIDE DEF q
  <1>7. PICK o : Holds(Bytes', Tail(q), o)
    <2>1. /\ Len(Bytes') = Len(Bytes) - (Len(q[1]) + 2)
          /\ \A i \in 1 .. Len(Bytes') : Bytes'[i] = Bytes[i + (Len(q[1]) + 2)]
      BY <1>3, <1>4
    <2> QED BY <1>2, <1>3, <1>4, <1>5, <1>6, <2>1, HoldsTail, Zenon
  <1>8. Tail(q) \in Seq(Seq(Nat)) /\ Len(Tail(q)) = Len(q) - 1 /\ Len(q) \in Nat
    BY <1>2, <1>5, HeadTailProperties, LenProperties
  <1>9. Contents' = Tail(q) /\ Holding'
    BY <1>3, <1>7, <1>8, ContentsNext, Zenon
  <1>10. RingInv'
    BY <1>3, <1>9 DEF RingInv
  <1>11. (used' # 0) <=> (Len(q) > 1)
    <2>1. (used' = 0) <=> (Tail(q) = << >>)
      BY <1>3, <1>7, <1>8, NothingHeld, Zenon
    <2>2. (Tail(q) = << >>) <=> (Len(Tail(q)) = 0)
      BY <1>8, EmptySeq, Zenon
    <2>3. Len(q) # 0
      BY <1>2, <1>5, EmptySeq
    <2> DEFINE l == Len(q)
               m == Len(Tail(q))
    <2>4. l \in Nat /\ l # 0 /\ m = l - 1
      BY <1>8, <2>3
    <2> HIDE DEF l, m
    <2>5. (m = 0) <=> ~ (l > 1)
      BY <2>4
    <2> QED BY <2>1, <2>2, <2>5 DEF l, m
  <1>12. Takes(r, IF n < size THEN "short" ELSE "none", taken, used' # 0)
    BY DEF readPacket
  <1>13. Head(q) = first
    BY <1>2, <1>5
  <1>14. room \in Nat
    BY SizeType
  <1> HIDE DEF first, size
  <1>15. CASE size <= room
    <2>1. n = size
      BY <1>2, <1>14, <1>15 DEF min
    <2> HIDE DEF n
    <2>2. ~ (n < size)
      BY <1>2, <2>1
    <2>3. taken = first
      <3>1. taken = [k \in 1 .. size |-> first[k]]
        BY <1>2, <2>1
      <3>2. first = [k \in 1 .. Len(first) |-> first[k]]
        BY <1>2, LenProperties
      <3> QED BY <1>2, <3>1, <3>2, Zenon
    <2> HIDE DEF taken
    <2>4. Takes(r, "none", first, Len(q) > 1)
      BY <1>11, <1>12, <2>2, <2>3 DEF Takes
    <2> QED BY <1>2, <1>9, <1>10, <1>13, <1>15, <2>4, Zenon
            DEF Queue!Dequeue, Queue!Takes, Queue!Returns, Queue!Moves, Queue!Returned,
                Takes, Returns, Moves, Returned, q
  <1>16. CASE ~ (size <= room)
    <2>1. n = room /\ n < size
      BY <1>2, <1>14, <1>16 DEF min
    <2> HIDE DEF n
    <2>2. taken = SubSeq(first, 1, room)
      <3>1. SubSeq(first, 1, room) = [k \in 1 .. room |-> first[k]]
        <4>1. SubSeq(first, 1, room) = [k \in 1 .. (1 + room) - 1 |-> first[(k + 1) - 1]]
          BY <1>2, <1>14
        <4> QED BY <1>14, <4>1
      <3>2. \A k \in 1 .. room : k \in 1 .. size
        BY <1>2, <1>14, <1>16
      <3>3. taken = [k \in 1 .. room |-> first[k]]
        BY <1>2, <2>1, <3>2
      <3> QED BY <3>1, <3>3, Zenon
    <2> HIDE DEF taken
    <2>3. Takes(r, "short", SubSeq(first, 1, room), Len(q) > 1)
      BY <1>11, <1>12, <2>1, <2>2 DEF Takes
    <2> QED BY <1>2, <1>9, <1>10, <1>13, <1>16, <2>3, Zenon
            DEF Queue!Dequeue, Queue!Takes, Queue!Returns, Queue!Moves, Queue!Returned,
                Takes, Returns, Moves, Returned, q
  <1> QED
    BY <1>15, <1>16
-----------------------------------------------------------------------------
(* Steps that leave the ring alone leave the queue alone. *)
LEMMA RingKept ==
  ASSUME RingInv, UNCHANGED ringVars
  PROVE  RingInv' /\ Contents' = Contents
  <1>1. data' = data /\ head' = head /\ used' = used
    BY DEF ringVars
  <1>2. Bytes' = Bytes
    BY <1>1, BytesRow
  <1>3. RingShape'
    BY <1>1 DEF RingInv, RingShape
  <1>4. used' >= 0
    BY <1>1 DEF RingInv
  <1>5. Bytes \in Seq(Nat) /\ Contents \in Seq(Seq(Nat))
    BY BytesType, ContentsHeld DEF RingInv
  <1>6. PICK off : Holds(Bytes, Contents, off)
    BY ContentsHeld
  <1>7. Contents' = Contents /\ Holding'
    BY <1>2, <1>5, <1>6, ContentsNext
  <1> QED
    BY <1>3, <1>4, <1>7 DEF RingInv

(* An empty ring is the empty queue. *)
LEMMA EmptyContents ==
  ASSUME RingInv, used <= 0
  PROVE  Contents = << >>
  <1>1. used = 0
    BY DEF RingInv, RingShape
  <1> QED
    BY <1>1, ContentsHeld

(* Every step of the ring is a step of the queue. *)
LEMMA RingStep ==
  ASSUME RingInv, [BufferNext]_bufferVars
  PROVE  RingInv' /\ [Queue!QueueNext]_(Queue!queueVars)
  <1>1. ASSUME NEW p \in Packet, Write(p) PROVE RingInv' /\ Queue!QueueNext
    BY <1>1, WriteEnqueues DEF Queue!QueueNext
  <1>2. ASSUME NEW r \in Reader, NEW room \in Room, readPacket(r, room)
        PROVE  RingInv' /\ Queue!QueueNext
    BY <1>2, ReadDequeues DEF Queue!QueueNext
  <1>3. ASSUME NEW r \in Reader, UNCHANGED ringVars,
               Calls(r) \/ TimesOut(r) \/ WokenByToken(r) \/ WokenByEnd(r)
        PROVE  RingInv' /\ Queue!QueueNext
    <2>1. RingInv' /\ Contents' = Contents
      BY <1>3, RingKept
    <2>2. Queue!Calls(r) \/ Queue!TimesOut(r) \/ Queue!WokenByToken(r) \/ Queue!WokenByEnd(r)
      BY <1>3 DEF Calls, TimesOut, WokenByToken, WokenByEnd, Returns, Moves, Returned,
                  Queue!Calls, Queue!TimesOut, Queue!WokenByToken, Queue!WokenByEnd,
                  Queue!Returns, Queue!Moves, Queue!Returned
    <2> QED BY <2>1, <2>2 DEF Queue!QueueNext, Queue!Idles
  <1>4. ASSUME NEW r \in Reader, Ends(r) \/ Sleeps(r) PROVE RingInv' /\ Queue!QueueNext
    <2>1. UNCHANGED ringVars /\ used <= 0 /\ (EndsEmpty(r) \/ SleepsEmpty(r))
      BY <1>4 DEF Ends, Sleeps
    <2>2. RingInv' /\ Contents' = Contents /\ Contents = << >>
      BY <2>1, RingKept, EmptyContents
    <2>3. Queue!EndsEmpty(r) \/ Queue!SleepsEmpty(r)
      BY <2>1 DEF EndsEmpty, SleepsEmpty, Returns, Moves, Returned, Queue!EndsEmpty,
                  Queue!SleepsEmpty, Queue!Returns, Queue!Moves, Queue!Returned
    <2> QED BY <2>2, <2>3 DEF Queue!QueueNext, Queue!Idles
  <1>5. ASSUME Expire \/ Close, UNCHANGED ringVars PROVE RingInv' /\ Queue!QueueNext
    <2>1. RingInv' /\ Contents' = Contents
      BY <1>5, RingKept
    <2>2. Queue!Expire \/ Queue!Close
      BY <1>5 DEF Expire, Close, Asleep, Queue!Expire, Queue!Close, Queue!Asleep
    <2> QED BY <2>1, <2>2 DEF Queue!QueueNext
  <1>6. ASSUME NEW d \in {"none", "armed", "passed"}, SetReadDeadline(d), UNCHANGED ringVars
        PROVE  RingInv' /\ Queue!QueueNext
    <2>1. RingInv' /\ Contents' = Contents
      BY <1>6, RingKept
    <2>2. Queue!SetReadDeadline(d)
      BY <1>6 DEF SetReadDeadline, Asleep, Queue!SetReadDeadline, Queue!Asleep
    <2> QED BY <2>1, <2>2 DEF Queue!QueueNext
  <1>7. ASSUME UNCHANGED bufferVars PROVE RingInv' /\ UNCHANGED Queue!queueVars
    <2>1. UNCHANGED ringVars /\ UNCHANGED waitVars
      BY <1>7 DEF bufferVars
    <2>2. RingInv' /\ Contents' = Contents
      BY <2>1, RingKept
    <2> QED BY <2>1, <2>2 DEF Queue!queueVars, Queue!waitVars, waitVars
  <1>8. ASSUME BufferNext PROVE RingInv' /\ Queue!QueueNext
    BY <1>1, <1>2, <1>3, <1>4, <1>5, <1>6, <1>8 DEF BufferNext, Look, Woken
  <1> QED
    BY <1>7, <1>8

LEMMA RingInit ==
  ASSUME BufferInit
  PROVE  RingInv /\ Queue!QueueInit
  <1>1. data = << >> /\ head = 0 /\ used = 0 /\ WaitInit
    BY DEF BufferInit
  <1>2. RingShape /\ used >= 0
    BY <1>1, EmptySeq, SizeType DEF RingShape
  <1>3. Bytes \in Seq(Nat) /\ Len(Bytes) = 0
    BY <1>1, <1>2, BytesType
  <1> DEFINE off == [i \in 1 .. 1 |-> 0]
             q == << >>
  <1>4. q \in Seq(Seq(Nat)) /\ Len(q) = 0 /\ Len(q) + 1 = 1 /\ 1 .. Len(q) = {}
    OBVIOUS
  <1>5. off \in [1 .. 1 -> 0 .. 0] /\ off[1] = 0
    OBVIOUS
  <1> HIDE DEF off, q
  <1>6. Holds(Bytes, q, off)
    BY <1>3, <1>4, <1>5 DEF Holds
  <1>7. RingInv
    BY <1>2, <1>4, <1>6, Zenon DEF RingInv, Holding
  <1>8. Contents = << >>
    BY <1>1, <1>7, ContentsHeld
  <1>9. Queue!WaitInit
    BY <1>1 DEF WaitInit, Returned, Queue!WaitInit, Queue!Returned
  <1> QED
    BY <1>7, <1>8, <1>9 DEF Queue!QueueInit

(* For any packets, readers, slices and limits: what the ring of bytes does,  *)
(* across wraps and growth, is what a first-in first-out queue of whole       *)
(* packets does.  Write frames a packet behind the stored bytes, readPacket   *)
(* takes the first one off, and the room left is that of the framed packets.  *)
THEOREM RingIsQueue == BufferSpec => ImplementsQueue
  <1>1. BufferInit => RingInv /\ Queue!QueueInit
    BY RingInit
  <1>2. RingInv /\ [BufferNext]_bufferVars => RingInv' /\ [Queue!QueueNext]_(Queue!queueVars)
    BY RingStep
  <1> QED
    BY <1>1, <1>2, PTL DEF BufferSpec, ImplementsQueue, Queue!QueueSpec
=============================================================================
