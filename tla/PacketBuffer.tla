---------------------------- MODULE PacketBuffer ----------------------------
(***************************************************************************)
(* packetBuffer (internal/ingest/packet_buffer.go): the queue between the  *)
(* SRTP session, which writes decrypted RTP, and the goroutines that read  *)
(* it.  The packets lie one behind another in a ring of bytes that grows   *)
(* on demand, each behind its length in two bytes.                         *)
(***************************************************************************)
EXTENDS ReadWait

CONSTANTS minAlloc     \* the smallest ring, 2048 bytes

ASSUME MinAllocType == minAlloc \in Nat

VARIABLES
  data,   \* the ring; Go's data[i] is data[i + 1]
  head,   \* the index of the first stored byte
  used    \* the number of stored bytes

ringVars == <<data, head, used>>
bufferVars == <<ringVars, waitVars>>

min(a, b) == IF a < b THEN a ELSE b
max(a, b) == IF a > b THEN a ELSE b

(* The byte i places behind the head, of any ring. *)
At(i) == data[((head + i) % Len(data)) + 1]

-----------------------------------------------------------------------------
(* Mutant: the contents are copied from the start of the old ring. *)
GrownFlat(need) ==
  [i \in 1 .. min(receiveBufferBytes, max(minAlloc, max(2 * Len(data), need))) |->
     IF i <= used THEN data[i] ELSE 0]

(* A larger ring with the contents moved to its start. *)
Grown(need) ==
  [i \in 1 .. min(receiveBufferBytes, max(minAlloc, max(2 * Len(data), need))) |->
     IF i <= used THEN At(i - 1) ELSE 0]

(* The ring with bytes laid from index tail on, wrapping around its end. *)
Lay(ring, tail, bytes) ==
  [i \in DOMAIN ring |->
     LET k == (i - 1 - tail) % Len(ring)
     IN  IF k < Len(bytes) THEN bytes[k + 1] ELSE ring[i]]

Framed(p) == <<Len(p) \div Base, Len(p) % Base>> \o p

(* Mutant: the writer does not put the token. *)
WriteUnsignalled(p) ==
  /\ ~closed
  /\ Len(p) \in 1 .. Base * Base - 1
  /\ LET need == used + Len(p) + 2
     IN  /\ need <= receiveBufferBytes
         /\ IF need > Len(data)
            THEN data' = Lay(Grown(need), used, Framed(p)) /\ head' = 0
            ELSE data' = Lay(data, (head + used) % Len(data), Framed(p)) /\ UNCHANGED head
         /\ used' = need
  /\ UNCHANGED waitVars

(* Write; an empty, oversized or late packet, and one for which there is no *)
(* room, is refused and changes nothing.                                    *)
Write(p) ==
  /\ ~closed
  /\ Len(p) \in 1 .. Base * Base - 1
  /\ LET need == used + Len(p) + 2
     IN  /\ need <= receiveBufferBytes
         /\ IF need > Len(data)
            THEN data' = Lay(Grown(need), used, Framed(p)) /\ head' = 0
            ELSE data' = Lay(data, (head + used) % Len(data), Framed(p)) /\ UNCHANGED head
         /\ used' = need
  /\ wake' = TRUE
  /\ UNCHANGED <<closed, deadline, reading, expired, got>>

(* Mutant: the next reader is not woken for the packets left. *)
readPacketAlone(r, room) ==
  /\ used > 0
  /\ LET size == At(0) * Base + At(1)
         n == min(size, room)
     IN  /\ used' = used - (size + 2)
         /\ head' = IF used' = 0 THEN 0 ELSE (head + 2 + size) % Len(data)
         /\ Takes(r, IF n < size THEN "short" ELSE "none",
                  [k \in 1 .. n |-> At(k + 1)], FALSE)
  /\ UNCHANGED data

readPacket(r, room) ==
  /\ used > 0
  /\ LET size == At(0) * Base + At(1)
         n == min(size, room)
     IN  /\ used' = used - (size + 2)
         /\ head' = IF used' = 0 THEN 0 ELSE (head + 2 + size) % Len(data)
         /\ Takes(r, IF n < size THEN "short" ELSE "none",
                  [k \in 1 .. n |-> At(k + 1)], used' # 0)
  /\ UNCHANGED data

Ends(r) == used <= 0 /\ EndsEmpty(r) /\ UNCHANGED ringVars
Sleeps(r) == used <= 0 /\ SleepsEmpty(r) /\ UNCHANGED ringVars

-----------------------------------------------------------------------------
BufferInit == data = << >> /\ head = 0 /\ used = 0 /\ WaitInit

(* A Read that has been called goes on by itself; Look is one turn of its loop. *)
Look(r) ==
  \/ TimesOut(r) /\ UNCHANGED ringVars
  \/ Ends(r)
  \/ Sleeps(r)
  \/ \E room \in Room : readPacket(r, room)
Woken(r) == (WokenByToken(r) \/ WokenByEnd(r)) /\ UNCHANGED ringVars

BufferNext ==
  \/ \E p \in Packet : Write(p)
  \/ \E r \in Reader : (Calls(r) /\ UNCHANGED ringVars) \/ Look(r) \/ Woken(r)
  \/ (Expire \/ Close) /\ UNCHANGED ringVars
  \/ \E d \in {"none", "armed", "passed"} : SetReadDeadline(d) /\ UNCHANGED ringVars

BufferSpec == BufferInit /\ [][BufferNext]_bufferVars

(* The scheduler runs a goroutine that can go on; nobody has to call. *)
FairBufferSpec ==
  BufferSpec /\ \A r \in Reader : WF_bufferVars(Look(r)) /\ WF_bufferVars(Woken(r))

-----------------------------------------------------------------------------
(* Packets are queued and a Read sleeps on them only if it, or a Read that  *)
(* will wake the next, is about to run: Write and readPacket put the token  *)
(* whenever packets are left, and a reader that takes the token and returns *)
(* for another reason leaves no sleeper behind.                             *)
NoLostWakeup ==
  (used > 0 /\ ~closed /\ Asleep \ expired # {}) =>
    wake \/ \E r \in Reader : reading[r] = "looking"

(* Once the deadline has passed no Read sleeps on, not even one that looked *)
(* under an earlier deadline: SetReadDeadline and the timer reach them all. *)
DeadlineReachesAll == deadline = "passed" => Asleep \subseteq expired

(* The stored bytes, from the head on. *)
Bytes == [i \in 1 .. used |-> At(i - 1)]

(* The packets in a row of bytes, taken from its front as readPacket would;  *)
(* u bytes are left.                                                         *)
Unframed(bytes) ==
  LET Rest[u \in 0 .. Len(bytes)] ==
        IF u = 0 THEN << >>
        ELSE LET o == Len(bytes) - u
                 size == bytes[o + 1] * Base + bytes[o + 2]
             IN  IF u = 1 \/ size + 2 > u THEN <<"torn">>
                 ELSE <<SubSeq(bytes, o + 3, o + 2 + size)>> \o Rest[u - size - 2]
  IN  Rest[Len(bytes)]

Contents == Unframed(Bytes)

Queue == INSTANCE PacketQueue WITH queue <- Contents

(* The ring of bytes is the promised queue: whole packets come out in the   *)
(* order they went in, across wraps and growth, and room is refused exactly *)
(* when the framed packets would exceed receiveBufferBytes.                 *)
ImplementsQueue == Queue!QueueSpec

(* Close ends every Read: those asleep wake up and, like any other, return  *)
(* what is queued or the end of the stream.                                 *)
CloseWakes == \A r \in Reader : (closed /\ reading[r] # "idle") ~> reading[r] = "idle"

(* A queued packet does not wait for the next one: when every reader is in  *)
(* Read, one of them returns.                                               *)
Delivered ==
  (used > 0 /\ \A r \in Reader : reading[r] # "idle") ~> \E r \in Reader : reading[r] = "idle"
=============================================================================
