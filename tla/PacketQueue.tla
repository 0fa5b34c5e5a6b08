---------------------------- MODULE PacketQueue -----------------------------
(***************************************************************************)
(* What a packetBuffer promises: a first-in first-out queue of whole       *)
(* packets, bounded by the bytes they would take, with blocking reads that *)
(* truncate a packet too long for the slice they are given.                *)
(***************************************************************************)
EXTENDS ReadWait

VARIABLE queue

queueVars == <<queue, waitVars>>

(* Every packet takes two more bytes, for its length. *)
Stored(q) ==
  LET First[n \in 0 .. Len(q)] == IF n = 0 THEN 0 ELSE First[n - 1] + Len(q[n]) + 2
  IN  First[Len(q)]

QueueInit == queue = << >> /\ WaitInit

Enqueue(p) ==
  /\ ~closed
  /\ Stored(queue) + Len(p) + 2 <= receiveBufferBytes
  /\ queue' = Append(queue, p)
  /\ wake' = TRUE
  /\ UNCHANGED <<closed, deadline, reading, expired, got>>

Dequeue(r, room) ==
  /\ queue # << >>
  /\ queue' = Tail(queue)
  /\ IF Len(Head(queue)) <= room
     THEN Takes(r, "none", Head(queue), Len(queue) > 1)
     ELSE Takes(r, "short", SubSeq(Head(queue), 1, room), Len(queue) > 1)

Idles(r) ==
  /\ \/ Calls(r) \/ TimesOut(r) \/ WokenByToken(r) \/ WokenByEnd(r)
     \/ queue = << >> /\ (EndsEmpty(r) \/ SleepsEmpty(r))
  /\ UNCHANGED queue

QueueNext ==
  \/ \E p \in Packet : Enqueue(p)
  \/ \E r \in Reader : Idles(r) \/ \E room \in Room : Dequeue(r, room)
  \/ Expire /\ UNCHANGED queue
  \/ \E d \in {"none", "armed", "passed"} : SetReadDeadline(d) /\ UNCHANGED queue
  \/ Close /\ UNCHANGED queue

QueueSpec == QueueInit /\ [][QueueNext]_queueVars
=============================================================================
