------------------------------ MODULE ReadWait ------------------------------
(***************************************************************************)
(* How the readers of a packetBuffer (internal/ingest/packet_buffer.go)    *)
(* sleep and are woken, whatever the packets are stored in.                *)
(*                                                                         *)
(* The mutex makes every locked region one action.  A Read between two of  *)
(* them sleeps in a select on the one-slot wake channel, on done and on    *)
(* the channel its deadline had when it looked.  That channel is closed    *)
(* when the deadline passes and stays closed when a later deadline gets a  *)
(* new one; expired holds the sleepers whose channel is closed.            *)
(***************************************************************************)
EXTENDS Integers, Sequences

CONSTANTS
  Reader,               \* the goroutines that call Read
  Packet,               \* what is written, sequences of bytes
  Room,                 \* the sizes of the slices passed to Read
  Base,                 \* the number of values of a byte, 256
  receiveBufferBytes

ASSUME PacketType == \A p \in Packet : p \in Seq(0 .. Base - 1)
ASSUME SizeType == Room \subseteq Nat /\ Base \in Nat \ {0} /\ receiveBufferBytes \in Nat

VARIABLES
  wake,      \* the wake channel holds its token
  closed,
  deadline,  \* "none", "armed" or "passed"
  reading,   \* where each reader is
  expired,
  got        \* what the last Read of each reader returned

waitVars == <<wake, closed, deadline, reading, expired, got>>

Returned(err, bytes) == [err |-> err, bytes |-> bytes]

WaitTypeOK ==
  /\ wake \in BOOLEAN /\ closed \in BOOLEAN
  /\ deadline \in {"none", "armed", "passed"}
  /\ reading \in [Reader -> {"idle", "looking", "asleep"}]
  /\ expired \in SUBSET Reader
  /\ DOMAIN got = Reader

WaitInit ==
  /\ wake = FALSE /\ closed = FALSE
  /\ deadline = "none"
  /\ reading = [r \in Reader |-> "idle"]
  /\ expired = {}
  /\ got = [r \in Reader |-> Returned("none", << >>)]

Asleep == {r \in Reader : reading[r] = "asleep"}
Moves(r, to) == reading' = [reading EXCEPT ![r] = to]

(* Read is called; what the previous call returned is forgotten. *)
Calls(r) ==
  /\ reading[r] = "idle"
  /\ Moves(r, "looking")
  /\ got' = [got EXCEPT ![r] = Returned("none", << >>)]
  /\ UNCHANGED <<wake, closed, deadline, expired>>

Returns(r, err, bytes) ==
  /\ reading[r] = "looking"
  /\ Moves(r, "idle")
  /\ got' = [got EXCEPT ![r] = Returned(err, bytes)]

(* The deadline is looked at first, even when packets are queued. *)
TimesOut(r) ==
  /\ deadline = "passed"
  /\ Returns(r, "timeout", << >>)
  /\ UNCHANGED <<wake, closed, deadline, expired>>

(* A packet is taken; another reader is woken when more are left. *)
Takes(r, err, bytes, more) ==
  /\ deadline # "passed"
  /\ Returns(r, err, bytes)
  /\ wake' = (wake \/ more)
  /\ UNCHANGED <<closed, deadline, expired>>

(* Mutant: closed is not looked at, and done wakes the reader for ever. *)
EndsNever(r) ==
  /\ deadline # "passed" /\ closed
  /\ reading[r] = "looking"
  /\ Moves(r, "asleep")
  /\ UNCHANGED <<wake, closed, deadline, expired, got>>

(* Only an empty closed buffer is at its end. *)
EndsEmpty(r) ==
  /\ deadline # "passed" /\ closed
  /\ Returns(r, "EOF", << >>)
  /\ UNCHANGED <<wake, closed, deadline, expired>>

SleepsEmpty(r) ==
  /\ deadline # "passed" /\ ~closed
  /\ reading[r] = "looking"
  /\ Moves(r, "asleep")
  /\ UNCHANGED <<wake, closed, deadline, expired, got>>

(* select takes any case that is ready; only the first consumes something. *)
WokenByToken(r) ==
  /\ reading[r] = "asleep" /\ wake
  /\ Moves(r, "looking")
  /\ wake' = FALSE
  /\ expired' = expired \ {r}
  /\ UNCHANGED <<closed, deadline, got>>

WokenByEnd(r) ==
  /\ reading[r] = "asleep" /\ (closed \/ r \in expired)
  /\ Moves(r, "looking")
  /\ expired' = expired \ {r}
  /\ UNCHANGED <<wake, closed, deadline, got>>

(* The timer of the deadline fires. *)
Expire ==
  /\ deadline = "armed"
  /\ deadline' = "passed"
  /\ expired' = expired \cup Asleep
  /\ UNCHANGED <<wake, closed, reading, got>>

(* Mutant: a new deadline only concerns the reads that follow. *)
SetReadDeadlineLater(d) ==
  /\ ~closed
  /\ deadline' = d
  /\ UNCHANGED <<wake, closed, reading, expired, got>>

(* A deadline that has passed already closes its channel at once. *)
SetReadDeadline(d) ==
  /\ ~closed
  /\ deadline' = d
  /\ expired' = IF d = "passed" THEN expired \cup Asleep ELSE expired
  /\ UNCHANGED <<wake, closed, reading, got>>

(* Close clears the deadline, so that what is queued can still be read. *)
Close ==
  /\ ~closed
  /\ closed' = TRUE
  /\ deadline' = "none"
  /\ UNCHANGED <<wake, reading, expired, got>>
=============================================================================
