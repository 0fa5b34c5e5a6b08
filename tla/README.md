# A TLA+ model of wagaStrim

wagaStrim receives WebRTC cameras (WHIP), holds their media for a set delay and
hands it on to receivers (WHEP). Phones reconnect over bad links, receivers come
and go, and an operator or a deployment changes cameras, keys and delays while
all of it runs. What is hard to get right is the order in which goroutines,
callbacks, timers and saves happen. This directory models that: the modules
follow the code lock by lock, TLC explores small instances, and TLAPS proves the
main safety results for every value of the constants.

## The system and where it is modelled

| Part | Code | Modules | |
|---|---|---|---|
| WHIP ingest server | `ingest/whip.go`, `peer/peer.go` | `Ingest`, `CameraOwnership` | modelled |
| Relay registry | `relay/relay.go` | `Relay` | Publish, Track, Untrack, Drop, Subscribe |
| WHEP egress server | `egress/whep.go` | `Egress` | modelled |
| Wiring of the two | `cmd/wagastrim/main.go` | `Server`, `Revocation` | the callbacks between servers |
| Settings and camera list | `config/*.go` | `Settings`, `Config` | modelled |
| Settings page, control listener | `ui/ui.go`, `control/*.go` | `Retarget`, `Config` | the handlers that change something |
| Receive buffer | `ingest/packet_buffer.go` | `ReadWait`, `PacketQueue`, `PacketBuffer` | modelled |
| Packet recovery | `ingest/recovery.go`, `recovery_mux.go`, `delivery.go` | `Recovery` | bookkeeping, not contents |
| Delay controller | `dynamicdelay/delay.go` | `DynamicDelay` | modelled |
| Playout buffers, stream clocks | `relay/delay.go`, `clock.go`, `playback.go`, `relay.go` | `Playout`, `Feed`, `PacketHeap`, `Timeline` | partly, see below |

Paths are under `src/internal/` unless they start with `cmd/`. The rest of the
repository is listed under *Not modelled*. `PROJECT.json` maps every definition
that models code to its lines.

How the parts interact: a WHIP request makes a session that owns a camera; its
tracks become streams and buffers of the relay; WHEP requests attach those
tracks; when a session ends, the ingest server clears status and stream, then
tells the egress server, then gives the camera back. Settings decide who may
publish and with what delay; a change is saved, the sessions it concerns are
closed, and the delays are carried to the buffers of running streams.

### Conventions

A region of code under one lock is one action; what happens between two locked
regions interleaves with everything else. A handler is a program counter
(`pc`, `step`, `phase`, `worker`, `job`). Every early return and error path is a
disjunct. Names are the code's where TLA+ allows. Definitions introduced as
*mutants* are faulty variants of the definition after them; no specification
uses them. They show that the property named in `PROJECT.json` notices the
fault.

### Ingest, CameraOwnership, Relay

`pc` follows each request through `Publish`, `negotiate`, `clearPrevious` and
`answerSession`; `stopOnce` follows the body of `stopSession`, which runs
without a lock between its steps; `teardown` holds the sessions some goroutine
is stopping. pion is external: connection states change at any time and every
change starts a callback goroutine, so `Connected` may be handled after
`Failed`. `drain` is the goroutine of each track. `CameraOwnership` is the
promise without goroutines: one owner, only the owner adds media, and the camera
is handed back after status, media and subscribers have been dealt with.

### Egress and Server

A subscriber is in `reserved` while it is negotiated and in `subs` afterwards;
`canceled` marks negotiations whose publisher ended; `timer` is the 20 second
timer. `Server` composes Egress with CameraOwnership (which Ingest implements,
so the composition says something about the real server) through the `stopped`
callback. `Revocation` adds the settings handler that takes a sender key away.

### Settings, Config, Retarget

`Settings` has the pure parts: clamping, normalisation, validation of a list,
the shared delay of a group. `Config` has one action per setter with its save:
memory is changed, a temporary file is written, renamed, and the change is taken
back when that fails. The process may die at any step and starts again from the
file; files may be hand-edited, and may then give two cameras one key. A session is
`negotiating` once `Resolve` has accepted its key, with the codecs the camera had
then, and `connected` once `CloseIngest` can find it; `missed` remembers the ones
that were negotiating when their camera was revoked. `Retarget` follows a changed
delay from the list to the buffers, for several handlers and starting tracks at a
time: which cameras are concerned, what each one's delay is, and when its stream is
configured are separate steps.

### ReadWait, PacketQueue, PacketBuffer

`PacketBuffer` is the byte ring with two-byte lengths, wrap and growth;
`PacketQueue` is the FIFO it promises to be; `ReadWait` is how readers sleep and
are woken and is shared by both. Bytes have base `Base` (256 in the code).

### Recovery

The readers of the sockets, ICE agents that answer bindings, and registration
and removal of agents share one bounded history. A packet is an agent and a
sequence number modulo `SeqMod`; parity groups are sets of numbers. `remember`
walks the groups in Go's random map order, so every order is explored. The wire
format, the XOR of contents and the times of requests are left out.

### DynamicDelay and Playout

`DynamicDelay` is the controller: `Configure`, `Step`, `Jump`, the curve.
`Playout` is one stream: its buffers, its clocks and the controller. A jump is
decided in one track's `Push` and reaches the others when they next look at the
curve. `job` is the goroutine inside `ConfigureDelay` or `adjustDelay`, which
holds the stream's lock while it takes the buffers' locks one by one, so that
`Push` and `Pop` come in between. A sender timestamp is the tick of capture, so
the mapping from RTP time to wall time is one number, `wall`.

### Feed and PacketHeap

`PacketHeap` is the binary heap of a buffer: `push`, `pop`, `sink` and the newest
packet. `Feed` is one buffer and the goroutine that reads it: `Pop` waits for a
packet, sleeps on a timer or holds a packet back for pacing, and is woken by a
new head, a changed target, a moved clock, a step of the curve or `Close`. The
reader's lock is given up only where the code gives it up, in the condition
variable's wait. Timer and condition variable are external. How far pacing has
fallen behind and the allowance learned from a frame are part of the state.

### Timeline

`Timeline` is how one track's timestamps become playout times: 32-bit timestamps
and 16-bit sequence numbers that wrap, the anchor that `Push` sets and moves,
sender reports, `correctClocks` with the alignment to the sender's clock, the
correction of excess depth and the roll-back of one, and the clock epochs with
the packets of an old one. The sender's clock may jump once, at any time; packets
and reports arrive late and in any order. The stream may be any number of wraps
long: only what is compared has to be closer than half the wrap (`RecentClock`), so
`Silence` bounds the time between two accepted packets, two reports and two
corrections, and `Held` the time a packet is queued. `last` and `root.first` are
history. The stream's other track is on time and has reported; the configured delay
is fixed, since `Playout` and `Feed` change it.

## Runs

Each passing run finishes within five minutes.

| Run | Question | Instance |
|---|---|---|
| `ingest_safety` | Can two publishers of one camera get in each other's way? | 2 requests, 1 camera, 1 track each; failures, teardowns and shutdown at every point |
| `ingest_liveness` | Is every slot and every camera given back? | the same without tracks |
| `revocation_race` (violated) | Does a revoked key stop working? | 1 revocation against a request being negotiated |
| `server` | Is the limit kept, are slots and reservations given back; can a receiver stay on tracks nobody feeds? | 2 publishers in turn, 2 receivers, room for 1 |
| `config` | Do memory, file and sessions agree whatever fails? | 2 setter calls, 2 or no initial file, crashes, failing saves |
| `retarget_race` (violated) | Does a group keep one delay when handlers and starting tracks overlap? | 2 cameras, 2 workers |
| `packet_buffer` | Is the ring a queue, and is every reader woken? | 2 readers, bytes of one bit, ring of 4 to 9 bytes |
| `recovery` | Is the bounded history exact; does anything come back? | 5 datagrams of 2 agents on 1 address, numbers modulo 16, full maps |
| `playout` | Do tracks stay together through jumps and changes? | 2 tracks, 3 times, 1 change of settings, 1 queued packet per track |
| `playout_rejoin` (violated) | Is a track that joins late scheduled with its sibling? | the same |
| `feed` | Does the reader sleep for the right packet, wake in time and end? | up to 3 packets out of order, 1 change of delay, clock or curve |
| `timeline` | Do wraps and jumps of the sender's clock leave the schedule right? | timestamps modulo 20, 12 ticks, 1 jump of -5 or 4, lags up to 1 |

What they show, property by property, is in the comments of the modules. The
central ones:

* `CleanupHoldsCamera`, `MediaOfOwner`, `BuffersOfOwner`, `LiveOfOwner`,
  `ImplementsOwnership`: the clean-up of an old publisher, late callbacks and
  late track goroutines never touch its replacement.
* `Capacity`, `NoOrphan`, `SlotNotRetained`, `ReservationsReturned`: two-phase
  registration keeps the limits and loses neither a slot nor a reservation, also when
  a connection fails before its callback is installed.
* `SubscribersOfOwner`, `StalePeersClosed`: attaching races with the end of a
  publisher and is caught by the cancellation.
* `MemoryIsDisk`, `CrashIsAtomic`: roll-back and crash of a save. `NoNewAmbiguity`:
  no setter makes a key ambiguous. `LiveCurrent`: a session has its camera's present
  key and codecs, or is about to be closed, or was between `Resolve` and registration
  when revoke looked for it. That last window is the finding `revocation_race`.
* `ImplementsQueue`, `NoLostWakeup`, `DeadlineReachesAll`, `Delivered`,
  `CloseWakes`: the receive buffer.
* `OrdersExact`, `NeverRequestsHeld`, `PendingShort`, `NoResidue`: packet recovery
  at its limits.
* `JumpsShared`, `OneSchedule`, `OneTimeline`, `DelayBounded`: playout.
* `OnTime`, `CloseReturns`: a sleeping reader sleeps for the earliest packet, its
  timer comes within two pacing allowances of that packet's time, and `Close` ends
  the reader.
* `OneMapping`, `JumpUndone`, `TakenBackOnce`, `OldClockHarmless`: a moved anchor
  moves no packet and follows the stream beyond half the wrap, a jump that looked like
  excess depth is taken back, once and no more than was corrected, and late packets of
  a clock that jumped back are dropped.

### Bounds

Two publishers suffice for one replacing another, and a third only repeats the
pattern: a session's clean-up involves itself and its successor. One slot for
two receivers makes the overall limit bite; the limit per camera is larger and does
not in this run, while theorem `ServerWithinLimits` is about both. `MaxOps` = 2 lets a setter build on what
another left, with a crash between them. In `packet_buffer` a base of 2 makes a
length use both of its bytes, and packets wrap and force growth within 9 bytes.
In `recovery` the numbers wrap, one gap is longer than the history, and every
map overflows. In `playout` one tick is a second, so that adjust, growth, jump
and retirement each happen within three times; only video is held up, which is
what makes the two tracks differ. In `feed` three packets make a heap with two
children, two lags put packets out of order, and a packet may be late enough for
pacing to fall behind. In `timeline` timestamps and sequence numbers wrap at
the third capture and the stream outlives half the wrap, so that an anchor left
where it was would be read with the wrong sign; the jump back is longer than what a
packet's lateness can explain, the jump forward longer than the margin. `MaxLate` states how late a
queued packet of the instance gets. `MaxTime`, `MaxQueue`, `MaxChanges`,
`MaxTracks`, `MaxOps`, `MaxDatagrams` are bounds of the model and not of the
code. Symmetry is used in `ingest_safety` and `revocation_race`, where requests
for one camera are interchangeable; not in the liveness run.

Deadlock is not checked where the system may stop: when all requests of the
instance are done, or a bound is reached.

### Fairness

Weak fairness is assumed only of goroutines that can run: handlers, stop and
teardown bodies, started callbacks, an armed timer, a reader that was woken.
Go's scheduler runs a runnable goroutine. Nothing is assumed of clients,
networks, operators, or of pion reporting anything.

In `Ingest`, `Server` and `Feed` it is one weak fairness condition on the
disjunction of these steps (`Running`, `SubscribersRun`, `Runs`): that something
runnable runs. This assumes less than fairness of each goroutine and is enough,
because each of them has finitely many steps left once clients stop. `Feed` counts
time among the steps, and lets it pass only while neither the reader nor the
runtime has anything to do. The callback for `Connected` is not assumed to run.

## Findings

* `retarget_race`: a starting track reads its delay, configures its stream and
  registers its buffer in three steps without a lock the settings share. A delay
  saved and applied after the first and before the last misses the new buffer, and
  the cameras of one group play at two delays until the next change.
* `revocation_race`: `Publish` resolves the key before the session can be found
  by `CloseIngest`, and nobody looks at the key again, so a request caught
  between the two connects with a revoked key and stays.
* `playout_rejoin`: after a jump and the end of adaptation, a track that starts
  anew has no shift while its sibling keeps one; the alignment to the sender's
  clock then schedules them apart by the length of the jump.

What the properties leave aside is recorded with the hazards in `PROJECT.json`:

* Of two overlapping delay handlers the one that read the older value may apply it
  last. It is another way to the state `retarget_race` shows.
* Deleting the slowest camera of a group does not retarget the others, although
  leaving the group by hand does.
* `OldClockHarmless` and, for jumps back, `JumpUndone` are about jumps that neither
  a packet's lateness nor a tolerated misalignment can hide (`Evident`): after a
  smaller one, a late keyframe of the old clock passes as new and lets the old
  packets after it through. Old packets that fall behind a clock that jumped forward
  play at once or are dropped for lateness; no property is about them.
* Both are about jumps after the tracks were first aligned. When the clock jumps
  between a track's first report and the first alignment, the anchor of that
  alignment is already off.

## Proofs

All theorems hold for every value of the constants that satisfies the `ASSUME`s.
These state types, that absent values are not members, and that limits are
numbers; beyond that, that in `Timeline` jumps, silences and the time a packet is
queued stay within half the wrap (`RecentClock`). Some theorems have a
hypothesis of their own, named below. Each proof has an inductive invariant, one
step per action.

* **IngestProofs** `TypeCorrect`, `SingleOwner`, `CleanupBeforeHandover`,
  `OnlyOwnersMedia`, `OnlyOwnersBuffers`, `LiveIsOwned`, `Implements`. None of
  the properties is inductive alone: that no replacement registers during
  clean-up rests on the pending entry being held by one handler (`Slots`), on
  what `clearPrevious` has seen remaining true (`Clearing`), and on the session
  tables following `stopOnce` (`Lifecycle`, `Registry`). `Media` and `Status`
  tie streams, buffers and the live flag to how far the clean-up is.
  `Implements` shows the initial state and every step map to CameraOwnership.
* **ServiceProofs**, about `Server`: `NeverStale`. A subscriber that is registered, or not
  cancelled and going to be, has the present owner's tracks (`Attachment`),
  because media is gone before subscribers are told (`Owners`). `UsesEgress` shows
  that the composed program implements `EgressSpec`; what is proved of the egress
  server under any use, `EgressTypeCorrect` and an invariant, then holds in the
  program: `ServerWithinLimits`, `ServerNoneOrphaned`, `ServerNothingAfterClose`.
  `Tables` says which table a subscriber is in from where its handler is; `Room` adds
  finiteness, so that cardinalities can be compared.
* **ServiceProofs**, about `Config`: `ConfigTypeCorrect`, `AlwaysInRange`, `Durable`,
  `AtomicSave`, `KeysUnambiguous`, `SessionsCurrent`. `Phases` says what memory,
  file and the copy to go back to are in each phase of a save; that `normalise`
  changes nothing in normal settings carries most of it. `KeysUnambiguous` assumes
  nothing of the files: it is about each setter's step. `Sessions` follows the
  sessions from `Resolve` on: whoever is not in `missed` is current, or its camera is
  still to be revoked.
* **SettingsProofs** `EffectiveDelayIsLargest`, `OneDelayPerGroup`,
  `OnlyPeersConcerned`, about lists in which no identifier is repeated: what a
  handler reads from one list keeps a group aligned, and no camera outside the groups
  left and joined has to be retargeted. That what was read is still so when it is
  applied is not a theorem: see `retarget_race`.
* **PacketBufferProofs** `NeverLosesWakeup`, `DeadlineWakesAll`, for any number of
  readers; the argument needs the sign of `used` and the token, not the packets.
  `RingIsQueue`: the ring implements `PacketQueue`, for any packets, byte values,
  slices and limits. The invariant `Holding` says that the stored bytes are whole
  packets, each behind its length, with the offset of each as a witness. From it,
  `Contents` is that list of packets (`UnframedIs`) and `Stored` is `used`
  (`StoredIs`). `WriteBytes` and `ReadBytes` show that a write appends a framed packet
  to the stored bytes and a read takes the first off, wherever the ring ends and
  whether it grows; they need only that `%` may be put off to the end of a sum
  (`Ahead`, `Apart`).
* **RecoveryProofs** `ForgottenForGood`, `HeldNotRequested`, proved together: a
  repair may add to the history only what belongs to an active agent.
  `OrdersStayExact`: the orders list what the maps hold, so the eviction loops keep
  the limits (`OrderInv`). `NoParityLeftWaiting`: while `remember` walks, the groups
  it has still to visit may be one packet short, and only they (`PendingInv`).
* **PlayoutProofs** `JumpsReachAll` (any set of tracks, any policies and timing).
  A buffer's `cutoff` tells whether it has seen the latest jump; `Knows` says that
  one which has seen it has made all, `Visited` that the tracks `adjustDelay` has
  been to know it when a disabled curve is retired, and `Control` that a disabled
  curve has no jump pending. `DelayStaysBounded` is about the controller alone
  under any sequence of calls, lateness and media time (`ControllerSpec`).
  `StreamImplementsController` shows that the stream drives it only in such ways,
  which gives `StreamDelayBounded`. `SchedulesStayOne` follows from the times in the
  buffers being what the mapping says (`ClockInv`). `TimelineStaysOne` adds that
  aligned tracks are within the tolerance of the sender's clock (`TogetherInv`); it
  assumes the two kinds a stream has, audio and video (`AudioAndVideo`): a third track
  without a sender report would keep the other two from being corrected together.
* **FeedProofs** `PushOrders` and `PopOrders`, about the heap alone, for a heap of any
  size: `push` and `pop` lose nothing, leave a heap, and `push` says truly whether
  the new packet is at the root. Their loops are followed turn by turn (`LoopEnds`):
  `Rising` and `Sinking` say that only the moving packet may be out of order, so
  that when the loop stops nothing is. `ReaderOnTime` is `OnTime` for any delays,
  lags, moves and queue lengths, and `TakenInOrder` that `Pop` takes the first packet
  and leaves the rest. `OnTime` is not inductive: it does not say
  how far the curve may still come down while the reader sleeps, nor how late the
  packet was that a timer for pacing was set for. `Asleep` does (`Sleep`), and
  `Ranked` says that the queue is a heap in which no two packets have one rank.
* **TimelineProofs** `AlwaysOneMapping`, for streams of any length. `MappingInv` says
  that the anchor is the timestamp of a capture not far from the newest one accepted
  (`Near`, which is what re-anchoring is for), and that every queued packet is of a
  recent capture and due when the anchor says (`Queued`). Two timestamps closer than half the
  wrap differ as their unwrapped positions do (from the uniqueness of division with
  remainder), so the anchor may move; alignment moves anchor and queue by the same
  amount. `NeverTakenBackTwice`, also for any length: `BackInv` says that the
  schedule plus what is still noted as corrected is no later than the first alignment.
  The other two have the hypothesis `ShortStream`: the whole stream, jump included, is
  within half the wrap of the timestamps and of the sequence numbers.
  `JumpsUndone` and `OldClockStaysHarmless` follow from `UndoInv`. `ReportInv` says
  that reports are the sender's and find a jump once. `BeforeInv` says that until
  a jump is applied the schedule runs ahead by no more than a jump forward which the
  last correction has noted; `AfterInv` that afterwards it is where the new reports
  put it, and that `resetSequence` is a number of the new clock.

Where a definition recurses or chooses an extreme (the framing of the ring, orders
with holes, the heap, the largest delay of a group, the depth of a queue), the proofs argue
with the least counterexample, from the well-foundedness of the naturals.

Only model-checked: all liveness (`SlotReleased`, `DeadPublisherForgotten`,
`CloseDrains`, `StalePeersClosed`, `SlotNotRetained`, `ReservationsReturned`, `CloseWakes`, `Delivered`,
`CloseReturns`), which is out of the prover's reach. Every safety property that a
passing run checks is also proved.

## Not modelled

Of modelled parts: SDP, codecs' registration and byte counts (ingest); keyframe
requests and their throttle (relay); labels, ports and URL building (settings);
page rendering and bearer-token checks (ui, control); request datagrams and
contents (recovery). Of playout: keyframe requests and
the clocks reported to the player. The three views of playout are
checked apart: `Playout` has two tracks and no wraps, `Timeline` one track with
wraps and jumps, `Feed` one buffer with its reader; together they would be out of
TLC's reach.

Whole parts: bitrate and path statistics, arrival feedback, path failover, the
playout-delay extension, ICE engine and sockets, keyframe detection, HTTP
listeners and request limits, the player and settings pages' scripts, tray and
autostart, the reachability probe, build tools. They are start-up configuration,
display values, parsers, operating-system calls or browser code;
`PROJECT.json` gives the reason for each.

## Plan

In this order:

1. `Retarget` with overlapping handlers: what still holds then.
2. `Timeline` with both tracks jumping, the first alignment, and `JumpsUndone` for
   streams longer than half the wrap.
3. The player's retry loop composed with `Egress`; arrival feedback.
