----------------------------- MODULE PacketHeap -----------------------------
(***************************************************************************)
(* packetHeap of internal/relay/delay.go: queued packets in an array,      *)
(* ordered by playout time and, among equals, by arrival.  The code counts *)
(* from 0, a sequence from 1.                                              *)
(***************************************************************************)
EXTENDS Integers, Sequences

(* buffered: a packet is known by its playout time and the order of its arrival. *)
Buffered == [playAt : Int, order : Nat]

(* buffered.before *)
Before(a, b) == a.playAt < b.playAt \/ (a.playAt = b.playAt /\ a.order < b.order)

Swapped(h, i, j) == [h EXCEPT ![i] = h[j], ![j] = h[i]]

(* A loop is at some place in the array.  One that has ended stays there, and none
   takes more turns than there are other items. *)
Place == [heap : Seq(Buffered), at : Nat]

After(turn, start, turns) ==
  LET place[n \in 0 .. turns] == IF n = 0 THEN start ELSE turn[place[n - 1]]
  IN place[turns]

(* A turn of the loop of push: the item moves up past a parent it comes before. *)
Rise[p \in Place] ==
  LET parent == p.at \div 2 IN
  IF p.at > 1 /\ Before(p.heap[p.at], p.heap[parent])
  THEN [heap |-> Swapped(p.heap, p.at, parent), at |-> parent] ELSE p

Risen(h, item) == After(Rise, [heap |-> Append(h, item), at |-> Len(h) + 1], Len(h))

Pushed(h, item) == Risen(h, item).heap

(* What push returns: the item came to rest at the root. *)
AtRoot(h, item) == Risen(h, item).at = 1

(* A turn of the loop of sink: the item moves down to the smaller of its children,
   if that comes before it. *)
Smaller(h, i, j) == IF j <= Len(h) /\ Before(h[j], h[i]) THEN j ELSE i

Sink[p \in Place] ==
  LET left == 2 * p.at
      smallest == Smaller(p.heap, Smaller(p.heap, p.at, left), left + 1)
  IN IF smallest = p.at THEN p
     ELSE [heap |-> Swapped(p.heap, p.at, smallest), at |-> smallest]

(* pop: the last item takes the place of the first and sinks. *)
Cut(h) == [i \in 1 .. Len(h) - 1 |-> IF i = 1 THEN h[Len(h)] ELSE h[i]]

Popped(h) == After(Sink, [heap |-> Cut(h), at |-> 1], Len(h) - 1).heap

(* newestLocked: the latest playout time, 0 standing for the zero time. *)
Newest(h) ==
  LET times == {h[i].playAt : i \in 1 .. Len(h)} \cup {0}
  IN CHOOSE t \in times : \A u \in times : u <= t
=============================================================================
