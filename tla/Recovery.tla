------------------------------ MODULE Recovery ------------------------------
(***************************************************************************)
(* Packet recovery in front of ICE: internal/ingest/recovery.go,           *)
(* recovery_mux.go and delivery.go.                                        *)
(*                                                                         *)
(* The actors are the goroutine that reads each UDP socket (ReadFrom), the *)
(* ICE agents that write binding answers through it (WriteTo) and those    *)
(* that register and remove their ufrag at the mux.  They share one        *)
(* history under one mutex.  A locked region is one action, except         *)
(* remember, which walks the stored groups in the map's random order: mu   *)
(* holds what it has still to visit, and nobody else enters meanwhile.     *)
(*                                                                         *)
(* An identity is named by its ufrag and sends one stream, so that a       *)
(* packet is a pair of ufrag and sequence number.  Contents are left out:  *)
(* a group is the set of sequence numbers its parity covers, and fits says *)
(* whether their lengths agree with the packets.  Times are left out: any  *)
(* stream may be the oldest or untouched for long, any request may be due. *)
(***************************************************************************)
EXTENDS Integers, Sequences, FiniteSets

CONSTANTS
  Ufrag, Conn,
  Path, ConnOf,         \* remote addresses, and the socket each arrives at
  Claims,               \* the ufrags named in binding requests from each address
  Sent,                 \* the sequence numbers each ufrag sends
  Parity,               \* the groups each ufrag sends
  None,
  SeqMod,               \* 2^16
  recoveryHistorySize, recoveryGroupLimit, recoveryStreamLimit, recoveryRequestSize,
  MaxDatagrams          \* bound on the datagrams read

Number == 0 .. SeqMod - 1

ASSUME Traffic ==
  /\ ConnOf \in [Path -> Conn] /\ Claims \in [Path -> SUBSET Ufrag]
  /\ Sent \in [Ufrag -> SUBSET Number]
  /\ \A u \in Ufrag : Parity[u] \subseteq
       [of : {u}, last : Number, covers : SUBSET Number, fits : BOOLEAN]
ASSUME NoneIsNoUfrag == None \notin Ufrag
ASSUME NoneIsNoWalk == \A G \in SUBSET UNION {Parity[u] : u \in Ufrag} : None # G
ASSUME SeqModType == SeqMod \in Nat \ {0}
ASSUME LimitTypes ==
  recoveryHistorySize \in Nat /\ recoveryGroupLimit \in Nat \ {0} /\ recoveryStreamLimit \in Nat

VARIABLES
  active,      \* registered ufrags
  pending,     \* binding requests seen: pairs of path and ufrag
  identities,  \* the ufrag a binding success has given each path
  packets, packetOrder,
  streams,     \* for some ufrags: highest, based, enabled, missing
  groups, groupOrder,
  groupHead,   \* the length of the dead start of groupOrder, which is left out
  ready,       \* repaired packets to be returned by a socket's next ReadFrom
  deliveries,  \* the ufrag of each path's batch of receipts
  at,          \* what each socket's reader has in hand
  mu,          \* the groups remember has still to visit, or None
  read         \* datagrams read

bindVars == <<active, pending, identities>>
historyVars == <<packets, packetOrder, streams, groups, groupOrder, groupHead>>
recoveryVars == <<bindVars, historyVars, ready, deliveries, at, mu, read>>

Packet == Ufrag \X Number
Group == [of : Ufrag, last : Number, covers : SUBSET Number, fits : BOOLEAN]
Stream == [highest : Number, based : BOOLEAN, enabled : BOOLEAN, missing : SUBSET Number]
GroupID(g) == <<g.of, g.last>>
NewStream == [highest |-> 0, based |-> FALSE, enabled |-> FALSE, missing |-> {}]

RecoveryInit ==
  /\ active = {} /\ pending = {}
  /\ identities = [p \in Path |-> None]
  /\ packets = {} /\ packetOrder = << >>
  /\ streams = [u \in {} |-> NewStream]
  /\ groups = {} /\ groupOrder = << >> /\ groupHead = 0
  /\ ready = {}
  /\ deliveries = [p \in Path |-> None]
  /\ at = [c \in Conn |-> None]
  /\ mu = None /\ read = 0

-----------------------------------------------------------------------------
(* The history. *)
Elems(q) == {q[i] : i \in DOMAIN q}
First(q, k) == {q[i] : i \in 1 .. k}
Least(S) == CHOOSE k \in S : \A l \in S : k <= l

(* How many entries of the order the loop for len(map) > limit walks over. *)
Evicted(keys, order, limit) ==
  Least({k \in 0 .. Len(order) : Cardinality(keys \ First(order, k)) <= limit} \cup {Len(order)})
Drop(q, k) == SubSeq(q, k + 1, Len(q))

(* The entries of q at the positions I, in their order. *)
Kept(q, I) ==
  LET nth(k) == CHOOSE i \in I : Cardinality({j \in I : j <= i}) = k
  IN  [k \in 1 .. Cardinality(I) |-> q[nth(k)]]
Without(q, u) == Kept(q, {i \in DOMAIN q : q[i][1] # u})

storePacket(id) ==
  IF id \in packets THEN UNCHANGED <<packets, packetOrder>>
  ELSE LET order == Append(packetOrder, id)
           k == Evicted(packets \cup {id}, order, recoveryHistorySize)
       IN  packets' = (packets \cup {id}) \ First(order, k) /\ packetOrder' = Drop(order, k)

(* streamLocked: the streams with u's among them; the oldest makes room. *)
WithStream(u) ==
  IF u \in DOMAIN streams THEN {streams}
  ELSE {[v \in kept \cup {u} |-> IF v = u THEN NewStream ELSE streams[v]] :
          kept \in IF Cardinality(DOMAIN streams) < recoveryStreamLimit THEN {DOMAIN streams}
                   ELSE {DOMAIN streams \ {v} : v \in DOMAIN streams}}

Behind(a, b) == (a - b) % SeqMod

(* trackGapLocked, with the packets held after the arrival of n. *)
trackGap(s, u, n, held) ==
  LET delta == Behind(n, s.highest)
      inGap == {m \in Number : Behind(n, m) \in 1 .. recoveryHistorySize - 1
                               /\ Behind(m, s.highest) \in 1 .. delta - 1}
      kept == {m \in s.missing : delta > 1 => Behind(n, m) < recoveryHistorySize}
  IN  IF ~s.based THEN [s EXCEPT !.highest = n, !.based = TRUE]
      ELSE IF delta = 0 \/ 2 * delta >= SeqMod THEN s
      ELSE [s EXCEPT !.highest = n,
                     !.missing = kept \cup {m \in inGap : <<u, m>> \notin held}]

(* dueRepairs: numbers the sender no longer has are dropped on the way, up to  *)
(* where the request is full.                                                  *)
dueRepairs(s) ==
  LET gone == {m \in s.missing : s.based /\ Behind(s.highest, m) >= recoveryHistorySize
                                 /\ 2 * Behind(s.highest, m) < SeqMod}
  IN  {[s EXCEPT !.missing = @ \ dropped] :
         dropped \in IF Cardinality(s.missing) <= recoveryRequestSize THEN {gone} ELSE SUBSET gone}

Lacks(g) == {n \in g.covers : <<g.of, n>> \notin packets}
WithoutMissing(ss, u, n) ==
  IF u \in DOMAIN ss THEN [ss EXCEPT ![u].missing = @ \ {n}] ELSE ss

-----------------------------------------------------------------------------
(* ReadFrom of socket c. *)
popReady(c) ==
  /\ at[c] = None /\ mu = None
  /\ \E id \in Packet :
       /\ <<c, id>> \in ready
       /\ ready' = ready \ {<<c, id>>}
  /\ UNCHANGED <<bindVars, historyVars, deliveries, at, mu, read>>

(* The socket is read when nothing is ready. *)
ReadsSocket(c) ==
  /\ at[c] = None /\ mu = None
  /\ \A r \in ready : r[1] # c
  /\ read < MaxDatagrams
  /\ read' = read + 1

(* RTP on a path with an identity: authenticatedIdentity looks it up ... *)
ReadRTP(c, p, n) ==
  /\ ReadsSocket(c)
  /\ ConnOf[p] = c /\ identities[p] # None
  /\ n \in Sent[identities[p]]
  /\ at' = [at EXCEPT ![c] = [step |-> "remember", path |-> p, id |-> <<identities[p], n>>]]
  /\ UNCHANGED <<bindVars, historyVars, ready, deliveries, mu>>

(* Mutant: remember trusts the identity it was given. *)
rememberTrusting(c) ==
  /\ at[c] # None /\ at[c].step = "remember" /\ mu = None
  /\ LET u == at[c].id[1]
         n == at[c].id[2]
     IN  /\ storePacket(at[c].id)
         /\ \E ss \in WithStream(u) :
              streams' = [ss EXCEPT ![u] =
                            trackGap([ss[u] EXCEPT !.missing = @ \ {n}], u, n, packets')]
         /\ mu' = {g \in groups : g.of = u /\ n \in g.covers}
  /\ at' = [at EXCEPT ![c].step = "visit"]
  /\ UNCHANGED <<bindVars, groups, groupOrder, groupHead, ready, deliveries, read>>

(* ... and remember, in a second locked region, checks that it is still     *)
(* registered, stores the packet and starts to walk the groups it is in.    *)
remember(c) ==
  /\ at[c] # None /\ at[c].step = "remember" /\ mu = None
  /\ LET u == at[c].id[1]
         n == at[c].id[2]
     IN  /\ u \in active
         /\ storePacket(at[c].id)
         /\ \E ss \in WithStream(u) :
              streams' = [ss EXCEPT ![u] =
                            trackGap([ss[u] EXCEPT !.missing = @ \ {n}], u, n, packets')]
         /\ mu' = {g \in groups : g.of = u /\ n \in g.covers}
  /\ at' = [at EXCEPT ![c].step = "visit"]
  /\ UNCHANGED <<bindVars, groups, groupOrder, groupHead, ready, deliveries, read>>

(* The identity is gone, or the work budget is spent: the media passes by. *)
Bypass(c) ==
  /\ at[c] # None /\ at[c].step = "remember" /\ mu = None
  /\ at' = [at EXCEPT ![c].step = "receipt"]
  /\ UNCHANGED <<bindVars, historyVars, ready, deliveries, mu, read>>

(* recoverPendingLocked at group g: it is kept only while two packets are    *)
(* missing, and the only one missing is rebuilt if the lengths agree.        *)
VisitKeep(c, g) ==
  /\ at[c] # None /\ at[c].step = "visit" /\ g \in mu
  /\ Cardinality(Lacks(g)) > 1
  /\ mu' = mu \ {g}
  /\ UNCHANGED <<bindVars, historyVars, ready, deliveries, at, read>>

VisitDrop(c, g) ==
  /\ at[c] # None /\ at[c].step = "visit" /\ g \in mu
  /\ Lacks(g) = {} \/ (Cardinality(Lacks(g)) = 1 /\ ~g.fits)
  /\ mu' = mu \ {g}
  /\ groups' = groups \ {g}
  /\ UNCHANGED <<bindVars, packets, packetOrder, streams, groupOrder, groupHead,
                 ready, deliveries, at, read>>

(* Mutant: the rebuilt packet stays on the list of missing ones. *)
VisitRepairMissing(c, g) ==
  /\ at[c] # None /\ at[c].step = "visit" /\ g \in mu
  /\ Cardinality(Lacks(g)) = 1 /\ g.fits
  /\ \E n \in Lacks(g) : storePacket(<<g.of, n>>) /\ ready' = ready \cup {<<c, <<g.of, n>>>>}
  /\ mu' = mu \ {g}
  /\ groups' = groups \ {g}
  /\ UNCHANGED <<bindVars, streams, groupOrder, groupHead, deliveries, at, read>>

(* Mutant: the group that gave its parity is kept. *)
VisitRepairKept(c, g) ==
  /\ at[c] # None /\ at[c].step = "visit" /\ g \in mu
  /\ Cardinality(Lacks(g)) = 1 /\ g.fits
  /\ \E n \in Lacks(g) :
       /\ storePacket(<<g.of, n>>)
       /\ streams' = WithoutMissing(streams, g.of, n)
       /\ ready' = ready \cup {<<c, <<g.of, n>>>>}
  /\ mu' = mu \ {g}
  /\ UNCHANGED <<bindVars, groups, groupOrder, groupHead, deliveries, at, read>>

VisitRepair(c, g) ==
  /\ at[c] # None /\ at[c].step = "visit" /\ g \in mu
  /\ Cardinality(Lacks(g)) = 1 /\ g.fits
  /\ \E n \in Lacks(g) :
       /\ storePacket(<<g.of, n>>)
       /\ streams' = WithoutMissing(streams, g.of, n)
       /\ ready' = ready \cup {<<c, <<g.of, n>>>>}
  /\ mu' = mu \ {g}
  /\ groups' = groups \ {g}
  /\ UNCHANGED <<bindVars, groupOrder, groupHead, deliveries, at, read>>

(* The end of remember: streams untouched for 30 seconds may go, and what is *)
(* missing from an enabled one is requested.                                 *)
Remembered(c) ==
  /\ at[c] # None /\ at[c].step = "visit" /\ mu = {}
  /\ LET u == at[c].id[1]
     IN  \E kept \in {S \in SUBSET DOMAIN streams : u \in S} :
           \E s \in IF streams[u].enabled THEN dueRepairs(streams[u]) ELSE {streams[u]} :
             streams' = [v \in kept |-> IF v = u THEN s ELSE streams[v]]
  /\ mu' = None
  /\ at' = [at EXCEPT ![c].step = "receipt"]
  /\ UNCHANGED <<bindVars, packets, packetOrder, groups, groupOrder, groupHead,
                 ready, deliveries, read>>

(* deliveryReceipt, a third locked region: only an enabled stream has receipts. *)
Receipt(c) ==
  /\ at[c] # None /\ at[c].step = "receipt" /\ mu = None
  /\ LET p == at[c].path
         u == at[c].id[1]
         batches == {q \in Path : ConnOf[q] = c /\ deliveries[q] # None}
     IN  deliveries' =
           IF u \notin DOMAIN streams \/ ~streams[u].enabled THEN deliveries
           ELSE [q \in Path |->
                   IF q = p THEN u
                   ELSE IF deliveries[p] # u /\ Cardinality(batches) >= recoveryStreamLimit
                           /\ ConnOf[q] = c THEN None
                   ELSE deliveries[q]]
  /\ at' = [at EXCEPT ![c] = None]
  /\ UNCHANGED <<bindVars, historyVars, ready, mu, read>>

-----------------------------------------------------------------------------
(* The first occurrence of each stored group, when holes have made the order long. *)
Compacted ==
  LET ids == {GroupID(h) : h \in groups}
      first == {i \in DOMAIN groupOrder : /\ groupOrder[i] \in ids
                                          /\ \A j \in 1 .. i - 1 : groupOrder[j] # groupOrder[i]}
  IN  IF groupHead + Len(groupOrder) < 2 * recoveryGroupLimit
      THEN [order |-> groupOrder, head |-> groupHead]
      ELSE [order |-> Kept(groupOrder, first), head |-> 0]

(* storeGroupLocked: a group replaces one of the same name; the oldest make room. *)
storeGroup(g) ==
  LET stored == {h \in groups : GroupID(h) # GroupID(g)} \cup {g}
      order == IF \E h \in groups : GroupID(h) = GroupID(g) THEN Compacted.order
               ELSE Append(Compacted.order, GroupID(g))
      k == Evicted({GroupID(h) : h \in stored}, order, recoveryGroupLimit)
      head == Compacted.head + k
  IN  /\ groups' = {h \in stored : GroupID(h) \notin First(order, k)}
      /\ groupOrder' = Drop(order, k)
      /\ groupHead' = IF head >= recoveryGroupLimit THEN 0 ELSE head

Enabled(ss, u) == [ss EXCEPT ![u].enabled = TRUE]

(* consumeParity on a path whose identity is registered.  Nothing missing, or *)
(* one packet whose group does not fit: the parity is of no use.              *)
ReadParity(c, p, g) ==
  /\ ReadsSocket(c)
  /\ ConnOf[p] = c /\ identities[p] \in active
  /\ g \in Parity[identities[p]]
  /\ UNCHANGED <<bindVars, ready, deliveries, at, mu>>

ParityUseless(c, p, g) ==
  /\ ReadParity(c, p, g)
  /\ Lacks(g) = {} \/ (Cardinality(Lacks(g)) = 1 /\ ~g.fits)
  /\ \E ss \in WithStream(g.of) : streams' = Enabled(ss, g.of)
  /\ UNCHANGED <<packets, packetOrder, groups, groupOrder, groupHead>>

(* The missing packet is rebuilt and returned by this ReadFrom. *)
ParityRepairs(c, p, g) ==
  /\ ReadParity(c, p, g)
  /\ Cardinality(Lacks(g)) = 1 /\ g.fits
  /\ \E n \in Lacks(g), ss \in WithStream(g.of) :
       /\ storePacket(<<g.of, n>>)
       /\ streams' = WithoutMissing(Enabled(ss, g.of), g.of, n)
  /\ UNCHANGED <<groups, groupOrder, groupHead>>

(* The group waits for repairs, which are requested. *)
ParityWaits(c, p, g) ==
  /\ ReadParity(c, p, g)
  /\ Cardinality(Lacks(g)) > 1
  /\ storeGroup(g)
  /\ \E ss \in WithStream(g.of) :
       \E s \in dueRepairs([ss[g.of] EXCEPT !.enabled = TRUE, !.missing = @ \cup Lacks(g)]) :
         streams' = [ss EXCEPT ![g.of] = s]
  /\ UNCHANGED <<packets, packetOrder>>

-----------------------------------------------------------------------------
(* A binding request carries the username u; nothing is known of its truth. *)
rememberBinding(p, u) ==
  /\ mu = None
  /\ LET own == {b \in pending : ConnOf[b[1]] = ConnOf[p]}
     IN  pending' = (IF Cardinality(own) >= recoveryHistorySize THEN pending \ own ELSE pending)
                    \cup {<<p, u>>}
  /\ UNCHANGED <<active, identities, historyVars, ready, deliveries, at, mu, read>>

(* Pion answers it with a success: the path belongs to u while u is registered. *)
confirmBinding(p, u) ==
  /\ mu = None
  /\ <<p, u>> \in pending
  /\ pending' = pending \ {<<p, u>>}
  /\ LET own == {q \in Path : ConnOf[q] = ConnOf[p] /\ identities[q] # None}
         full == Cardinality(own) >= recoveryHistorySize
     IN  identities' = IF u \notin active THEN identities
                       ELSE [q \in Path |-> IF q = p THEN u
                                            ELSE IF full /\ q \in own THEN None
                                            ELSE identities[q]]
  /\ UNCHANGED <<active, historyVars, ready, deliveries, at, mu, read>>

GetConn(u) ==
  /\ mu = None
  /\ active' = active \cup {u}
  /\ UNCHANGED <<pending, identities, historyVars, ready, deliveries, at, mu, read>>

(* Mutant: the order of the packets is left alone. *)
RemoveConnPackets(u) ==
  /\ mu = None
  /\ active' = active \ {u}
  /\ ready' = {r \in ready : r[2][1] # u}
  /\ identities' = [p \in Path |-> IF identities[p] = u THEN None ELSE identities[p]]
  /\ pending' = {b \in pending : b[2] # u}
  /\ deliveries' = [p \in Path |-> IF deliveries[p] = u THEN None ELSE deliveries[p]]
  /\ packets' = {id \in packets : id[1] # u}
  /\ streams' = [v \in DOMAIN streams \ {u} |-> streams[v]]
  /\ groups' = {g \in groups : g.of # u}
  /\ groupOrder' = Without(groupOrder, u) /\ groupHead' = 0
  /\ UNCHANGED <<packetOrder, at, mu, read>>

RemoveConnByUfrag(u) ==
  /\ mu = None
  /\ active' = active \ {u}
  /\ ready' = {r \in ready : r[2][1] # u}
  /\ identities' = [p \in Path |-> IF identities[p] = u THEN None ELSE identities[p]]
  /\ pending' = {b \in pending : b[2] # u}
  /\ deliveries' = [p \in Path |-> IF deliveries[p] = u THEN None ELSE deliveries[p]]
  /\ packets' = {id \in packets : id[1] # u}
  /\ packetOrder' = Without(packetOrder, u)
  /\ streams' = [v \in DOMAIN streams \ {u} |-> streams[v]]
  /\ groups' = {g \in groups : g.of # u}
  /\ groupOrder' = Without(groupOrder, u) /\ groupHead' = 0
  /\ UNCHANGED <<at, mu, read>>

-----------------------------------------------------------------------------
Visit(c) == \E g \in groups : VisitKeep(c, g) \/ VisitDrop(c, g) \/ VisitRepair(c, g)
Consume(c, p) ==
  \E u \in Ufrag : \E g \in Parity[u] :
    ParityUseless(c, p, g) \/ ParityRepairs(c, p, g) \/ ParityWaits(c, p, g)

RecoveryNext ==
  \/ \E c \in Conn :
       \/ popReady(c) \/ remember(c) \/ Bypass(c) \/ Visit(c) \/ Remembered(c) \/ Receipt(c)
       \/ \E p \in Path : Consume(c, p) \/ \E n \in Number : ReadRTP(c, p, n)
  \/ \E p \in Path : \E u \in Claims[p] : rememberBinding(p, u) \/ confirmBinding(p, u)
  \/ \E u \in Ufrag : GetConn(u) \/ RemoveConnByUfrag(u)

RecoverySpec == RecoveryInit /\ [][RecoveryNext]_recoveryVars

-----------------------------------------------------------------------------
InHand == [step : {"remember", "visit", "receipt"}, path : Path, id : Packet]

(* The maps stay within their limits, and the orders they are evicted in list  *)
(* what they hold.  storePacketLocked evicts packetOrder[packetHead] until the *)
(* map is small enough: an entry too few and it would run off the end, one too *)
(* many and it would evict a newer packet.  Every stored group is on the order *)
(* of storeGroupLocked, which completed groups do not make grow.               *)
OrdersExact ==
  /\ Elems(packetOrder) = packets
  /\ Len(packetOrder) = Cardinality(packets) /\ Cardinality(packets) <= recoveryHistorySize
  /\ {GroupID(g) : g \in groups} \subseteq Elems(groupOrder)
  /\ groupHead + Len(groupOrder) <= 2 * recoveryGroupLimit
  /\ Cardinality(groups) <= recoveryGroupLimit
  /\ Cardinality(DOMAIN streams) <= recoveryStreamLimit

(* A packet in the history, received or rebuilt, is never asked for again. *)
NeverRequestsHeld ==
  \A u \in DOMAIN streams : \A n \in streams[u].missing : <<u, n>> \notin packets

(* Nothing of a removed ufrag comes back: RemoveConnByUfrag clears it and no   *)
(* reader that looked up the identity before, no late binding answer and no    *)
(* receipt brings it back, so that a path used again starts with no history.   *)
NoResidue ==
  /\ \A id \in packets : id[1] \in active
  /\ DOMAIN streams \subseteq active
  /\ \A g \in groups : g.of \in active
  /\ \A r \in ready : r[2][1] \in active
  /\ \A p \in Path : identities[p] \in active \cup {None} /\ deliveries[p] \in active \cup {None}

(* A group that shares no packet with another is not left waiting when its     *)
(* parity would do: whenever the mutex is free it lacks two packets or more.   *)
PendingShort ==
  mu = None =>
    \A g \in groups :
      (\A h \in Parity[g.of] \ {g} : g.covers \cap h.covers = {}) => Cardinality(Lacks(g)) >= 2
=============================================================================
