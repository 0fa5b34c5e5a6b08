--------------------------- MODULE RecoveryProofs ---------------------------
(***************************************************************************)
(* Proofs about packet recovery, for any agents, sockets, traffic and      *)
(* limits: what is forgotten stays forgotten, what is held is not asked    *)
(* for, the orders of eviction are exact and no parity that would do is    *)
(* left waiting.                                                           *)
(***************************************************************************)
EXTENDS Recovery, FiniteSetTheorems, WellFoundedInduction, TLAPS

(* The types the argument needs, and the two properties. *)
Shape ==
  /\ active \in SUBSET Ufrag
  /\ \A u \in DOMAIN streams : streams[u] \in Stream
  /\ at \in [Conn -> InHand \cup {None}]

RecoveryInv == Shape /\ NoResidue /\ NeverRequestsHeld

-----------------------------------------------------------------------------
(* The orders of eviction.  A set of naturals has a least element.  *)
LEMMA LeastIsIn ==
  ASSUME NEW S \in SUBSET Nat, S # {}
  PROVE  Least(S) \in S /\ \A l \in S : Least(S) <= l
  <1> DEFINE R == OpToRel(<, Nat)
  <1>1. IsWellFoundedOn(R, Nat)
    BY NatLessThanWellFounded, Zenon
  <1>2. \A a, b \in Nat : <<a, b>> \in R <=> a < b
    BY DEF OpToRel
  <1> HIDE DEF R
  <1>3. PICK k \in S : \A l \in S : ~(<<l, k>> \in R)
    BY <1>1, WFMin, Zenon
  <1>4. \A l \in S : ~(l < k)
    BY <1>2, <1>3, Zenon
  <1>5. k \in Nat /\ \A l \in S : l \in Nat
    OBVIOUS
  <1>6. \A l \in S : k <= l
    BY <1>4, <1>5
  <1> QED BY <1>6, Zenon DEF Least

(* The order q lists each member of S once. *)
Lists(q, S) ==
  /\ q \in Seq(S)
  /\ Elems(q) = S
  /\ \A i, j \in DOMAIN q : q[i] = q[j] => i = j

LEMMA ListedOnce ==
  ASSUME NEW S, NEW q, Lists(q, S)
  PROVE  IsFiniteSet(S) /\ Cardinality(S) = Len(q)
  <1>1. q \in Bijection(1 .. Len(q), S)
    BY DEF Lists, Elems, Bijection, Injection, Surjection, IsInjective
  <1>2. ExistsBijection(1 .. Len(q), S) /\ Len(q) \in Nat
    BY <1>1 DEF ExistsBijection, Lists
  <1> QED BY <1>2, FS_CountingElements, FS_NatBijection

LEMMA ListsAppend ==
  ASSUME NEW S, NEW q, Lists(q, S), NEW x, x \notin S
  PROVE  Lists(Append(q, x), S \cup {x})
  <1> DEFINE a == Append(q, x)
  <1>1. /\ a \in Seq(S \cup {x}) /\ DOMAIN a = 1 .. Len(q) + 1 /\ Len(q) \in Nat
        /\ a[Len(q) + 1] = x /\ \A i \in 1 .. Len(q) : a[i] = q[i]
    BY DEF Lists
  <1>2. DOMAIN q = 1 .. Len(q) /\ \A i \in DOMAIN q : q[i] \in S
    BY DEF Lists
  <1> HIDE DEF a
  <1>3. Elems(a) = S \cup {x}
    BY <1>1, <1>2 DEF Lists, Elems
  <1>4. \A i, j \in DOMAIN a : a[i] = a[j] => i = j
    BY <1>1, <1>2 DEF Lists
  <1> QED BY <1>1, <1>3, <1>4 DEF Lists, a

LEMMA DropIs ==
  ASSUME NEW S, NEW q \in Seq(S), NEW k \in 0 .. Len(q)
  PROVE  /\ Drop(q, k) \in Seq(S) /\ Len(Drop(q, k)) = Len(q) - k
         /\ \A i \in 1 .. Len(q) - k : Drop(q, k)[i] = q[i + k]
  BY DEF Drop

LEMMA ListsDrop ==
  ASSUME NEW S, NEW q, Lists(q, S), NEW k \in 0 .. Len(q)
  PROVE  Lists(Drop(q, k), S \ First(q, k))
  <1> DEFINE d == Drop(q, k)
  <1>1. q \in Seq(S) /\ DOMAIN q = 1 .. Len(q) /\ Len(q) \in Nat /\ Elems(q) = S
    BY DEF Lists
  <1>2. /\ d \in Seq(S) /\ DOMAIN d = 1 .. Len(q) - k /\ Len(d) = Len(q) - k
        /\ \A i \in 1 .. Len(q) - k : d[i] = q[i + k]
    <2>1. /\ d \in Seq(S) /\ Len(d) = Len(q) - k
          /\ \A i \in 1 .. Len(q) - k : d[i] = q[i + k]
      BY <1>1, DropIs, Zenon
    <2> HIDE DEF d
    <2> QED BY <2>1, SMTT(30)
  <1> HIDE DEF d
  <1>3. \A i, j \in DOMAIN d : d[i] = d[j] => i = j
    <2> TAKE i, j \in DOMAIN d
    <2>1. i + k \in DOMAIN q /\ j + k \in DOMAIN q /\ d[i] = q[i + k] /\ d[j] = q[j + k]
      BY <1>1, <1>2
    <2>2. i + k = j + k => i = j
      BY <1>2
    <2> QED BY <2>1, <2>2, Zenon DEF Lists
  <1>4. Elems(d) = S \ First(q, k)
    <2>1. ASSUME NEW i \in DOMAIN d PROVE d[i] \in S \ First(q, k)
      <3>1. i + k \in DOMAIN q /\ d[i] = q[i + k] /\ i + k \notin 1 .. k
        BY <1>1, <1>2, <2>1
      <3>2. \A j \in 1 .. k : q[j] # q[i + k]
        BY <1>1, <3>1 DEF Lists
      <3> QED BY <1>1, <3>1, <3>2 DEF First, Elems
    <2>2. ASSUME NEW x \in S \ First(q, k) PROVE x \in Elems(d)
      <3>1. PICK j \in DOMAIN q : q[j] = x
        BY <1>1 DEF Elems
      <3>2. j \notin 1 .. k
        BY <3>1 DEF First
      <3>3. j - k \in DOMAIN d /\ d[j - k] = q[j]
        BY <1>1, <1>2, <3>2
      <3> QED BY <3>1, <3>3 DEF Elems
    <2> QED BY <2>1, <2>2 DEF Elems
  <1>5. d \in Seq(S \ First(q, k))
    <2>1. \A i \in 1 .. Len(d) : d[i] \in S \ First(q, k)
      BY <1>2, <1>4 DEF Elems
    <2>2. d \in [1 .. Len(d) -> S \ First(q, k)] /\ Len(d) \in Nat
      BY <1>2, <2>1
    <2> QED BY <2>2
  <1> QED BY <1>3, <1>4, <1>5 DEF Lists, d

(* The loop for len(map) > limit stops, with the map small enough, before it   *)
(* runs off an order that lists all the keys.                                  *)
LEMMA EvictedFits ==
  ASSUME NEW T, NEW order \in Seq(T), NEW keys, keys \subseteq Elems(order), NEW limit \in Nat
  PROVE  LET k == Evicted(keys, order, limit)
         IN  k \in 0 .. Len(order) /\ Cardinality(keys \ First(order, k)) <= limit
  <1> DEFINE K == {k \in 0 .. Len(order) : Cardinality(keys \ First(order, k)) <= limit}
                    \cup {Len(order)}
  <1>1. K \in SUBSET Nat /\ K # {} /\ K \subseteq 0 .. Len(order)
    OBVIOUS
  <1>2. Cardinality(keys \ First(order, Len(order))) <= limit
    <2>1. First(order, Len(order)) = Elems(order)
      BY DEF First, Elems
    <2> DEFINE left == keys \ First(order, Len(order))
    <2>2. left = {}
      BY <2>1
    <2> HIDE DEF left
    <2>3. Cardinality(left) <= limit
      BY <2>2, FS_EmptySet
    <2> QED BY <2>3 DEF left
  <1>3. \A k \in K : Cardinality(keys \ First(order, k)) <= limit
    BY <1>2, Zenon
  <1>4. Evicted(keys, order, limit) = Least(K)
    BY DEF Evicted
  <1> HIDE DEF K
  <1>5. Least(K) \in K
    BY <1>1, LeastIsIn
  <1> QED BY <1>1, <1>3, <1>4, <1>5, Zenon

LEMMA Places == \A m \in Nat : IsFiniteSet(1 .. m) /\ Cardinality(1 .. m) = m
  <1> TAKE m \in Nat
  <1>1. /\ IsFiniteSet(1 .. m)
        /\ Cardinality(1 .. m) = IF 1 > m THEN 0 ELSE m - 1 + 1
    BY FS_Interval
  <1> QED BY <1>1

(* Kept lists the entries at the positions I: counting the positions up to one *)
(* gives each its place, and every place is taken.                             *)
LEMMA KeptIs ==
  ASSUME NEW T, NEW q \in Seq(T), NEW I \in SUBSET DOMAIN q
  PROVE  /\ IsFiniteSet(I) /\ Cardinality(I) \in 0 .. Len(q)
         /\ Kept(q, I) \in Seq(T) /\ Len(Kept(q, I)) = Cardinality(I)
         /\ Elems(Kept(q, I)) = {q[i] : i \in I}
         /\ (\A i, j \in I : q[i] = q[j] => i = j) =>
              \A k, l \in DOMAIN Kept(q, I) : Kept(q, I)[k] = Kept(q, I)[l] => k = l
  <1> DEFINE n == Cardinality(I)
             upTo(i) == {j \in I : j <= i}
             place == [i \in I |-> Cardinality(upTo(i))]
             nth(k) == CHOOSE i \in I : Cardinality(upTo(i)) = k
  <1>1. I \in SUBSET (1 .. Len(q)) /\ Len(q) \in Nat /\ I \in SUBSET Nat
    OBVIOUS
  <1>2. IsFiniteSet(I) /\ n \in Nat /\ n <= Len(q)
    <2>1. IsFiniteSet(1 .. Len(q)) /\ Cardinality(1 .. Len(q)) = Len(q)
      BY <1>1, Places
    <2> QED BY <1>1, <2>1, FS_Subset, FS_CardinalityType
  <1>3. \A i \in I : IsFiniteSet(upTo(i)) /\ Cardinality(upTo(i)) \in 1 .. n
    <2> TAKE i \in I
    <2>1. upTo(i) \in SUBSET I /\ upTo(i) # {}
      BY <1>1
    <2> HIDE DEF upTo
    <2>2. IsFiniteSet(upTo(i)) /\ Cardinality(upTo(i)) <= n
      BY <1>2, <2>1, FS_Subset
    <2>3. Cardinality(upTo(i)) \in Nat /\ Cardinality(upTo(i)) # 0
      BY <2>1, <2>2, FS_CardinalityType, FS_EmptySet
    <2> QED BY <1>2, <2>2, <2>3
  <1>4. ASSUME NEW i \in I, NEW j \in I, Cardinality(upTo(i)) = Cardinality(upTo(j)) PROVE i = j
    <2>1. ASSUME NEW a \in I, NEW b \in I, a < b, Cardinality(upTo(a)) = Cardinality(upTo(b))
          PROVE  FALSE
      <3>1. upTo(a) \in SUBSET upTo(b) /\ b \in upTo(b) /\ b \notin upTo(a)
        BY <1>1, <2>1
      <3>2. IsFiniteSet(upTo(b))
        BY <1>3
      <3> HIDE DEF upTo
      <3> QED BY <2>1, <3>1, <3>2, FS_Subset
    <2>2. i < j \/ j < i \/ i = j
      BY <1>1
    <2> HIDE DEF upTo
    <2> QED BY <1>4, <2>1, <2>2
  <1>5. place \in Injection(I, 1 .. n)
    <2>1. place \in [I -> 1 .. n]
      BY <1>3, Zenon
    <2>2. \A i, j \in I : place[i] = place[j] => i = j
      BY <1>4
    <2> HIDE DEF place
    <2> QED BY <2>1, <2>2 DEF Injection, IsInjective
  <1>6. place \in Surjection(I, 1 .. n)
    <2>1. IsFiniteSet(1 .. n) /\ Cardinality(1 .. n) = n
      BY <1>2, Places
    <2> HIDE DEF place
    <2> QED BY <1>5, <2>1, FS_Injection
  <1>7. \A k \in 1 .. n : nth(k) \in I /\ Cardinality(upTo(nth(k))) = k
    <2> SUFFICES ASSUME NEW k \in 1 .. n
                 PROVE  nth(k) \in I /\ Cardinality(upTo(nth(k))) = k
      BY Zenon
    <2>1. \E i \in I : place[i] = k
      <3> HIDE DEF place
      <3> QED BY <1>6 DEF Surjection
    <2>2. \E i \in I : Cardinality(upTo(i)) = k
      BY <2>1, Zenon
    <2> HIDE DEF upTo
    <2> QED BY <2>2
  <1>8. \A i \in I : Cardinality(upTo(i)) \in 1 .. n /\ nth(Cardinality(upTo(i))) = i
    BY <1>3, <1>4, <1>7, Zenon
  <1>9. Kept(q, I) = [k \in 1 .. n |-> q[nth(k)]]
    BY DEF Kept
  <1> HIDE DEF nth, n, place
  <1> DEFINE r == Kept(q, I)
  <1>10. \A k \in 1 .. n : r[k] = q[nth(k)] /\ r[k] \in T
    <2> TAKE k \in 1 .. n
    <2>1. nth(k) \in DOMAIN q
      BY <1>7, Zenon
    <2>2. q[nth(k)] \in T
      BY <2>1
    <2> QED BY <1>9, <2>2
  <1>11. r \in Seq(T) /\ Len(r) = n /\ DOMAIN r = 1 .. n
    BY <1>2, <1>9, <1>10
  <1> HIDE DEF r, upTo
  <1>12. Elems(r) = {q[i] : i \in I}
    BY <1>7, <1>8, <1>10, <1>11 DEF Elems
  <1>13. (\A i, j \in I : q[i] = q[j] => i = j) => \A k, l \in DOMAIN r : r[k] = r[l] => k = l
    BY <1>7, <1>10, <1>11
  <1> QED BY <1>2, <1>11, <1>12, <1>13 DEF n, r

(* Removing one ufrag's entries keeps the order exact. *)
LEMMA ListsWithout ==
  ASSUME NEW S, NEW q, Lists(q, S), NEW u
  PROVE  Lists(Without(q, u), {x \in S : x[1] # u})
  <1> DEFINE I == {i \in DOMAIN q : q[i][1] # u}
             r == Kept(q, I)
             R == {x \in S : x[1] # u}
  <1>1. /\ r \in Seq(S) /\ Elems(r) = {q[i] : i \in I}
        /\ \A k, l \in DOMAIN r : r[k] = r[l] => k = l
    <2>1. q \in Seq(S) /\ I \in SUBSET DOMAIN q /\ \A i, j \in I : q[i] = q[j] => i = j
      BY DEF Lists
    <2> HIDE DEF I
    <2> QED BY <2>1, KeptIs
  <1>2. {q[i] : i \in I} = R
    BY DEF Lists, Elems
  <1> HIDE DEF I, R, r
  <1>3. \A i \in 1 .. Len(r) : r[i] \in R
    BY <1>1, <1>2 DEF Elems
  <1>4. r \in [1 .. Len(r) -> R] /\ Len(r) \in Nat
    BY <1>1, <1>3
  <1>5. r \in Seq(R)
    BY <1>4
  <1> QED BY <1>1, <1>2, <1>5, Zenon DEF Lists, Without, I, r, R

-----------------------------------------------------------------------------
(* The orders list what the maps hold, and the maps stay within their limits. *)
PacketsListed == Lists(packetOrder, packets) /\ Cardinality(packets) <= recoveryHistorySize

IDs(G) == {GroupID(g) : g \in G}
GroupsListed ==
  /\ \A g \in groups : g.of \in Ufrag /\ g \in Parity[g.of]
  /\ \A g, h \in groups : GroupID(g) = GroupID(h) => g = h
  /\ IsFiniteSet(groups) /\ Cardinality(groups) <= recoveryGroupLimit
  /\ groupOrder \in Seq(Packet) /\ groupHead \in Nat
  /\ IDs(groups) \subseteq Elems(groupOrder)
  /\ groupHead + Len(groupOrder) <= 2 * recoveryGroupLimit

StreamsBounded ==
  IsFiniteSet(DOMAIN streams) /\ Cardinality(DOMAIN streams) <= recoveryStreamLimit

OrderInv == PacketsListed /\ GroupsListed /\ StreamsBounded

(* storePacketLocked keeps the order exact. *)
LEMMA StoreListed ==
  ASSUME PacketsListed, NEW id, storePacket(id)
  PROVE  PacketsListed'
  <1>1. CASE id \in packets
    BY <1>1 DEF storePacket, PacketsListed
  <1>2. CASE id \notin packets
    <2> DEFINE order == Append(packetOrder, id)
               keys == packets \cup {id}
               k == Evicted(keys, order, recoveryHistorySize)
    <2>1. packets' = keys \ First(order, k) /\ packetOrder' = Drop(order, k)
      BY <1>2 DEF storePacket
    <2>2. Lists(order, keys)
      BY <1>2, ListsAppend DEF PacketsListed
    <2> HIDE DEF order, keys
    <2>3. order \in Seq(keys) /\ keys \subseteq Elems(order)
      BY <2>2 DEF Lists
    <2>4. k \in 0 .. Len(order) /\ Cardinality(keys \ First(order, k)) <= recoveryHistorySize
      BY <2>3, EvictedFits, LimitTypes, Zenon
    <2> HIDE DEF k
    <2>5. Lists(Drop(order, k), keys \ First(order, k))
      BY <2>2, <2>4, ListsDrop
    <2> QED BY <2>1, <2>4, <2>5 DEF PacketsListed
  <1> QED BY <1>1, <1>2

(* Groups with names of their own are as many as their names. *)
LEMMA GroupsCounted ==
  ASSUME NEW G, \A g, h \in G : GroupID(g) = GroupID(h) => g = h,
         IsFiniteSet(G) \/ IsFiniteSet(IDs(G))
  PROVE  IsFiniteSet(G) /\ IsFiniteSet(IDs(G)) /\ Cardinality(G) = Cardinality(IDs(G))
  <1> DEFINE name == [g \in G |-> GroupID(g)]
  <1>1. name \in [G -> IDs(G)] /\ \A g \in G : name[g] = GroupID(g)
    BY DEF IDs
  <1> HIDE DEF name
  <1>2. name \in Surjection(G, IDs(G))
    BY <1>1 DEF Surjection, IDs
  <1>3. name \in Injection(G, IDs(G))
    BY <1>1 DEF Injection, IsInjective
  <1>4. CASE IsFiniteSet(G)
    BY <1>2, <1>3, <1>4, FS_Surjection
  <1>5. CASE IsFiniteSet(IDs(G))
    BY <1>2, <1>3, <1>5, FS_Injection
  <1> QED BY <1>4, <1>5

(* Compaction leaves every stored name on the order, and room for one more. *)
LEMMA CompactedFits ==
  ASSUME GroupsListed
  PROVE  /\ Compacted.order \in Seq(Packet) /\ Compacted.head \in Nat
         /\ IDs(groups) \subseteq Elems(Compacted.order)
         /\ Compacted.head + Len(Compacted.order) < 2 * recoveryGroupLimit
  <1> DEFINE ids == IDs(groups)
             first == {i \in DOMAIN groupOrder :
                         /\ groupOrder[i] \in ids
                         /\ \A j \in 1 .. i - 1 : groupOrder[j] # groupOrder[i]}
             r == Kept(groupOrder, first)
  <1>1. CASE groupHead + Len(groupOrder) < 2 * recoveryGroupLimit
    <2>1. Compacted = [order |-> groupOrder, head |-> groupHead]
      BY <1>1 DEF Compacted
    <2> QED BY <1>1, <2>1 DEF GroupsListed
  <1>2. CASE ~(groupHead + Len(groupOrder) < 2 * recoveryGroupLimit)
    <2>1. Compacted = [order |-> r, head |-> 0]
      BY <1>2 DEF Compacted, IDs
    <2>2. groupOrder \in Seq(Packet) /\ DOMAIN groupOrder = 1 .. Len(groupOrder)
      BY DEF GroupsListed
    <2>3. first \in SUBSET DOMAIN groupOrder
      OBVIOUS
    <2>4. \A i, j \in first : groupOrder[i] = groupOrder[j] => i = j
      <3> SUFFICES ASSUME NEW i \in first, NEW j \in first, groupOrder[i] = groupOrder[j], i # j
                   PROVE  FALSE
        OBVIOUS
      <3>1. i \in 1 .. j - 1 \/ j \in 1 .. i - 1
        BY <2>2
      <3> QED BY <3>1
    <2>5. \A x \in ids : \E i \in first : groupOrder[i] = x
      <3> TAKE x \in ids
      <3> DEFINE A == {i \in DOMAIN groupOrder : groupOrder[i] = x}
      <3>1. A \in SUBSET Nat /\ A # {}
        BY <2>2 DEF GroupsListed, Elems
      <3> HIDE DEF A
      <3>2. Least(A) \in A /\ \A l \in A : Least(A) <= l
        BY <3>1, LeastIsIn
      <3>3. Least(A) \in DOMAIN groupOrder /\ groupOrder[Least(A)] = x
        BY <3>2 DEF A
      <3>4. \A j \in 1 .. Least(A) - 1 : j \in DOMAIN groupOrder /\ j \notin A
        BY <2>2, <3>2, <3>3
      <3>5. \A j \in 1 .. Least(A) - 1 : groupOrder[j] # x
        BY <3>4 DEF A
      <3> QED BY <3>3, <3>5
    <2>6. \A i \in first : groupOrder[i] \in ids
      OBVIOUS
    <2> HIDE DEF first
    <2>7. /\ IsFiniteSet(first) /\ Cardinality(first) \in Nat
          /\ r \in Seq(Packet) /\ Len(r) = Cardinality(first)
          /\ Elems(r) = {groupOrder[i] : i \in first}
      BY <2>2, <2>3, KeptIs
    <2>8. Cardinality(first) <= Cardinality(ids)
      <3> DEFINE f == [i \in first |-> groupOrder[i]]
      <3>1. f \in Injection(first, ids)
        BY <2>4, <2>6 DEF Injection, IsInjective
      <3>2. IsFiniteSet(ids)
        BY GroupsCounted DEF GroupsListed
      <3> HIDE DEF f, ids
      <3> QED BY <3>1, <3>2, FS_Injection
    <2>9. Cardinality(ids) = Cardinality(groups)
      BY GroupsCounted DEF GroupsListed
    <2>10. Len(r) <= recoveryGroupLimit /\ Len(r) < 2 * recoveryGroupLimit
      <3>1. Cardinality(groups) \in Nat /\ Cardinality(groups) <= recoveryGroupLimit
        BY FS_CardinalityType DEF GroupsListed
      <3> HIDE DEF r, ids
      <3> QED BY <2>7, <2>8, <2>9, <3>1, LimitTypes
    <2>11. ids \subseteq Elems(r)
      BY <2>5, <2>7
    <2> HIDE DEF r, ids
    <2> QED BY <2>1, <2>7, <2>10, <2>11 DEF ids
  <1> QED BY <1>1, <1>2

(* storeGroupLocked: the names evicted are the ones that leave the map. *)
LEMMA StoreGroupListed ==
  ASSUME GroupsListed, NEW g, g.of \in Ufrag, g \in Parity[g.of], storeGroup(g)
  PROVE  GroupsListed'
  <1> DEFINE C == Compacted
             known == \E h \in groups : GroupID(h) = GroupID(g)
             stored == {h \in groups : GroupID(h) # GroupID(g)} \cup {g}
             order == IF known THEN C.order ELSE Append(C.order, GroupID(g))
             k == Evicted(IDs(stored), order, recoveryGroupLimit)
             left == {h \in stored : GroupID(h) \notin First(order, k)}
  <1>1. /\ groups' = left /\ groupOrder' = Drop(order, k)
        /\ groupHead' = IF C.head + k >= recoveryGroupLimit THEN 0 ELSE C.head + k
    BY DEF storeGroup, IDs
  <1>2. /\ C.order \in Seq(Packet) /\ C.head \in Nat /\ IDs(groups) \subseteq Elems(C.order)
        /\ C.head + Len(C.order) < 2 * recoveryGroupLimit
    BY CompactedFits
  <1>3. GroupID(g) \in Packet
    BY Traffic DEF GroupID, Packet
  <1> HIDE DEF C
  <1>4. /\ order \in Seq(Packet) /\ C.head + Len(order) <= 2 * recoveryGroupLimit
        /\ IDs(stored) \subseteq Elems(order)
    <2>1. CASE known
      <3>1. IDs(stored) \subseteq IDs(groups)
        BY <2>1 DEF IDs
      <3> QED BY <1>2, <2>1, <3>1, LimitTypes
    <2>2. CASE ~known
      <3> DEFINE a == Append(C.order, GroupID(g))
      <3>1. /\ a \in Seq(Packet) /\ Len(a) = Len(C.order) + 1 /\ Len(C.order) \in Nat
            /\ a[Len(C.order) + 1] = GroupID(g)
            /\ \A i \in 1 .. Len(C.order) : a[i] = C.order[i]
        BY <1>2, <1>3
      <3>2. order = a
        BY <2>2
      <3> HIDE DEF a, order
      <3>3. Elems(C.order) \cup {GroupID(g)} \subseteq Elems(a)
        <4>1. DOMAIN a = 1 .. Len(C.order) + 1 /\ DOMAIN C.order = 1 .. Len(C.order)
          BY <1>2, <3>1
        <4>2. \A i \in DOMAIN C.order : i \in DOMAIN a /\ a[i] = C.order[i]
          BY <3>1, <4>1
        <4>3. Len(C.order) + 1 \in DOMAIN a
          BY <3>1, <4>1
        <4> QED BY <3>1, <4>2, <4>3 DEF Elems
      <3>4. IDs(stored) \subseteq IDs(groups) \cup {GroupID(g)}
        BY DEF IDs
      <3>5. C.head + Len(a) <= 2 * recoveryGroupLimit
        BY <1>2, <3>1, LimitTypes
      <3> HIDE DEF stored
      <3> QED BY <1>2, <3>1, <3>2, <3>3, <3>4, <3>5
    <2> QED BY <2>1, <2>2
  <1>5. \A a, b \in stored : GroupID(a) = GroupID(b) => a = b
    BY DEF GroupsListed
  <1>6. \A h \in stored : h.of \in Ufrag /\ h \in Parity[h.of]
    BY DEF GroupsListed
  <1>7. IsFiniteSet(stored)
    <2> DEFINE others == {h \in groups : GroupID(h) # GroupID(g)}
    <2>1. IsFiniteSet(others)
      BY FS_Subset DEF GroupsListed
    <2> HIDE DEF others
    <2>2. IsFiniteSet(others \cup {g})
      BY <2>1, FS_AddElement
    <2> QED BY <2>2 DEF others
  <1> HIDE DEF order, stored, known
  <1>8. /\ k \in 0 .. Len(order)
        /\ Cardinality(IDs(stored) \ First(order, k)) <= recoveryGroupLimit
    BY <1>4, EvictedFits, LimitTypes
  <1> HIDE DEF k
  <1>9. IDs(left) = IDs(stored) \ First(order, k) /\ left \in SUBSET stored
    BY DEF IDs
  <1> HIDE DEF left
  <1>10. IsFiniteSet(left) /\ Cardinality(left) <= recoveryGroupLimit
    <2>1. IsFiniteSet(left)
      BY <1>7, <1>9, FS_Subset
    <2>2. Cardinality(left) = Cardinality(IDs(left))
      BY <1>5, <1>9, <2>1, GroupsCounted
    <2> QED BY <1>8, <1>9, <2>1, <2>2
  <1> DEFINE d == Drop(order, k)
  <1>11. /\ d \in Seq(Packet) /\ Len(d) = Len(order) - k
         /\ \A i \in 1 .. Len(order) - k : d[i] = order[i + k]
    BY <1>4, <1>8, DropIs
  <1> HIDE DEF d
  <1>12. IDs(left) \subseteq Elems(d)
    <2> SUFFICES ASSUME NEW x \in IDs(stored), x \notin First(order, k) PROVE x \in Elems(d)
      BY <1>9
    <2>1. PICK j \in DOMAIN order : order[j] = x
      BY <1>4 DEF Elems
    <2>2. j \in 1 .. Len(order) /\ j \notin 1 .. k
      BY <1>4, <2>1 DEF First
    <2>3. j - k \in 1 .. Len(order) - k /\ d[j - k] = order[j]
      BY <1>4, <1>8, <1>11, <2>2
    <2>4. j - k \in DOMAIN d
      BY <1>11, <2>3
    <2> QED BY <2>1, <2>3, <2>4 DEF Elems
  <1>13. groupHead' \in Nat /\ groupHead' + Len(d) <= 2 * recoveryGroupLimit
    <2>1. Len(order) \in Nat
      BY <1>4
    <2>2. Len(d) = Len(order) - k
      BY <1>11, Zenon
    <2> QED BY <1>1, <1>2, <1>4, <1>8, <2>1, <2>2, LimitTypes, SMTT(30)
  <1>14. groups' = left /\ groupOrder' = d
    BY <1>1 DEF d
  <1> QED BY <1>5, <1>6, <1>9, <1>10, <1>11, <1>12, <1>13, <1>14, Zenon DEF GroupsListed

(* A group that leaves makes a hole in the order, nothing else. *)
LEMMA GroupsShrink ==
  ASSUME GroupsListed, groups' \subseteq groups, UNCHANGED <<groupOrder, groupHead>>
  PROVE  GroupsListed'
  <1>1. IsFiniteSet(groups') /\ Cardinality(groups') <= recoveryGroupLimit
    <2>1. /\ IsFiniteSet(groups') /\ Cardinality(groups') <= Cardinality(groups)
          /\ Cardinality(groups) <= recoveryGroupLimit
      BY FS_Subset DEF GroupsListed
    <2>2. Cardinality(groups') \in Nat /\ Cardinality(groups) \in Nat
      BY <2>1, FS_CardinalityType DEF GroupsListed
    <2> QED BY <2>1, <2>2, LimitTypes
  <1>2. IDs(groups') \subseteq Elems(groupOrder)
    BY DEF GroupsListed, IDs
  <1> QED BY <1>1, <1>2 DEF GroupsListed

(* RemoveConnByUfrag takes a ufrag's groups from the map and from the order. *)
LEMMA GroupsWithout ==
  ASSUME GroupsListed, NEW u, groups' = {g \in groups : g.of # u},
         groupOrder' = Without(groupOrder, u), groupHead' = 0
  PROVE  GroupsListed'
  <1> DEFINE I == {i \in DOMAIN groupOrder : groupOrder[i][1] # u}
             r == Kept(groupOrder, I)
  <1>1. /\ groupOrder \in Seq(Packet) /\ groupHead \in Nat
        /\ groupHead + Len(groupOrder) <= 2 * recoveryGroupLimit
    BY DEF GroupsListed
  <1>2. I \in SUBSET DOMAIN groupOrder
    OBVIOUS
  <1>3. \A g \in groups : g.of # u => \E i \in I : groupOrder[i] = GroupID(g)
    <2> SUFFICES ASSUME NEW g \in groups, g.of # u PROVE \E i \in I : groupOrder[i] = GroupID(g)
      OBVIOUS
    <2>1. PICK i \in DOMAIN groupOrder : groupOrder[i] = GroupID(g)
      BY DEF GroupsListed, IDs, Elems
    <2>2. GroupID(g)[1] = g.of
      BY DEF GroupID
    <2> QED BY <2>1, <2>2
  <1> HIDE DEF I
  <1>4. /\ Cardinality(I) \in 0 .. Len(groupOrder) /\ r \in Seq(Packet)
        /\ Len(r) = Cardinality(I) /\ Elems(r) = {groupOrder[i] : i \in I}
    BY <1>1, <1>2, KeptIs
  <1>5. groupOrder' = r
    BY DEF Without, I
  <1> HIDE DEF r
  <1>6. IDs(groups') \subseteq Elems(r)
    BY <1>3, <1>4 DEF IDs
  <1>7. IsFiniteSet(groups') /\ Cardinality(groups') <= recoveryGroupLimit
    <2>1. /\ IsFiniteSet(groups') /\ Cardinality(groups') <= Cardinality(groups)
          /\ Cardinality(groups) <= recoveryGroupLimit
      BY FS_Subset DEF GroupsListed
    <2>2. Cardinality(groups') \in Nat /\ Cardinality(groups) \in Nat
      BY <2>1, FS_CardinalityType DEF GroupsListed
    <2> QED BY <2>1, <2>2, LimitTypes
  <1>8. groupHead' + Len(r) <= 2 * recoveryGroupLimit
    BY <1>1, <1>4, LimitTypes
  <1> QED BY <1>4, <1>5, <1>6, <1>7, <1>8 DEF GroupsListed

-----------------------------------------------------------------------------
(* The history grows by the stored packet at most. *)
LEMMA StoreGrows ==
  ASSUME NEW id, storePacket(id)
  PROVE  packets' \subseteq packets \cup {id}
  BY DEF storePacket

(* streamLocked adds at most an empty stream. *)
LEMMA WithStreamAdds ==
  ASSUME NEW u, NEW ss \in WithStream(u)
  PROVE  /\ DOMAIN ss \subseteq DOMAIN streams \cup {u}
         /\ u \in DOMAIN ss
         /\ \A v \in DOMAIN ss : ss[v] = NewStream \/ (v \in DOMAIN streams /\ ss[v] = streams[v])
  <1>1. CASE u \in DOMAIN streams
    BY <1>1 DEF WithStream
  <1>2. CASE u \notin DOMAIN streams
    <2>1. PICK kept \in SUBSET DOMAIN streams :
            ss = [v \in kept \cup {u} |-> IF v = u THEN NewStream ELSE streams[v]]
      BY <1>2, Zenon DEF WithStream
    <2> QED BY <2>1
  <1> QED BY <1>1, <1>2

(* An empty stream is a stream, and nothing is missing from it. *)
LEMMA NewStreamType == NewStream \in Stream /\ NewStream.missing = {}
  BY SeqModType DEF NewStream, Stream, Number

(* What the assignments to the fields of a stream leave. *)
LEMMA Missing == \A s \in Stream : s.missing \in SUBSET Number
  BY DEF Stream

LEMMA SetMissing ==
  \A s \in Stream, M \in SUBSET Number :
    [s EXCEPT !.missing = M] \in Stream /\ [s EXCEPT !.missing = M].missing = M
  BY DEF Stream

LEMMA SetEnabled ==
  \A s \in Stream : /\ [s EXCEPT !.enabled = TRUE] \in Stream
                    /\ [s EXCEPT !.enabled = TRUE].missing = s.missing
  BY Zenon DEF Stream

LEMMA SetBoth ==
  \A s \in Stream, M \in SUBSET Number :
    /\ [s EXCEPT !.enabled = TRUE, !.missing = M] \in Stream
    /\ [s EXCEPT !.enabled = TRUE, !.missing = M].missing = M
  BY Zenon DEF Stream

LEMMA SetHighest ==
  \A s \in Stream, n \in Number :
    /\ [s EXCEPT !.highest = n, !.based = TRUE] \in Stream
    /\ [s EXCEPT !.highest = n, !.based = TRUE].missing = s.missing
  BY Zenon DEF Stream

(* trackGapLocked lists only numbers that were listed or are not held. *)
LEMMA TrackGapLists ==
  ASSUME NEW s \in Stream, NEW u, NEW n \in Number, NEW held
  PROVE  /\ trackGap(s, u, n, held) \in Stream
         /\ \A m \in trackGap(s, u, n, held).missing : m \in s.missing \/ <<u, m>> \notin held
  <1> DEFINE delta == Behind(n, s.highest)
             inGap == {m \in Number : Behind(n, m) \in 1 .. recoveryHistorySize - 1
                                      /\ Behind(m, s.highest) \in 1 .. delta - 1}
             kept == {m \in s.missing : delta > 1 => Behind(n, m) < recoveryHistorySize}
             M == kept \cup {m \in inGap : <<u, m>> \notin held}
  <1>1. M \in SUBSET Number
    BY Missing
  <1>2. \A m \in M : m \in s.missing \/ <<u, m>> \notin held
    OBVIOUS
  <1>3. trackGap(s, u, n, held) \in
          {s, [s EXCEPT !.highest = n, !.based = TRUE], [s EXCEPT !.highest = n, !.missing = M]}
    BY DEF trackGap
  <1> HIDE DEF M
  <1>4. CASE trackGap(s, u, n, held) = s
    BY <1>4, Zenon
  <1>5. CASE trackGap(s, u, n, held) = [s EXCEPT !.highest = n, !.based = TRUE]
    <2>1. /\ [s EXCEPT !.highest = n, !.based = TRUE] \in Stream
          /\ [s EXCEPT !.highest = n, !.based = TRUE].missing = s.missing
      BY <1>1, SetHighest, Zenon
    <2> QED BY <1>5, <2>1, Zenon
  <1>6. CASE trackGap(s, u, n, held) = [s EXCEPT !.highest = n, !.missing = M]
    <2>1. /\ [s EXCEPT !.highest = n, !.missing = M] \in Stream
          /\ [s EXCEPT !.highest = n, !.missing = M].missing = M
      BY <1>1, Zenon DEF Stream
    <2> QED BY <1>2, <1>6, <2>1, Zenon
  <1> QED BY <1>3, <1>4, <1>5, <1>6

(* dueRepairs only drops numbers. *)
LEMMA DueRepairsDrops ==
  ASSUME NEW s \in Stream, NEW t \in dueRepairs(s)
  PROVE  t \in Stream /\ t.missing \subseteq s.missing
  <1>1. PICK dropped : t = [s EXCEPT !.missing = s.missing \ dropped]
    BY DEF dueRepairs
  <1>2. s.missing \ dropped \in SUBSET Number
    BY Missing
  <1> QED BY <1>1, <1>2, SetMissing

(* A locked region that touches the packets and the stream of one ufrag only,  *)
(* and leaves nothing held on its list, leaves nothing held on any list.       *)
LEMMA OneStream ==
  ASSUME Shape, NeverRequestsHeld, NEW u, NEW ss \in WithStream(u), NEW t \in Stream,
         streams' = [ss EXCEPT ![u] = t],
         \A id \in packets' : id \in packets \/ \E n \in Number : id = <<u, n>>,
         \A m \in t.missing : <<u, m>> \notin packets'
  PROVE  /\ \A v \in DOMAIN streams' : streams'[v] \in Stream
         /\ DOMAIN streams' \subseteq DOMAIN streams \cup {u}
         /\ NeverRequestsHeld'
  <1>1. /\ DOMAIN ss \subseteq DOMAIN streams \cup {u} /\ u \in DOMAIN ss
        /\ \A v \in DOMAIN ss : ss[v] = NewStream \/ (v \in DOMAIN streams /\ ss[v] = streams[v])
    BY WithStreamAdds
  <1>2. /\ DOMAIN streams' = DOMAIN ss /\ streams'[u] = t
        /\ \A v \in DOMAIN ss : v # u => streams'[v] = ss[v]
    BY <1>1
  <1>3. ASSUME NEW v \in DOMAIN ss, v # u
        PROVE  streams'[v] \in Stream /\ \A m \in streams'[v].missing : <<v, m>> \notin packets'
    <2>1. streams'[v] = NewStream \/ (v \in DOMAIN streams /\ streams'[v] = streams[v])
      BY <1>1, <1>2, <1>3
    <2>2. CASE streams'[v] = NewStream
      BY <2>2, NewStreamType
    <2>3. CASE v \in DOMAIN streams /\ streams'[v] = streams[v]
      BY <1>3, <2>3 DEF Shape, NeverRequestsHeld
    <2> QED BY <2>1, <2>2, <2>3
  <1> QED BY <1>1, <1>2, <1>3 DEF NeverRequestsHeld

(* A stream of streamLocked is a stream whose list holds nothing held. *)
LEMMA WithStreamType ==
  ASSUME Shape, NeverRequestsHeld, NEW u, NEW ss \in WithStream(u)
  PROVE  ss[u] \in Stream /\ \A m \in ss[u].missing : <<u, m>> \notin packets
  <1>1. u \in DOMAIN ss /\ (ss[u] = NewStream \/ (u \in DOMAIN streams /\ ss[u] = streams[u]))
    BY WithStreamAdds
  <1>2. CASE ss[u] = NewStream
    BY <1>2, NewStreamType
  <1>3. CASE u \in DOMAIN streams /\ ss[u] = streams[u]
    BY <1>3 DEF Shape, NeverRequestsHeld
  <1> QED BY <1>1, <1>2, <1>3

-----------------------------------------------------------------------------
(* remember: the arrived packet leaves the list before its gap is added to it. *)
LEMMA RememberStep ==
  ASSUME RecoveryInv, NEW c \in Conn, remember(c)
  PROVE  RecoveryInv'
  <1> DEFINE u == at[c].id[1]
             n == at[c].id[2]
  <1>1. at[c] \in InHand /\ at[c].id = <<u, n>> /\ n \in Number
    BY SMTT(30) DEF RecoveryInv, Shape, remember, InHand, Packet
  <1>2. PICK ss \in WithStream(u) :
          streams' = [ss EXCEPT ![u] =
                        trackGap([ss[u] EXCEPT !.missing = ss[u].missing \ {n}], u, n, packets')]
    BY Zenon DEF remember
  <1> DEFINE s == [ss[u] EXCEPT !.missing = ss[u].missing \ {n}]
             t == trackGap(s, u, n, packets')
  <1>3. u \in active /\ packets' \subseteq packets \cup {<<u, n>>}
    BY <1>1, StoreGrows, Zenon DEF remember
  <1>4. ss[u] \in Stream /\ \A m \in ss[u].missing : <<u, m>> \notin packets
    BY WithStreamType DEF RecoveryInv
  <1>5. s \in Stream /\ s.missing = ss[u].missing \ {n}
    BY <1>4, Missing, SetMissing, Zenon
  <1> HIDE DEF s
  <1>6. t \in Stream /\ \A m \in t.missing : m \in s.missing \/ <<u, m>> \notin packets'
    BY <1>1, <1>5, TrackGapLists
  <1>7. streams' = [ss EXCEPT ![u] = t]
    BY <1>2 DEF s
  <1> HIDE DEF t, u, n
  <1>8. \A m \in t.missing : <<u, m>> \notin packets'
    BY <1>3, <1>4, <1>5, <1>6
  <1>9. /\ \A v \in DOMAIN streams' : streams'[v] \in Stream
        /\ DOMAIN streams' \subseteq DOMAIN streams \cup {u}
        /\ NeverRequestsHeld'
    BY <1>1, <1>3, <1>6, <1>7, <1>8, OneStream, Zenon DEF RecoveryInv
  <1>10. at' \in [Conn -> InHand \cup {None}]
    BY <1>1 DEF RecoveryInv, Shape, remember, InHand
  <1>11. Shape'
    BY <1>9, <1>10, Zenon DEF RecoveryInv, Shape, remember, bindVars
  <1>12. NoResidue'
    <2>1. \A id \in packets' : id[1] \in active
      BY <1>3 DEF RecoveryInv, NoResidue
    <2>2. DOMAIN streams' \subseteq active
      BY <1>3, <1>9 DEF RecoveryInv, NoResidue
    <2> QED BY <2>1, <2>2 DEF RecoveryInv, NoResidue, remember, bindVars
  <1> QED BY <1>9, <1>11, <1>12 DEF RecoveryInv

(* A rebuilt packet enters the history and leaves the list, if there is one. *)
LEMMA VisitRepairStep ==
  ASSUME RecoveryInv, NEW c \in Conn, NEW g \in groups, VisitRepair(c, g)
  PROVE  RecoveryInv'
  <1>1. PICK n \in Lacks(g) : /\ storePacket(<<g.of, n>>)
                              /\ streams' = WithoutMissing(streams, g.of, n)
                              /\ ready' = ready \cup {<<c, <<g.of, n>>>>}
    BY DEF VisitRepair
  <1> DEFINE u == g.of
  <1>2. u \in active /\ packets' \subseteq packets \cup {<<u, n>>}
    BY <1>1, StoreGrows DEF RecoveryInv, NoResidue
  <1> HIDE DEF u
  <1>3. /\ DOMAIN streams' = DOMAIN streams
        /\ \A v \in DOMAIN streams : v # u => streams'[v] = streams[v]
        /\ u \in DOMAIN streams =>
             streams'[u] = [streams[u] EXCEPT !.missing = streams[u].missing \ {n}]
    BY <1>1, Zenon DEF WithoutMissing, u
  <1>4. u \in DOMAIN streams =>
          streams'[u] \in Stream /\ streams'[u].missing = streams[u].missing \ {n}
    <2> SUFFICES ASSUME u \in DOMAIN streams
                 PROVE  streams'[u] \in Stream /\ streams'[u].missing = streams[u].missing \ {n}
      OBVIOUS
    <2>1. streams[u] \in Stream
      BY DEF RecoveryInv, Shape
    <2>2. streams[u].missing \ {n} \in SUBSET Number
      BY <2>1, Missing
    <2>3. LET t == [streams[u] EXCEPT !.missing = streams[u].missing \ {n}]
          IN  t \in Stream /\ t.missing = streams[u].missing \ {n}
      BY <2>1, <2>2, SetMissing
    <2> QED BY <1>3, <2>3, Zenon
  <1>5. NeverRequestsHeld'
    <2> SUFFICES ASSUME NEW v \in DOMAIN streams', NEW m \in streams'[v].missing
                 PROVE  <<v, m>> \notin packets'
      BY Zenon DEF NeverRequestsHeld
    <2>1. v \in DOMAIN streams /\ m \in streams[v].missing /\ (v = u => m # n)
      BY <1>3, <1>4
    <2>2. <<v, m>> \notin packets
      BY <2>1 DEF RecoveryInv, NeverRequestsHeld
    <2> QED BY <1>2, <2>1, <2>2
  <1>6. Shape'
    BY <1>3, <1>4 DEF VisitRepair, RecoveryInv, Shape, bindVars
  <1>7. NoResidue'
    <2>1. \A id \in packets' : id[1] \in active
      BY <1>2, SMTT(30) DEF RecoveryInv, NoResidue
    <2>2. \A r \in ready' : r[2][1] \in active
      BY <1>1, <1>2, SMTT(30) DEF RecoveryInv, NoResidue, u
    <2>3. active' = active /\ identities' = identities /\ deliveries' = deliveries
          /\ groups' \subseteq groups
      BY DEF VisitRepair, bindVars
    <2> QED BY <1>3, <2>1, <2>2, <2>3 DEF RecoveryInv, NoResidue
  <1> QED BY <1>5, <1>6, <1>7, Zenon DEF RecoveryInv

(* The end of remember only forgets streams and numbers. *)
LEMMA RememberedStep ==
  ASSUME RecoveryInv, NEW c \in Conn, Remembered(c)
  PROVE  RecoveryInv'
  <1> DEFINE u == at[c].id[1]
  <1>1. PICK kept \in {S \in SUBSET DOMAIN streams : u \in S} :
          \E s \in IF streams[u].enabled THEN dueRepairs(streams[u]) ELSE {streams[u]} :
            streams' = [v \in kept |-> IF v = u THEN s ELSE streams[v]]
    BY Zenon DEF Remembered
  <1>2. PICK s : /\ s \in dueRepairs(streams[u]) \/ s = streams[u]
                 /\ streams' = [v \in kept |-> IF v = u THEN s ELSE streams[v]]
    BY <1>1
  <1> HIDE DEF u
  <1>3. streams[u] \in Stream
    BY <1>1 DEF RecoveryInv, Shape
  <1>4. s \in Stream /\ s.missing \subseteq streams[u].missing
    BY <1>2, <1>3, DueRepairsDrops
  <1>5. /\ DOMAIN streams' = kept /\ kept \subseteq DOMAIN streams
        /\ \A v \in kept : streams'[v] \in Stream /\ streams'[v].missing \subseteq streams[v].missing
    BY <1>1, <1>2, <1>4 DEF RecoveryInv, Shape
  <1>6. packets' = packets
    BY DEF Remembered
  <1>7. NeverRequestsHeld'
    BY <1>5, <1>6, Zenon DEF RecoveryInv, NeverRequestsHeld
  <1>8. Shape'
    BY <1>5 DEF Remembered, RecoveryInv, Shape, InHand, bindVars
  <1>9. NoResidue'
    BY <1>5 DEF Remembered, RecoveryInv, NoResidue, bindVars
  <1> QED BY <1>7, <1>8, <1>9 DEF RecoveryInv

(* A parity datagram is of a registered ufrag. *)
LEMMA ParityOfActive ==
  ASSUME RecoveryInv, NEW c \in Conn, NEW p \in Path, NEW g, ReadParity(c, p, g)
  PROVE  g.of \in active /\ g.covers \in SUBSET Number
  BY Traffic DEF ReadParity, RecoveryInv, Shape

(* What is left of RecoveryInv once the stream of one registered ufrag is accounted for. *)
LEMMA ParityStep ==
  ASSUME RecoveryInv, NEW c \in Conn, NEW p \in Path, NEW g, ReadParity(c, p, g),
         NEW ss \in WithStream(g.of), NEW t \in Stream,
         streams' = [ss EXCEPT ![g.of] = t],
         \A id \in packets' : id \in packets \/ \E n \in Number : id = <<g.of, n>>,
         \A m \in t.missing : <<g.of, m>> \notin packets',
         \A h \in groups' : h \in groups \/ h = g
  PROVE  RecoveryInv'
  <1>1. g.of \in active
    BY ParityOfActive, Zenon
  <1>2. /\ \A v \in DOMAIN streams' : streams'[v] \in Stream
        /\ DOMAIN streams' \subseteq DOMAIN streams \cup {g.of}
        /\ NeverRequestsHeld'
    BY OneStream, Zenon DEF RecoveryInv
  <1>3. Shape'
    BY <1>2 DEF ReadParity, RecoveryInv, Shape, bindVars
  <1>4. \A id \in packets' : id[1] \in active
    BY <1>1 DEF RecoveryInv, NoResidue
  <1>5. NoResidue'
    BY <1>1, <1>2, <1>4, Zenon DEF ReadParity, RecoveryInv, NoResidue, bindVars
  <1> QED BY <1>2, <1>3, <1>5 DEF RecoveryInv

LEMMA ParityUselessStep ==
  ASSUME RecoveryInv, NEW c \in Conn, NEW p \in Path, NEW g, ParityUseless(c, p, g)
  PROVE  RecoveryInv'
  <1>1. PICK ss \in WithStream(g.of) : streams' = Enabled(ss, g.of)
    BY DEF ParityUseless
  <1> DEFINE t == [ss[g.of] EXCEPT !.enabled = TRUE]
  <1>2. ss[g.of] \in Stream /\ \A m \in ss[g.of].missing : <<g.of, m>> \notin packets
    BY WithStreamType DEF RecoveryInv
  <1>3. t \in Stream /\ t.missing = ss[g.of].missing
    BY <1>2, SetEnabled
  <1>4. streams' = [ss EXCEPT ![g.of] = t]
    BY <1>1 DEF Enabled
  <1>5. ReadParity(c, p, g) /\ packets' = packets /\ groups' = groups
    BY Zenon DEF ParityUseless
  <1> HIDE DEF t
  <1> QED BY <1>2, <1>3, <1>4, <1>5, ParityStep, Zenon

LEMMA ParityRepairsStep ==
  ASSUME RecoveryInv, NEW c \in Conn, NEW p \in Path, NEW g, ParityRepairs(c, p, g)
  PROVE  RecoveryInv'
  <1>1. PICK n \in Lacks(g), ss \in WithStream(g.of) :
          /\ storePacket(<<g.of, n>>)
          /\ streams' = WithoutMissing(Enabled(ss, g.of), g.of, n)
    BY DEF ParityRepairs
  <1> DEFINE e == [ss[g.of] EXCEPT !.enabled = TRUE]
             t == [e EXCEPT !.missing = e.missing \ {n}]
  <1>2. ss[g.of] \in Stream /\ \A m \in ss[g.of].missing : <<g.of, m>> \notin packets
    BY WithStreamType DEF RecoveryInv
  <1>3. e \in Stream /\ e.missing = ss[g.of].missing
    BY <1>2, SetEnabled
  <1>4. g.of \in DOMAIN ss
    BY WithStreamAdds
  <1>5. Enabled(ss, g.of) = [ss EXCEPT ![g.of] = e]
    BY DEF Enabled
  <1> HIDE DEF e
  <1>6. streams' = [ss EXCEPT ![g.of] = t]
    <2>1. WithoutMissing([ss EXCEPT ![g.of] = e], g.of, n) = [ss EXCEPT ![g.of] = t]
      BY <1>4, ZenonT(30) DEF WithoutMissing
    <2> QED BY <1>1, <1>5, <2>1
  <1>7. t \in Stream /\ t.missing = e.missing \ {n}
    BY <1>3, Missing, SetMissing
  <1> HIDE DEF t
  <1>8. ReadParity(c, p, g) /\ groups' = groups
    BY DEF ParityRepairs
  <1>9. packets' \subseteq packets \cup {<<g.of, n>>} /\ n \in Number
    BY <1>1, <1>8, StoreGrows, ParityOfActive DEF Lacks
  <1>10. \A m \in t.missing : <<g.of, m>> \notin packets'
    BY <1>2, <1>3, <1>7, <1>9, Zenon
  <1> QED BY <1>6, <1>7, <1>8, <1>9, <1>10, ParityStep, ZenonT(30)

LEMMA ParityWaitsStep ==
  ASSUME RecoveryInv, NEW c \in Conn, NEW p \in Path, NEW g, ParityWaits(c, p, g)
  PROVE  RecoveryInv'
  <1>1. PICK ss \in WithStream(g.of) :
          \E t \in dueRepairs([ss[g.of] EXCEPT !.enabled = TRUE,
                                                !.missing = ss[g.of].missing \cup Lacks(g)]) :
            streams' = [ss EXCEPT ![g.of] = t]
    BY Zenon DEF ParityWaits
  <1> DEFINE s == [ss[g.of] EXCEPT !.enabled = TRUE, !.missing = ss[g.of].missing \cup Lacks(g)]
  <1>2. PICK t \in dueRepairs(s) : streams' = [ss EXCEPT ![g.of] = t]
    BY <1>1, Zenon
  <1>3. ReadParity(c, p, g) /\ packets' = packets
    BY DEF ParityWaits
  <1>4. ss[g.of] \in Stream /\ \A m \in ss[g.of].missing : <<g.of, m>> \notin packets
    BY WithStreamType DEF RecoveryInv
  <1>5. ss[g.of].missing \cup Lacks(g) \in SUBSET Number
    BY <1>3, <1>4, ParityOfActive, Missing DEF Lacks
  <1>6. s \in Stream /\ s.missing = ss[g.of].missing \cup Lacks(g)
    BY <1>4, <1>5, SetBoth, Zenon
  <1> HIDE DEF s
  <1>7. t \in Stream /\ t.missing \subseteq s.missing
    BY <1>6, DueRepairsDrops
  <1>8. \A m \in t.missing : <<g.of, m>> \notin packets'
    BY <1>3, <1>4, <1>6, <1>7 DEF Lacks
  <1>9. \A h \in groups' : h \in groups \/ h = g
    BY Zenon DEF ParityWaits, storeGroup
  <1> QED BY <1>2, <1>3, <1>7, <1>8, <1>9, ParityStep, Zenon

(* Removal leaves nothing of the ufrag, and takes nothing else. *)
LEMMA RemoveStep ==
  ASSUME RecoveryInv, NEW u \in Ufrag, RemoveConnByUfrag(u)
  PROVE  RecoveryInv'
  <1>1. /\ DOMAIN streams' = DOMAIN streams \ {u}
        /\ \A v \in DOMAIN streams' : streams'[v] = streams[v]
    BY Zenon DEF RemoveConnByUfrag
  <1>2. Shape'
    BY <1>1, Zenon DEF RemoveConnByUfrag, RecoveryInv, Shape
  <1>3. NeverRequestsHeld'
    BY <1>1, ZenonT(30) DEF RemoveConnByUfrag, RecoveryInv, NeverRequestsHeld
  <1>4. /\ \A id \in packets' : id[1] \in active'
        /\ \A g \in groups' : g.of \in active'
        /\ \A r \in ready' : r[2][1] \in active'
    BY Zenon DEF RemoveConnByUfrag, RecoveryInv, NoResidue
  <1>5. \A p \in Path : /\ identities'[p] \in active' \cup {None}
                        /\ deliveries'[p] \in active' \cup {None}
    BY DEF RemoveConnByUfrag, RecoveryInv, NoResidue
  <1>6. DOMAIN streams' \subseteq active'
    BY <1>1, Zenon DEF RemoveConnByUfrag, RecoveryInv, NoResidue
  <1> QED BY <1>2, <1>3, <1>4, <1>5, <1>6, Zenon DEF RecoveryInv, NoResidue

(* A receipt is for a stream that exists, so for a registered ufrag. *)
LEMMA ReceiptStep ==
  ASSUME RecoveryInv, NEW c \in Conn, Receipt(c)
  PROVE  RecoveryInv'
  <1>1. \A p \in Path : deliveries'[p] \in active \cup {None}
    BY ZenonT(30) DEF Receipt, RecoveryInv, NoResidue
  <1>2. NoResidue'
    BY <1>1, Zenon DEF Receipt, RecoveryInv, NoResidue, bindVars, historyVars
  <1> QED BY <1>2, Zenon DEF Receipt, RecoveryInv, Shape, NeverRequestsHeld, bindVars, historyVars

LEMMA ConfirmStep ==
  ASSUME RecoveryInv, NEW p \in Path, NEW u \in Ufrag, confirmBinding(p, u)
  PROVE  RecoveryInv'
  <1>1. \A q \in Path : identities'[q] \in active \cup {None}
    BY Zenon DEF confirmBinding, RecoveryInv, NoResidue
  <1>2. NoResidue'
    BY <1>1, Zenon DEF confirmBinding, RecoveryInv, NoResidue, historyVars
  <1> QED BY <1>2, ZenonT(30) DEF confirmBinding, RecoveryInv, Shape, NeverRequestsHeld, historyVars

(* The step of ReadFrom to remember keeps only an identity that is registered now. *)
LEMMA ReadRTPStep ==
  ASSUME RecoveryInv, NEW c \in Conn, NEW p \in Path, NEW n \in Number, ReadRTP(c, p, n)
  PROVE  RecoveryInv'
  <1>1. identities[p] \in Ufrag
    BY Zenon DEF ReadRTP, RecoveryInv, NoResidue, Shape
  <1>2. [step |-> "remember", path |-> p, id |-> <<identities[p], n>>] \in InHand
    BY <1>1, Zenon DEF InHand, Packet
  <1>3. Shape'
    BY <1>2, Zenon DEF ReadRTP, RecoveryInv, Shape, bindVars, historyVars
  <1> QED BY <1>3, Zenon DEF ReadRTP, RecoveryInv, NoResidue, NeverRequestsHeld, bindVars, historyVars

LEMMA RecoveryInvStep == RecoveryInv /\ [RecoveryNext]_recoveryVars => RecoveryInv'
  <1> SUFFICES ASSUME RecoveryInv, [RecoveryNext]_recoveryVars PROVE RecoveryInv'
    BY Zenon
  <1>1. ASSUME NEW c \in Conn, popReady(c) PROVE RecoveryInv'
    BY <1>1 DEF popReady, RecoveryInv, Shape, NoResidue, NeverRequestsHeld, bindVars, historyVars
  <1>2. ASSUME NEW c \in Conn, Bypass(c) PROVE RecoveryInv'
    <2>1. Shape'
      BY <1>2, Zenon DEF Bypass, RecoveryInv, Shape, InHand, bindVars, historyVars
    <2> QED BY <1>2, <2>1 DEF Bypass, RecoveryInv, NoResidue, NeverRequestsHeld, bindVars, historyVars
  <1>3. ASSUME NEW c \in Conn, NEW g \in groups, VisitKeep(c, g) PROVE RecoveryInv'
    BY <1>3, Zenon DEF VisitKeep, RecoveryInv, Shape, NoResidue, NeverRequestsHeld, bindVars, historyVars
  <1>4. ASSUME NEW c \in Conn, NEW g \in groups, VisitDrop(c, g) PROVE RecoveryInv'
    BY <1>4, Zenon DEF VisitDrop, RecoveryInv, Shape, NoResidue, NeverRequestsHeld, bindVars
  <1>5. ASSUME NEW p \in Path, NEW u \in Ufrag, rememberBinding(p, u) PROVE RecoveryInv'
    BY <1>5, Zenon DEF rememberBinding, RecoveryInv, Shape, NoResidue, NeverRequestsHeld, historyVars
  <1>6. ASSUME NEW u \in Ufrag, GetConn(u) PROVE RecoveryInv'
    BY <1>6, Zenon DEF GetConn, RecoveryInv, Shape, NoResidue, NeverRequestsHeld, historyVars
  <1>7. ASSUME UNCHANGED recoveryVars PROVE RecoveryInv'
    BY <1>7, Zenon DEF recoveryVars, RecoveryInv, Shape, NoResidue, NeverRequestsHeld, bindVars, historyVars
  <1>8. ASSUME NEW c \in Conn, NEW p \in Path, Consume(c, p) PROVE RecoveryInv'
    BY <1>8, ParityUselessStep, ParityRepairsStep, ParityWaitsStep, Zenon DEF Consume
  <1>9. \A p \in Path : Claims[p] \subseteq Ufrag
    BY Traffic
  <1>10. ASSUME NEW c \in Conn, Visit(c) PROVE RecoveryInv'
    BY <1>3, <1>4, <1>10, VisitRepairStep, Zenon DEF Visit
  <1> QED BY <1>1, <1>2, <1>5, <1>6, <1>7, <1>8, <1>9, <1>10, RememberStep, RememberedStep,
             ReceiptStep, ReadRTPStep, ConfirmStep, RemoveStep, ZenonT(30) DEF RecoveryNext

LEMMA RecoveryInvInit == RecoveryInit => RecoveryInv
  BY DEF RecoveryInit, RecoveryInv, Shape, NoResidue, NeverRequestsHeld

LEMMA RecoveryInvariant == RecoverySpec => []RecoveryInv
  BY RecoveryInvInit, RecoveryInvStep, PTL DEF RecoverySpec

-----------------------------------------------------------------------------
(* streamLocked makes room before it adds a stream. *)
LEMMA WithStreamFits ==
  ASSUME StreamsBounded, NEW u, NEW ss \in WithStream(u)
  PROVE  IsFiniteSet(DOMAIN ss) /\ Cardinality(DOMAIN ss) <= recoveryStreamLimit
  <1> DEFINE D == DOMAIN streams
  <1>0. IsFiniteSet(D) /\ Cardinality(D) \in Nat /\ Cardinality(D) <= recoveryStreamLimit
    BY FS_CardinalityType DEF StreamsBounded
  <1>1. CASE u \in D
    BY <1>0, <1>1 DEF WithStream
  <1>2. CASE u \notin D
    <2>1. PICK kept \in IF Cardinality(D) < recoveryStreamLimit THEN {D} ELSE {D \ {v} : v \in D} :
            ss = [v \in kept \cup {u} |-> IF v = u THEN NewStream ELSE streams[v]]
      BY <1>2, Zenon DEF WithStream
    <2>2. DOMAIN ss = kept \cup {u}
      BY <2>1
    <2>3. IsFiniteSet(kept) /\ Cardinality(kept) \in Nat /\ Cardinality(kept) < recoveryStreamLimit
      <3>1. CASE Cardinality(D) < recoveryStreamLimit
        BY <1>0, <2>1, <3>1
      <3>2. CASE ~(Cardinality(D) < recoveryStreamLimit)
        <4>1. PICK v \in D : kept = D \ {v}
          BY <2>1, <3>2
        <4>2. IsFiniteSet(D \ {v}) /\ Cardinality(D \ {v}) = Cardinality(D) - 1
          BY <1>0, FS_RemoveElement
        <4>3. IsFiniteSet(kept) /\ Cardinality(kept) = Cardinality(D) - 1
          BY <4>1, <4>2
        <4>4. Cardinality(kept) \in Nat
          BY <4>3, FS_CardinalityType
        <4> QED BY <1>0, <4>3, <4>4, LimitTypes
      <3> QED BY <3>1, <3>2
    <2>4. u \notin kept
      BY <1>2, <2>1
    <2> HIDE DEF D
    <2>5. /\ IsFiniteSet(kept \cup {u})
          /\ Cardinality(kept \cup {u}) = Cardinality(kept) + 1
      BY <2>3, <2>4, FS_AddElement
    <2> QED BY <2>2, <2>3, <2>5, LimitTypes
  <1> QED BY <1>1, <1>2

(* A group that shares no packet with another group of its ufrag. *)
Isolated(g) == \A h \in Parity[g.of] \ {g} : g.covers \cap h.covers = {}

(* While remember walks, the groups it has still to visit may be one short, and *)
(* no other reader walks.                                                       *)
Walks(c) == at[c] # None /\ at[c].step = "visit"
PendingInv ==
  /\ mu = None \/ mu \subseteq groups
  /\ \A c \in Conn : Walks(c) => mu # None /\ \A d \in Conn : Walks(d) => d = c
  /\ \A g \in groups :
       Isolated(g) => Cardinality(Lacks(g)) >= 2 \/ (mu # None /\ g \in mu)

HistoryInv == OrderInv /\ PendingInv

(* A group covers finitely many packets, so that what it lacks can be counted. *)
LEMMA LacksCounted ==
  ASSUME NEW g, g.of \in Ufrag, g \in Parity[g.of]
  PROVE  IsFiniteSet(Lacks(g)) /\ Cardinality(Lacks(g)) \in Nat
  <1>1. IsFiniteSet(Number)
    BY SeqModType, FS_Interval DEF Number
  <1>2. Lacks(g) \in SUBSET Number
    BY Traffic DEF Lacks
  <1> QED BY <1>1, <1>2, FS_Subset, FS_CardinalityType

LEMMA LacksMore ==
  ASSUME NEW g, g.of \in Ufrag, g \in Parity[g.of],
         \A n \in g.covers : <<g.of, n>> \in packets' => <<g.of, n>> \in packets
  PROVE  Cardinality(Lacks(g)) >= 2 => Cardinality(Lacks(g)') >= 2
  <1>1. Lacks(g) \in SUBSET Lacks(g)'
    BY DEF Lacks
  <1>2. IsFiniteSet(Lacks(g)') /\ Cardinality(Lacks(g)') \in Nat
    <2>1. IsFiniteSet(Number)
      BY SeqModType, FS_Interval DEF Number
    <2>2. Lacks(g)' \in SUBSET Number
      BY Traffic, Zenon DEF Lacks
    <2> QED BY <2>1, <2>2, FS_Subset, FS_CardinalityType, Zenon
  <1>3. Cardinality(Lacks(g)) <= Cardinality(Lacks(g)') /\ Cardinality(Lacks(g)) \in Nat
    BY <1>1, <1>2, FS_Subset, LacksCounted
  <1> QED BY <1>2, <1>3

(* None is no set of stored groups, so that a walk is told from its absence. *)
LEMMA WalkIsNoNone ==
  ASSUME GroupsListed, NEW G \in SUBSET groups
  PROVE  G # None
  <1>1. G \in SUBSET UNION {Parity[u] : u \in Ufrag}
    BY DEF GroupsListed
  <1> QED BY <1>1, NoneIsNoWalk

(* Nothing of the history changes. *)
LEMMA HistoryKept ==
  ASSUME HistoryInv, UNCHANGED <<packets, packetOrder, groups, groupOrder, groupHead, mu>>,
         StreamsBounded', \A c \in Conn : Walks(c)' => Walks(c)
  PROVE  HistoryInv'
  <1>1. PacketsListed' /\ GroupsListed'
    BY DEF HistoryInv, OrderInv, PacketsListed, GroupsListed
  <1>2. PendingInv'
    BY DEF HistoryInv, PendingInv, Lacks
  <1> QED BY <1>1, <1>2, Zenon DEF HistoryInv, OrderInv

(* The streams after an assignment to one that streamLocked returned. *)
LEMMA OneStreamFits ==
  ASSUME StreamsBounded, NEW u, NEW ss \in WithStream(u), NEW t, streams' = [ss EXCEPT ![u] = t]
  PROVE  StreamsBounded'
  <1>1. DOMAIN streams' = DOMAIN ss
    OBVIOUS
  <1> QED BY <1>1, WithStreamFits DEF StreamsBounded

(* Fewer streams are within the limit too. *)
LEMMA StreamsShrink ==
  ASSUME StreamsBounded, DOMAIN streams' \subseteq DOMAIN streams
  PROVE  StreamsBounded'
  <1>1. /\ IsFiniteSet(DOMAIN streams')
        /\ Cardinality(DOMAIN streams') <= Cardinality(DOMAIN streams)
    BY FS_Subset DEF StreamsBounded
  <1>2. Cardinality(DOMAIN streams') \in Nat /\ Cardinality(DOMAIN streams) \in Nat
    BY <1>1, FS_CardinalityType, Zenon DEF StreamsBounded
  <1> QED BY <1>1, <1>2, LimitTypes DEF StreamsBounded

(* Storing a packet that a group does not cover leaves it as short as it was. *)
LEMMA StoreElsewhere ==
  ASSUME NEW g, g.of \in Ufrag, g \in Parity[g.of], NEW u, NEW n, storePacket(<<u, n>>),
         g.of = u => n \notin g.covers, Cardinality(Lacks(g)) >= 2
  PROVE  Cardinality(Lacks(g)') >= 2
  <1>1. packets' \subseteq packets \cup {<<u, n>>}
    BY StoreGrows
  <1> QED BY <1>1, LacksMore

LEMMA RememberHistory ==
  ASSUME RecoveryInv, HistoryInv, NEW c \in Conn, remember(c)
  PROVE  HistoryInv'
  <1> DEFINE u == at[c].id[1]
             n == at[c].id[2]
  <1>1. at[c].id = <<u, n>>
    BY DEF RecoveryInv, Shape, remember, InHand, Packet
  <1>2. /\ storePacket(<<u, n>>) /\ mu' = {g \in groups : g.of = u /\ n \in g.covers} /\ mu = None
        /\ UNCHANGED <<groups, groupOrder, groupHead>>
    BY <1>1, Zenon DEF remember
  <1>3. \E ss \in WithStream(u) : \E t : streams' = [ss EXCEPT ![u] = t]
    BY Zenon DEF remember
  <1> HIDE DEF u, n
  <1>4. PacketsListed' /\ StreamsBounded'
    BY <1>2, <1>3, StoreListed, OneStreamFits, Zenon DEF HistoryInv, OrderInv
  <1>5. GroupsListed /\ GroupsListed'
    BY <1>2 DEF HistoryInv, OrderInv, GroupsListed
  <1>6. mu' \subseteq groups' /\ mu' # None
    BY <1>2, <1>5, WalkIsNoNone, Zenon
  <1>7. ASSUME NEW g \in groups, Isolated(g)
        PROVE  Cardinality(Lacks(g)') >= 2 \/ g \in mu'
    <2>1. Cardinality(Lacks(g)) >= 2 /\ g.of \in Ufrag /\ g \in Parity[g.of]
      BY <1>2, <1>5, <1>7, Zenon DEF HistoryInv, PendingInv, GroupsListed
    <2> QED BY <1>2, <2>1, StoreElsewhere, Zenon
  <1>8. \A d \in Conn : Walks(d)' => d = c
    <2>1. \A d \in Conn : ~Walks(d)
      BY <1>2, ZenonT(30) DEF HistoryInv, PendingInv
    <2> QED BY <2>1, Zenon DEF Walks, remember, RecoveryInv, Shape
  <1>9. PendingInv'
    BY <1>2, <1>6, <1>7, <1>8 DEF PendingInv, Isolated
  <1> QED BY <1>4, <1>5, <1>9 DEF HistoryInv, OrderInv

(* A visited group is kept two short, or goes; its repair is in no group that  *)
(* shares nothing with it.                                                     *)
LEMMA VisitHistory ==
  ASSUME HistoryInv, NEW c \in Conn, Visit(c)
  PROVE  HistoryInv'
  <1>1. PICK g \in groups : VisitKeep(c, g) \/ VisitDrop(c, g) \/ VisitRepair(c, g)
    BY Zenon DEF Visit
  <1>2. /\ g \in mu /\ mu' = mu \ {g} /\ UNCHANGED <<groupOrder, groupHead>>
        /\ groups' = groups \/ groups' = groups \ {g}
    BY <1>1, Zenon DEF VisitKeep, VisitDrop, VisitRepair, historyVars
  <1>3. GroupsListed /\ GroupsListed'
    BY <1>2, GroupsShrink DEF HistoryInv, OrderInv
  <1>4. mu # None => mu' \subseteq groups' /\ mu' # None
    BY <1>2, <1>3, WalkIsNoNone, Zenon DEF HistoryInv, PendingInv
  <1>5. mu # None /\ at' = at
    BY <1>1, ZenonT(30) DEF HistoryInv, PendingInv, Walks, VisitKeep, VisitDrop, VisitRepair
  <1>6. \A d \in Conn : Walks(d)' => mu' # None /\ \A e \in Conn : Walks(e)' => e = d
    BY <1>4, <1>5, Zenon DEF HistoryInv, PendingInv, Walks
  <1>7. CASE VisitKeep(c, g)
    <2>1. UNCHANGED <<packets, packetOrder, streams, groups>> /\ Cardinality(Lacks(g)) > 1
      BY <1>7, Zenon DEF VisitKeep, historyVars
    <2>2. Cardinality(Lacks(g)) >= 2
      BY <1>3, <2>1, LacksCounted, SMTT(30) DEF GroupsListed
    <2>3. PendingInv'
      BY <1>2, <1>4, <1>5, <1>6, <2>1, <2>2, ZenonT(30) DEF HistoryInv, PendingInv, Lacks, Isolated
    <2> QED BY <1>3, <2>1, <2>3 DEF HistoryInv, OrderInv, PacketsListed, StreamsBounded
  <1>8. CASE VisitDrop(c, g)
    <2>1. UNCHANGED <<packets, packetOrder, streams>> /\ groups' = groups \ {g}
      BY <1>8 DEF VisitDrop
    <2>2. PendingInv'
      BY <1>2, <1>4, <1>5, <1>6, <2>1 DEF HistoryInv, PendingInv, Lacks, Isolated
    <2> QED BY <1>3, <2>1, <2>2 DEF HistoryInv, OrderInv, PacketsListed, StreamsBounded
  <1>9. CASE VisitRepair(c, g)
    <2>1. PICK n \in Lacks(g) : /\ storePacket(<<g.of, n>>)
                                /\ streams' = WithoutMissing(streams, g.of, n)
      BY <1>9, Zenon DEF VisitRepair
    <2>2. groups' = groups \ {g}
      BY <1>9 DEF VisitRepair
    <2>3. DOMAIN streams' = DOMAIN streams
      BY <2>1 DEF WithoutMissing
    <2>4. PacketsListed' /\ StreamsBounded'
      BY <2>1, <2>3, StoreListed, StreamsShrink, Zenon DEF HistoryInv, OrderInv
    <2>5. ASSUME NEW h \in groups, h # g, Isolated(h)
          PROVE  Cardinality(Lacks(h)') >= 2 \/ h \in mu'
      <3>1. /\ h.of \in Ufrag /\ h \in Parity[h.of] /\ g \in Parity[g.of]
            /\ Cardinality(Lacks(h)) >= 2 \/ h \in mu
        BY <1>3, <2>5 DEF HistoryInv, PendingInv, GroupsListed
      <3>2. n \in g.covers
        BY Zenon DEF Lacks
      <3>3. h.of = g.of => n \notin h.covers
        BY <2>5, <3>1, <3>2, Zenon DEF Isolated
      <3> QED BY <1>2, <2>1, <2>5, <3>1, <3>3, StoreElsewhere, ZenonT(30)
    <2>6. PendingInv'
      BY <1>4, <1>5, <1>6, <2>2, <2>5, Zenon DEF PendingInv, Isolated
    <2> QED BY <1>3, <2>4, <2>6, Zenon DEF HistoryInv, OrderInv
  <1> QED BY <1>1, <1>7, <1>8, <1>9

(* The walk ends when nothing is left to visit. *)
LEMMA RememberedHistory ==
  ASSUME RecoveryInv, HistoryInv, NEW c \in Conn, Remembered(c)
  PROVE  HistoryInv'
  <1>1. /\ UNCHANGED <<packets, packetOrder, groups, groupOrder, groupHead>>
        /\ mu = {} /\ mu' = None /\ DOMAIN streams' \subseteq DOMAIN streams
    BY Zenon DEF Remembered
  <1>2. PacketsListed' /\ GroupsListed' /\ StreamsBounded'
    BY <1>1, StreamsShrink DEF HistoryInv, OrderInv, PacketsListed, GroupsListed
  <1>3. \A d \in Conn : ~Walks(d)'
    <2>1. \A d \in Conn : Walks(d) => d = c
      BY Zenon DEF Remembered, HistoryInv, PendingInv, Walks
    <2> QED BY <2>1 DEF Remembered, Walks, RecoveryInv, Shape
  <1>4. PendingInv'
    BY <1>1, <1>3, Zenon DEF HistoryInv, PendingInv, Lacks, Isolated
  <1> QED BY <1>2, <1>4 DEF HistoryInv, OrderInv

(* A parity datagram: useless, or a repair that no group waiting without it    *)
(* covers, or a group that waits two short.                                    *)
LEMMA ConsumeHistory ==
  ASSUME RecoveryInv, HistoryInv, NEW c \in Conn, NEW p \in Path, Consume(c, p)
  PROVE  HistoryInv'
  <1>1. PICK g \in UNION {Parity[u] : u \in Ufrag} :
          ParityUseless(c, p, g) \/ ParityRepairs(c, p, g) \/ ParityWaits(c, p, g)
    BY Zenon DEF Consume
  <1>2. ReadParity(c, p, g)
    BY <1>1, Zenon DEF ParityUseless, ParityRepairs, ParityWaits
  <1>3. mu = None /\ UNCHANGED <<mu, at>>
    BY <1>2, Zenon DEF ReadParity, ReadsSocket
  <1>4. g.of \in Ufrag /\ g \in Parity[g.of]
    BY <1>1, Traffic
  <1>5. GroupsListed /\ PacketsListed /\ StreamsBounded
    BY Zenon DEF HistoryInv, OrderInv
  <1>6. /\ \A d \in Conn : ~Walks(d)'
        /\ \A h \in groups : Isolated(h) => Cardinality(Lacks(h)) >= 2
    BY <1>3, Zenon DEF HistoryInv, PendingInv, Walks
  <1>7. CASE ParityUseless(c, p, g)
    <2>1. PICK ss \in WithStream(g.of) : streams' = Enabled(ss, g.of)
      BY <1>7, Zenon DEF ParityUseless
    <2>2. \E t : streams' = [ss EXCEPT ![g.of] = t]
      BY <2>1, Zenon DEF Enabled
    <2>3. StreamsBounded'
      BY <1>5, <2>2, OneStreamFits, ZenonT(30)
    <2>4. UNCHANGED <<packets, packetOrder, groups, groupOrder, groupHead>>
      BY <1>7, Zenon DEF ParityUseless
    <2> QED BY <1>3, <1>6, <2>3, <2>4, HistoryKept, ZenonT(30)
  <1>8. CASE ParityRepairs(c, p, g)
    <2>1. PICK n \in Lacks(g), ss \in WithStream(g.of) :
            /\ storePacket(<<g.of, n>>)
            /\ streams' = WithoutMissing(Enabled(ss, g.of), g.of, n)
      BY <1>8, ZenonT(30) DEF ParityRepairs
    <2>2. UNCHANGED <<groups, groupOrder, groupHead>> /\ Cardinality(Lacks(g)) = 1
      BY <1>8 DEF ParityRepairs
    <2>3. DOMAIN streams' = DOMAIN ss
      BY <2>1, Zenon DEF WithoutMissing, Enabled
    <2>4. PacketsListed' /\ StreamsBounded' /\ GroupsListed'
      BY <1>5, <2>1, <2>2, <2>3, StoreListed, WithStreamFits, GroupsShrink, ZenonT(30) DEF StreamsBounded
    <2>5. ASSUME NEW h \in groups, Isolated(h) PROVE Cardinality(Lacks(h)') >= 2
      <3>1. h.of \in Ufrag /\ h \in Parity[h.of] /\ Cardinality(Lacks(h)) >= 2
        BY <1>5, <1>6, <2>5, Zenon DEF GroupsListed
      <3>2. h # g
        BY <2>2, <3>1, SMTT(30)
      <3>3. n \in g.covers
        BY DEF Lacks
      <3>4. h.of = g.of => n \notin h.covers
        BY <1>4, <2>5, <3>2, <3>3, Zenon DEF Isolated
      <3> QED BY <2>1, <3>1, <3>4, StoreElsewhere, ZenonT(30)
    <2>6. PendingInv'
      BY <1>3, <1>6, <2>2, <2>5, Zenon DEF PendingInv, Isolated
    <2> QED BY <2>4, <2>6, ZenonT(30) DEF HistoryInv, OrderInv
  <1>9. CASE ParityWaits(c, p, g)
    <2>1. storeGroup(g) /\ Cardinality(Lacks(g)) > 1 /\ UNCHANGED <<packets, packetOrder>>
      BY <1>9 DEF ParityWaits
    <2>2. PICK ss \in WithStream(g.of) : \E t : streams' = [ss EXCEPT ![g.of] = t]
      BY <1>9, Zenon DEF ParityWaits
    <2>3. PacketsListed' /\ StreamsBounded' /\ GroupsListed'
      BY <1>4, <1>5, <2>1, <2>2, StoreGroupListed, OneStreamFits, ZenonT(30) DEF PacketsListed
    <2>4. \A h \in groups' : h \in groups \/ h = g
      BY <2>1, Zenon DEF storeGroup
    <2>5. Cardinality(Lacks(g)) >= 2
      BY <1>4, <2>1, LacksCounted
    <2>6. \A h \in groups' : Isolated(h) => Cardinality(Lacks(h)') >= 2
      BY <1>6, <2>1, <2>4, <2>5, Zenon DEF Lacks
    <2>7. PendingInv'
      BY <1>3, <1>6, <2>6 DEF PendingInv, Isolated
    <2> QED BY <2>3, <2>7 DEF HistoryInv, OrderInv
  <1> QED BY <1>1, <1>7, <1>8, <1>9, Zenon

(* Removal: the packets and the groups of a ufrag go together. *)
LEMMA RemoveHistory ==
  ASSUME HistoryInv, NEW u \in Ufrag, RemoveConnByUfrag(u)
  PROVE  HistoryInv'
  <1>1. /\ mu = None /\ UNCHANGED <<mu, at>>
        /\ packets' = {id \in packets : id[1] # u} /\ packetOrder' = Without(packetOrder, u)
        /\ groups' = {g \in groups : g.of # u}
        /\ groupOrder' = Without(groupOrder, u) /\ groupHead' = 0
        /\ DOMAIN streams' = DOMAIN streams \ {u}
    BY DEF RemoveConnByUfrag
  <1>2. PacketsListed'
    <2>1. Lists(packetOrder, packets) /\ IsFiniteSet(packets)
      BY ListedOnce, Zenon DEF HistoryInv, OrderInv, PacketsListed
    <2>2. Lists(packetOrder', packets')
      BY <1>1, <2>1, ListsWithout, Zenon
    <2>3. /\ IsFiniteSet(packets') /\ Cardinality(packets') <= Cardinality(packets)
          /\ Cardinality(packets) <= recoveryHistorySize
      BY <1>1, <2>1, FS_Subset, Zenon DEF HistoryInv, OrderInv, PacketsListed
    <2>4. Cardinality(packets') \in Nat /\ Cardinality(packets) \in Nat
      BY <2>1, <2>3, FS_CardinalityType
    <2>5. Cardinality(packets') <= recoveryHistorySize
      BY <2>3, <2>4, LimitTypes
    <2> QED BY <2>2, <2>5 DEF PacketsListed
  <1>3. GroupsListed' /\ StreamsBounded'
    BY <1>1, GroupsWithout, StreamsShrink, Zenon DEF HistoryInv, OrderInv
  <1>4. ASSUME NEW g \in groups, g.of # u, Isolated(g) PROVE Cardinality(Lacks(g)') >= 2
    <2>1. g.of \in Ufrag /\ g \in Parity[g.of] /\ Cardinality(Lacks(g)) >= 2
      BY <1>1, <1>4, Zenon DEF HistoryInv, OrderInv, PendingInv, GroupsListed
    <2> QED BY <1>1, <2>1, LacksMore, Zenon
  <1>5. PendingInv'
    BY <1>1, <1>4, Zenon DEF HistoryInv, PendingInv, Walks, Isolated
  <1> QED BY <1>2, <1>3, <1>5, Zenon DEF HistoryInv, OrderInv

LEMMA HistoryStep == RecoveryInv /\ HistoryInv /\ [RecoveryNext]_recoveryVars => HistoryInv'
  <1> SUFFICES ASSUME RecoveryInv, HistoryInv, [RecoveryNext]_recoveryVars PROVE HistoryInv'
    OBVIOUS
  <1>1. ASSUME UNCHANGED <<historyVars, mu>>, \A c \in Conn : Walks(c)' => Walks(c)
        PROVE  HistoryInv'
    <2>1. StreamsBounded'
      BY <1>1 DEF HistoryInv, OrderInv, StreamsBounded, historyVars
    <2> QED BY <1>1, <2>1, HistoryKept DEF historyVars
  <1>2. ASSUME NEW c \in Conn,
               popReady(c) \/ Bypass(c) \/ Receipt(c)
                 \/ \E p \in Path : \E n \in Number : ReadRTP(c, p, n)
        PROVE  HistoryInv'
    <2>1. UNCHANGED <<historyVars, mu>>
      BY <1>2 DEF popReady, Bypass, Receipt, ReadRTP
    <2>2. \A d \in Conn : Walks(d)' => Walks(d)
      <3>1. CASE popReady(c)
        BY <3>1 DEF popReady, Walks
      <3>2. CASE Bypass(c)
        BY <3>2, Zenon DEF Bypass, Walks, RecoveryInv, Shape, InHand
      <3>3. CASE Receipt(c)
        BY <3>3, Zenon DEF Receipt, Walks, RecoveryInv, Shape
      <3>4. CASE \E p \in Path : \E n \in Number : ReadRTP(c, p, n)
        BY <3>4 DEF ReadRTP, Walks, RecoveryInv, Shape
      <3> QED BY <1>2, <3>1, <3>2, <3>3, <3>4, Zenon
    <2> QED BY <1>1, <2>1, <2>2
  <1>3. ASSUME NEW p, NEW u, rememberBinding(p, u) \/ confirmBinding(p, u) \/ GetConn(u)
        PROVE  HistoryInv'
    <2>1. UNCHANGED <<historyVars, mu, at>>
      BY <1>3, ZenonT(30) DEF rememberBinding, confirmBinding, GetConn
    <2> QED BY <1>1, <2>1 DEF Walks
  <1>4. ASSUME UNCHANGED recoveryVars PROVE HistoryInv'
    BY <1>1, <1>4 DEF recoveryVars, Walks
  <1> QED BY <1>2, <1>3, <1>4, RememberHistory, VisitHistory, RememberedHistory, ConsumeHistory,
             RemoveHistory, Zenon DEF RecoveryNext

LEMMA HistoryInit == RecoveryInit => HistoryInv
  <1> SUFFICES ASSUME RecoveryInit PROVE HistoryInv
    OBVIOUS
  <1>1. IsFiniteSet({}) /\ Cardinality({}) = 0
    BY FS_EmptySet
  <1>2. PacketsListed
    BY <1>1, LimitTypes, SMTT(30) DEF RecoveryInit, PacketsListed, Lists, Elems
  <1>3. GroupsListed
    BY <1>1, LimitTypes DEF RecoveryInit, GroupsListed, IDs
  <1>4. DOMAIN streams = {}
    BY DEF RecoveryInit
  <1>5. StreamsBounded
    BY <1>1, <1>4, LimitTypes, SMTT(30) DEF StreamsBounded
  <1>6. PendingInv
    BY DEF RecoveryInit, PendingInv, Walks
  <1> QED BY <1>2, <1>3, <1>5, <1>6 DEF HistoryInv, OrderInv

LEMMA HistoryInvariant == RecoverySpec => []HistoryInv
  BY RecoveryInvariant, HistoryInit, HistoryStep, PTL DEF RecoverySpec

(* For any agents, sockets and traffic, RemoveConnByUfrag is final: history,   *)
(* streams, groups, repairs, identities and receipts only ever concern ufrags  *)
(* that are registered.                                                        *)
THEOREM ForgottenForGood == RecoverySpec => []NoResidue
  BY RecoveryInvariant, PTL DEF RecoveryInv

(* For any traffic and limits, no packet in the history is on a list of missing *)
(* ones, however it got there.                                                  *)
THEOREM HeldNotRequested == RecoverySpec => []NeverRequestsHeld
  BY RecoveryInvariant, PTL DEF RecoveryInv

(* For any traffic and limits, the eviction loops of storePacketLocked and      *)
(* storeGroupLocked work on orders that list what the maps hold, and packets,   *)
(* groups and streams stay within their limits.                                 *)
THEOREM OrdersStayExact == RecoverySpec => []OrdersExact
  <1>1. HistoryInv => OrdersExact
    <2> SUFFICES ASSUME HistoryInv PROVE OrdersExact
      OBVIOUS
    <2>1. Elems(packetOrder) = packets /\ Len(packetOrder) = Cardinality(packets)
      BY ListedOnce, Zenon DEF HistoryInv, OrderInv, PacketsListed, Lists
    <2> QED BY <2>1 DEF HistoryInv, OrderInv, PacketsListed, GroupsListed, StreamsBounded,
                        OrdersExact, IDs
  <1> QED BY <1>1, HistoryInvariant, PTL

(* For any traffic, limits and order of the walk, recoverPendingLocked leaves   *)
(* no group waiting whose parity would do, unless another group shares a packet *)
(* with it.                                                                     *)
THEOREM NoParityLeftWaiting == RecoverySpec => []PendingShort
  <1>1. HistoryInv => PendingShort
    BY Zenon DEF HistoryInv, PendingInv, PendingShort, Isolated
  <1> QED BY <1>1, HistoryInvariant, PTL
=============================================================================
