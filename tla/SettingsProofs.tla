--------------------------- MODULE SettingsProofs ---------------------------
(***************************************************************************)
(* What the delay of a sync group is, and whom a change of one camera      *)
(* concerns: the facts the handlers rely on when they choose the cameras   *)
(* to retarget. They are about one reading of the list; that handlers read *)
(* it several times without a common lock is the subject of Retarget.      *)
(***************************************************************************)
EXTENDS Settings, FiniteSetTheorems, WellFoundedInduction, TLAPS

(* The list has each camera once. *)
Unique(list) == \A p, q \in list : p.id = q.id => p = q

-----------------------------------------------------------------------------
(* The largest number of a finite set. *)
LEMMA LeastExists ==
    ASSUME NEW S \in SUBSET Nat, S # {}
    PROVE  \E m \in S : \A l \in S : m <= l
  <1> DEFINE R == OpToRel(<, Nat)
  <1>1. IsWellFoundedOn(R, Nat)
    BY NatLessThanWellFounded, Zenon
  <1>2. \A a, b \in Nat : <<a, b>> \in R <=> a < b
    BY DEF OpToRel
  <1> HIDE DEF R
  <1>3. PICK m \in S : \A l \in S : ~ (<<l, m>> \in R)
    BY <1>1, WFMin, Zenon
  <1>4. m \in Nat /\ \A l \in S : l \in Nat /\ ~ (l < m)
    BY <1>2, <1>3, Zenon
  <1> QED
    BY <1>4

(* The member of S with the fewest above it. *)
LEMMA LargestExists ==
    ASSUME NEW S \in SUBSET Int, IsFiniteSet(S), S # {}
    PROVE  \E m \in S : \A x \in S : x <= m
  <1> DEFINE above == [x \in S |-> {y \in S : y > x}]
             counts == {Cardinality(above[x]) : x \in S}
  <1>1. ASSUME NEW x \in S
        PROVE  above[x] \in SUBSET S /\ \A y \in S : y \in above[x] <=> y > x
    OBVIOUS
  <1> HIDE DEF above
  <1>2. ASSUME NEW x \in S
        PROVE  IsFiniteSet(above[x]) /\ Cardinality(above[x]) \in Nat
    BY <1>1, FS_Subset, FS_CardinalityType
  <1>3. PICK n \in counts : \A l \in counts : n <= l
    <2>1. counts \in SUBSET Nat /\ counts # {}
      BY <1>2, Zenon
    <2> HIDE DEF counts
    <2> QED
      BY <2>1, LeastExists
  <1>4. PICK m \in S : n = Cardinality(above[m])
    BY <1>3
  <1>5. ASSUME NEW x \in S, ~ (x <= m) PROVE FALSE
    <2>1. x \in Int /\ m \in Int /\ x > m
      BY <1>5
    <2>2. above[x] \in SUBSET above[m]
      <3> SUFFICES ASSUME NEW y \in above[x] PROVE y \in above[m]
        OBVIOUS
      <3>1. y \in S /\ y \in Int /\ y > x
        BY <1>1, Zenon
      <3>2. y > m
        BY <2>1, <3>1
      <3> QED
        BY <1>1, <3>1, <3>2
    <2>3. x \in above[m] /\ x \notin above[x]
      BY <1>1, <2>1
    <2>4. /\ Cardinality(above[x]) <= Cardinality(above[m])
          /\ Cardinality(above[m]) = Cardinality(above[x]) => above[m] = above[x]
      BY <1>2, <2>2, FS_Subset
    <2>5. Cardinality(above[m]) <= Cardinality(above[x])
      BY <1>3, <1>4
    <2> QED
      BY <1>2, <2>3, <2>4, <2>5
  <1> QED
    BY <1>5

LEMMA ImageFinite ==
    ASSUME NEW S, IsFiniteSet(S), NEW f, NEW T, f = [x \in S |-> f[x]], T = {f[x] : x \in S}
    PROVE  IsFiniteSet(T)
  <1>1. f \in Surjection(S, T)
    BY DEF Surjection
  <1> QED
    BY <1>1, FS_Surjection

-----------------------------------------------------------------------------
(* What EffectiveDelay and DelayOptions read of the list for one camera. *)
Sharing(list, ing) ==
    IF ing.group = NoName THEN {ing} ELSE {p \in list : p.group = ing.group}

Longest(peers) == CHOOSE d \in {p.delay : p \in peers} : \A p \in peers : p.delay =< d

LEMMA OneEntry ==
    ASSUME NEW list, Unique(list), NEW ing \in list
    PROVE  (CHOOSE p \in list : p.id = ing.id) = ing
  BY DEF Unique

LEMMA PeersOf ==
    ASSUME NEW list, Unique(list), NEW ing \in list
    PROVE  {p \in list : p.id \in GroupPeers(list, ing.id)} = Sharing(list, ing)
  <1>1. ASSUME NEW p \in list PROVE p.id \in GroupPeers(list, ing.id) <=> p \in Sharing(list, ing)
    BY DEF Unique, GroupPeers, Sharing
  <1>2. Sharing(list, ing) \subseteq list
    BY DEF Sharing
  <1> QED
    BY <1>1, <1>2

LEMMA DelayOf ==
    ASSUME NEW list, Unique(list), NEW ing \in list
    PROVE  EffectiveDelay(list, ing.id) = Longest(Sharing(list, ing))
  BY PeersOf DEF EffectiveDelay, Longest

LEMMA EnabledOf ==
    ASSUME NEW list \in SUBSET Ingest, Unique(list), NEW ing \in list
    PROVE  DelayOptions(list, ing.id).enabled = (ing.options.enabled /\ ing.group = NoName)
  <1>1. (CHOOSE p \in list : p.id = ing.id) = ing
    BY OneEntry
  <1> QED
    BY <1>1, Zenon DEF DelayOptions, Normalize

(* EffectiveDelay is the largest delay of the cameras that share the group, and
   the camera's own without one. *)
THEOREM EffectiveDelayIsLargest ==
    ASSUME NEW list \in SUBSET Ingest, IsFiniteSet(list), Unique(list), NEW ing \in list
    PROVE  /\ \E p \in Sharing(list, ing) : EffectiveDelay(list, ing.id) = p.delay
           /\ \A p \in Sharing(list, ing) : p.delay <= EffectiveDelay(list, ing.id)
  <1> DEFINE peers == Sharing(list, ing)
             delays == {p.delay : p \in peers}
             delayOf == [p \in peers |-> p.delay]
  <1>1. peers \in SUBSET list /\ ing \in peers
    BY DEF Sharing
  <1>2. IsFiniteSet(peers)
    BY <1>1, FS_Subset
  <1> HIDE DEF peers
  <1>3. delays \in SUBSET Int /\ delays # {}
    BY <1>1 DEF Ingest
  <1>4. delayOf = [p \in peers |-> delayOf[p]] /\ delays = {delayOf[p] : p \in peers}
    OBVIOUS
  <1>5. IsFiniteSet(delays)
    <2> HIDE DEF delays, delayOf
    <2> QED
      BY <1>2, <1>4, ImageFinite
  <1>6. PICK d \in delays : \A x \in delays : x <= d
    <2> HIDE DEF delays
    <2> QED
      BY <1>3, <1>5, LargestExists
  <1>7. /\ Longest(peers) \in delays
        /\ \A p \in peers : p.delay <= Longest(peers)
    <2>1. \E x \in {p.delay : p \in peers} : \A p \in peers : p.delay <= x
      BY <1>6
    <2> QED
      BY <2>1 DEF Longest
  <1>8. EffectiveDelay(list, ing.id) = Longest(peers)
    BY DelayOf DEF peers
  <1> QED
    BY <1>7, <1>8 DEF peers

(* Cameras of one group are given one delay, and none of them may adapt on its
   own: read from one list, EffectiveDelay and DelayOptions keep a group
   aligned. *)
THEOREM OneDelayPerGroup ==
    ASSUME NEW list \in SUBSET Ingest, Unique(list), NEW p \in list, NEW q \in list,
           p.group # NoName, p.group = q.group
    PROVE  /\ EffectiveDelay(list, p.id) = EffectiveDelay(list, q.id)
           /\ ~ DelayOptions(list, p.id).enabled
  <1>1. Sharing(list, p) = Sharing(list, q)
    BY DEF Sharing
  <1>2. EffectiveDelay(list, p.id) = EffectiveDelay(list, q.id)
    BY <1>1, DelayOf
  <1> QED
    BY <1>2, EnabledOf, Zenon
-----------------------------------------------------------------------------
(* Two lists that agree on every camera but one. *)
DifferIn(list, other, id) ==
    \A p \in list \cup other : p.id # id => p \in list /\ p \in other

(* A change of one camera, its removal included, alters the delay and the
   policy only of cameras that were in its group before or are afterwards:
   "Peers of the group being left also need retargeting" (handleGroup), and
   nobody else does. *)
THEOREM OnlyPeersConcerned ==
    ASSUME NEW list \in SUBSET Ingest, NEW other \in SUBSET Ingest,
           Unique(list), Unique(other), NEW changed \in ID, DifferIn(list, other, changed),
           NEW id \in ID, id # changed,
           id \notin GroupPeers(list, changed), id \notin GroupPeers(other, changed)
    PROVE  /\ EffectiveDelay(other, id) = EffectiveDelay(list, id)
           /\ DelayOptions(other, id).enabled = DelayOptions(list, id).enabled
  <1>1. CASE \E ing \in list : ing.id = id
    <2>1. PICK ing \in list : ing.id = id
      BY <1>1
    <2>2. ing \in other
      BY <2>1 DEF DifferIn
    <2>3. ASSUME NEW p \in list \cup other, ing.group # NoName, p.group = ing.group
          PROVE  p \in list /\ p \in other
      <3>1. p.id # changed
        BY <2>1, <2>2, <2>3 DEF GroupPeers
      <3> QED
        BY <3>1 DEF DifferIn
    <2>4. Sharing(list, ing) = Sharing(other, ing)
      BY <2>2, <2>3, Zenon DEF Sharing
    <2>5. EffectiveDelay(other, id) = EffectiveDelay(list, id)
      BY <2>1, <2>2, <2>4, DelayOf
    <2>6. DelayOptions(other, id).enabled = DelayOptions(list, id).enabled
      BY <2>1, <2>2, EnabledOf
    <2> QED
      BY <2>5, <2>6
  <1>2. CASE ~ \E ing \in list : ing.id = id
    <2>1. ~ \E ing \in other : ing.id = id
      BY <1>2 DEF DifferIn
    <2> QED
      BY <1>2, <2>1 DEF EffectiveDelay, DelayOptions
  <1> QED
    BY <1>1, <1>2
=============================================================================
