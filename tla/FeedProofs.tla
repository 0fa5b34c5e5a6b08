----------------------------- MODULE FeedProofs -----------------------------
(***************************************************************************)
(* A track's packets leave its buffer in order and in time, for a queue of *)
(* any length and every set of delays, lags and moves of the clock.        *)
(*                                                                         *)
(* The heap's loops are followed turn by turn: what holds at every place a *)
(* loop comes through (Rising, Sinking), and that each turn leaves less to *)
(* do. The inductive invariant of Feed adds to the order of the queue what *)
(* the timer of a sleeping reader has to do with the packet at the root:   *)
(* OnTime alone does not say how much further the curve may come down.     *)
(***************************************************************************)
EXTENDS Feed, WellFoundedInduction, TLAPS

(* The induction of this module: a set of numbers has a least one. *)
LEMMA LeastExists ==
  ASSUME NEW S \in SUBSET Nat, S # {}
  PROVE  \E m \in S : \A l \in S : m <= l
  <1> DEFINE R == OpToRel(<, Nat)
  <1>1. IsWellFoundedOn(R, Nat)
    BY NatLessThanWellFounded, Zenon
  <1>2. \A a, b \in Nat : <<a, b>> \in R <=> a < b
    BY DEF OpToRel
  <1> HIDE DEF R
  <1>3. PICK m \in S : \A l \in S : ~ (<<l, m>> \in R)
    BY <1>1, WFMin, Zenon
  <1>4. m \in Nat /\ \A l \in S : l \in Nat /\ ~ (l < m)
    BY <1>2, <1>3, Zenon
  <1> QED
    BY <1>4

-----------------------------------------------------------------------------
(* The loops of the heap.  The places a loop comes through. *)
Course(turn, start, f, n) == f = [k \in 0 .. n |-> IF k = 0 THEN start ELSE turn[f[k - 1]]]

(* A loop has a course of any length. *)
LEMMA CourseExists ==
  ASSUME NEW turn, NEW start, NEW n \in Nat
  PROVE  \E f : Course(turn, start, f, n)
  <1> DEFINE S == {m \in Nat : ~ \E f : Course(turn, start, f, m)}
  <1> SUFFICES ASSUME S # {} PROVE FALSE
    OBVIOUS
  <1>1. PICK m \in S : \A l \in S : m <= l
    BY LeastExists, Zenon
  <1>2. CASE m = 0
    <2> DEFINE f == [k \in 0 .. 0 |-> start]
    <2>1. f = [k \in 0 .. 0 |-> IF k = 0 THEN start ELSE turn[f[k - 1]]]
      OBVIOUS
    <2> QED
      BY <1>2, <2>1, Zenon DEF Course
  <1>3. CASE m > 0
    <2>1. m - 1 \in Nat /\ ~ (m - 1 \in S)
      BY <1>1, <1>3
    <2>2. PICK g : Course(turn, start, g, m - 1)
      BY <2>1
    <2> DEFINE f == [k \in 0 .. m |-> IF k = 0 THEN start ELSE turn[g[k - 1]]]
    <2>3. \A k \in 0 .. m - 1 : g[k] = IF k = 0 THEN start ELSE turn[g[k - 1]]
      BY <2>2, Zenon DEF Course
    <2>4. \A k \in 0 .. m - 1 : f[k] = g[k]
      BY <1>1, <2>3
    <2> HIDE DEF f
    <2>5. \A k \in 0 .. m : k # 0 => f[k - 1] = g[k - 1]
      <3>1. \A k \in 0 .. m : k # 0 => k - 1 \in 0 .. m - 1
        BY <1>1
      <3> QED BY <2>4, <3>1, Zenon
    <2>6. f = [k \in 0 .. m |-> IF k = 0 THEN start ELSE turn[f[k - 1]]]
      BY <2>5, Zenon DEF f
    <2> QED
      BY <1>1, <2>6, Zenon DEF Course
  <1> QED
    BY <1>1, <1>2, <1>3

(* A loop whose turns stay among the places I, and each of which ends it or leaves
   less to do, has ended, at one of them, after as many turns as there is to do. *)
LEMMA LoopEnds ==
  ASSUME NEW turn, NEW I, NEW start \in I, NEW n \in Nat, NEW todo,
         \A p \in I : /\ turn[p] \in I /\ todo[p] \in Nat
                      /\ turn[p] = p \/ todo[turn[p]] < todo[p],
         todo[start] <= n
  PROVE  After(turn, start, n) \in I /\ turn[After(turn, start, n)] = After(turn, start, n)
  <1> DEFINE f == CHOOSE f : Course(turn, start, f, n)
             Good(k) == f[k] \in I /\ (turn[f[k]] = f[k] \/ todo[f[k]] + k <= n)
  <1>1. Course(turn, start, f, n)
    BY CourseExists, Zenon
  <1>2. After(turn, start, n) = f[n]
    BY DEF After, Course
  <1>3. f[0] = start /\ \A k \in 1 .. n : f[k] = turn[f[k - 1]]
    <2>1. \A k \in 0 .. n : f[k] = IF k = 0 THEN start ELSE turn[f[k - 1]]
      BY <1>1, Zenon DEF Course
    <2> HIDE DEF f
    <2> QED BY <2>1
  <1> HIDE DEF f
  <1>4. \A k \in 0 .. n : Good(k)
    <2> DEFINE S == {k \in 0 .. n : ~ Good(k)}
    <2> SUFFICES ASSUME S # {} PROVE FALSE
      OBVIOUS
    <2>1. S \in SUBSET Nat
      OBVIOUS
    <2>2. PICK m \in S : \A l \in S : m <= l
      BY <2>1, LeastExists, Zenon
    <2>3. m # 0
      BY <1>3
    <2>4. m - 1 \in 0 .. n /\ ~ (m - 1 \in S)
      BY <2>2, <2>3
    <2>5. Good(m - 1) /\ f[m] = turn[f[m - 1]]
      BY <1>3, <2>2, <2>3, <2>4
    <2>6. Good(m)
      BY <2>2, <2>5
    <2> QED
      BY <2>2, <2>6
  <1>5. Good(n)
    BY <1>4
  <1>6. turn[f[n]] = f[n]
    BY <1>5
  <1> QED
    BY <1>2, <1>5, <1>6

-----------------------------------------------------------------------------
(* The heap.  No child comes before its parent, and no two items have one order. *)
Ordered(h) == \A i \in 2 .. Len(h) : Before(h[i \div 2], h[i])

Numbered(h) == \A i, j \in 1 .. Len(h) : h[i].order = h[j].order => i = j

Items(h) == {h[i] : i \in 1 .. Len(h)}

(* Before, on the fields that buffered.before compares. *)
LEMMA Transitive ==
  ASSUME NEW a \in Buffered, NEW b \in Buffered, NEW c \in Buffered, Before(a, b), Before(b, c)
  PROVE  Before(a, c)
  BY DEF Before, Buffered

LEMMA Total ==
  ASSUME NEW a \in Buffered, NEW b \in Buffered, a.order # b.order, ~ Before(a, b)
  PROVE  Before(b, a)
  BY DEF Before, Buffered

(* Places of parents and children, counted from 1. *)
LEMMA Parent ==
  ASSUME NEW i \in Nat, i >= 2
  PROVE  i \div 2 \in Nat /\ 1 <= i \div 2 /\ i \div 2 < i
  OBVIOUS

LEMMA Children ==
  ASSUME NEW i \in Nat, NEW p \in Nat
  PROVE  i \div 2 = p <=> i = 2 * p \/ i = 2 * p + 1
  OBVIOUS

(* A swap loses nothing and moves nothing else. *)
LEMMA Swap ==
  ASSUME NEW h \in Seq(Buffered), NEW i \in 1 .. Len(h), NEW j \in 1 .. Len(h)
  PROVE  /\ Swapped(h, i, j) \in Seq(Buffered) /\ Len(Swapped(h, i, j)) = Len(h)
         /\ Swapped(h, i, j)[i] = h[j] /\ Swapped(h, i, j)[j] = h[i]
         /\ \A k \in 1 .. Len(h) : k # i /\ k # j => Swapped(h, i, j)[k] = h[k]
         /\ Items(Swapped(h, i, j)) = Items(h)
         /\ Numbered(h) => Numbered(Swapped(h, i, j))
  <1> DEFINE g == Swapped(h, i, j)
  <1>1. g \in Seq(Buffered) /\ Len(g) = Len(h)
    BY DEF Swapped
  <1>2. g[i] = h[j] /\ g[j] = h[i] /\ \A k \in 1 .. Len(h) : k # i /\ k # j => g[k] = h[k]
    BY DEF Swapped
  <1> HIDE DEF g
  <1>3. Items(g) = Items(h)
    <2>1. \A k \in 1 .. Len(h) : g[k] \in Items(h) /\ h[k] \in Items(g)
      BY <1>1, <1>2 DEF Items
    <2> QED BY <1>1, <2>1, Zenon DEF Items
  <1>4. Numbered(h) => Numbered(g)
    BY <1>1, <1>2 DEF Numbered
  <1> QED BY <1>1, <1>2, <1>3, <1>4 DEF g

(* The root of a heap comes before everything else. *)
LEMMA RootFirst ==
  ASSUME NEW h \in Seq(Buffered), Ordered(h)
  PROVE  \A i \in 2 .. Len(h) : Before(h[1], h[i])
  <1> DEFINE S == {i \in 2 .. Len(h) : ~ Before(h[1], h[i])}
  <1> SUFFICES ASSUME S # {} PROVE FALSE
    OBVIOUS
  <1>1. S \in SUBSET Nat /\ Len(h) \in Nat
    OBVIOUS
  <1>2. PICK m \in S : \A l \in S : m <= l
    BY <1>1, LeastExists, Zenon
  <1> DEFINE p == m \div 2
  <1>3. m \in 2 .. Len(h) /\ m \in Nat /\ ~ Before(h[1], h[m])
    BY <1>1
  <1>4. p \in Nat /\ 1 <= p /\ p < m
    BY <1>3, Parent
  <1>5. Before(h[p], h[m])
    BY <1>3 DEF Ordered
  <1> HIDE DEF p
  <1>6. p # 1 /\ p \in 2 .. Len(h) /\ ~ (p \in S)
    BY <1>2, <1>3, <1>4, <1>5
  <1>7. Before(h[1], h[p])
    BY <1>6
  <1>8. h[1] \in Buffered /\ h[p] \in Buffered /\ h[m] \in Buffered
    BY <1>3, <1>6
  <1> QED
    BY <1>3, <1>5, <1>7, <1>8, Transitive

(* push: where the item may be while it rises.  Only its own place may be out of
   order, and what is below it comes after what is above it. *)
Rising(h, item) ==
  {p \in Place :
     /\ Len(p.heap) = Len(h) + 1 /\ p.at \in 1 .. Len(p.heap)
     /\ Numbered(p.heap) /\ Items(p.heap) = Items(h) \cup {item}
     /\ p.heap[p.at] = item
     /\ p.at # 1 => p.heap[1] = h[1]
     /\ \A i \in 2 .. Len(p.heap) : i # p.at => Before(p.heap[i \div 2], p.heap[i])
     /\ \A i \in 2 .. Len(p.heap) :
          i \div 2 = p.at /\ p.at > 1 => Before(p.heap[p.at \div 2], p.heap[i])}

(* The item may be put at the end of a heap. *)
LEMMA RiseBegins ==
  ASSUME NEW h \in Seq(Buffered), NEW item \in Buffered, Ordered(h), Numbered(h),
         \A i \in 1 .. Len(h) : h[i].order # item.order
  PROVE  [heap |-> Append(h, item), at |-> Len(h) + 1] \in Rising(h, item)
  <1> DEFINE g == Append(h, item)
             n == Len(h) + 1
  <1>1. Len(h) \in Nat /\ g \in Seq(Buffered) /\ Len(g) = n /\ g[n] = item
    OBVIOUS
  <1>2. \A i \in 1 .. Len(h) : g[i] = h[i]
    OBVIOUS
  <1> HIDE DEF g
  <1>3. Numbered(g)
    BY <1>1, <1>2 DEF Numbered
  <1>4. Items(g) = Items(h) \cup {item}
    <2>1. \A i \in 1 .. n : i = n \/ i \in 1 .. Len(h)
      BY <1>1
    <2>2. n \in 1 .. n /\ \A i \in 1 .. Len(h) : i \in 1 .. n
      BY <1>1
    <2> HIDE DEF n
    <2> QED BY <1>1, <1>2, <2>1, <2>2, Zenon DEF Items
  <1>5. ASSUME NEW i \in 2 .. n, i # n PROVE Before(g[i \div 2], g[i])
    <2>1. i \in Nat /\ i \in 2 .. Len(h)
      BY <1>1, <1>5
    <2>2. i \in 1 .. Len(h) /\ i \div 2 \in 1 .. Len(h)
      BY <1>1, <2>1, Parent
    <2> QED BY <1>2, <2>1, <2>2 DEF Ordered
  <1>6. \A i \in 2 .. n : i \div 2 # n
    BY <1>1, Parent
  <1>7. n # 1 => g[1] = h[1]
    BY <1>1, <1>2
  <1>8. [heap |-> g, at |-> n] \in Place
    BY <1>1 DEF Place
  <1>9. n \in 1 .. n
    BY <1>1
  <1> HIDE DEF n
  <1> QED
    BY <1>1, <1>3, <1>4, <1>5, <1>6, <1>7, <1>8, <1>9, Zenon DEF Rising, g, n

(* A turn leaves it at such a place, and either ends the loop or moves it up. *)
LEMMA RiseTurn ==
  ASSUME NEW h \in Seq(Buffered), NEW item \in Buffered, NEW p \in Rising(h, item)
  PROVE  /\ Rise[p] \in Rising(h, item)
         /\ Rise[p] = p \/ Rise[p].at < p.at
         /\ Rise[p] = p => Ordered(p.heap)
  <1> DEFINE g == p.heap
             c == p.at
             q == c \div 2
             n == Len(g)
             s == Swapped(g, c, q)
  <1>1. /\ p \in Place /\ g \in Seq(Buffered) /\ n \in Nat /\ c \in 1 .. n /\ n = Len(h) + 1
        /\ Numbered(g) /\ Items(g) = Items(h) \cup {item} /\ g[c] = item
        /\ p = [heap |-> g, at |-> c]
    BY DEF Rising, Place
  <1>2. \A i \in 2 .. n : i # c => Before(g[i \div 2], g[i])
    BY DEF Rising
  <1>3. \A i \in 2 .. n : i \div 2 = c /\ c > 1 => Before(g[q], g[i])
    BY DEF Rising
  <1>4. c # 1 => g[1] = h[1]
    BY DEF Rising
  <1>5. Rise[p] = IF c > 1 /\ Before(g[c], g[q]) THEN [heap |-> s, at |-> q] ELSE p
    BY <1>1 DEF Rise
  <1>6. c > 1 => q \in 1 .. n /\ q < c /\ q # c
    BY <1>1, Parent
  <1>7. CASE ~ (c > 1 /\ Before(g[c], g[q]))
    <2>1. Rise[p] = p
      BY <1>5, <1>7
    <2>2. c > 1 => Before(g[q], g[c])
      <3>1. c > 1 => g[c] \in Buffered /\ g[q] \in Buffered /\ g[c].order # g[q].order
        BY <1>1, <1>6 DEF Numbered
      <3> QED BY <1>7, <3>1, Total
    <2>3. Ordered(g)
      BY <1>1, <1>2, <2>2 DEF Ordered
    <2> QED BY <2>1, <2>3
  <1>8. CASE c > 1 /\ Before(g[c], g[q])
    <2>1. q \in 1 .. n /\ q < c /\ q # c /\ c \in 2 .. n
      BY <1>1, <1>6, <1>8
    <2>2. /\ s \in Seq(Buffered) /\ Len(s) = n /\ s[c] = g[q] /\ s[q] = g[c]
          /\ \A k \in 1 .. n : k # c /\ k # q => s[k] = g[k]
          /\ Items(s) = Items(g) /\ Numbered(s)
      <3> HIDE DEF g, c, q, s
      <3>1. c \in 1 .. Len(g) /\ q \in 1 .. Len(g) /\ g \in Seq(Buffered) /\ Numbered(g)
        BY <1>1, <2>1
      <3> QED BY <3>1, Swap, ZenonT(30) DEF n, s
    <2>3. \A i \in 2 .. n : i \in 1 .. n /\ i \div 2 \in 1 .. n /\ i \div 2 # i /\ i \div 2 < i
      BY <1>1, Parent
    <2>4. \A k \in 1 .. n : g[k] \in Buffered
      BY <1>1
    <2> HIDE DEF s, g, n, c, q
    <2>5. ASSUME NEW i \in 2 .. n, i \div 2 = q, i # c PROVE Before(g[c], g[i]) /\ Before(g[q], g[i])
      <3>1. Before(g[q], g[i])
        BY <1>2, <2>5, Zenon
      <3> QED BY <1>1, <1>8, <2>1, <2>3, <2>4, <3>1, Transitive
    <2>6. ASSUME NEW i \in 2 .. n, i # q PROVE Before(s[i \div 2], s[i])
      <3>1. CASE i = c
        BY <1>8, <2>2, <3>1, Zenon DEF q
      <3>2. CASE i # c /\ i \div 2 = c
        BY <1>3, <1>8, <2>2, <2>3, <2>6, <3>2, Zenon
      <3>3. CASE i # c /\ i \div 2 = q
        BY <2>2, <2>3, <2>5, <2>6, <3>3, Zenon
      <3>4. CASE i # c /\ i \div 2 # c /\ i \div 2 # q
        BY <1>2, <2>2, <2>3, <2>6, <3>4, Zenon
      <3> QED BY <3>1, <3>2, <3>3, <3>4
    <2>7. ASSUME NEW i \in 2 .. n, i \div 2 = q, q > 1 PROVE Before(s[q \div 2], s[i])
      <3>1. q \in 2 .. n /\ q # c
        BY <1>1, <2>1, <2>7
      <3>2. Before(g[q \div 2], g[q])
        BY <1>2, <3>1, Zenon
      <3>3. q \div 2 \in 1 .. n /\ q \div 2 # q /\ q \div 2 < q
        BY <2>3, <3>1
      <3>4. q \div 2 # c
        BY <1>1, <2>1, <3>3
      <3>5. s[q \div 2] = g[q \div 2]
        BY <2>2, <3>3, <3>4, Zenon
      <3>6. CASE i = c
        BY <2>2, <3>2, <3>5, <3>6, Zenon
      <3>7. CASE i # c
        <4>1. s[i] = g[i] /\ Before(g[q], g[i])
          BY <2>2, <2>3, <2>5, <2>7, <3>7, Zenon
        <4> QED BY <2>1, <2>3, <2>4, <3>2, <3>3, <3>5, <4>1, Transitive
      <3> QED BY <3>6, <3>7
    <2>8. q # 1 => s[1] = h[1]
      <3>1. q # 1 => 1 \in 1 .. n /\ 1 # c /\ 1 # q
        BY <1>1, <2>1
      <3> QED BY <1>4, <2>2, <3>1, Zenon
    <2>9. [heap |-> s, at |-> q] \in Place
      BY <1>1, <2>1, <2>2 DEF Place
    <2>10. [heap |-> s, at |-> q] \in Rising(h, item)
      BY <1>1, <2>1, <2>2, <2>6, <2>7, <2>8, <2>9, Zenon DEF Rising
    <2>11. [heap |-> s, at |-> q] # p /\ [heap |-> s, at |-> q].at = q
      BY <1>1, <2>1
    <2> QED BY <1>5, <1>8, <2>1, <2>10, <2>11 DEF c
  <1> QED BY <1>7, <1>8

(* packetHeap.push, for a heap of any size: it stays a heap, of the items it had and
   the new one; the new one is at the root if push says so and the root is what it
   was otherwise. *)
THEOREM PushOrders ==
  ASSUME NEW h \in Seq(Buffered), NEW item \in Buffered, Ordered(h), Numbered(h),
         \A i \in 1 .. Len(h) : h[i].order # item.order
  PROVE  /\ Pushed(h, item) \in Seq(Buffered) /\ Len(Pushed(h, item)) = Len(h) + 1
         /\ Ordered(Pushed(h, item)) /\ Numbered(Pushed(h, item))
         /\ Items(Pushed(h, item)) = Items(h) \cup {item}
         /\ Pushed(h, item)[1] = IF AtRoot(h, item) THEN item ELSE h[1]
  <1> DEFINE I == Rising(h, item)
             start == [heap |-> Append(h, item), at |-> Len(h) + 1]
             todo == [p \in I |-> p.at - 1]
             r == Risen(h, item)
  <1>1. start \in I
    BY RiseBegins
  <1>2. Len(h) \in Nat
    OBVIOUS
  <1>3. \A p \in I : p.at \in Nat /\ p.at >= 1
    BY <1>2 DEF Rising
  <1>4. \A p \in I : Rise[p] \in I /\ (Rise[p] = p \/ Rise[p].at < p.at) /\ (Rise[p] = p => Ordered(p.heap))
    BY RiseTurn, Zenon
  <1>5. start.at = Len(h) + 1
    OBVIOUS
  <1> HIDE DEF I, start
  <1>6. \A p \in I : /\ Rise[p] \in I /\ todo[p] \in Nat
                     /\ Rise[p] = p \/ todo[Rise[p]] < todo[p]
    BY <1>3, <1>4
  <1>7. todo[start] <= Len(h)
    BY <1>1, <1>2, <1>5
  <1> HIDE DEF todo
  <1>8. After(Rise, start, Len(h)) \in I /\ Rise[After(Rise, start, Len(h))] = After(Rise, start, Len(h))
    BY <1>1, <1>2, <1>6, <1>7, LoopEnds, Zenon
  <1>9. r \in I /\ Rise[r] = r
    BY <1>8, Zenon DEF Risen, start
  <1> HIDE DEF r
  <1>10. Ordered(r.heap)
    BY <1>4, <1>9
  <1>11. Pushed(h, item) = r.heap /\ (AtRoot(h, item) <=> r.at = 1)
    BY DEF Pushed, AtRoot, r
  <1>12. /\ r.heap \in Seq(Buffered) /\ Len(r.heap) = Len(h) + 1
         /\ Numbered(r.heap) /\ Items(r.heap) = Items(h) \cup {item}
         /\ r.heap[r.at] = item /\ (r.at # 1 => r.heap[1] = h[1])
    BY <1>9 DEF I, Rising, Place
  <1> QED
    BY <1>10, <1>11, <1>12, Zenon

(* pop: where the item may be while it sinks.  Only what is below it may be out of
   order, and that comes after what is above it. *)
Sinking(h) ==
  {p \in Place :
     /\ Len(p.heap) = Len(h) - 1 /\ 1 <= p.at /\ p.at <= High(1, Len(p.heap))
     /\ Numbered(p.heap) /\ Items(p.heap) = Items(h) \ {h[1]}
     /\ \A i \in 2 .. Len(p.heap) : i \div 2 # p.at => Before(p.heap[i \div 2], p.heap[i])
     /\ \A i \in 2 .. Len(p.heap) :
          i \div 2 = p.at /\ p.at > 1 => Before(p.heap[p.at \div 2], p.heap[i])}

(* The last item may be put at the root. *)
LEMMA SinkBegins ==
  ASSUME NEW h \in Seq(Buffered), Len(h) > 0, Ordered(h), Numbered(h)
  PROVE  [heap |-> Cut(h), at |-> 1] \in Sinking(h)
  <1> DEFINE g == Cut(h)
             n == Len(h) - 1
  <1>1. Len(h) \in Nat /\ n \in Nat /\ g \in Seq(Buffered) /\ Len(g) = n
    BY DEF Cut
  <1>2. \A i \in 1 .. n : g[i] = IF i = 1 THEN h[Len(h)] ELSE h[i]
    BY DEF Cut
  <1> HIDE DEF g
  <1>3. Numbered(g)
    BY <1>1, <1>2 DEF Numbered
  <1>4. Items(g) = Items(h) \ {h[1]}
    <2>1. ASSUME NEW i \in 1 .. n PROVE g[i] \in Items(h) /\ g[i] # h[1]
      BY <1>1, <1>2 DEF Numbered, Items
    <2>2. ASSUME NEW i \in 1 .. Len(h), h[i] # h[1] PROVE h[i] \in Items(g)
      <3>1. CASE i = Len(h)
        <4>1. 1 \in 1 .. n /\ g[1] = h[i]
          BY <1>1, <1>2, <2>2, <3>1
        <4> QED BY <1>1, <4>1, Zenon DEF Items
      <3>2. CASE i # Len(h)
        <4>1. i \in 1 .. n /\ g[i] = h[i]
          BY <1>1, <1>2, <2>2, <3>2
        <4> QED BY <1>1, <4>1, Zenon DEF Items
      <3> QED BY <3>1, <3>2
    <2> HIDE DEF n
    <2> QED BY <1>1, <2>1, <2>2, Zenon DEF Items
  <1>5. ASSUME NEW i \in 2 .. n, i \div 2 # 1 PROVE Before(g[i \div 2], g[i])
    <2>1. i \in Nat /\ i \in 2 .. Len(h) /\ i \in 1 .. n /\ i # 1
      BY <1>1
    <2>2. i \div 2 \in 1 .. n
      BY <1>1, <2>1, Parent
    <2> QED BY <1>2, <1>5, <2>1, <2>2 DEF Ordered
  <1>6. [heap |-> g, at |-> 1] \in Place
    BY <1>1 DEF Place
  <1>7. 1 <= 1 /\ 1 <= High(1, n) /\ ~ (1 > 1)
    BY <1>1 DEF High
  <1> HIDE DEF n
  <1> QED
    BY <1>1, <1>3, <1>4, <1>5, <1>6, <1>7, Zenon DEF Sinking, g, n

(* What sink looks for: the least of an item and its children. *)
Least(g, c) == Smaller(g, Smaller(g, c, 2 * c), 2 * c + 1)

(* Either the item is where it belongs, or its least child changes places with it. *)
LEMMA Smallest ==
  ASSUME NEW g \in Seq(Buffered), NEW c \in Nat, 1 <= c, c <= High(1, Len(g)), Numbered(g)
  PROVE  \/ /\ Least(g, c) = c
            /\ \A i \in 2 .. Len(g) : i \div 2 = c => Before(g[c], g[i])
         \/ /\ Least(g, c) \in 2 .. Len(g) /\ Least(g, c) \div 2 = c /\ c \in 1 .. Len(g)
            /\ Before(g[Least(g, c)], g[c])
            /\ \A i \in 2 .. Len(g) : i \div 2 = c /\ i # Least(g, c) => Before(g[Least(g, c)], g[i])
  <1> DEFINE n == Len(g)
             d == Least(g, c)
             l == 2 * c
             e == Smaller(g, c, l)
  <1>1. n \in Nat /\ l \in Nat /\ l + 1 \in Nat /\ l >= 2 /\ l > c
    OBVIOUS
  <1>2. \A i \in 2 .. n : i \div 2 = c <=> i = l \/ i = l + 1
    BY Children
  <1>3. l <= n => c \in 1 .. n /\ l \in 1 .. n
    BY <1>1 DEF High
  <1>4. \A i \in 1 .. n : g[i] \in Buffered
    OBVIOUS
  <1>5. \A i, j \in 1 .. n : i # j => g[i].order # g[j].order
    BY DEF Numbered
  <1>6. e = IF l <= n /\ Before(g[l], g[c]) THEN l ELSE c
    BY DEF Smaller
  <1>7. d = IF l + 1 <= n /\ Before(g[l + 1], g[e]) THEN l + 1 ELSE e
    BY DEF Least, Smaller
  <1> HIDE DEF n, l, e, d
  <1>8. CASE l > n
    <2>1. e = c /\ d = c
      BY <1>1, <1>6, <1>7, <1>8
    <2>2. \A i \in 2 .. n : i \div 2 # c
      BY <1>1, <1>2, <1>8
    <2> QED BY <2>1, <2>2 DEF n, d
  <1>9. CASE l <= n
    <2>1. c \in 1 .. n /\ l \in 1 .. n /\ l \in 2 .. n /\ c # l
      BY <1>1, <1>3, <1>9
    <2>2. e \in {c, l} /\ e \in 1 .. n
      BY <1>6, <2>1
    <2>3. l # e => Before(g[e], g[l])
      BY <1>4, <1>5, <1>6, <1>9, <2>1, Total
    <2>4. c # e => Before(g[e], g[c])
      BY <1>6
    <2>5. CASE l + 1 > n
      <3>1. d = e /\ \A i \in 2 .. n : i \div 2 = c <=> i = l
        BY <1>1, <1>2, <1>7, <2>1, <2>5
      <3>2. l \div 2 = c
        BY <2>1, <3>1
      <3> QED BY <2>1, <2>2, <2>3, <2>4, <3>1, <3>2, Zenon DEF n, d
    <2>6. CASE l + 1 <= n
      <3>1. l + 1 \in 1 .. n /\ l + 1 \in 2 .. n /\ l + 1 # e /\ l + 1 # c /\ l + 1 # l
        BY <1>1, <2>1, <2>2, <2>6
      <3>2. l \div 2 = c /\ (l + 1) \div 2 = c
        BY <1>2, <2>1, <3>1
      <3>3. CASE Before(g[l + 1], g[e])
        <4>1. d = l + 1
          BY <1>7, <2>6, <3>3
        <4>2. Before(g[d], g[c]) /\ Before(g[d], g[l])
          <5>1. Before(g[d], g[e]) /\ d \in 1 .. n
            BY <3>1, <3>3, <4>1
          <5> QED BY <1>4, <2>1, <2>2, <2>3, <2>4, <5>1, Transitive
        <4> QED BY <1>2, <2>1, <3>1, <3>2, <4>1, <4>2, Zenon DEF n, d
      <3>4. CASE ~ Before(g[l + 1], g[e])
        <4>1. d = e
          BY <1>7, <3>4
        <4>2. Before(g[e], g[l + 1])
          BY <1>4, <1>5, <2>2, <3>1, <3>4, Total
        <4> QED BY <1>2, <2>1, <2>2, <2>3, <2>4, <3>1, <3>2, <4>1, <4>2, Zenon DEF n, d
      <3> QED BY <3>3, <3>4
    <2> QED BY <1>1, <2>5, <2>6
  <1> QED BY <1>1, <1>8, <1>9

(* A turn leaves the item at such a place, and either ends the loop or moves it down. *)
LEMMA SinkTurn ==
  ASSUME NEW h \in Seq(Buffered), NEW p \in Sinking(h)
  PROVE  /\ Sink[p] \in Sinking(h)
         /\ Sink[p] = p \/ (p.at < Sink[p].at /\ Sink[p].at <= Len(h) - 1)
         /\ Sink[p] = p => Ordered(p.heap)
  <1> DEFINE g == p.heap
             c == p.at
             n == Len(g)
             d == Least(g, c)
             s == Swapped(g, c, d)
  <1>1. /\ p \in Place /\ g \in Seq(Buffered) /\ n \in Nat /\ n = Len(h) - 1
        /\ c \in Nat /\ 1 <= c /\ c <= High(1, n)
        /\ Numbered(g) /\ Items(g) = Items(h) \ {h[1]}
        /\ p = [heap |-> g, at |-> c]
    BY DEF Sinking, Place
  <1>2. \A i \in 2 .. n : i \div 2 # c => Before(g[i \div 2], g[i])
    BY DEF Sinking
  <1>3. \A i \in 2 .. n : i \div 2 = c /\ c > 1 => Before(g[c \div 2], g[i])
    BY DEF Sinking
  <1>4. Sink[p] = IF d = c THEN p ELSE [heap |-> s, at |-> d]
    BY <1>1 DEF Sink, Least
  <1> HIDE DEF g, c, d, s
  <1>5. \/ d = c /\ \A i \in 2 .. n : i \div 2 = c => Before(g[c], g[i])
        \/ /\ d \in 2 .. n /\ d \div 2 = c /\ c \in 1 .. n /\ Before(g[d], g[c])
           /\ \A i \in 2 .. n : i \div 2 = c /\ i # d => Before(g[d], g[i])
    <2>1. c <= High(1, Len(g))
      BY <1>1 DEF n
    <2> QED BY <1>1, <2>1, Smallest, Zenon DEF n, d
  <1>6. CASE d = c /\ \A i \in 2 .. n : i \div 2 = c => Before(g[c], g[i])
    <2>1. Sink[p] = p
      BY <1>4, <1>6, Zenon
    <2>2. Ordered(g)
      BY <1>2, <1>6, Zenon DEF Ordered, n
    <2> QED BY <2>1, <2>2 DEF g
  <1>7. CASE /\ d \in 2 .. n /\ d \div 2 = c /\ c \in 1 .. n /\ Before(g[d], g[c])
             /\ \A i \in 2 .. n : i \div 2 = c /\ i # d => Before(g[d], g[i])
    <2>1. d \in 1 .. n /\ c < d /\ c # d /\ d \in Nat /\ d <= Len(h) - 1 /\ d > 1
      BY <1>1, <1>7, Parent
    <2>2. /\ s \in Seq(Buffered) /\ Len(s) = n /\ s[c] = g[d] /\ s[d] = g[c]
          /\ \A k \in 1 .. n : k # c /\ k # d => s[k] = g[k]
          /\ Items(s) = Items(g) /\ Numbered(s)
      <3>1. c \in 1 .. Len(g) /\ d \in 1 .. Len(g) /\ g \in Seq(Buffered) /\ Numbered(g)
        BY <1>1, <1>7, <2>1 DEF n
      <3> QED BY <3>1, Swap, ZenonT(30) DEF n, s
    <2>3. \A i \in 2 .. n : i \in 1 .. n /\ i \div 2 \in 1 .. n /\ i \div 2 # i /\ i \div 2 < i
      BY <1>1, Parent
    <2> HIDE DEF n
    <2>4. ASSUME NEW i \in 2 .. n, i \div 2 # d PROVE Before(s[i \div 2], s[i])
      <3>1. CASE i = d
        BY <1>7, <2>2, <3>1, Zenon
      <3>2. CASE i # d /\ i \div 2 = c
        BY <1>7, <2>2, <2>3, <3>2, Zenon
      <3>3. CASE i = c
        <4>1. c > 1 /\ c \div 2 \in 1 .. n /\ c \div 2 # c /\ c \div 2 # d
          BY <1>1, <2>1, <2>3, <3>3
        <4>2. s[c \div 2] = g[c \div 2]
          BY <2>2, <4>1, Zenon
        <4> QED BY <1>3, <1>7, <2>2, <3>3, <4>1, <4>2, Zenon
      <3>4. CASE i # d /\ i # c /\ i \div 2 # c
        BY <1>2, <2>2, <2>3, <2>4, <3>4, Zenon
      <3> QED BY <3>1, <3>2, <3>3, <3>4
    <2>5. ASSUME NEW i \in 2 .. n, i \div 2 = d PROVE Before(s[d \div 2], s[i])
      <3>1. i # d /\ i # c
        BY <1>1, <2>1, <2>3, <2>5
      <3> QED BY <1>2, <1>7, <2>1, <2>2, <2>3, <2>5, <3>1, Zenon
    <2>6. [heap |-> s, at |-> d] \in Place /\ 1 <= d /\ d <= High(1, n)
      BY <1>1, <1>7, <2>1, <2>2 DEF Place, High
    <2>7. [heap |-> s, at |-> d] \in Sinking(h)
      BY <1>1, <2>2, <2>4, <2>5, <2>6, Zenon DEF Sinking
    <2>8. Sink[p] = [heap |-> s, at |-> d] /\ Sink[p] # p /\ Sink[p].at = d
      BY <1>1, <1>4, <2>1
    <2> QED BY <2>1, <2>7, <2>8 DEF c
  <1> QED BY <1>5, <1>6, <1>7

(* packetHeap.pop, for a heap of any size: it stays a heap, of the items it had but
   the one at the root, which came before them all. *)
THEOREM PopOrders ==
  ASSUME NEW h \in Seq(Buffered), Len(h) > 0, Ordered(h), Numbered(h)
  PROVE  /\ Popped(h) \in Seq(Buffered) /\ Len(Popped(h)) = Len(h) - 1
         /\ Ordered(Popped(h)) /\ Numbered(Popped(h))
         /\ Items(Popped(h)) = Items(h) \ {h[1]}
         /\ \A item \in Items(Popped(h)) : Before(h[1], item)
  <1> DEFINE I == Sinking(h)
             start == [heap |-> Cut(h), at |-> 1]
             todo == [p \in I |-> High(1, Len(h) - 1) - p.at]
             r == After(Sink, start, Len(h) - 1)
  <1>1. start \in I
    BY SinkBegins
  <1>2. Len(h) \in Nat /\ Len(h) - 1 \in Nat
    OBVIOUS
  <1>3. \A p \in I : p.at \in Nat /\ p.at >= 1 /\ p.at <= High(1, Len(h) - 1)
    BY <1>2 DEF Sinking, Place
  <1>4. \A p \in I : /\ Sink[p] \in I
                     /\ Sink[p] = p \/ (p.at < Sink[p].at /\ Sink[p].at <= Len(h) - 1)
                     /\ Sink[p] = p => Ordered(p.heap)
    BY SinkTurn, Zenon
  <1>5. start.at = 1
    OBVIOUS
  <1>6. High(1, Len(h) - 1) \in Nat /\ High(1, Len(h) - 1) <= Len(h) - 1 + 1
    BY <1>2 DEF High
  <1> HIDE DEF I, start
  <1>7. \A p \in I : /\ Sink[p] \in I /\ todo[p] \in Nat
                     /\ Sink[p] = p \/ todo[Sink[p]] < todo[p]
    BY <1>2, <1>3, <1>4, <1>6
  <1>8. todo[start] <= Len(h) - 1
    BY <1>1, <1>2, <1>5, <1>6
  <1> HIDE DEF todo
  <1>9. r \in I /\ Sink[r] = r
    BY <1>1, <1>2, <1>7, <1>8, LoopEnds, Zenon
  <1>10. Popped(h) = r.heap
    BY DEF Popped, start
  <1> HIDE DEF r
  <1>11. Ordered(r.heap)
    BY <1>4, <1>9
  <1>12. /\ r.heap \in Seq(Buffered) /\ Len(r.heap) = Len(h) - 1
         /\ Numbered(r.heap) /\ Items(r.heap) = Items(h) \ {h[1]}
    BY <1>9 DEF I, Sinking, Place
  <1>13. ASSUME NEW item \in Items(h), item # h[1] PROVE Before(h[1], item)
    <2>1. PICK i \in 1 .. Len(h) : item = h[i]
      BY Zenon DEF Items
    <2>2. i \in 2 .. Len(h)
      BY <1>2, <1>13, <2>1
    <2> QED BY <2>1, <2>2, RootFirst
  <1> QED
    BY <1>10, <1>11, <1>12, <1>13, Zenon

-----------------------------------------------------------------------------
(* Feed.  The queue is a heap and the orders of its packets are their ranks. *)
Ranked(h) ==
  /\ h \in Seq(Buffered) /\ Ordered(h) /\ Numbered(h)
  /\ \A i \in 1 .. Len(h) : h[i].order \in 1 .. Len(h)

FeedTypeOK ==
  /\ Ranked(queue) /\ closed \in BOOLEAN /\ target \in Int
  /\ reader \in {"awake", "parked", "returned"} /\ timer \in Nat \cup {Off} /\ wakes \in Nat
  /\ group \in Int /\ groupGap \in Int /\ frameGap \in Int /\ nextSlot \in Int
  /\ offset \in Int /\ fall \in 0 .. MaxFall

(* How long the reader sleeps: till the packet at the root is due, or for its pace,
   and longer only by what the curve came down while it slept. *)
Sleep(t, due, f) ==
  \/ t - due + f <= MaxFall
  \/ t <= maxPaceLag /\ t - due + f <= 2 * maxPaceLag + MaxFall

(* A reader that nothing is about to wake has its timer set. *)
Asleep ==
  reader = "parked" /\ wakes = 0 /\ queue # <<>> =>
    timer # Off /\ (~ closed => Sleep(timer, Due, fall))

FeedInv == FeedTypeOK /\ Asleep

(* The queue's operations keep the ranks. *)
LEMMA EmptyRanked == Ranked(<<>>)
  BY DEF Ranked, Ordered, Numbered

LEMMA Packet ==
  ASSUME NEW b \in Buffered
  PROVE  b.playAt \in Int /\ b.order \in Nat /\ b = [playAt |-> b.playAt, order |-> b.order]
  BY DEF Buffered

LEMMA NotEmpty ==
  ASSUME NEW h \in Seq(Buffered), h # <<>>
  PROVE  Len(h) \in Nat /\ Len(h) > 0 /\ h[1] \in Buffered /\ h[1].playAt \in Int
  <1>1. Len(h) \in Nat /\ Len(h) > 0
    OBVIOUS
  <1>2. h[1] \in Buffered
    BY <1>1
  <1> QED BY <1>1, <1>2, Packet

LEMMA PushRanked ==
  ASSUME NEW h, Ranked(h), NEW at \in Int, NEW item, item = [playAt |-> at, order |-> Len(h) + 1]
  PROVE  /\ Ranked(Pushed(h, item)) /\ Pushed(h, item) # <<>>
         /\ ~ AtRoot(h, item) => h # <<>> /\ Pushed(h, item)[1] = h[1]
  <1> DEFINE g == Pushed(h, item)
  <1>1. h \in Seq(Buffered) /\ Len(h) \in Nat /\ item \in Buffered /\ item.order = Len(h) + 1
    BY DEF Ranked, Buffered
  <1>2. \A i \in 1 .. Len(h) : h[i].order \in Nat /\ h[i].order <= Len(h) /\ 1 <= h[i].order
    BY <1>1 DEF Ranked
  <1>3. \A i \in 1 .. Len(h) : h[i].order # item.order
    BY <1>1, <1>2
  <1>4. /\ g \in Seq(Buffered) /\ Len(g) = Len(h) + 1 /\ Ordered(g) /\ Numbered(g)
        /\ Items(g) = Items(h) \cup {item}
        /\ g[1] = IF AtRoot(h, item) THEN item ELSE h[1]
    BY <1>1, <1>3, PushOrders, Zenon DEF Ranked
  <1> HIDE DEF g
  <1>5. ASSUME NEW i \in 1 .. Len(g) PROVE g[i].order \in 1 .. Len(g)
    <2>1. g[i] = item \/ \E j \in 1 .. Len(h) : g[i] = h[j]
      BY <1>4, Zenon DEF Items
    <2> QED BY <1>1, <1>2, <1>4, <2>1
  <1>6. g # <<>>
    BY <1>1, <1>4
  <1>7. ~ AtRoot(h, item) => h # <<>>
    <2> SUFFICES ASSUME h = <<>>, ~ AtRoot(h, item) PROVE FALSE
      OBVIOUS
    <2>1. Len(h) = 0
      OBVIOUS
    <2>2. Risen(h, item) = [heap |-> Append(h, item), at |-> Len(h) + 1]
      <3>1. After(Rise, [heap |-> Append(h, item), at |-> Len(h) + 1], 0) = [heap |-> Append(h, item), at |-> Len(h) + 1]
        <4> DEFINE start == [heap |-> Append(h, item), at |-> Len(h) + 1]
                   f == CHOOSE f : Course(Rise, start, f, 0)
        <4>1. Course(Rise, start, f, 0)
          BY CourseExists, Zenon
        <4>2. After(Rise, start, 0) = f[0]
          BY DEF After, Course
        <4> HIDE DEF f, start
        <4>3. f[0] = start
          BY <4>1 DEF Course
        <4> QED BY <4>2, <4>3 DEF start
      <3> QED BY <2>1, <3>1 DEF Risen
    <2> QED BY <2>1, <2>2 DEF AtRoot
  <1> QED BY <1>4, <1>5, <1>6, <1>7 DEF Ranked, g

(* moveClockLocked moves all packets alike, so the heap stays one. *)
LEMMA ShiftRanked ==
  ASSUME NEW h, Ranked(h), NEW by \in Int
  PROVE  /\ Ranked(Shifted(h, by))
         /\ h = <<>> <=> Shifted(h, by) = <<>>
         /\ h # <<>> => Shifted(h, by)[1].playAt = h[1].playAt + by
  <1> DEFINE g == Shifted(h, by)
  <1>1. h \in Seq(Buffered) /\ Len(h) \in Nat
    BY DEF Ranked
  <1>2. \A i \in 1 .. Len(h) : h[i].playAt \in Int /\ h[i].order \in Nat /\ h[i].order \in 1 .. Len(h)
    <2>1. \A i \in 1 .. Len(h) : h[i] \in Buffered
      BY <1>1
    <2> QED BY <2>1, Packet DEF Ranked
  <1>3. \A i \in 1 .. Len(h) : /\ g[i].playAt = h[i].playAt + by /\ g[i].order = h[i].order
                               /\ g[i] \in Buffered
    <2> SUFFICES ASSUME NEW i \in 1 .. Len(h)
                 PROVE  g[i].playAt = h[i].playAt + by /\ g[i].order = h[i].order /\ g[i] \in Buffered
      OBVIOUS
    <2>1. h[i] \in Buffered
      BY <1>1
    <2>2. g[i] = [h[i] EXCEPT !.playAt = h[i].playAt + by]
      BY DEF Shifted
    <2> HIDE DEF g
    <2> QED BY <2>1, <2>2 DEF Buffered
  <1>4. g \in Seq(Buffered) /\ Len(g) = Len(h)
    BY <1>1, <1>3 DEF Shifted
  <1> HIDE DEF g
  <1>5. Ordered(g)
    <2> SUFFICES ASSUME NEW i \in 2 .. Len(h) PROVE Before(g[i \div 2], g[i])
      BY <1>4 DEF Ordered
    <2>1. i \in 1 .. Len(h) /\ i \div 2 \in 1 .. Len(h)
      BY <1>1, Parent
    <2>2. Before(h[i \div 2], h[i])
      BY DEF Ranked, Ordered
    <2>3. /\ h[i].playAt \in Int /\ h[i].order \in Nat
          /\ h[i \div 2].playAt \in Int /\ h[i \div 2].order \in Nat
      BY <1>2, <2>1, Zenon
    <2>4. /\ g[i].playAt = h[i].playAt + by /\ g[i].order = h[i].order
          /\ g[i \div 2].playAt = h[i \div 2].playAt + by /\ g[i \div 2].order = h[i \div 2].order
      BY <1>3, <2>1, Zenon
    <2> QED BY <2>2, <2>3, <2>4 DEF Before
  <1>6. Numbered(g) /\ \A i \in 1 .. Len(g) : g[i].order \in 1 .. Len(g)
    BY <1>2, <1>3, <1>4, Zenon DEF Ranked, Numbered
  <1>7. h = <<>> <=> g = <<>>
    BY <1>1, <1>4
  <1>8. h # <<>> => g[1].playAt = h[1].playAt + by
    BY <1>1, <1>3
  <1> QED BY <1>4, <1>5, <1>6, <1>7, <1>8 DEF Ranked, g

(* The ranks that remain close up over the one taken. *)
LEMMA PopRanked ==
  ASSUME NEW h, Ranked(h), h # <<>>
  PROVE  Ranked(Renumbered(Popped(h), h[1].order))
  <1> DEFINE p == Popped(h)
             gone == h[1].order
             g == Renumbered(p, gone)
             n == Len(h)
  <1>1. h \in Seq(Buffered) /\ n \in Nat /\ n > 0 /\ gone \in Nat /\ 1 <= gone /\ gone <= n
    BY DEF Ranked
  <1>2. p \in Seq(Buffered) /\ Len(p) = n - 1 /\ Ordered(p) /\ Numbered(p) /\ Items(p) = Items(h) \ {h[1]}
    BY <1>1, PopOrders, Zenon DEF Ranked
  <1> HIDE DEF p
  <1>3. ASSUME NEW i \in 1 .. n - 1
        PROVE  /\ p[i].order \in Nat /\ p[i].order \in 1 .. n /\ p[i].order # gone
               /\ p[i].playAt \in Int /\ p[i] = [playAt |-> p[i].playAt, order |-> p[i].order]
    <2>1. p[i] \in Items(h) /\ p[i] # h[1]
      BY <1>2, Zenon DEF Items
    <2>2. PICK j \in 1 .. Len(h) : p[i] = h[j]
      BY <2>1, Zenon DEF Items
    <2>3. j # 1 /\ 1 \in 1 .. Len(h)
      BY <1>1, <2>1, <2>2
    <2>4. h[j].order # h[1].order
      BY <2>3, Zenon DEF Ranked, Numbered
    <2>5. h[j] \in Buffered /\ h[j].order \in 1 .. n
      BY <1>1 DEF Ranked
    <2> QED BY <1>1, <2>2, <2>4, <2>5 DEF Buffered
  <1> HIDE DEF n, gone
  <1>4. \A i \in 1 .. n - 1 : g[i] = IF p[i].order > gone THEN [playAt |-> p[i].playAt, order |-> p[i].order - 1] ELSE p[i]
    BY <1>2, <1>3 DEF Renumbered
  <1>5. \A i \in 1 .. n - 1 : /\ g[i].playAt = p[i].playAt
                              /\ g[i].order = IF p[i].order > gone THEN p[i].order - 1 ELSE p[i].order
                              /\ g[i] \in Buffered
    <2> SUFFICES ASSUME NEW i \in 1 .. n - 1
                 PROVE  /\ g[i].playAt = p[i].playAt
                        /\ g[i].order = IF p[i].order > gone THEN p[i].order - 1 ELSE p[i].order
                        /\ g[i] \in Buffered
      OBVIOUS
    <2>1. g[i] = IF p[i].order > gone THEN [playAt |-> p[i].playAt, order |-> p[i].order - 1] ELSE p[i]
      BY <1>4, Zenon
    <2> HIDE DEF g
    <2>2. p[i].order \in Nat /\ p[i].playAt \in Int
          /\ p[i] = [playAt |-> p[i].playAt, order |-> p[i].order]
      BY <1>3, Zenon
    <2>3. CASE p[i].order > gone
      BY <1>1, <2>1, <2>2, <2>3 DEF Buffered
    <2>4. CASE ~ (p[i].order > gone)
      BY <2>1, <2>2, <2>4 DEF Buffered
    <2> QED BY <2>3, <2>4
  <1>6. g \in Seq(Buffered) /\ Len(g) = n - 1
    BY <1>1, <1>2, <1>5 DEF Renumbered
  <1> HIDE DEF g
  <1>7. Ordered(g)
    <2> SUFFICES ASSUME NEW i \in 2 .. n - 1 PROVE Before(g[i \div 2], g[i])
      BY <1>6 DEF Ordered
    <2>1. i \in 1 .. n - 1 /\ i \div 2 \in 1 .. n - 1
      BY <1>1, Parent
    <2>2. Before(p[i \div 2], p[i])
      BY <1>2 DEF Ordered
    <2>3. /\ p[i].playAt \in Int /\ p[i].order \in Nat /\ p[i].order # gone
          /\ p[i \div 2].playAt \in Int /\ p[i \div 2].order \in Nat /\ p[i \div 2].order # gone
      BY <1>3, <2>1, Zenon
    <2>4. /\ g[i].playAt = p[i].playAt /\ g[i \div 2].playAt = p[i \div 2].playAt
          /\ g[i].order = IF p[i].order > gone THEN p[i].order - 1 ELSE p[i].order
          /\ g[i \div 2].order =
               IF p[i \div 2].order > gone THEN p[i \div 2].order - 1 ELSE p[i \div 2].order
      BY <1>5, <2>1, Zenon
    <2> QED BY <1>1, <2>2, <2>3, <2>4 DEF Before
  <1>8. Numbered(g)
    <2> SUFFICES ASSUME NEW i \in 1 .. n - 1, NEW j \in 1 .. n - 1, g[i].order = g[j].order
                 PROVE  i = j
      BY <1>6 DEF Numbered
    <2>1. /\ p[i].order \in Nat /\ p[i].order # gone
          /\ p[j].order \in Nat /\ p[j].order # gone
      BY <1>3, Zenon
    <2>2. /\ g[i].order = IF p[i].order > gone THEN p[i].order - 1 ELSE p[i].order
          /\ g[j].order = IF p[j].order > gone THEN p[j].order - 1 ELSE p[j].order
      BY <1>5, Zenon
    <2>3. p[i].order = p[j].order
      <3>1. gone \in Nat
        BY <1>1
      <3>2. (IF p[i].order > gone THEN p[i].order - 1 ELSE p[i].order)
              = IF p[j].order > gone THEN p[j].order - 1 ELSE p[j].order
        BY <2>2, Zenon
      <3> DEFINE a == p[i].order
                 b == p[j].order
      <3>3. /\ a \in Nat /\ b \in Nat /\ a # gone /\ b # gone
            /\ (IF a > gone THEN a - 1 ELSE a) = IF b > gone THEN b - 1 ELSE b
        BY <2>1, <3>2
      <3> HIDE DEF a, b
      <3>4. a = b
        BY <3>1, <3>3
      <3> QED BY <3>4 DEF a, b
    <2> QED BY <1>2, <2>3, Zenon DEF Numbered
  <1>9. \A i \in 1 .. Len(g) : g[i].order \in 1 .. Len(g)
    <2> SUFFICES ASSUME NEW i \in 1 .. n - 1 PROVE g[i].order \in 1 .. n - 1
      BY <1>6
    <2>1. p[i].order \in Nat /\ p[i].order \in 1 .. n /\ p[i].order # gone
      BY <1>3, Zenon
    <2>2. g[i].order = IF p[i].order > gone THEN p[i].order - 1 ELSE p[i].order
      BY <1>5, Zenon
    <2> QED BY <1>1, <2>1, <2>2
  <1> QED BY <1>6, <1>7, <1>8, <1>9 DEF Ranked, g, gone, p

LEMMA Allowance ==
  ASSUME NEW gap \in Int
  PROVE  lateAllowance(gap) \in Nat /\ lateAllowance(gap) <= maxPaceLag
  BY FeedConstants DEF lateAllowance, Low

(* Pacing: the numbers stay numbers, no hold is longer than maxPaceLag, and a packet
   that is later than that is not held. *)
Pacing == [group : Int, groupGap : Int, frameGap : Int, nextSlot : Int]

LEMMA GroupStarted ==
  ASSUME FeedTypeOK, queue # <<>>, NEW p \in Pacing
  PROVE  StartedGroup(p) \in Pacing
  <1>1. queue \in Seq(Buffered) /\ Len(queue) \in Nat /\ queue[1].playAt \in Int
    BY NotEmpty DEF FeedTypeOK, Ranked
  <1>2. Learned(p) \in Int
    <2>1. p.group \in Int /\ p.frameGap \in Int
      BY DEF Pacing
    <2>2. queue[1].playAt - p.group \in Int
      BY <1>1, <2>1
    <2>3. (3 * p.frameGap + (queue[1].playAt - p.group)) \div 4 \in Int
      BY <2>1, <2>2
    <2> QED BY <2>1, <2>2, <2>3 DEF Learned
  <1>3. Packets \in Nat
    BY <1>1 DEF Packets
  <1> DEFINE gap == Learned(p)
             spread == IF Packets > 1 THEN ((gap * 4) \div 5) \div Packets ELSE 0
  <1>4. spread \in Int
    <2> DEFINE k == Packets
               l == Learned(p)
    <2> HIDE DEF k, l
    <2>1. k \in Nat /\ l \in Int
      BY <1>2, <1>3 DEF k, l
    <2>2. (l * 4) \div 5 \in Int
      BY <2>1
    <2>3. k > 1 => ((l * 4) \div 5) \div k \in Int
      BY <2>1, <2>2
    <2> QED BY <2>3 DEF k, l
  <1>5. StartedGroup(p) = IF queue[1].playAt = p.group THEN p
                          ELSE [group |-> queue[1].playAt, frameGap |-> gap, nextSlot |-> 0, groupGap |-> spread]
    BY DEF StartedGroup
  <1> HIDE DEF gap, spread
  <1>6. gap \in Int
    BY <1>2 DEF gap
  <1> QED
    BY <1>1, <1>4, <1>5, <1>6 DEF Pacing

LEMMA PacedType ==
  ASSUME FeedTypeOK, queue # <<>>
  PROVE  /\ Due \in Int /\ Paced \in Pacing /\ Hold(Paced) \in Int
         /\ Hold(Paced) <= maxPaceLag /\ (Hold(Paced) > 0 => - Due <= maxPaceLag)
         /\ Charged(Paced) \in Pacing
  <1> DEFINE was == [group |-> group, groupGap |-> groupGap, frameGap |-> frameGap, nextSlot |-> nextSlot]
             p == StartedGroup(was)
             r == Paced
  <1>1. Due \in Int
    BY NotEmpty DEF FeedTypeOK, Ranked, Due
  <1>2. was \in Pacing
    BY DEF FeedTypeOK, Pacing
  <1> HIDE DEF was
  <1>3. p \in Pacing
    BY <1>2, GroupStarted, Zenon
  <1>4. r = IF - Due > lateAllowance(p.frameGap) THEN [p EXCEPT !.nextSlot = 0] ELSE p
    BY DEF Paced, was
  <1> HIDE DEF p, r
  <1>5. r \in Pacing /\ r.frameGap = p.frameGap
    BY <1>3, <1>4 DEF Pacing
  <1>6. - Due > lateAllowance(r.frameGap) => r.nextSlot = 0
    BY <1>3, <1>4, <1>5 DEF Pacing
  <1>7. r.frameGap \in Int /\ r.nextSlot \in Int /\ r.groupGap \in Int
    BY <1>5 DEF Pacing
  <1> DEFINE a == lateAllowance(r.frameGap)
  <1>8. a \in Nat /\ a <= maxPaceLag /\ maxPaceLag \in Nat
    BY <1>7, Allowance, FeedConstants, Zenon
  <1>9. Hold(r) = Low(High(0, r.nextSlot), a)
    BY DEF Hold
  <1>10. Charged(r) = IF r.groupGap <= 0 THEN r
                      ELSE [r EXCEPT !.nextSlot = (IF r.nextSlot < - a THEN 0 ELSE r.nextSlot) + r.groupGap]
    BY DEF Charged
  <1> HIDE DEF a
  <1>11. Hold(r) \in Int /\ Hold(r) <= maxPaceLag
    BY <1>7, <1>8, <1>9 DEF Low, High
  <1>12. Hold(r) > 0 => - Due <= maxPaceLag
    <2>1. r.nextSlot = 0 => Hold(r) = 0
      BY <1>8, <1>9 DEF Low, High
    <2> QED BY <1>1, <1>6, <1>8, <1>11, <2>1 DEF a
  <1>13. Charged(r) \in Pacing
    <2>1. (IF r.nextSlot < - a THEN 0 ELSE r.nextSlot) + r.groupGap \in Int
      BY <1>7, <1>8
    <2> QED BY <1>5, <1>10, <2>1 DEF Pacing
  <1> QED BY <1>1, <1>5, <1>11, <1>12, <1>13 DEF r

LEMMA PaceType ==
  ASSUME NEW p \in Pacing, Pace(p)
  PROVE  group' \in Int /\ groupGap' \in Int /\ frameGap' \in Int /\ nextSlot' \in Int
  BY DEF Pace, Pacing

-----------------------------------------------------------------------------
(* A reader that does not wait, or has nothing to wait for, is not asleep. *)
LEMMA Roused ==
  ASSUME reader' # "parked" \/ queue' = <<>> \/ wakes' # 0
  PROVE  Asleep'
  BY DEF Asleep

LEMMA SignalRouses ==
  ASSUME FeedTypeOK, Signal
  PROVE  reader' \in {"awake", "parked", "returned"} /\ reader' # "parked"
  BY DEF FeedTypeOK, Signal

(* What Pop leaves behind. *)
LEMMA PopStep ==
  ASSUME FeedInv, ReaderStep
  PROVE  FeedInv'
  <1> USE DEF FeedInv
  <1>1. CASE PopReturns
    <2>1. FeedTypeOK'
      BY <1>1 DEF FeedTypeOK, PopReturns, queueVars, paceVars, curveVars
    <2>2. reader' = "returned"
      BY <1>1 DEF PopReturns
    <2> QED BY <2>1, <2>2, Roused
  <1>2. CASE PopWaits
    <2>1. FeedTypeOK'
      BY <1>2 DEF FeedTypeOK, PopWaits, Park, queueVars, paceVars, curveVars
    <2>2. queue' = <<>>
      BY <1>2 DEF PopWaits, queueVars
    <2> QED BY <2>1, <2>2, Roused
  <1>3. CASE PopSleeps
    <2>1. /\ queue # <<>> /\ Due > 0 /\ reader' = "parked" /\ timer' = Due /\ wakes' = wakes
          /\ queue' = queue /\ closed' = closed /\ target' = target
          /\ group' = group /\ groupGap' = groupGap /\ frameGap' = frameGap /\ nextSlot' = nextSlot
          /\ offset' = offset /\ fall' = fall
      BY <1>3, Zenon DEF PopSleeps, Park, queueVars, paceVars, curveVars
    <2>2. Due \in Int /\ Due' = Due
      BY <2>1, PacedType DEF Due
    <2>3. FeedTypeOK'
      BY <2>1, <2>2 DEF FeedTypeOK
    <2>4. timer' # Off /\ Sleep(timer', Due', fall')
      <3>1. fall \in Nat /\ fall <= MaxFall /\ MaxFall \in Nat
        BY FeedConstants DEF FeedTypeOK
      <3> HIDE DEF Due
      <3> QED BY <2>1, <2>2, <3>1 DEF Sleep, Off
    <2> QED BY <2>3, <2>4 DEF Asleep
  <1>4. CASE PopHolds
    <2> DEFINE p == Paced
               hold == Hold(p)
    <2>1. /\ queue # <<>> /\ Due <= 0 /\ hold > 0 /\ Pace(p)
          /\ reader' = "parked" /\ timer' = hold /\ wakes' = wakes
          /\ queue' = queue /\ closed' = closed /\ target' = target
          /\ offset' = offset /\ fall' = fall
      BY <1>4, Zenon DEF PopHolds, Park, queueVars, curveVars
    <2>2. /\ Due \in Int /\ p \in Pacing /\ hold \in Int
          /\ hold <= maxPaceLag /\ - Due <= maxPaceLag
      BY <2>1, PacedType, Zenon
    <2>3. Due' = Due
      BY <2>1 DEF Due
    <2>4. group' \in Int /\ groupGap' \in Int /\ frameGap' \in Int /\ nextSlot' \in Int
      BY <2>1, <2>2, PaceType, Zenon
    <2> HIDE DEF p, hold, Due
    <2>5. FeedTypeOK'
      BY <2>1, <2>2, <2>4 DEF FeedTypeOK
    <2>6. timer' # Off /\ Sleep(timer', Due', fall')
      <3>1. fall \in Nat /\ fall <= MaxFall /\ MaxFall \in Nat /\ maxPaceLag \in Nat
        BY FeedConstants DEF FeedTypeOK
      <3> QED BY <2>1, <2>2, <2>3, <3>1 DEF Sleep, Off
    <2> QED BY <2>5, <2>6 DEF Asleep
  <1>5. CASE PopTakes
    <2>1. /\ queue # <<>> /\ reader' = "awake" /\ timer' = Off /\ wakes' = wakes
          /\ queue' = Renumbered(Popped(queue), queue[1].order)
          /\ closed' = closed /\ target' = target /\ offset' = offset /\ fall' = fall
          /\ Pace(Charged(Paced))
      BY <1>5, Zenon DEF PopTakes, curveVars
    <2>2. Ranked(queue')
      BY <2>1, PopRanked, Zenon DEF FeedTypeOK
    <2>3. group' \in Int /\ groupGap' \in Int /\ frameGap' \in Int /\ nextSlot' \in Int
      BY <2>1, PacedType, PaceType, Zenon
    <2>4. FeedTypeOK'
      BY <2>1, <2>2, <2>3, Zenon DEF FeedTypeOK
    <2>5. reader' # "parked"
      BY <2>1
    <2> QED BY <2>4, <2>5, Roused, Zenon
  <1> QED BY <1>1, <1>2, <1>3, <1>4, <1>5, Zenon DEF ReaderStep

(* A tick brings the packet and the timer nearer alike; what the curve comes down by
   is taken off what it may still come down by. *)
LEMMA Fallen ==
  ASSUME NEW o \in Int, NEW q \in Int, NEW f \in Nat, o - q <= f
  PROVE  High(0, o - q) \in Nat /\ o - q <= High(0, o - q) /\ High(0, o - q) <= f
  BY DEF High

LEMMA Nearer ==
  ASSUME NEW t \in Int, NEW due \in Int, NEW f \in Int, NEW o \in Int, NEW q \in Int,
         NEW drop \in Int, o - q <= drop
  PROVE  (t - 1) - (due - 1 + (q - o)) + (f - drop) <= t - due + f
  OBVIOUS

(* The timer, its wakes, and time. *)
LEMMA TimeStep ==
  ASSUME FeedInv, TimerFires \/ Wake \/ Tick
  PROVE  FeedInv'
  <1> USE DEF FeedInv
  <1>1. CASE TimerFires
    <2>1. FeedTypeOK'
      BY <1>1 DEF FeedTypeOK, TimerFires, queueVars, paceVars, curveVars
    <2>2. wakes' # 0
      BY <1>1 DEF FeedTypeOK, TimerFires
    <2> QED BY <2>1, <2>2, Roused
  <1>2. CASE Wake
    <2>1. reader' \in {"awake", "parked", "returned"} /\ reader' # "parked"
      BY <1>2, SignalRouses, Zenon DEF Wake
    <2>2. FeedTypeOK'
      BY <1>2, <2>1 DEF FeedTypeOK, Wake, queueVars, paceVars, curveVars
    <2> QED BY <2>1, <2>2, Roused, Zenon
  <1>3. CASE Tick
    <2>1. /\ timer # 0 /\ queue' = Shifted(queue, -1)
          /\ timer' = (IF timer = Off THEN Off ELSE timer - 1)
          /\ group' = High(Ago, group - 1) /\ nextSlot' = High(- (maxPaceLag + 1), nextSlot - 1)
          /\ closed' = closed /\ target' = target /\ reader' = reader /\ wakes' = wakes
          /\ groupGap' = groupGap /\ frameGap' = frameGap
      BY <1>3, Zenon DEF Tick
    <2>2. /\ offset' \in Offsets /\ offset - offset' <= fall
          /\ fall' = fall - High(0, offset - offset')
      BY <1>3 DEF Tick
    <2>3. /\ offset \in Int /\ offset' \in Int /\ fall \in Nat /\ fall <= MaxFall /\ MaxFall \in Nat
          /\ timer \in Nat \cup {Off} /\ maxPaceLag \in Nat
      BY <2>2, FeedConstants DEF FeedTypeOK
    <2> DEFINE drop == High(0, offset - offset')
    <2>9. drop \in Nat /\ offset - offset' <= drop /\ drop <= fall /\ fall' = fall - drop
      <3>1. offset - offset' <= fall
        BY <2>2
      <3> QED BY <2>2, <2>3, <3>1, Fallen, Zenon
    <2> HIDE DEF drop
    <2>4. fall' \in 0 .. MaxFall /\ timer' \in Nat \cup {Off}
      <3>1. fall' \in 0 .. MaxFall
        BY <2>3, <2>9
      <3>2. timer' \in Nat \cup {Off}
        <4>1. CASE timer = Off
          BY <2>1, <4>1
        <4>2. CASE timer # Off
          <5>1. timer \in Nat /\ timer # 0 /\ timer' = timer - 1
            BY <2>1, <2>3, <4>2
          <5> QED BY <5>1
        <4> QED BY <4>1, <4>2
      <3> QED BY <3>1, <3>2
    <2>5. group' \in Int /\ nextSlot' \in Int
      BY <2>1, FeedConstants DEF FeedTypeOK, High, Ago
    <2>6. /\ Ranked(queue') /\ (queue = <<>> <=> queue' = <<>>)
          /\ queue # <<>> => queue'[1].playAt = queue[1].playAt + (-1)
      <3>1. -1 \in Int /\ Ranked(queue)
        BY DEF FeedTypeOK
      <3> QED BY <2>1, <3>1, ShiftRanked, Zenon
    <2>7. FeedTypeOK'
      BY <2>1, <2>3, <2>4, <2>5, <2>6, Zenon DEF FeedTypeOK
    <2>8. ASSUME reader' = "parked", wakes' = 0, queue' # <<>>
          PROVE  timer' # Off /\ (~ closed' => Sleep(timer', Due', fall'))
      <3>1. queue # <<>> /\ timer # Off /\ (~ closed => Sleep(timer, Due, fall))
        BY <2>1, <2>6, <2>8, Zenon DEF Asleep
      <3>2. Due \in Int
        BY <3>1, PacedType, Zenon
      <3>3. queue[1].playAt \in Int
        BY <3>1, NotEmpty DEF FeedTypeOK, Ranked
      <3>4. Due' = Due - 1 + (offset' - offset)
        <4>1. /\ Due = queue[1].playAt + offset /\ Due' = queue'[1].playAt + offset'
              /\ queue'[1].playAt = queue[1].playAt + (-1)
          BY <2>6, <3>1, Zenon DEF Due
        <4> HIDE DEF Due
        <4> QED BY <2>3, <3>3, <4>1
      <3> HIDE DEF Due
      <3>5. timer' = timer - 1 /\ timer' # Off /\ timer \in Nat
        BY <2>1, <2>3, <3>1 DEF Off
      <3>6. timer' - Due' + fall' <= timer - Due + fall
        <4>1. timer \in Int /\ fall \in Int /\ drop \in Int
          BY <2>3, <2>9, <3>5
        <4> QED BY <2>3, <2>9, <3>2, <3>4, <3>5, <4>1, Nearer, Zenon
      <3>7. Sleep(timer, Due, fall) => Sleep(timer', Due', fall')
        BY <2>2, <2>3, <2>4, <3>2, <3>4, <3>5, <3>6 DEF Sleep
      <3> QED BY <2>1, <3>1, <3>5, <3>7, Zenon
    <2> QED BY <2>7, <2>8, Zenon DEF Asleep
  <1> QED BY <1>1, <1>2, <1>3, Zenon

(* The calls that change the queue under the reader. *)
LEMMA PushStep ==
  ASSUME FeedInv, NEW lag \in Lags, Push(lag)
  PROVE  FeedInv'
  <1> USE DEF FeedInv
  <1> DEFINE item == [playAt |-> target - lag, order |-> Len(queue) + 1]
  <1>1. /\ queue' = Pushed(queue, item)
        /\ IF AtRoot(queue, item) THEN Signal ELSE reader' = reader
        /\ closed' = closed /\ target' = target /\ timer' = timer /\ wakes' = wakes
        /\ group' = group /\ groupGap' = groupGap /\ frameGap' = frameGap /\ nextSlot' = nextSlot
        /\ offset' = offset /\ fall' = fall
    BY Zenon DEF Push, paceVars, curveVars
  <1>2. target - lag \in Int
    BY FeedConstants DEF FeedTypeOK
  <1>3. /\ Ranked(queue') /\ queue' # <<>>
        /\ ~ AtRoot(queue, item) => queue # <<>> /\ queue'[1] = queue[1]
    BY <1>1, <1>2, PushRanked, Zenon DEF FeedTypeOK
  <1> HIDE DEF item
  <1>4. reader' \in {"awake", "parked", "returned"}
    BY <1>1, SignalRouses, Zenon DEF FeedTypeOK
  <1>5. FeedTypeOK'
    BY <1>1, <1>3, <1>4, Zenon DEF FeedTypeOK
  <1>6. CASE AtRoot(queue, item)
    <2>1. reader' # "parked"
      BY <1>1, <1>6, SignalRouses, Zenon
    <2> QED BY <1>5, <2>1, Roused, Zenon
  <1>7. CASE ~ AtRoot(queue, item)
    <2>1. Due' = Due
      BY <1>1, <1>3, <1>7, Zenon DEF Due
    <2>2. reader' = reader
      BY <1>1, <1>7, Zenon
    <2> HIDE DEF Due
    <2>3. Asleep'
      BY <1>1, <1>3, <1>7, <2>1, <2>2, Zenon DEF Asleep
    <2> QED BY <1>5, <2>3
  <1> QED BY <1>6, <1>7

LEMMA ChangeStep ==
  ASSUME FeedInv,
         \/ \E delay \in Targets : SetTarget(delay)
         \/ \E by \in Moves : MoveClock(by)
         \/ ResetClock \/ \E to \in Offsets : Jumped(to)
         \/ Adjust \/ Close
  PROVE  FeedInv'
  <1> USE DEF FeedInv
  <1>1. ASSUME NEW delay \in Targets, SetTarget(delay) PROVE FeedInv'
    <2>1. delay \in Int /\ target \in Int /\ delay - target \in Int /\ Ranked(queue)
      BY FeedConstants DEF FeedTypeOK
    <2>2. Ranked(queue')
      BY <1>1, <2>1, ShiftRanked, Zenon DEF SetTarget
    <2>3. reader' \in {"awake", "parked", "returned"} /\ reader' # "parked"
      BY <1>1, SignalRouses, Zenon DEF SetTarget
    <2>4. FeedTypeOK'
      BY <1>1, <2>1, <2>2, <2>3, Zenon DEF FeedTypeOK, SetTarget, paceVars, curveVars
    <2> QED BY <2>3, <2>4, Roused, Zenon
  <1>2. ASSUME NEW by \in Moves, MoveClock(by) PROVE FeedInv'
    <2>1. by \in Int /\ Ranked(queue) /\ Ago \in Int
      BY FeedConstants DEF FeedTypeOK, Ago
    <2>2. Ranked(queue')
      BY <1>2, <2>1, ShiftRanked, Zenon DEF MoveClock
    <2>3. reader' \in {"awake", "parked", "returned"} /\ reader' # "parked"
      BY <1>2, SignalRouses, Zenon DEF MoveClock
    <2>4. FeedTypeOK'
      BY <1>2, <2>1, <2>2, <2>3, Zenon DEF FeedTypeOK, MoveClock, curveVars
    <2> QED BY <2>3, <2>4, Roused, Zenon
  <1>3. CASE ResetClock
    <2>1. Ago \in Int
      BY FeedConstants DEF Ago
    <2>2. Ranked(queue') /\ queue' = <<>>
      BY <1>3, EmptyRanked, Zenon DEF ResetClock
    <2>3. reader' \in {"awake", "parked", "returned"}
      BY <1>3, SignalRouses, Zenon DEF ResetClock
    <2>4. FeedTypeOK'
      BY <1>3, <2>1, <2>2, <2>3, Zenon DEF FeedTypeOK, ResetClock, curveVars
    <2> QED BY <2>2, <2>4, Roused, Zenon
  <1>4. ASSUME NEW to \in Offsets, Jumped(to) PROVE FeedInv'
    <2>1. Ago \in Int /\ to \in Int
      BY FeedConstants DEF Ago
    <2>2. Ranked(queue') /\ queue' = <<>>
      BY <1>4, EmptyRanked, Zenon DEF Jumped
    <2>3. FeedTypeOK'
      BY <1>4, <2>1, <2>2, Zenon DEF FeedTypeOK, Jumped, readerVars
    <2> QED BY <2>2, <2>3, Roused, Zenon
  <1>5. CASE Adjust
    <2>1. /\ queue' = queue /\ closed' = closed /\ target' = target /\ timer' = timer /\ wakes' = wakes
          /\ group' = group /\ groupGap' = groupGap /\ frameGap' = frameGap /\ nextSlot' = nextSlot
          /\ offset' = offset /\ fall' = MaxFall
          /\ IF closed THEN reader' = reader ELSE Signal
      BY <1>5, Zenon DEF Adjust, queueVars, paceVars
    <2>2. reader' \in {"awake", "parked", "returned"}
      BY <2>1, SignalRouses, Zenon DEF FeedTypeOK
    <2>3. fall' \in 0 .. MaxFall
      BY <2>1, FeedConstants
    <2>4. FeedTypeOK'
      BY <2>1, <2>2, <2>3, Zenon DEF FeedTypeOK
    <2>5. CASE closed
      <3>1. Asleep'
        BY <2>1, <2>5, Zenon DEF Asleep
      <3> QED BY <2>4, <3>1
    <2>6. CASE ~ closed
      <3>1. reader' # "parked"
        BY <2>1, <2>6, SignalRouses, Zenon
      <3> QED BY <2>4, <3>1, Roused, Zenon
    <2> QED BY <2>5, <2>6
  <1>6. CASE Close
    <2>1. Ranked(queue')
      BY <1>6, EmptyRanked, Zenon DEF FeedTypeOK, Close
    <2>2. reader' \in {"awake", "parked", "returned"} /\ reader' # "parked"
      BY <1>6, SignalRouses, Zenon DEF Close
    <2>3. closed' \in BOOLEAN
      BY <1>6, Zenon DEF Close
    <2>4. FeedTypeOK'
      BY <1>6, <2>1, <2>2, <2>3, Zenon DEF FeedTypeOK, Close, paceVars, curveVars
    <2> QED BY <2>2, <2>4, Roused, Zenon
  <1> QED BY <1>1, <1>2, <1>3, <1>4, <1>5, <1>6, Zenon

(* The inductive invariant holds in every reachable state. *)
LEMMA FeedInvariance == FeedSpec => []FeedInv
  <1>1. FeedInit => FeedInv
    <2> SUFFICES ASSUME FeedInit PROVE FeedInv
      OBVIOUS
    <2>1. Ranked(queue)
      BY EmptyRanked, Zenon DEF FeedInit
    <2>2. FeedTypeOK
      <3>1. Ago \in Int /\ - (maxPaceLag + 1) \in Int /\ 0 \in Int /\ 0 \in Nat /\ MaxFall \in 0 .. MaxFall
        BY FeedConstants DEF Ago
      <3>2. Targets \subseteq Int /\ Offsets \subseteq Int
        BY FeedConstants, Zenon
      <3> QED BY <2>1, <3>1, <3>2, Zenon DEF FeedInit, FeedTypeOK
    <2> QED BY <2>2 DEF FeedInit, FeedInv, Asleep
  <1>2. FeedInv /\ [FeedNext]_feedVars => FeedInv'
    <2> SUFFICES ASSUME FeedInv, [FeedNext]_feedVars PROVE FeedInv'
      OBVIOUS
    <2>1. CASE Runs
      BY <2>1, PopStep, TimeStep, Zenon DEF Runs
    <2>2. CASE UNCHANGED feedVars
      <3>1. /\ UNCHANGED <<queue, closed, target, reader, timer, wakes, group, groupGap, frameGap>>
            /\ UNCHANGED <<nextSlot, offset, fall>>
        BY <2>2, Zenon DEF feedVars, queueVars, readerVars, paceVars, curveVars
      <3>2. FeedTypeOK'
        BY <3>1 DEF FeedInv, FeedTypeOK
      <3>3. Asleep'
        BY <3>1 DEF FeedInv, Asleep, Due
      <3> QED BY <3>2, <3>3 DEF FeedInv
    <2> QED BY <2>1, <2>2, PushStep, ChangeStep, Zenon DEF FeedNext
  <1> QED BY <1>1, <1>2, PTL DEF FeedSpec

(* Types, the queue's order included, for every set of delays and lags and a queue of
   any length. *)
THEOREM FeedTypeCorrect == FeedSpec => []FeedTypeOK
  BY FeedInvariance, PTL DEF FeedInv

(* A reader that sleeps over a queue sleeps for the packet to play next, and its
   timer comes in time, whatever is pushed, moved, retargeted or closed under it. *)
THEOREM ReaderOnTime == FeedSpec => []OnTime
  <1>1. FeedInv => OnTime
    <2> SUFFICES ASSUME FeedInv, reader = "parked", wakes = 0, queue # <<>>
                 PROVE  /\ \A i \in 2 .. Len(queue) : Before(queue[1], queue[i])
                        /\ timer # Off
                        /\ ~ closed => IF Due > 0 THEN timer <= High(Due, maxPaceLag) + MaxFall
                                       ELSE timer - Due <= 2 * maxPaceLag + MaxFall
      BY DEF OnTime
    <2>1. \A i \in 2 .. Len(queue) : Before(queue[1], queue[i])
      BY RootFirst, Zenon DEF FeedInv, FeedTypeOK, Ranked
    <2>2. timer # Off /\ (~ closed => Sleep(timer, Due, fall))
      BY Zenon DEF FeedInv, Asleep
    <2>3. Due \in Int
      BY PacedType, Zenon DEF FeedInv
    <2>4. timer \in Nat /\ fall \in Nat /\ MaxFall \in Nat /\ maxPaceLag \in Nat
      BY <2>2, FeedConstants DEF FeedInv, FeedTypeOK
    <2> HIDE DEF Due
    <2>5. Sleep(timer, Due, fall) => IF Due > 0 THEN timer <= High(Due, maxPaceLag) + MaxFall
                                     ELSE timer - Due <= 2 * maxPaceLag + MaxFall
      BY <2>3, <2>4 DEF Sleep, High
    <2> QED BY <2>1, <2>2, <2>5, Zenon
  <1> QED BY <1>1, FeedInvariance, PTL

(* Pop takes the packet that comes before every other one queued, and leaves all the
   others. *)
TakenFirst ==
  PopTakes => /\ \A i \in 2 .. Len(queue) : Before(queue[1], queue[i])
              /\ Items(Popped(queue)) = Items(queue) \ {queue[1]}

(* Packets leave the buffer by playout time and, at one time, in the order they came
   in, and none is lost on the way (buffered.before and packetHeap.pop, as Pop uses them). *)
THEOREM TakenInOrder == FeedSpec => [][TakenFirst]_feedVars
  <1>1. FeedInv /\ [FeedNext]_feedVars => [TakenFirst]_feedVars
    <2> SUFFICES ASSUME FeedInv, PopTakes
                 PROVE  /\ \A i \in 2 .. Len(queue) : Before(queue[1], queue[i])
                        /\ Items(Popped(queue)) = Items(queue) \ {queue[1]}
      BY Zenon DEF TakenFirst
    <2>1. Ranked(queue) /\ queue # <<>>
      BY Zenon DEF FeedInv, FeedTypeOK, PopTakes
    <2>2. queue \in Seq(Buffered) /\ Len(queue) > 0
      BY <2>1, NotEmpty DEF Ranked
    <2> QED BY <2>1, <2>2, RootFirst, PopOrders, Zenon DEF Ranked
  <1> QED BY <1>1, FeedInvariance, PTL DEF FeedSpec
=============================================================================
