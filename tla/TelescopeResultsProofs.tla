----------------------- MODULE TelescopeResultsProofs -----------------------
(***************************************************************************)
(* The pointers of telescope's linked list implement a sequence, for lists *)
(* of any length and any tracked index; and what telescope shows of it are *)
(* the best entries in order, for any number of entries and rows and any   *)
(* scores: the shortcut of add_entry loses none.                           *)
(***************************************************************************)
EXTENDS TelescopeEntryManager, SequenceTheorems, WellFoundedInduction, TLAPS

-----------------------------------------------------------------------------
(* Walks.                                                                  *)

\* A set of numbers that is not empty has a least one.
LEMMA Least ==
  ASSUME NEW T \in SUBSET Nat, T # {}
  PROVE  \E n \in T : \A m \in T : n <= m
<1>1. PICK n \in T : \A m \in T : ~(<<m, n>> \in OpToRel(<, Nat))
  BY NatLessThanWellFounded, WFMin
<1>2. \A m \in T : m \in Nat /\ n \in Nat /\ ~(m < n)
  BY <1>1 DEF OpToRel
<1>3. \A m \in T : n <= m
  BY <1>2
<1> QED
  BY <1>3

\* f is the walk that starts with the node s at o, follows the pointers p and
\* ends at i.
IsWalk(o, s, p, i, f) == f = [k \in o .. i |-> IF k = o THEN s ELSE p[f[k - 1]]]

\* Where such a walk ends.
WalkEnd(o, s, p, i) == (CHOOSE f : IsWalk(o, s, p, i, f))[i]

\* There is a walk of every length, and only one.
LEMMA WalkUnique ==
  ASSUME NEW o \in Nat, NEW s, NEW p, NEW i \in Nat, NEW j \in Nat, i <= j,
         NEW f, NEW g, IsWalk(o, s, p, i, f), IsWalk(o, s, p, j, g)
  PROVE  \A k \in o .. i : f[k] = g[k]
<1> DEFINE T == {k \in o .. i : f[k] # g[k]}
<1> SUFFICES ASSUME T # {} PROVE FALSE
  OBVIOUS
<1>1. T \in SUBSET Nat
  OBVIOUS
<1>2. PICK n \in T : \A m \in T : n <= m
  BY <1>1, Least
<1>3. n \in o .. i /\ n \in o .. j /\ f[n] # g[n]
  BY <1>2
<1>4. f[n] = IF n = o THEN s ELSE p[f[n - 1]]
  BY <1>3 DEF IsWalk
<1>5. g[n] = IF n = o THEN s ELSE p[g[n - 1]]
  BY <1>3 DEF IsWalk
<1>6. n # o
  BY <1>3, <1>4, <1>5
<1>7. n - 1 \in o .. i /\ ~(n <= n - 1)
  BY <1>3, <1>6
<1>8. f[n - 1] = g[n - 1]
  BY <1>2, <1>7
<1> QED
  BY <1>3, <1>4, <1>5, <1>8

\* (it is built one node at a time)
LEMMA WalkExists ==
  ASSUME NEW o \in Nat, NEW s, NEW p, NEW i \in Nat PROVE \E f : IsWalk(o, s, p, i, f)
<1> DEFINE T == {n \in Nat : ~\E f : IsWalk(o, s, p, n, f)}
<1> SUFFICES ASSUME T # {} PROVE FALSE
  OBVIOUS
<1>1. T \in SUBSET Nat
  OBVIOUS
<1>2. PICK n \in T : \A m \in T : n <= m
  BY <1>1, Least
<1>3. n \in Nat /\ ~\E f : IsWalk(o, s, p, n, f)
  BY <1>2
<1>4. n > o
  <2> SUFFICES ASSUME n <= o PROVE FALSE
    BY <1>3
  <2>1. PICK f : f = [k \in o .. n |-> s]
    OBVIOUS
  <2>2. \A k \in o .. n : k = o
    BY <1>3
  <2>3. f = [k \in o .. n |-> IF k = o THEN s ELSE p[f[k - 1]]]
    BY <2>1, <2>2
  <2> QED
    BY <1>3, <2>3 DEF IsWalk
<1>5. PICK f : IsWalk(o, s, p, n - 1, f)
  <2>1. n - 1 \in Nat /\ ~(n <= n - 1)
    BY <1>3, <1>4
  <2> QED
    BY <1>2, <2>1
<1>6. PICK g : g = [k \in o .. n |-> IF k = o THEN s ELSE p[f[k - 1]]]
  OBVIOUS
<1>7. \A k \in o .. n - 1 : f[k] = g[k]
  <2>1. \A k \in o .. n - 1 : k \in o .. n
    BY <1>3
  <2> QED
    BY <1>5, <1>6, <2>1 DEF IsWalk
<1>8. \A k \in o .. n : k # o => k - 1 \in o .. n - 1
  BY <1>3
<1>9. \A k \in o .. n : k # o => f[k - 1] = g[k - 1]
  BY <1>7, <1>8
<1>10. g = [k \in o .. n |-> IF k = o THEN s ELSE p[g[k - 1]]]
  BY <1>6, <1>9
<1> QED
  BY <1>3, <1>10 DEF IsWalk

\* So a walk follows the pointers.
LEMMA WalkStep ==
  ASSUME NEW o \in Nat, NEW s, NEW p
  PROVE  /\ WalkEnd(o, s, p, o) = s
         /\ \A i \in Nat : i >= o => WalkEnd(o, s, p, i + 1) = p[WalkEnd(o, s, p, i)]
<1> DEFINE walk(i) == CHOOSE f : IsWalk(o, s, p, i, f)
<1>1. \A i : WalkEnd(o, s, p, i) = walk(i)[i]
  BY DEF WalkEnd
<1>2. \A i \in Nat : IsWalk(o, s, p, i, walk(i))
  BY WalkExists
<1> HIDE DEF walk
<1>3. walk(o)[o] = s
  BY <1>2 DEF IsWalk
<1>4. ASSUME NEW i \in Nat, i >= o PROVE walk(i + 1)[i + 1] = p[walk(i)[i]]
  <2>1. i + 1 \in Nat /\ i + 1 \in o .. i + 1 /\ i + 1 # o /\ i \in o .. i /\ i <= i + 1
        /\ (i + 1) - 1 = i
    BY <1>4
  <2>2. walk(i)[i] = walk(i + 1)[i]
    BY <1>2, <2>1, WalkUnique
  <2>3. walk(i + 1)[i + 1] = p[walk(i + 1)[(i + 1) - 1]]
    <3>1. PICK w, n : w = walk(i + 1) /\ n = i + 1
      OBVIOUS
    <3>2. w = [k \in o .. n |-> IF k = o THEN s ELSE p[w[k - 1]]]
      BY <1>2, <2>1, <3>1 DEF IsWalk
    <3> QED
      BY <2>1, <3>1, <3>2
  <2> QED
    BY <2>1, <2>2, <2>3
<1> QED
  BY <1>1, <1>3, <1>4

\* FromHead follows the pointers forward,
LEMMA FromHeadStep ==
  ASSUME NEW l
  PROVE  /\ FromHead(l, 1) = l.head
         /\ \A i \in Nat \ {0} : FromHead(l, i + 1) = l.next[FromHead(l, i)]
<1>1. \A i : FromHead(l, i) = WalkEnd(1, l.head, l.next, i)
  BY DEF FromHead, WalkEnd, IsWalk
<1>2. PICK o \in Nat : o = 1
  OBVIOUS
<1>3. /\ WalkEnd(o, l.head, l.next, o) = l.head
      /\ \A i \in Nat : i >= o => WalkEnd(o, l.head, l.next, i + 1) = l.next[WalkEnd(o, l.head, l.next, i)]
  BY WalkStep
<1> QED
  BY <1>1, <1>2, <1>3

\* FromTail backward.
LEMMA FromTailStep ==
  ASSUME NEW l
  PROVE  /\ FromTail(l, 0) = l.tail
         /\ \A i \in Nat : FromTail(l, i + 1) = l.prev[FromTail(l, i)]
<1>1. \A i : FromTail(l, i) = WalkEnd(0, l.tail, l.prev, i)
  BY DEF FromTail, WalkEnd, IsWalk
<1>2. PICK o \in Nat : o = 0
  OBVIOUS
<1>3. /\ WalkEnd(o, l.tail, l.prev, o) = l.tail
      /\ \A i \in Nat : i >= o => WalkEnd(o, l.tail, l.prev, i + 1) = l.prev[WalkEnd(o, l.tail, l.prev, i)]
  BY WalkStep
<1> QED
  BY <1>1, <1>2, <1>3

-----------------------------------------------------------------------------
(* Lists.                                                                  *)

\* A list whose items are in S.
Records(S) ==
  [size : Nat, head : Nat, tail : Nat, track_at : Nat, tracked_node : Nat,
   item : Seq(S), next : Seq(Nat), prev : Seq(Nat)]

\* The pointers, with one index for each node of the chain.
Forward(l) ==
  /\ \A i \in 1 .. l.size : FromHead(l, i) \in 1 .. Len(l.item)
  /\ \A i, j \in 1 .. l.size : FromHead(l, i) = FromHead(l, j) => i = j
Ends(l) ==
  /\ l.size = 0 => l.head = 0 /\ l.tail = 0
  /\ l.size # 0 => /\ l.head # 0
                   /\ l.tail = FromHead(l, l.size)
                   /\ l.next[l.tail] = 0
                   /\ l.prev[l.head] = 0
Backward(l) ==
  \A i \in 1 .. l.size - 1 : l.prev[FromHead(l, i + 1)] = FromHead(l, i)

IsList(S, l) ==
  /\ l \in Records(S)
  /\ Len(l.next) = Len(l.item) /\ Len(l.prev) = Len(l.item)
  /\ l.size <= Len(l.item)
  /\ \A k \in 1 .. Len(l.item) : l.prev[k] \in 0 .. Len(l.item)
  /\ Forward(l) /\ Ends(l) /\ Backward(l)

\* The neighbours of a new node at index i.
Before(l, i) == IF i = 1 THEN 0 ELSE FromHead(l, i - 1)
After(l, i) == IF i = l.size + 1 THEN 0 ELSE FromHead(l, i)

\* m is l with x inserted at index i.
Inserted(l, m, i, x) ==
  /\ m.size = l.size + 1
  /\ m.item = Append(l.item, x)
  /\ m.next = Link(l, x, Before(l, i), After(l, i)).next
  /\ m.prev = Link(l, x, Before(l, i), After(l, i)).prev
  /\ m.head = IF i = 1 THEN NewNode(l) ELSE l.head
  /\ m.tail = IF i = l.size + 1 THEN NewNode(l) ELSE l.tail

\* The chain of a list with a node inserted at index i.
ChainWith(l, i, k) ==
  IF k < i THEN FromHead(l, k) ELSE IF k = i THEN NewNode(l) ELSE FromHead(l, k - 1)

\* The fields of a list, one by one.
LEMMA ListFields ==
  ASSUME NEW S, NEW l, IsList(S, l)
  PROVE  /\ l.size \in Nat /\ l.head \in Nat /\ l.tail \in Nat /\ l.track_at \in Nat
         /\ l.tracked_node \in Nat
         /\ l.item \in Seq(S) /\ l.next \in Seq(Nat) /\ l.prev \in Seq(Nat)
         /\ Len(l.item) \in Nat /\ l.size <= Len(l.item)
         /\ DOMAIN l.item = 1 .. Len(l.item) /\ NewNode(l) = Len(l.item) + 1
<1>1. l \in Records(S) /\ l.size <= Len(l.item)
  BY DEF IsList
<1>2. /\ l.size \in Nat /\ l.head \in Nat /\ l.tail \in Nat /\ l.track_at \in Nat
      /\ l.tracked_node \in Nat
      /\ l.item \in Seq(S) /\ l.next \in Seq(Nat) /\ l.prev \in Seq(Nat)
  BY <1>1 DEF Records
<1>3. Len(l.item) \in Nat /\ DOMAIN l.item = 1 .. Len(l.item)
  BY <1>2, LenProperties
<1> QED
  BY <1>1, <1>2, <1>3 DEF NewNode

\* The fields of the list m made from l by linking in a node for x between p
\* and q.
LinkFields(l, m, x, p, q) ==
  LET n == NewNode(l)
  IN  /\ m.size = l.size + 1 /\ m.item = Append(l.item, x)
      /\ m.head = l.head /\ m.tail = l.tail /\ m.track_at = l.track_at
      /\ m.tracked_node = l.tracked_node
      /\ m.next \in Seq(Nat) /\ Len(m.next) = n
      /\ m.prev \in Seq(Nat) /\ Len(m.prev) = n
      /\ \A k \in 1 .. n :
           /\ m.next[k] = IF k = n THEN q ELSE IF k = p THEN n ELSE l.next[k]
           /\ m.prev[k] = IF k = n THEN p ELSE IF k = q THEN n ELSE l.prev[k]

\* The fields are those.
LEMMA Linked ==
  ASSUME NEW S, NEW l, IsList(S, l), NEW x, NEW p \in Nat, NEW q \in Nat
  PROVE  LinkFields(l, Link(l, x, p, q), x, p, q)
<1> DEFINE n == NewNode(l)
           m == Link(l, x, p, q)
<1>1. l \in Records(S)
  BY DEF IsList
<1>2. /\ m.size = l.size + 1 /\ m.item = Append(l.item, x)
      /\ m.head = l.head /\ m.tail = l.tail /\ m.track_at = l.track_at
      /\ m.tracked_node = l.tracked_node
      /\ m.next = [k \in 1 .. n |-> IF k = n THEN q ELSE IF k = p THEN n ELSE l.next[k]]
      /\ m.prev = [k \in 1 .. n |-> IF k = n THEN p ELSE IF k = q THEN n ELSE l.prev[k]]
  BY <1>1 DEF Link, Records
<1>3. n \in Nat /\ \A k \in 1 .. n : k # n => l.next[k] \in Nat /\ l.prev[k] \in Nat
  <2>1. /\ l.next \in Seq(Nat) /\ l.prev \in Seq(Nat)
        /\ n \in Nat /\ Len(l.next) = n - 1 /\ Len(l.prev) = n - 1
    BY ListFields DEF IsList
  <2> HIDE DEF n
  <2>2. \A k \in 1 .. n : k # n => k \in 1 .. n - 1
    BY <2>1
  <2>3. \A k \in 1 .. n - 1 : l.next[k] \in Nat /\ l.prev[k] \in Nat
    BY <2>1, ElementOfSeq
  <2> QED
    BY <2>1, <2>2, <2>3
<1> HIDE DEF m, n
<1>4. m.next \in [1 .. n -> Nat] /\ m.prev \in [1 .. n -> Nat]
  BY <1>2, <1>3
<1>5. /\ m.next \in Seq(Nat) /\ Len(m.next) = n
      /\ m.prev \in Seq(Nat) /\ Len(m.prev) = n
  BY <1>3, <1>4
<1>6. \A k \in 1 .. n :
        /\ m.next[k] = IF k = n THEN q ELSE IF k = p THEN n ELSE l.next[k]
        /\ m.prev[k] = IF k = n THEN p ELSE IF k = q THEN n ELSE l.prev[k]
  BY <1>2
<1> QED
  BY <1>2, <1>5, <1>6 DEF m, n, LinkFields

\* The neighbours of a new node are nodes of the chain, or nil.
LEMMA Neighbours ==
  ASSUME NEW S, NEW l, IsList(S, l), NEW i \in 1 .. l.size + 1
  PROVE  /\ Before(l, i) \in 0 .. Len(l.item) /\ After(l, i) \in 0 .. Len(l.item)
         /\ Before(l, i) \in Nat /\ After(l, i) \in Nat
         /\ i = 1 => Before(l, i) = 0
         /\ i # 1 => i - 1 \in 1 .. l.size /\ Before(l, i) = FromHead(l, i - 1)
         /\ i = l.size + 1 => After(l, i) = 0
         /\ i # l.size + 1 => i \in 1 .. l.size /\ After(l, i) = FromHead(l, i)
<1>1. l.size \in Nat /\ Len(l.item) \in Nat
  BY ListFields
<1>2. \A k \in 1 .. l.size : FromHead(l, k) \in 1 .. Len(l.item)
  BY DEF IsList, Forward
<1>3. /\ i # 1 => i - 1 \in 1 .. l.size
      /\ i # l.size + 1 => i \in 1 .. l.size
  BY <1>1
<1> QED
  BY <1>1, <1>2, <1>3 DEF Before, After

\* What the chain of l, with n at index i, is after the insertion.
LEMMA InsertedChain ==
  ASSUME NEW S, NEW l, IsList(S, l), NEW x, NEW i \in 1 .. l.size + 1, NEW m, Inserted(l, m, i, x)
  PROVE  \A k \in 1 .. l.size + 1 : FromHead(m, k) = ChainWith(l, i, k)
<1> DEFINE n == NewNode(l)
           p == Before(l, i)
           q == After(l, i)
<1>1. /\ l.size \in Nat /\ Len(l.item) \in Nat /\ n = Len(l.item) + 1 /\ l.size <= Len(l.item)
      /\ i \in Nat /\ i # 0
  BY ListFields
<1>2. /\ m.head = IF i = 1 THEN n ELSE l.head
      /\ \A c \in 1 .. n : m.next[c] = IF c = n THEN q ELSE IF c = p THEN n ELSE l.next[c]
  <2>1. m.next = Link(l, x, p, q).next /\ m.head = IF i = 1 THEN n ELSE l.head
    BY DEF Inserted
  <2>2. p \in Nat /\ q \in Nat
    BY Neighbours
  <2> HIDE DEF p, q
  <2>3. LinkFields(l, Link(l, x, p, q), x, p, q)
    BY <2>2, Linked
  <2> QED
    BY <2>1, <2>3 DEF LinkFields
<1>3. /\ \A k \in 1 .. l.size : FromHead(l, k) \in 1 .. Len(l.item)
      /\ \A j, k \in 1 .. l.size : FromHead(l, j) = FromHead(l, k) => j = k
  BY DEF IsList, Forward
<1>4. FromHead(l, 1) = l.head /\ FromHead(m, 1) = m.head
  BY FromHeadStep
<1>5. \A k \in Nat \ {0} : /\ FromHead(l, k + 1) = l.next[FromHead(l, k)]
                           /\ FromHead(m, k + 1) = m.next[FromHead(m, k)]
  BY FromHeadStep
<1>6. /\ i # 1 => i - 1 \in 1 .. l.size /\ p = FromHead(l, i - 1)
      /\ i = 1 => p = 0
      /\ i <= l.size => q = FromHead(l, i)
  BY <1>1, Neighbours
<1> HIDE DEF n, p, q
<1>7. \A k \in 1 .. l.size :
        /\ FromHead(l, k) # n /\ FromHead(l, k) \in 1 .. n
        /\ k # i - 1 => FromHead(l, k) # p
  BY <1>1, <1>3, <1>6
<1>8. m.next[n] = q /\ n \in 1 .. n
  BY <1>1, <1>2
<1>9. ASSUME NEW k \in 1 .. l.size PROVE m.next[ChainWith(l, i, k)] = ChainWith(l, i, k + 1)
  <2>1. CASE k < i - 1
    <3>1. k < i /\ k + 1 < i /\ k # i - 1 /\ k \in Nat \ {0}
      BY <1>1, <2>1
    <3> DEFINE c == FromHead(l, k)
    <3>2. m.next[c] = l.next[c]
      <4>1. c \in 1 .. n /\ c # n /\ c # p
        BY <1>7, <3>1
      <4> QED
        BY <1>2, <4>1
    <3> QED
      BY <1>5, <3>1, <3>2 DEF ChainWith
  <2>2. CASE k = i - 1
    <3>1. k < i /\ k + 1 = i /\ ~(k + 1 < i) /\ i # 1
      BY <1>1, <2>2
    <3>2. p = FromHead(l, k)
      BY <1>6, <2>2, <3>1
    <3>3. m.next[p] = n
      <4>1. p \in 1 .. n /\ p # n
        BY <1>7, <3>2
      <4> QED
        BY <1>2, <4>1
    <3> QED
      BY <3>1, <3>2, <3>3 DEF ChainWith, n
  <2>3. CASE k = i
    <3>1. ~(k < i) /\ ~(k + 1 < i) /\ k + 1 # i /\ (k + 1) - 1 = i /\ i <= l.size
      BY <1>1, <2>3
    <3> QED
      BY <1>6, <1>8, <2>3, <3>1 DEF ChainWith, n
  <2>4. CASE k > i
    <3>1. /\ ~(k < i) /\ k # i /\ ~(k + 1 < i) /\ k + 1 # i /\ (k + 1) - 1 = k
          /\ k - 1 \in 1 .. l.size /\ k - 1 # i - 1 /\ k - 1 \in Nat \ {0} /\ (k - 1) + 1 = k
      BY <1>1, <2>4
    <3> DEFINE c == FromHead(l, k - 1)
    <3>2. m.next[c] = l.next[c]
      <4>1. c \in 1 .. n /\ c # n /\ c # p
        BY <1>7, <3>1
      <4> QED
        BY <1>2, <4>1
    <3>3. l.next[c] = FromHead(l, k)
      BY <1>5, <3>1
    <3> QED
      BY <3>1, <3>2, <3>3 DEF ChainWith
  <2> QED
    BY <1>1, <2>1, <2>2, <2>3, <2>4
<1>10. FromHead(m, 1) = ChainWith(l, i, 1)
  BY <1>1, <1>2, <1>4 DEF ChainWith, n
<1> DEFINE T == {k \in 1 .. l.size + 1 : FromHead(m, k) # ChainWith(l, i, k)}
<1> SUFFICES ASSUME T # {} PROVE FALSE
  OBVIOUS
<1>11. T \in SUBSET Nat
  BY <1>1
<1>12. PICK k \in T : \A j \in T : k <= j
  BY <1>11, Least
<1>13. k \in 1 .. l.size + 1 /\ FromHead(m, k) # ChainWith(l, i, k) /\ k # 1
  BY <1>10, <1>12
<1>14. k - 1 \in 1 .. l.size /\ k - 1 \in 1 .. l.size + 1 /\ k - 1 \in Nat \ {0} /\ ~(k <= k - 1)
       /\ (k - 1) + 1 = k
  BY <1>1, <1>13
<1>15. FromHead(m, k - 1) = ChainWith(l, i, k - 1)
  BY <1>12, <1>14
<1>16. FromHead(m, k) = m.next[FromHead(m, k - 1)]
  BY <1>5, <1>14
<1> QED
  BY <1>9, <1>13, <1>14, <1>15, <1>16

\* The list with a node inserted is a list.
LEMMA InsertedIsList ==
  ASSUME NEW S, NEW l, IsList(S, l), NEW x \in S, NEW i \in 1 .. l.size + 1,
         NEW m \in Records(S), Inserted(l, m, i, x)
  PROVE  IsList(S, m)
<1> DEFINE n == NewNode(l)
           p == Before(l, i)
           q == After(l, i)
           N == Len(l.item)
<1>1. /\ l.size \in Nat /\ N \in Nat /\ n = N + 1 /\ l.size <= N /\ l.item \in Seq(S)
      /\ i \in Nat /\ i # 0
  BY ListFields
<1>2. /\ p \in 0 .. N /\ q \in 0 .. N /\ p \in Nat /\ q \in Nat
      /\ i = 1 => p = 0
      /\ i # 1 => i - 1 \in 1 .. l.size /\ p = FromHead(l, i - 1)
      /\ i = l.size + 1 => q = 0
      /\ i # l.size + 1 => i \in 1 .. l.size /\ q = FromHead(l, i)
  BY Neighbours
<1>3. /\ m.size = l.size + 1 /\ m.item = Append(l.item, x)
      /\ m.head = IF i = 1 THEN n ELSE l.head
      /\ m.tail = IF i = l.size + 1 THEN n ELSE l.tail
      /\ Len(m.next) = n /\ Len(m.prev) = n
      /\ \A k \in 1 .. n :
           /\ m.next[k] = IF k = n THEN q ELSE IF k = p THEN n ELSE l.next[k]
           /\ m.prev[k] = IF k = n THEN p ELSE IF k = q THEN n ELSE l.prev[k]
  <2>1. LinkFields(l, Link(l, x, p, q), x, p, q)
    BY <1>2, Linked
  <2>2. m.next = Link(l, x, p, q).next /\ m.prev = Link(l, x, p, q).prev
    BY DEF Inserted
  <2>3. /\ m.size = l.size + 1 /\ m.item = Append(l.item, x)
        /\ m.head = IF i = 1 THEN n ELSE l.head
        /\ m.tail = IF i = l.size + 1 THEN n ELSE l.tail
    BY DEF Inserted
  <2> QED
    BY <2>1, <2>2, <2>3 DEF LinkFields
<1>4. Len(m.item) = n
  BY <1>1, <1>3, AppendProperties
<1>5. /\ \A k \in 1 .. l.size : FromHead(l, k) \in 1 .. N
      /\ \A j, k \in 1 .. l.size : FromHead(l, j) = FromHead(l, k) => j = k
      /\ \A k \in 1 .. l.size - 1 : l.prev[FromHead(l, k + 1)] = FromHead(l, k)
      /\ \A k \in 1 .. N : l.prev[k] \in 0 .. N
  BY DEF IsList, Forward, Backward
<1>6. /\ l.size # 0 => /\ l.tail = FromHead(l, l.size) /\ l.next[l.tail] = 0
                      /\ l.prev[l.head] = 0
      /\ l.head = FromHead(l, 1)
  BY FromHeadStep DEF IsList, Ends
<1>7. \A k \in 1 .. l.size + 1 : FromHead(m, k) = ChainWith(l, i, k)
  BY InsertedChain
<1>8. \A k \in 1 .. l.size + 1 :
        /\ k < i => k \in 1 .. l.size /\ ChainWith(l, i, k) = FromHead(l, k)
        /\ k = i => ChainWith(l, i, k) = n
        /\ k > i => k - 1 \in 1 .. l.size /\ ChainWith(l, i, k) = FromHead(l, k - 1)
  BY <1>1 DEF ChainWith
<1> HIDE DEF n, p, q, N
<1>9. \A k \in 1 .. l.size :
        /\ FromHead(l, k) \in 1 .. n /\ FromHead(l, k) # n /\ FromHead(l, k) # 0
        /\ k # i - 1 => FromHead(l, k) # p
        /\ k # i => FromHead(l, k) # q
  BY <1>1, <1>2, <1>5
<1>10. n \in 1 .. n /\ n # 0
  BY <1>1
<1>11. \A k \in 1 .. n : m.prev[k] \in 0 .. n
  <2> SUFFICES ASSUME NEW k \in 1 .. n PROVE m.prev[k] \in 0 .. n
    OBVIOUS
  <2>1. k # n => k \in 1 .. N
    BY <1>1
  <2>2. k # n => l.prev[k] \in 0 .. N
    BY <1>5, <2>1
  <2>3. 0 .. N \subseteq 0 .. n /\ n \in 0 .. n
    BY <1>1
  <2> QED
    BY <1>2, <1>3, <2>2, <2>3
<1>12. Forward(m)
  <2>1. \A k \in 1 .. l.size + 1 : ChainWith(l, i, k) \in 1 .. n
    BY <1>1, <1>8, <1>9, <1>10
  <2>2. ASSUME NEW j \in 1 .. l.size + 1, NEW k \in 1 .. l.size + 1, j < k,
               ChainWith(l, i, j) = ChainWith(l, i, k)
        PROVE  FALSE
    <3>1. CASE k < i
      BY <1>1, <1>5, <1>8, <2>2, <3>1
    <3>2. CASE k = i
      <4>1. j < i
        BY <2>2, <3>2
      <4> QED
        BY <1>8, <1>9, <2>2, <3>2, <4>1
    <3>3. CASE k > i /\ j = i
      BY <1>8, <1>9, <2>2, <3>3
    <3>4. CASE k > i /\ j < i
      <4>1. j # k - 1
        BY <1>1, <3>4
      <4> QED
        BY <1>5, <1>8, <2>2, <3>4, <4>1
    <3>5. CASE k > i /\ j > i
      <4>1. j - 1 # k - 1
        BY <1>1, <2>2
      <4> QED
        BY <1>5, <1>8, <2>2, <3>5, <4>1
    <3> QED
      BY <1>1, <3>1, <3>2, <3>3, <3>4, <3>5
  <2>3. \A j, k \in 1 .. l.size + 1 : ChainWith(l, i, j) = ChainWith(l, i, k) => j = k
    <3> SUFFICES ASSUME NEW j \in 1 .. l.size + 1, NEW k \in 1 .. l.size + 1,
                        ChainWith(l, i, j) = ChainWith(l, i, k), j # k
                 PROVE  FALSE
      OBVIOUS
    <3>1. j < k \/ k < j
      BY <1>1
    <3> QED
      BY <2>2, <3>1
  <2>4. /\ \A k \in 1 .. m.size : FromHead(m, k) \in 1 .. n
        /\ \A j, k \in 1 .. m.size : FromHead(m, j) = FromHead(m, k) => j = k
    BY <1>3, <1>7, <2>1, <2>3
  <2> QED
    BY <1>4, <2>4 DEF Forward
<1>13. Ends(m)
  <2>1. m.size # 0
    BY <1>1, <1>3
  <2>2. m.head # 0
    <3>1. i # 1 => 1 \in 1 .. l.size
      BY <1>1, <1>2
    <3> QED
      BY <1>3, <1>6, <1>9, <1>10, <3>1
  <2>3. m.tail = FromHead(m, m.size) /\ m.next[m.tail] = 0
    <3>1. l.size + 1 \in 1 .. l.size + 1 /\ (l.size + 1) - 1 = l.size
      BY <1>1
    <3>2. CASE i = l.size + 1
      BY <1>2, <1>3, <1>7, <1>8, <1>10, <3>1, <3>2
    <3>3. CASE i # l.size + 1
      <4>1. l.size + 1 > i /\ l.size # 0 /\ l.size \in 1 .. l.size /\ l.size # i - 1
        BY <1>1, <1>2, <3>3
      <4>2. FromHead(m, m.size) = FromHead(l, l.size)
        BY <1>3, <1>7, <1>8, <3>1, <4>1
      <4>3. m.tail = l.tail /\ l.tail = FromHead(l, l.size) /\ l.next[l.tail] = 0
        BY <1>3, <1>6, <3>3, <4>1
      <4>4. l.tail \in 1 .. n /\ l.tail # n /\ l.tail # p
        BY <1>9, <4>1, <4>3
      <4> QED
        BY <1>3, <4>2, <4>3, <4>4
    <3> QED
      BY <3>2, <3>3
  <2>4. m.prev[m.head] = 0
    <3>1. CASE i = 1
      BY <1>2, <1>3, <1>10, <3>1
    <3>2. CASE i # 1
      <4>1. 1 \in 1 .. l.size /\ l.size # 0
        BY <1>1, <1>2, <3>2
      <4>2. m.head = l.head /\ l.prev[l.head] = 0 /\ l.head = FromHead(l, 1)
        BY <1>3, <1>6, <3>2, <4>1
      <4>3. l.head \in 1 .. n /\ l.head # n /\ l.head # q
        BY <1>9, <3>2, <4>1, <4>2
      <4> QED
        BY <1>3, <4>2, <4>3
    <3> QED
      BY <3>1, <3>2
  <2> QED
    BY <2>1, <2>2, <2>3, <2>4 DEF Ends
<1>14. Backward(m)
  <2>1. ASSUME NEW k \in 1 .. l.size
        PROVE  m.prev[ChainWith(l, i, k + 1)] = ChainWith(l, i, k)
    <3>1. k \in 1 .. l.size + 1 /\ k + 1 \in 1 .. l.size + 1 /\ (k + 1) - 1 = k
      BY <1>1
    <3>2. CASE k + 1 < i
      <4>1. k < i /\ k + 1 # i /\ k + 1 \in 1 .. l.size /\ k \in 1 .. l.size - 1
        BY <1>1, <3>2
      <4>2. m.prev[FromHead(l, k + 1)] = l.prev[FromHead(l, k + 1)]
        BY <1>3, <1>9, <4>1
      <4> QED
        BY <1>5, <1>8, <3>1, <3>2, <4>1, <4>2
    <3>3. CASE k + 1 = i
      <4>1. k < i /\ i # 1 /\ i - 1 = k
        BY <1>1, <3>3
      <4> QED
        BY <1>2, <1>3, <1>8, <1>10, <3>1, <3>3, <4>1
    <3>4. CASE k = i
      <4>1. k + 1 > i /\ i # l.size + 1
        BY <1>1, <3>4
      <4>2. FromHead(l, k) = q
        BY <1>2, <3>4, <4>1
      <4> QED
        BY <1>3, <1>8, <1>9, <3>1, <3>4, <4>1, <4>2
    <3>5. CASE k > i
      <4>1. k + 1 > i /\ k # i /\ k - 1 \in 1 .. l.size - 1 /\ (k - 1) + 1 = k
        BY <1>1, <3>5
      <4>2. m.prev[FromHead(l, k)] = l.prev[FromHead(l, k)]
        BY <1>3, <1>9, <4>1
      <4>3. l.prev[FromHead(l, k)] = FromHead(l, k - 1)
        BY <1>5, <4>1
      <4> QED
        BY <1>8, <3>1, <3>5, <4>1, <4>2, <4>3
    <3> QED
      BY <1>1, <3>2, <3>3, <3>4, <3>5
  <2>2. \A k \in 1 .. m.size - 1 : k \in 1 .. l.size /\ k \in 1 .. l.size + 1 /\ k + 1 \in 1 .. l.size + 1
    BY <1>1, <1>3
  <2> QED
    BY <1>7, <2>1, <2>2 DEF Backward
<1>15. m.size <= Len(m.item)
  BY <1>1, <1>3, <1>4
<1> QED
  BY <1>3, <1>4, <1>11, <1>12, <1>13, <1>14, <1>15 DEF IsList

-----------------------------------------------------------------------------
(* The tracked node.                                                       *)

\* Backward pointers go down in rank, so they do not run in circles, not even
\* those of the nodes that truncate has dropped.
IsRank(l, b, r) ==
  /\ r \in [1 .. Len(l.item) -> 0 .. b]
  /\ \A k \in 1 .. Len(l.item) : l.prev[k] # 0 => r[l.prev[k]] < r[k]

\* Nodes from which backward pointers lead to the one at index track_at.
LeadUp(l, D) ==
  /\ D \in SUBSET (1 .. Len(l.item))
  /\ \A k \in D : k # FromHead(l, l.track_at) => l.prev[k] \in D

\* There is a tracked node only when there should be one, and it is such a node.
Tracking(l) ==
  /\ l.track_at # 0
  /\ l.size < l.track_at => l.tracked_node = 0
  /\ \E b \in Nat : \E r : IsRank(l, b, r)
  /\ l.size >= l.track_at => \E D : LeadUp(l, D) /\ l.tracked_node \in D

\* Ranks go up along the chain,
LEMMA RankOfChain ==
  ASSUME NEW S, NEW l, IsList(S, l), NEW b \in Nat, NEW r, IsRank(l, b, r)
  PROVE  \A i, j \in 1 .. l.size : i < j => r[FromHead(l, i)] < r[FromHead(l, j)]
<1>1. l.size \in Nat /\ Len(l.item) \in Nat
  BY ListFields
<1>2. /\ \A k \in 1 .. l.size : FromHead(l, k) \in 1 .. Len(l.item)
      /\ \A k \in 1 .. l.size - 1 : l.prev[FromHead(l, k + 1)] = FromHead(l, k)
  BY DEF IsList, Forward, Backward
<1>3. \A k \in 1 .. l.size : r[FromHead(l, k)] \in Nat
  BY <1>2 DEF IsRank
<1>4. \A k \in 1 .. l.size - 1 : r[FromHead(l, k)] < r[FromHead(l, k + 1)]
  <2> SUFFICES ASSUME NEW k \in 1 .. l.size - 1
               PROVE  r[FromHead(l, k)] < r[FromHead(l, k + 1)]
    OBVIOUS
  <2>1. k \in 1 .. l.size /\ k + 1 \in 1 .. l.size
    BY <1>1
  <2>2. FromHead(l, k) # 0 /\ FromHead(l, k + 1) \in 1 .. Len(l.item)
    BY <1>1, <1>2, <2>1
  <2> QED
    BY <1>2, <2>2 DEF IsRank
<1> SUFFICES ASSUME NEW i \in 1 .. l.size
             PROVE  \A j \in 1 .. l.size : i < j => r[FromHead(l, i)] < r[FromHead(l, j)]
  OBVIOUS
<1> DEFINE T == {j \in 1 .. l.size : i < j /\ ~(r[FromHead(l, i)] < r[FromHead(l, j)])}
<1> SUFFICES ASSUME T # {} PROVE FALSE
  OBVIOUS
<1>5. T \in SUBSET Nat
  BY <1>1
<1>6. PICK j \in T : \A k \in T : j <= k
  BY <1>5, Least
<1>7. j \in 1 .. l.size /\ i < j /\ ~(r[FromHead(l, i)] < r[FromHead(l, j)])
  BY <1>6
<1>8. j - 1 \in 1 .. l.size - 1 /\ j - 1 \in 1 .. l.size /\ (j - 1) + 1 = j /\ ~(j <= j - 1)
  BY <1>1, <1>7
<1>9. r[FromHead(l, j - 1)] < r[FromHead(l, j)]
  BY <1>4, <1>8
<1>10. i # j - 1
  BY <1>7, <1>9
<1>11. i < j - 1
  BY <1>1, <1>7, <1>8, <1>10
<1>12. r[FromHead(l, i)] < r[FromHead(l, j - 1)]
  BY <1>6, <1>8, <1>11
<1> QED
  BY <1>3, <1>7, <1>8, <1>9, <1>12

\* and no node that leads up to index track_at is nearer to the head.
LEMMA RankOfLeadUp ==
  ASSUME NEW S, NEW l, IsList(S, l), NEW b \in Nat, NEW r, IsRank(l, b, r),
         NEW D, LeadUp(l, D), NEW i \in 1 .. l.size, FromHead(l, i) \in D,
         l.track_at \in 1 .. l.size
  PROVE  i >= l.track_at
<1> DEFINE t == FromHead(l, l.track_at)
           T == {r[k] : k \in D}
<1>1. /\ Len(l.item) \in Nat /\ r \in [1 .. Len(l.item) -> 0 .. b]
      /\ \A k \in D : k \in 1 .. Len(l.item)
  BY ListFields DEF IsRank, LeadUp
<1>2. T \in SUBSET Nat /\ T # {}
  BY <1>1
<1>3. PICK k \in D : \A j \in D : r[k] <= r[j]
  <2>1. PICK v \in T : \A u \in T : v <= u
    BY <1>2, Least
  <2>2. PICK k \in D : v = r[k]
    BY <2>1
  <2>3. \A j \in D : r[j] \in T
    OBVIOUS
  <2> QED
    BY <2>1, <2>2, <2>3
<1>4. k = t
  <2> SUFFICES ASSUME k # t PROVE FALSE
    OBVIOUS
  <2>1. l.prev[k] \in D
    BY DEF LeadUp
  <2>2. l.prev[k] # 0 /\ k \in 1 .. Len(l.item) /\ l.prev[k] \in 1 .. Len(l.item)
    BY <1>1, <2>1
  <2>3. r[l.prev[k]] < r[k]
    BY <2>2 DEF IsRank
  <2>4. r[k] <= r[l.prev[k]]
    BY <1>3, <2>1
  <2>5. r[k] \in Nat /\ r[l.prev[k]] \in Nat
    BY <1>1, <2>2
  <2> QED
    BY <2>3, <2>4, <2>5
<1>5. r[t] <= r[FromHead(l, i)]
  BY <1>3, <1>4
<1>6. i < l.track_at => r[FromHead(l, i)] < r[t]
  BY RankOfChain
<1>7. r[t] \in Nat /\ r[FromHead(l, i)] \in Nat
  BY <1>1, <1>4
<1> QED
  BY <1>5, <1>6, <1>7

\* There are ranks after an insertion.
LEMMA RankInserted ==
  ASSUME NEW S, NEW l, IsList(S, l), NEW b \in Nat, NEW r, IsRank(l, b, r),
         NEW x, NEW i \in 1 .. l.size + 1, NEW m, Inserted(l, m, i, x),
         Len(m.item) = Len(l.item) + 1
  PROVE  \E a \in Nat : \E w : IsRank(m, a, w)
<1> DEFINE n == NewNode(l)
           p == Before(l, i)
           q == After(l, i)
           N == Len(l.item)
<1>1. l.size \in Nat /\ N \in Nat /\ n = N + 1
  BY ListFields
<1>2. /\ p \in 0 .. N /\ q \in 0 .. N /\ p \in Nat /\ q \in Nat
      /\ i = 1 => p = 0
      /\ i # 1 => i - 1 \in 1 .. l.size /\ p = FromHead(l, i - 1)
      /\ i = l.size + 1 => q = 0
      /\ i # l.size + 1 => i \in 1 .. l.size /\ q = FromHead(l, i)
  BY Neighbours
<1>3. \A k \in 1 .. n : m.prev[k] = IF k = n THEN p ELSE IF k = q THEN n ELSE l.prev[k]
  <2>1. LinkFields(l, Link(l, x, p, q), x, p, q)
    BY <1>2, Linked
  <2>2. m.prev = Link(l, x, p, q).prev
    BY DEF Inserted
  <2> QED
    BY <2>1, <2>2 DEF LinkFields
<1>4. \A k \in 1 .. N : l.prev[k] \in 0 .. N
  BY DEF IsList
<1>5. q # 0 /\ p # 0 => l.prev[q] = p
  <2> SUFFICES ASSUME q # 0, p # 0 PROVE l.prev[q] = p
    OBVIOUS
  <2>1. i # 1 /\ i # l.size + 1 /\ i - 1 \in 1 .. l.size - 1 /\ (i - 1) + 1 = i
    BY <1>1, <1>2
  <2>2. q = FromHead(l, (i - 1) + 1) /\ p = FromHead(l, i - 1)
    BY <1>2, <2>1
  <2> QED
    BY <2>1, <2>2 DEF IsList, Backward
<1> HIDE DEF n, p, q
<1> DEFINE w == [k \in 1 .. n |->
                   IF k # n THEN 2 * r[k] + 2
                   ELSE IF q # 0 THEN 2 * r[q] + 1 ELSE IF p # 0 THEN 2 * r[p] + 3 ELSE 0]
<1>6. /\ \A k \in 1 .. N : r[k] \in 0 .. b
      /\ \A k \in 1 .. N : l.prev[k] # 0 => r[l.prev[k]] < r[k]
  BY DEF IsRank
<1>7. /\ \A k \in 1 .. N : w[k] = 2 * r[k] + 2
      /\ w[n] = IF q # 0 THEN 2 * r[q] + 1 ELSE IF p # 0 THEN 2 * r[p] + 3 ELSE 0
  <2>1. n \in 1 .. n /\ \A k \in 1 .. N : k \in 1 .. n /\ k # n
    BY <1>1
  <2>2. \A k \in 1 .. N : w[k] = 2 * r[k] + 2
    BY <2>1
  <2>3. w[n] = IF q # 0 THEN 2 * r[q] + 1 ELSE IF p # 0 THEN 2 * r[p] + 3 ELSE 0
    BY <2>1
  <2> QED
    BY <2>2, <2>3
<1>8. \A k \in 1 .. n : w[k] \in 0 .. 2 * b + 3
  <2>1. \A k \in 1 .. N : 2 * r[k] + 2 \in 0 .. 2 * b + 3 /\ 2 * r[k] + 1 \in 0 .. 2 * b + 3
                         /\ 2 * r[k] + 3 \in 0 .. 2 * b + 3
    <3>1. \A u \in 0 .. b : 2 * u + 2 \in 0 .. 2 * b + 3 /\ 2 * u + 1 \in 0 .. 2 * b + 3
                           /\ 2 * u + 3 \in 0 .. 2 * b + 3
      OBVIOUS
    <3> QED
      BY <1>6, <3>1
  <2>2. \A k \in 1 .. n : k # n => k \in 1 .. N
    BY <1>1
  <2>3. (q # 0 => q \in 1 .. N) /\ (p # 0 => p \in 1 .. N) /\ 0 \in 0 .. 2 * b + 3
    BY <1>1, <1>2
  <2> QED
    BY <1>7, <2>1, <2>2, <2>3
<1>9. DOMAIN w = 1 .. n /\ w = [k \in 1 .. n |-> w[k]]
  OBVIOUS
<1> HIDE DEF w
<1>10. \A k \in 1 .. n : m.prev[k] # 0 => w[m.prev[k]] < w[k]
  <2> SUFFICES ASSUME NEW k \in 1 .. n, m.prev[k] # 0 PROVE w[m.prev[k]] < w[k]
    OBVIOUS
  <2>1. CASE k = n
    <3>1. m.prev[k] = p /\ p \in 1 .. N /\ p # 0
      BY <1>1, <1>2, <1>3, <2>1, SMTT(40)
    <3>2. w[p] = 2 * r[p] + 2 /\ r[p] \in Nat
      BY <1>6, <1>7, <3>1
    <3>3. CASE q = 0
      BY <1>7, <2>1, <3>1, <3>2, <3>3
    <3>4. CASE q # 0
      <4>1. q \in 1 .. N /\ l.prev[q] = p
        BY <1>1, <1>2, <1>5, <3>1, <3>4
      <4>2. r[p] < r[q] /\ r[q] \in Nat
        BY <1>6, <3>1, <4>1
      <4> QED
        BY <1>7, <2>1, <3>1, <3>2, <3>4, <4>2
    <3> QED
      BY <3>3, <3>4
  <2>2. CASE k # n /\ k = q
    <3>1. m.prev[k] = n /\ k \in 1 .. N /\ q # 0
      BY <1>1, <1>3, <2>2
    <3>2. r[q] \in Nat
      BY <1>6, <2>2, <3>1
    <3> QED
      BY <1>7, <2>2, <3>1, <3>2
  <2>3. CASE k # n /\ k # q
    <3>1. m.prev[k] = l.prev[k] /\ k \in 1 .. N
      BY <1>1, <1>3, <2>3
    <3>2. l.prev[k] \in 1 .. N
      BY <1>1, <1>4, <3>1
    <3>3. r[l.prev[k]] < r[k] /\ r[k] \in Nat /\ r[l.prev[k]] \in Nat
      BY <1>6, <3>1, <3>2
    <3>4. w[l.prev[k]] = 2 * r[l.prev[k]] + 2 /\ w[k] = 2 * r[k] + 2
      BY <1>7, <3>1, <3>2
    <3>5. \A u, v \in Nat : u < v => 2 * u + 2 < 2 * v + 2
      OBVIOUS
    <3> QED
      BY <3>1, <3>3, <3>4, <3>5
  <2> QED
    BY <2>1, <2>2, <2>3
<1>11. Len(m.item) = n
  BY <1>1
<1>12. IsRank(m, 2 * b + 3, w)
  BY <1>8, <1>9, <1>10, <1>11 DEF IsRank
<1> QED
  BY <1>12

\* What an insertion at index i may take as the tracked node of the list m.
Retracks(l, m, i, v) ==
  /\ m.size < l.track_at => v = l.tracked_node
  /\ m.size = l.track_at => v = m.tail
  /\ m.size > l.track_at /\ i > l.track_at => v = l.tracked_node
  /\ m.size > l.track_at /\ i <= l.track_at =>
       v \in {m.prev[l.tracked_node], FromHead(m, l.track_at), l.tracked_node}

\* It leads up to index track_at again.
LEMMA LeadsUpAgain ==
  ASSUME NEW S, NEW l, IsList(S, l), Tracking(l), NEW x \in S, NEW i \in 1 .. l.size + 1,
         NEW m, IsList(S, m), Inserted(l, m, i, x), m.track_at = l.track_at,
         NEW v, Retracks(l, m, i, v), m.size >= m.track_at
  PROVE  \E D : LeadUp(m, D) /\ v \in D
<1> DEFINE n == NewNode(l)
           p == Before(l, i)
           q == After(l, i)
           N == Len(l.item)
           a == l.track_at
           t == FromHead(m, a)
<1>1. l.size \in Nat /\ N \in Nat /\ n = N + 1 /\ a \in Nat /\ a # 0 /\ l.item \in Seq(S)
  BY ListFields DEF Tracking
<1>2. /\ p \in Nat /\ q \in Nat
      /\ i = 1 => p = 0
      /\ i # 1 => i - 1 \in 1 .. l.size /\ p = FromHead(l, i - 1)
      /\ i = l.size + 1 => q = 0
      /\ i # l.size + 1 => i \in 1 .. l.size /\ q = FromHead(l, i)
  BY Neighbours
<1>3. /\ m.size = l.size + 1 /\ Len(m.item) = n
      /\ \A k \in 1 .. n : m.prev[k] = IF k = n THEN p ELSE IF k = q THEN n ELSE l.prev[k]
  <2>1. LinkFields(l, Link(l, x, p, q), x, p, q)
    BY <1>2, Linked
  <2>2. m.prev = Link(l, x, p, q).prev /\ m.size = l.size + 1 /\ m.item = Append(l.item, x)
    BY DEF Inserted
  <2>3. Len(Append(l.item, x)) = N + 1
    BY <1>1, AppendProperties
  <2> QED
    BY <1>1, <2>1, <2>2, <2>3 DEF LinkFields
<1>4. \A k \in 1 .. l.size + 1 : FromHead(m, k) = ChainWith(l, i, k)
  BY InsertedChain
<1>5. a \in 1 .. l.size + 1 /\ t \in 1 .. n
  <2>1. a \in 1 .. l.size + 1
    BY <1>1, <1>3
  <2> QED
    BY <1>3, <2>1 DEF IsList, Forward
<1>6. /\ \A k \in 1 .. l.size : FromHead(l, k) \in 1 .. N
      /\ \A j, k \in 1 .. l.size : FromHead(l, j) = FromHead(l, k) => j = k
      /\ \A k \in 1 .. l.size - 1 : l.prev[FromHead(l, k + 1)] = FromHead(l, k)
  BY DEF IsList, Forward, Backward
<1>7. CASE m.size = a
  <2>1. v = t
    BY <1>1, <1>3, <1>7 DEF Retracks, IsList, Ends
  <2>2. LeadUp(m, {t})
    BY <1>3, <1>5 DEF LeadUp
  <2> QED
    BY <2>1, <2>2
<1>8. CASE m.size > a
  <2>1. a \in 1 .. l.size
    BY <1>1, <1>3, <1>8
  <2>2. PICK D : LeadUp(l, D) /\ l.tracked_node \in D
    BY <1>1, <2>1 DEF Tracking
  <2>3a. PICK b \in Nat : \E r : IsRank(l, b, r)
    BY DEF Tracking
  <2>3. PICK r : b \in Nat /\ IsRank(l, b, r)
    BY <2>3a
  <2>4. /\ \A k \in D : k \in 1 .. N /\ k \in 1 .. n /\ k # n /\ k # 0
        /\ \A k \in D : k # FromHead(l, a) => l.prev[k] \in D
    BY <1>1, <2>2 DEF LeadUp
  <2>5. \A j \in 1 .. l.size : FromHead(l, j) \in D => j >= a
    BY <2>1, <2>2, <2>3, RankOfLeadUp
  <2> HIDE DEF n, p, q, N, a, t
  <2>6. CASE i <= a
    <3> DEFINE E == D \cup {t}
    <3>1. q \in D => i = a /\ q = FromHead(l, a)
      <4>1. q \in D => q # 0
        BY <2>4
      <4> QED
        BY <1>1, <1>2, <2>5, <2>6, <4>1
    <3>2. m.prev[FromHead(l, a)] = t
      <4>1. FromHead(l, a) \in 1 .. n /\ FromHead(l, a) # n
        BY <1>1, <1>6, <2>1
      <4>2. CASE i = a
        <5>1. i # l.size + 1 /\ i \in 1 .. l.size + 1
          BY <1>1, <2>1, <4>2
        <5>2. q = FromHead(l, a)
          BY <1>2, <4>2, <5>1
        <5>3. t = n
          BY <1>4, <1>5, <4>2 DEF t, n, ChainWith
        <5> QED
          BY <1>3, <4>1, <5>2, <5>3
      <4>3. CASE i < a
        <5>1. a - 1 \in 1 .. l.size - 1 /\ (a - 1) + 1 = a /\ ~(a < i) /\ a # i
          BY <1>1, <2>1, <4>3
        <5>2. t = FromHead(l, a - 1)
          BY <1>4, <1>5, <5>1 DEF t, ChainWith
        <5>3. FromHead(l, a) # q
          <6>1. FromHead(l, a) # 0
            BY <1>1, <1>6, <2>1
          <6> QED
            BY <1>2, <1>6, <2>1, <5>1, <6>1
        <5>4. l.prev[FromHead(l, a)] = FromHead(l, a - 1)
          BY <1>6, <5>1
        <5> QED
          BY <1>3, <4>1, <5>2, <5>3, <5>4
      <4> QED
        BY <1>1, <2>6, <4>2, <4>3
    <3>3. \A k \in D : m.prev[k] \in E
      <4> SUFFICES ASSUME NEW k \in D PROVE m.prev[k] \in E
        OBVIOUS
      <4>1. CASE k = FromHead(l, a)
        BY <3>2, <4>1
      <4>2. CASE k # FromHead(l, a)
        <5>1. k # q /\ k \in 1 .. n /\ k # n
          BY <2>4, <3>1, <4>2
        <5>2. l.prev[k] \in D
          BY <2>4, <4>2
        <5> QED
          BY <1>3, <5>1, <5>2
      <4> QED
        BY <4>1, <4>2
    <3>4. E \in SUBSET (1 .. n)
      BY <1>5, <2>4
    <3>5. LeadUp(m, E)
      <4>1. \A k \in E : k # t => m.prev[k] \in E
        BY <3>3
      <4> QED
        BY <1>3, <3>4, <4>1 DEF LeadUp, t, a
    <3>6. v \in E
      <4>1. v \in {m.prev[l.tracked_node], t, l.tracked_node}
        BY <1>8, <2>6 DEF Retracks, a, t
      <4> QED
        BY <2>2, <3>3, <4>1
    <3> QED
      BY <3>5, <3>6
  <2>7. CASE i > a
    <3>1. v = l.tracked_node
      BY <1>8, <2>7 DEF Retracks, a
    <3>2. t = FromHead(l, a)
      BY <1>4, <1>5, <2>7 DEF t, ChainWith
    <3>3. CASE q \notin D
      <4>1. \A k \in D : m.prev[k] = l.prev[k]
        BY <1>3, <2>4, <3>3
      <4>2. D \in SUBSET (1 .. n)
        BY <2>4
      <4>3. LeadUp(m, D)
        BY <1>3, <2>4, <3>2, <4>1, <4>2 DEF LeadUp, t, a
      <4> QED
        BY <2>2, <3>1, <4>3
    <3>4. CASE q \in D
      <4> DEFINE E == D \cup {n}
      <4>1. i # l.size + 1 /\ i # 1 /\ i \in 1 .. l.size /\ q = FromHead(l, i) /\ q # FromHead(l, a)
        BY <1>1, <1>2, <1>6, <2>1, <2>4, <2>7, <3>4
      <4>2. i - 1 \in 1 .. l.size - 1 /\ (i - 1) + 1 = i
        BY <1>1, <4>1
      <4>3. l.prev[q] = p
        BY <1>2, <1>6, <4>1, <4>2
      <4>4. p \in D
        BY <2>4, <3>4, <4>1, <4>3
      <4>5. n \in 1 .. n
        BY <1>1
      <4>6. \A k \in E : k # t => m.prev[k] \in E
        <5> SUFFICES ASSUME NEW k \in E, k # t PROVE m.prev[k] \in E
          OBVIOUS
        <5>1. CASE k = n
          BY <1>3, <4>4, <4>5, <5>1
        <5>2. CASE k # n /\ k = q
          BY <1>3, <2>4, <3>4, <5>2
        <5>3. CASE k # n /\ k # q
          <6>1. k \in D /\ k \in 1 .. n
            BY <2>4, <5>3
          <6>2. l.prev[k] \in D
            BY <2>4, <3>2, <6>1
          <6> QED
            BY <1>3, <5>3, <6>1, <6>2
        <5> QED
          BY <5>1, <5>2, <5>3
      <4>7. E \in SUBSET (1 .. n)
        BY <2>4, <4>5
      <4>8. LeadUp(m, E)
        BY <1>3, <4>6, <4>7 DEF LeadUp, t, a
      <4> QED
        BY <2>2, <3>1, <4>8
    <3> QED
      BY <3>3, <3>4
  <2> QED
    BY <1>1, <2>6, <2>7
<1> QED
  BY <1>1, <1>3, <1>7, <1>8

\* The list m0 is l with x linked in at index i, before the tracked node is
\* updated to v.
LEMMA Retracked ==
  ASSUME NEW S, NEW l, IsList(S, l), Tracking(l), NEW x \in S, NEW i \in 1 .. l.size + 1,
         NEW m0 \in Records(S), Inserted(l, m0, i, x), m0.track_at = l.track_at,
         NEW v, Retracks(l, m0, i, v)
  PROVE  LET m == [m0 EXCEPT !.tracked_node = v]
         IN  /\ IsList(S, m) /\ Tracking(m) /\ Inserted(l, m, i, x)
             /\ m.track_at = l.track_at
<1> DEFINE m == [m0 EXCEPT !.tracked_node = v]
<1>1. IsList(S, m0)
  BY InsertedIsList
<1>2. Len(m0.item) = Len(l.item) + 1
  <2>1. m0.item = Append(l.item, x) /\ l.item \in Seq(S)
    BY ListFields DEF Inserted
  <2> QED
    BY <2>1, AppendProperties
<1>3. /\ m.size = m0.size /\ m.head = m0.head /\ m.tail = m0.tail /\ m.track_at = m0.track_at
      /\ m.item = m0.item /\ m.next = m0.next /\ m.prev = m0.prev /\ m.tracked_node = v
      /\ v \in Nat => m \in Records(S)
  BY DEF Records
<1> HIDE DEF m
<1>4. Inserted(l, m, i, x)
  BY <1>3 DEF Inserted
<1>5. \A k \in 1 .. l.size + 1 : FromHead(m, k) = FromHead(m0, k)
  BY <1>4, InsertedChain
<1>6. l.size \in Nat /\ l.tracked_node \in Nat /\ m.size = l.size + 1 /\ m.track_at = l.track_at
      /\ l.track_at \in Nat /\ l.track_at # 0
  BY <1>3, <1>4, ListFields DEF Inserted, Tracking
<1>7. m.size >= m.track_at => \E D : LeadUp(m, D) /\ v \in D
  <2> SUFFICES ASSUME m.size >= m.track_at PROVE \E D : LeadUp(m, D) /\ v \in D
    OBVIOUS
  <2>1. PICK D : LeadUp(m0, D) /\ v \in D
    BY <1>1, <1>3, LeadsUpAgain
  <2>2. m.track_at \in 1 .. l.size + 1
    BY <1>6
  <2>3. FromHead(m, m.track_at) = FromHead(m0, m0.track_at)
    BY <1>3, <1>5, <2>2
  <2>4. LeadUp(m, D)
    BY <1>3, <2>1, <2>3 DEF LeadUp
  <2> QED
    BY <2>1, <2>4
<1>8. v \in Nat
  <2>1. CASE m.size < m.track_at
    BY <1>3, <1>6, <2>1 DEF Retracks
  <2>2. CASE m.size >= m.track_at
    <3>1. v \in 1 .. Len(m.item)
      BY <1>7, <2>2 DEF LeadUp
    <3> QED
      BY <1>3, <3>1
  <2> QED
    BY <1>6, <2>1, <2>2
<1>9. IsList(S, m)
  BY <1>3, <1>4, <1>8, InsertedIsList
<1>10. \E b \in Nat : \E r : IsRank(m, b, r)
  <2>1a. PICK b \in Nat : \E r : IsRank(l, b, r)
    BY DEF Tracking
  <2>1. PICK r : b \in Nat /\ IsRank(l, b, r)
    BY <2>1a
  <2>2. Len(m.item) = Len(l.item) + 1
    BY <1>2, <1>3
  <2> QED
    BY <1>4, <2>1, <2>2, RankInserted
<1>11. m.size < m.track_at => m.tracked_node = 0
  <2> SUFFICES ASSUME m.size < m.track_at PROVE m.tracked_node = 0
    OBVIOUS
  <2>1. l.size < l.track_at
    BY <1>6
  <2>2. m0.size < l.track_at
    BY <1>3, <1>6
  <2> QED
    BY <1>3, <2>1, <2>2 DEF Retracks, Tracking
<1>12. Tracking(m)
  BY <1>3, <1>6, <1>7, <1>10, <1>11 DEF Tracking
<1> QED
  BY <1>4, <1>6, <1>9, <1>12 DEF m

-----------------------------------------------------------------------------
(* The operations that insert.                                             *)

\* m is l with x inserted at index i, and as good a list as l was.
Grown(S, l, m, i, x) ==
  IsList(S, m) /\ Tracking(m) /\ Inserted(l, m, i, x) /\ m.track_at = l.track_at

\* A node linked in makes a record of the same kind.
LEMMA LinkIsRecord ==
  ASSUME NEW S, NEW l, IsList(S, l), NEW x \in S, NEW p \in Nat, NEW q \in Nat
  PROVE  Link(l, x, p, q) \in Records(S)
<1> DEFINE n == NewNode(l)
           nx == [k \in 1 .. n |-> IF k = n THEN q ELSE IF k = p THEN n ELSE l.next[k]]
           pv == [k \in 1 .. n |-> IF k = n THEN p ELSE IF k = q THEN n ELSE l.prev[k]]
           it == Append(l.item, x)
<1>1. l \in Records(S)
  BY DEF IsList
<1>2. Link(l, x, p, q) = [l EXCEPT !.size = @ + 1, !.item = it, !.next = nx, !.prev = pv]
  BY <1>1 DEF Link, Records
<1>3. Link(l, x, p, q).next = nx /\ Link(l, x, p, q).prev = pv
  BY <1>1 DEF Link, Records
<1>4. nx \in Seq(Nat) /\ pv \in Seq(Nat)
  <2>1. LinkFields(l, Link(l, x, p, q), x, p, q)
    BY Linked
  <2> QED
    BY <1>3, <2>1 DEF LinkFields
<1>5. it \in Seq(S)
  BY ListFields, AppendProperties
<1> HIDE DEF it, nx, pv
<1>6. l.size + 1 \in Nat
  BY ListFields
<1>7. [l EXCEPT !.size = @ + 1, !.item = it, !.next = nx, !.prev = pv] \in Records(S)
  BY <1>1, <1>4, <1>5, <1>6 DEF Records
<1> QED
  BY <1>2, <1>7

\* The record m is L but for its ends.
SameInside(L, m) ==
  /\ m.size = L.size /\ m.item = L.item /\ m.next = L.next /\ m.prev = L.prev
  /\ m.track_at = L.track_at /\ m.tracked_node = L.tracked_node

\* The operations link a node in, move the ends and choose the tracked node.
LEMMA Spliced ==
  ASSUME NEW S, NEW l, IsList(S, l), Tracking(l), NEW x \in S, NEW i \in 1 .. l.size + 1,
         NEW m0 \in Records(S), SameInside(Link(l, x, Before(l, i), After(l, i)), m0),
         m0.head = IF i = 1 THEN NewNode(l) ELSE l.head,
         m0.tail = IF i = l.size + 1 THEN NewNode(l) ELSE l.tail
  PROVE  /\ Inserted(l, m0, i, x)
         /\ \A k \in 1 .. m0.size : FromHead(m0, k) = ChainWith(l, i, k)
         /\ m0.size = l.size + 1 /\ m0.track_at = l.track_at /\ m0.tracked_node = l.tracked_node
         /\ \A v : Retracks(l, m0, i, v) => Grown(S, l, [m0 EXCEPT !.tracked_node = v], i, x)
<1> DEFINE L == Link(l, x, Before(l, i), After(l, i))
<1>1. LinkFields(l, L, x, Before(l, i), After(l, i))
  BY Neighbours, Linked
<1>2. Inserted(l, m0, i, x) /\ m0.track_at = l.track_at /\ m0.tracked_node = l.tracked_node
  BY <1>1 DEF Inserted, SameInside, LinkFields
<1>3. m0.size = l.size + 1
  BY <1>2 DEF Inserted
<1>4. \A k \in 1 .. m0.size : FromHead(m0, k) = ChainWith(l, i, k)
  BY <1>2, <1>3, InsertedChain
<1>5. \A v : Retracks(l, m0, i, v) => Grown(S, l, [m0 EXCEPT !.tracked_node = v], i, x)
  BY <1>2, Retracked DEF Grown
<1> QED
  BY <1>2, <1>3, <1>4, <1>5

\* The ends of a list, and what is there.
LEMMA EndsOf ==
  ASSUME NEW S, NEW l, IsList(S, l)
  PROVE  /\ l.head = 0 <=> l.size = 0
         /\ l.tail = 0 <=> l.size = 0
         /\ l.head = IF l.size = 0 THEN 0 ELSE FromHead(l, 1)
         /\ l.tail = IF l.size = 0 THEN 0 ELSE FromHead(l, l.size)
         /\ l.size \in Nat
<1>1. l.size \in Nat /\ Len(l.item) \in Nat
  BY ListFields
<1>2. l.size # 0 => FromHead(l, l.size) # 0
  BY <1>1 DEF IsList, Forward
<1>3. FromHead(l, 1) = l.head
  BY FromHeadStep
<1> QED
  BY <1>1, <1>2, <1>3 DEF IsList, Ends

\* append inserts behind the last item.
LEMMA PushBackGrows ==
  ASSUME NEW S, NEW l, IsList(S, l), Tracking(l), NEW x \in S
  PROVE  Grown(S, l, PushBack(l, x), l.size + 1, x)
<1> DEFINE n == NewNode(l)
           L == Link(l, x, l.tail, 0)
           m0 == [L EXCEPT !.head = IF @ = 0 THEN n ELSE @, !.tail = n]
           v == IF m0.size = m0.track_at THEN n ELSE m0.tracked_node
           i == l.size + 1
<1>1. /\ l.size \in Nat /\ l.tail \in Nat /\ n \in Nat /\ l.track_at \in Nat
      /\ i \in 1 .. l.size + 1
  BY ListFields
<1>2. Before(l, i) = l.tail /\ After(l, i) = 0
  BY <1>1, EndsOf DEF Before, After
<1>3. L \in Records(S) /\ L.head = l.head
  <2>1. L \in Records(S) /\ LinkFields(l, L, x, l.tail, 0)
    BY <1>1, LinkIsRecord, Linked
  <2> QED
    BY <2>1 DEF LinkFields
<1> HIDE DEF L, n
<1>4. m0 \in Records(S) /\ SameInside(L, m0)
  BY <1>1, <1>3 DEF Records, SameInside
<1>5. m0.head = (IF i = 1 THEN n ELSE l.head) /\ m0.tail = n
  BY <1>1, <1>3, EndsOf DEF Records
<1>6. PushBack(l, x) = [m0 EXCEPT !.tracked_node = v]
  BY <1>3 DEF PushBack, L, n, Records
<1> HIDE DEF m0
<1>7. /\ m0.size = l.size + 1 /\ m0.track_at = l.track_at /\ m0.tracked_node = l.tracked_node
      /\ Retracks(l, m0, i, v) => Grown(S, l, [m0 EXCEPT !.tracked_node = v], i, x)
  BY <1>1, <1>2, <1>4, <1>5, Spliced DEF L, n
<1>8. Retracks(l, m0, i, v)
  BY <1>1, <1>5, <1>7 DEF Retracks
<1> QED
  BY <1>6, <1>7, <1>8

\* prepend inserts in front of the first item.
LEMMA PushFrontGrows ==
  ASSUME NEW S, NEW l, IsList(S, l), Tracking(l), NEW x \in S
  PROVE  Grown(S, l, PushFront(l, x), 1, x)
<1> DEFINE n == NewNode(l)
           L == Link(l, x, 0, l.head)
           m0 == [L EXCEPT !.tail = IF @ = 0 THEN n ELSE @, !.head = n]
           v == Shifted(m0)
<1>1. /\ l.size \in Nat /\ l.head \in Nat /\ n \in Nat /\ l.track_at \in Nat /\ l.track_at # 0
      /\ 1 \in 1 .. l.size + 1
  BY ListFields DEF Tracking
<1>2. Before(l, 1) = 0 /\ After(l, 1) = l.head
  BY <1>1, EndsOf DEF Before, After
<1>3. L \in Records(S) /\ L.tail = l.tail
  <2>1. L \in Records(S) /\ LinkFields(l, L, x, 0, l.head)
    BY <1>1, LinkIsRecord, Linked
  <2> QED
    BY <2>1 DEF LinkFields
<1> HIDE DEF L, n
<1>4. m0 \in Records(S) /\ SameInside(L, m0)
  BY <1>1, <1>3 DEF Records, SameInside
<1>5. m0.head = n /\ m0.tail = IF 1 = l.size + 1 THEN n ELSE l.tail
  BY <1>1, <1>3, EndsOf DEF Records
<1>6. PushFront(l, x) = [m0 EXCEPT !.tracked_node = v]
  BY DEF PushFront, L, n
<1> HIDE DEF m0
<1>7. /\ m0.size = l.size + 1 /\ m0.track_at = l.track_at /\ m0.tracked_node = l.tracked_node
      /\ Retracks(l, m0, 1, v) => Grown(S, l, [m0 EXCEPT !.tracked_node = v], 1, x)
  BY <1>1, <1>2, <1>4, <1>5, Spliced DEF L, n
<1>8. Retracks(l, m0, 1, v)
  BY <1>1, <1>5, <1>7 DEF Retracks, Shifted
<1> QED
  BY <1>6, <1>7, <1>8

\* place_after inserts behind the item at index j,
LEMMA PlaceAfterGrows ==
  ASSUME NEW S, NEW l, IsList(S, l), Tracking(l), NEW x \in S, NEW j \in 1 .. l.size
  PROVE  Grown(S, l, PlaceAfter(l, j + 1, FromHead(l, j), x), j + 1, x)
<1> DEFINE n == NewNode(l)
           node == FromHead(l, j)
           L == Link(l, x, node, l.next[node])
           m0 == [L EXCEPT !.tail = IF @ = node THEN n ELSE @]
           i == j + 1
           v == IF i = m0.track_at THEN n
                ELSE IF i < m0.track_at THEN Shifted(m0) ELSE m0.tracked_node
<1>1. /\ l.size \in Nat /\ n \in Nat /\ l.track_at \in Nat /\ l.track_at # 0 /\ l.tail \in Nat
      /\ i \in 1 .. l.size + 1 /\ j \in Nat \ {0} /\ i # 1 /\ i - 1 = j /\ l.size # 0
  BY ListFields DEF Tracking
<1>2. Before(l, i) = node /\ After(l, i) = l.next[node]
  <2>1. j = l.size => l.next[node] = 0
    BY <1>1, EndsOf DEF IsList, Ends
  <2>2. FromHead(l, i) = l.next[node]
    BY <1>1, FromHeadStep
  <2> QED
    BY <1>1, <2>1, <2>2 DEF Before, After
<1>3. L \in Records(S) /\ L.head = l.head /\ L.tail = l.tail
  <2>1. node \in Nat /\ l.next[node] \in Nat
    <3>1. Before(l, i) \in Nat /\ After(l, i) \in Nat
      BY <1>1, Neighbours
    <3> QED
      BY <1>2, <3>1
  <2>2. L \in Records(S) /\ LinkFields(l, L, x, node, l.next[node])
    BY <2>1, LinkIsRecord, Linked
  <2> QED
    BY <2>2 DEF LinkFields
<1>4. l.tail = node <=> i = l.size + 1
  <2>1. l.size \in 1 .. l.size /\ l.tail = FromHead(l, l.size)
    BY <1>1, EndsOf
  <2>2. l.tail = node <=> j = l.size
    BY <2>1 DEF IsList, Forward
  <2> QED
    BY <1>1, <2>2
<1> HIDE DEF L, n, node
<1>5. m0 \in Records(S) /\ SameInside(L, m0)
  BY <1>1, <1>3 DEF Records, SameInside
<1>6. m0.head = l.head /\ m0.tail = IF i = l.size + 1 THEN n ELSE l.tail
  BY <1>3, <1>4 DEF Records
<1>7. PlaceAfter(l, i, node, x) = [m0 EXCEPT !.tracked_node = v]
  BY <1>5 DEF PlaceAfter, L, n, Records
<1> HIDE DEF m0
<1>8. /\ m0.size = l.size + 1 /\ m0.track_at = l.track_at /\ m0.tracked_node = l.tracked_node
      /\ \A k \in 1 .. m0.size : FromHead(m0, k) = ChainWith(l, i, k)
      /\ Retracks(l, m0, i, v) => Grown(S, l, [m0 EXCEPT !.tracked_node = v], i, x)
  BY <1>1, <1>2, <1>5, <1>6, Spliced DEF L, n
<1>9. FromHead(m0, i) = n
  BY <1>1, <1>8 DEF ChainWith, n
<1>10. Retracks(l, m0, i, v)
  BY <1>1, <1>6, <1>8, <1>9 DEF Retracks, Shifted
<1> QED
  BY <1>7, <1>8, <1>10 DEF node

\* place_before in front of the item at index i.
LEMMA PlaceBeforeGrows ==
  ASSUME NEW S, NEW l, IsList(S, l), Tracking(l), NEW x \in S, NEW i \in 1 .. l.size
  PROVE  Grown(S, l, PlaceBefore(l, i, FromHead(l, i), x), i, x)
<1> DEFINE n == NewNode(l)
           node == FromHead(l, i)
           L == Link(l, x, l.prev[node], node)
           m0 == [L EXCEPT !.head = IF @ = node THEN n ELSE @]
           v == IF i = m0.track_at - 1 THEN node
                ELSE IF i < m0.track_at THEN Shifted(m0) ELSE m0.tracked_node
<1>1. /\ l.size \in Nat /\ n \in Nat /\ l.track_at \in Nat /\ l.track_at # 0 /\ l.head \in Nat
      /\ i \in 1 .. l.size + 1 /\ i \in Nat \ {0} /\ i # l.size + 1 /\ l.size # 0
  BY ListFields DEF Tracking
<1>2. Before(l, i) = l.prev[node] /\ After(l, i) = node
  <2>1. i = 1 => l.prev[node] = 0
    BY <1>1, EndsOf DEF IsList, Ends
  <2>2. i # 1 => l.prev[node] = FromHead(l, i - 1)
    <3> SUFFICES ASSUME i # 1 PROVE l.prev[node] = FromHead(l, i - 1)
      OBVIOUS
    <3>1. i - 1 \in 1 .. l.size - 1 /\ (i - 1) + 1 = i
      BY <1>1
    <3> QED
      BY <3>1 DEF IsList, Backward
  <2> QED
    BY <1>1, <2>1, <2>2 DEF Before, After
<1>3. L \in Records(S) /\ L.head = l.head /\ L.tail = l.tail
  <2>1. node \in Nat /\ l.prev[node] \in Nat
    <3>1. Before(l, i) \in Nat /\ After(l, i) \in Nat
      BY <1>1, Neighbours
    <3> QED
      BY <1>2, <3>1
  <2>2. L \in Records(S) /\ LinkFields(l, L, x, l.prev[node], node)
    BY <2>1, LinkIsRecord, Linked
  <2> QED
    BY <2>2 DEF LinkFields
<1>4. l.head = node <=> i = 1
  <2>1. 1 \in 1 .. l.size /\ l.head = FromHead(l, 1)
    BY <1>1, EndsOf
  <2> QED
    BY <2>1 DEF IsList, Forward
<1>5. node = FromHead(l, l.size) <=> i = l.size
  BY <1>1 DEF IsList, Forward
<1>6. l.tail = FromHead(l, l.size)
  BY <1>1, EndsOf
<1> HIDE DEF L, n, node
<1>7. m0 \in Records(S) /\ SameInside(L, m0)
  BY <1>1, <1>3 DEF Records, SameInside
<1>8. m0.tail = l.tail /\ m0.head = IF i = 1 THEN n ELSE l.head
  BY <1>3, <1>4 DEF Records
<1>9. PlaceBefore(l, i, node, x) = [m0 EXCEPT !.tracked_node = v]
  BY <1>7 DEF PlaceBefore, L, n, Records
<1> HIDE DEF m0
<1>10. /\ m0.size = l.size + 1 /\ m0.track_at = l.track_at /\ m0.tracked_node = l.tracked_node
       /\ \A k \in 1 .. m0.size : FromHead(m0, k) = ChainWith(l, i, k)
       /\ Retracks(l, m0, i, v) => Grown(S, l, [m0 EXCEPT !.tracked_node = v], i, x)
  BY <1>1, <1>2, <1>7, <1>8, Spliced DEF L, n
<1>11. FromHead(m0, i + 1) = node
  <2>1. i + 1 \in 1 .. m0.size /\ ~(i + 1 < i) /\ i + 1 # i /\ (i + 1) - 1 = i
    BY <1>1, <1>10
  <2> QED
    BY <1>10, <2>1 DEF ChainWith, node
<1>12. Retracks(l, m0, i, v)
  <2>1. CASE i = m0.track_at - 1
    <3>1. i = l.track_at - 1 /\ v = node /\ i + 1 = l.track_at
      BY <1>1, <1>10, <2>1
    <3>2. m0.size = l.track_at => node = m0.tail
      BY <1>1, <1>5, <1>6, <1>8, <1>10, <3>1
    <3> QED
      BY <1>1, <1>10, <1>11, <3>1, <3>2 DEF Retracks
  <2>2. CASE i # m0.track_at - 1
    <3>1. i # l.track_at - 1
          /\ v = IF i < l.track_at THEN Shifted(m0) ELSE l.tracked_node
      BY <1>10, <2>2
    <3> QED
      BY <1>1, <1>8, <1>10, <3>1 DEF Retracks, Shifted
  <2> QED
    BY <2>1, <2>2
<1> QED
  BY <1>9, <1>10, <1>12 DEF node

-----------------------------------------------------------------------------
(* truncate.                                                               *)

\* The walk back from the tail meets the same nodes as the one from the head.
LEMMA WalksMeet ==
  ASSUME NEW S, NEW l, IsList(S, l), NEW k \in 0 .. l.size - 1
  PROVE  FromTail(l, k) = FromHead(l, l.size - k)
<1>1. l.size \in Nat /\ l.size # 0
  BY ListFields
<1>2. FromTail(l, 0) = FromHead(l, l.size)
  BY <1>1, EndsOf, FromTailStep
<1> DEFINE T == {j \in 0 .. l.size - 1 : FromTail(l, j) # FromHead(l, l.size - j)}
<1> SUFFICES ASSUME T # {} PROVE FALSE
  OBVIOUS
<1>3. T \in SUBSET Nat
  OBVIOUS
<1>4. PICK j \in T : \A i \in T : j <= i
  BY <1>3, Least
<1>5. j \in 0 .. l.size - 1 /\ FromTail(l, j) # FromHead(l, l.size - j)
  BY <1>4
<1>6. j # 0
  <2> SUFFICES ASSUME j = 0 PROVE FALSE
    OBVIOUS
  <2>1. l.size - j = l.size
    BY <1>1
  <2> QED
    BY <1>2, <1>5, <2>1
<1>7. /\ j - 1 \in 0 .. l.size - 1 /\ ~(j <= j - 1) /\ j - 1 \in Nat /\ (j - 1) + 1 = j
      /\ l.size - j \in 1 .. l.size - 1 /\ (l.size - j) + 1 = l.size - (j - 1)
  BY <1>1, <1>5, <1>6
<1>8. FromTail(l, j - 1) = FromHead(l, (l.size - j) + 1)
  BY <1>4, <1>7
<1>9. FromTail(l, j) = l.prev[FromTail(l, j - 1)]
  BY <1>7, FromTailStep
<1>10. l.prev[FromHead(l, (l.size - j) + 1)] = FromHead(l, l.size - j)
  BY <1>7 DEF IsList, Backward
<1> QED
  BY <1>5, <1>8, <1>9, <1>10

\* truncate keeps the first nodes of the list.
LEMMA TruncateCuts ==
  ASSUME NEW S, NEW l, IsList(S, l), Tracking(l), NEW max \in 1 .. l.size - 1
  PROVE  /\ IsList(S, Truncate(l, max)) /\ Tracking(Truncate(l, max))
         /\ Truncate(l, max).size = max /\ Truncate(l, max).item = l.item
         /\ \A k \in 1 .. max : FromHead(Truncate(l, max), k) = FromHead(l, k)
<1> DEFINE c == FromHead(l, max)
           N == Len(l.item)
           at == IF max < l.track_at THEN max ELSE l.track_at
           tr == IF max < l.track_at THEN c ELSE l.tracked_node
           nx == [l.next EXCEPT ![c] = 0]
           m == [l EXCEPT !.size = max, !.tail = c, !.next = nx, !.track_at = at,
                          !.tracked_node = tr]
<1>1. /\ l.size \in Nat /\ N \in Nat /\ l.size <= N /\ l.track_at \in Nat /\ l.track_at # 0
      /\ l.tracked_node \in Nat /\ l.next \in Seq(Nat) /\ Len(l.next) = N /\ l \in Records(S)
  BY ListFields DEF Tracking, IsList
<1>2. max \in Nat /\ max # 0 /\ ~(max >= l.size) /\ max \in 1 .. l.size
  BY <1>1
<1>3. /\ \A k \in 1 .. l.size : FromHead(l, k) \in 1 .. N
      /\ \A j, k \in 1 .. l.size : FromHead(l, j) = FromHead(l, k) => j = k
      /\ \A k \in 1 .. l.size - 1 : l.prev[FromHead(l, k + 1)] = FromHead(l, k)
  BY DEF IsList, Forward, Backward
<1>4. c \in 1 .. N /\ c \in Nat /\ c # 0
  BY <1>1, <1>2, <1>3
<1>5. FromTail(l, l.size - max) = c
  <2>1. l.size - max \in 0 .. l.size - 1 /\ l.size - (l.size - max) = max
    <3>1. \A u, v \in Nat : u # 0 /\ ~(u >= v) => v - u \in 0 .. v - 1 /\ v - (v - u) = u
      OBVIOUS
    <3> QED
      BY <1>1, <1>2, <3>1
  <2> QED
    BY <2>1, WalksMeet
<1>6. Truncate(l, max) = m
  <2>1. l.next = [k \in DOMAIN l.next |-> l.next[k]]
    BY <1>1
  <2> HIDE DEF c
  <2> QED
    BY <1>1, <1>2, <1>5 DEF Truncate, Records, c
<1>7. /\ nx \in Seq(Nat) /\ Len(nx) = N
      /\ \A k \in 1 .. N : nx[k] = IF k = c THEN 0 ELSE l.next[k]
  <2>1. l.next \in Seq(Nat) /\ c \in 1 .. Len(l.next) /\ 0 \in Nat
    BY <1>1, <1>4
  <2> HIDE DEF c
  <2>2. /\ nx \in Seq(Nat) /\ Len(nx) = Len(l.next)
        /\ \A k \in 1 .. Len(l.next) : nx[k] = IF k = c THEN 0 ELSE l.next[k]
    BY <2>1, ExceptSeq
  <2> HIDE DEF nx
  <2> QED
    BY <1>1, <2>2
<1> HIDE DEF c, nx
<1>8. /\ m.size = max /\ m.tail = c /\ m.next = nx /\ m.track_at = at /\ m.tracked_node = tr
      /\ m.head = l.head /\ m.item = l.item /\ m.prev = l.prev
      /\ m \in Records(S)
  BY <1>1, <1>2, <1>4, <1>7 DEF Records
<1> HIDE DEF m
<1>9. \A k \in 1 .. max : FromHead(m, k) = FromHead(l, k)
  <2> DEFINE T == {k \in 1 .. max : FromHead(m, k) # FromHead(l, k)}
  <2> SUFFICES ASSUME T # {} PROVE FALSE
    OBVIOUS
  <2>1. T \in SUBSET Nat
    BY <1>2
  <2>2. PICK k \in T : \A j \in T : k <= j
    BY <2>1, Least
  <2>3. k \in 1 .. max /\ FromHead(m, k) # FromHead(l, k)
    BY <2>2
  <2>4. k # 1
    BY <1>8, <2>3, FromHeadStep
  <2>5. /\ k - 1 \in 1 .. max /\ ~(k <= k - 1) /\ k - 1 \in Nat \ {0} /\ (k - 1) + 1 = k
        /\ k - 1 \in 1 .. l.size /\ k - 1 # max
    BY <1>1, <1>2, <2>3, <2>4
  <2>6. FromHead(m, k - 1) = FromHead(l, k - 1)
    BY <2>2, <2>5
  <2>7. FromHead(m, k) = m.next[FromHead(l, k - 1)] /\ FromHead(l, k) = l.next[FromHead(l, k - 1)]
    BY <2>5, <2>6, FromHeadStep
  <2>8. FromHead(l, k - 1) # c /\ FromHead(l, k - 1) \in 1 .. N
    BY <1>2, <1>3, <2>5 DEF c
  <2> QED
    BY <1>7, <1>8, <2>3, <2>7, <2>8
<1>10. \A k \in 1 .. max : k \in 1 .. l.size
  BY <1>1, <1>2
<1>11. Forward(m)
  BY <1>3, <1>8, <1>9, <1>10 DEF Forward
<1>12. Ends(m)
  <2>1. l.head # 0 /\ l.prev[l.head] = 0
    BY <1>1, <1>2 DEF IsList, Ends
  <2>2. m.tail = FromHead(m, max)
    BY <1>2, <1>8, <1>9 DEF c
  <2>3. m.next[m.tail] = 0
    BY <1>4, <1>7, <1>8
  <2> QED
    BY <1>2, <1>8, <2>1, <2>2, <2>3 DEF Ends
<1>13. Backward(m)
  <2>1. \A k \in 1 .. max - 1 : k \in 1 .. max /\ k + 1 \in 1 .. max /\ k \in 1 .. l.size - 1
    BY <1>1, <1>2
  <2> QED
    BY <1>3, <1>8, <1>9, <2>1 DEF Backward
<1>14. IsList(S, m)
  <2>1. Len(m.next) = N /\ Len(m.prev) = N /\ m.size <= N
    BY <1>1, <1>2, <1>7, <1>8 DEF IsList
  <2> QED
    BY <1>8, <1>11, <1>12, <1>13, <2>1 DEF IsList
<1>15. \E b \in Nat : \E r : IsRank(m, b, r)
  BY <1>8 DEF Tracking, IsRank
<1>16. ASSUME m.size >= m.track_at PROVE \E D : LeadUp(m, D) /\ m.tracked_node \in D
  <2>1. CASE max < l.track_at
    <3>1. FromHead(m, m.track_at) = c /\ m.tracked_node = c
      BY <1>2, <1>8, <1>9, <2>1 DEF c
    <3>2. LeadUp(m, {c})
      BY <1>4, <1>8, <3>1 DEF LeadUp
    <3> QED
      BY <3>1, <3>2
  <2>2. CASE ~(max < l.track_at)
    <3>1. l.size >= l.track_at /\ l.track_at \in 1 .. max
      BY <1>1, <1>2, <2>2
    <3>2. PICK D : LeadUp(l, D) /\ l.tracked_node \in D
      BY <3>1 DEF Tracking
    <3>3. FromHead(m, m.track_at) = FromHead(l, l.track_at) /\ m.tracked_node = l.tracked_node
      BY <1>8, <1>9, <2>2, <3>1
    <3>4. LeadUp(m, D)
      BY <1>8, <3>2, <3>3 DEF LeadUp
    <3> QED
      BY <3>2, <3>3, <3>4
  <2> QED
    BY <2>1, <2>2
<1>17. m.track_at # 0
  BY <1>1, <1>2, <1>8
<1>18. ~(m.size < m.track_at)
  BY <1>1, <1>2, <1>8
<1>19. Tracking(m)
  BY <1>15, <1>16, <1>17, <1>18 DEF Tracking
<1> QED
  BY <1>6, <1>8, <1>9, <1>14, <1>19

-----------------------------------------------------------------------------
(* What the list holds.                                                    *)

\* The items of a list are a sequence.
LEMMA ItemsOf ==
  ASSUME NEW S, NEW l, IsList(S, l)
  PROVE  /\ Items(l) \in Seq(S) /\ Len(Items(l)) = l.size
         /\ \A k \in 1 .. l.size : Items(l)[k] = l.item[FromHead(l, k)]
<1>1. l.size \in Nat /\ l.item \in Seq(S)
  BY ListFields
<1>2. \A k \in 1 .. l.size : Items(l)[k] = l.item[FromHead(l, k)]
  BY DEF Items, Chain
<1>3. \A k \in 1 .. l.size : l.item[FromHead(l, k)] \in S
  BY <1>1, ElementOfSeq DEF IsList, Forward
<1>4. Items(l) \in [1 .. l.size -> S]
  BY <1>3 DEF Items, Chain
<1>5. Items(l) \in Seq(S) /\ Len(Items(l)) = l.size
  BY <1>1, <1>4
<1> QED
  BY <1>2, <1>5

\* t is s with room made at index i for e.
IsInsertion(S, s, i, e, t) ==
  /\ t \in Seq(S) /\ Len(t) = Len(s) + 1
  /\ \A k \in 1 .. Len(s) + 1 : t[k] = IF k < i THEN s[k] ELSE IF k = i THEN e ELSE s[k - 1]

\* That is what InsertAt makes.
LEMMA InsertAtProperties ==
  ASSUME NEW S, NEW s \in Seq(S), NEW i \in 1 .. Len(s) + 1, NEW e \in S
  PROVE  IsInsertion(S, s, i, e, InsertAt(s, i, e))
<1> DEFINE a == SubSeq(s, 1, i - 1)
           b == SubSeq(s, i, Len(s))
           N == Len(s)
<1>1. N \in Nat /\ i \in Nat /\ i # 0
  BY LenProperties
<1>2. /\ a \in Seq(S) /\ Len(a) = i - 1
      /\ \A k \in 1 .. i - 1 : a[k] = s[k]
  <2>1. s \in [1 .. N -> S]
    BY LenProperties
  <2>2. \A k \in 1 .. i - 1 : k \in 1 .. N
    BY <1>1
  <2> QED
    BY <1>1, <2>1, <2>2
<1>3. /\ b \in Seq(S) /\ Len(b) = N - i + 1
      /\ \A k \in 1 .. N - i + 1 : b[k] = s[i + k - 1]
  <2>1. s \in [1 .. N -> S]
    BY LenProperties
  <2>2. \A k \in i .. N : k \in 1 .. N
    BY <1>1
  <2> QED
    BY <1>1, <2>1, <2>2
<1>4. <<e>> \in Seq(S) /\ Len(<<e>>) = 1 /\ <<e>>[1] = e
  OBVIOUS
<1> HIDE DEF a, b
<1> DEFINE c == a \o <<e>>
<1>5. /\ c \in Seq(S) /\ Len(c) = i
      /\ \A k \in 1 .. i : c[k] = IF k < i THEN s[k] ELSE e
  <2>1. /\ c \in Seq(S) /\ Len(c) = Len(a) + Len(<<e>>)
        /\ \A k \in 1 .. Len(a) + Len(<<e>>) : c[k] =
             IF k <= Len(a) THEN a[k] ELSE <<e>>[k - Len(a)]
    BY <1>2, <1>4, ConcatProperties
  <2>2. Len(c) = i
    BY <1>1, <1>2, <1>4, <2>1
  <2>3. \A k \in 1 .. i : c[k] = IF k < i THEN s[k] ELSE e
    <3> SUFFICES ASSUME NEW k \in 1 .. i PROVE c[k] = IF k < i THEN s[k] ELSE e
      OBVIOUS
    <3>1. CASE k < i
      BY <1>1, <1>2, <1>4, <2>1, <3>1
    <3>2. CASE k = i
      <4>1. k - Len(a) = 1 /\ ~(k <= Len(a)) /\ k \in 1 .. Len(a) + Len(<<e>>)
        BY <1>1, <1>2, <1>4, <3>2
      <4>2. c[k] = <<e>>[k - Len(a)]
        BY <2>1, <4>1
      <4> QED
        BY <1>4, <3>2, <4>1, <4>2
    <3>3. k < i \/ k = i
      BY <1>1
    <3> QED
      BY <3>1, <3>2, <3>3
  <2> QED
    BY <2>1, <2>2, <2>3
<1>6. InsertAt(s, i, e) = c \o b
  BY DEF InsertAt, a, b
<1> HIDE DEF c
<1>7. /\ c \o b \in Seq(S) /\ Len(c \o b) = Len(c) + Len(b)
      /\ \A k \in 1 .. Len(c) + Len(b) : (c \o b)[k] =
           IF k <= Len(c) THEN c[k] ELSE b[k - Len(c)]
  BY <1>3, <1>5, ConcatProperties
<1>8. Len(c) + Len(b) = N + 1
  BY <1>1, <1>3, <1>5
<1>9. ASSUME NEW k \in 1 .. N + 1
      PROVE  (c \o b)[k] = IF k < i THEN s[k] ELSE IF k = i THEN e ELSE s[k - 1]
  <2>1. CASE k <= i
    BY <1>1, <1>5, <1>7, <1>8, <2>1
  <2>2. CASE k > i
    <3>1. k - i \in 1 .. N - i + 1 /\ i + (k - i) - 1 = k - 1 /\ ~(k <= i)
      BY <1>1, <2>2
    <3>2. (c \o b)[k] = b[k - i]
      BY <1>5, <1>7, <1>8, <3>1
    <3> QED
      BY <1>1, <1>3, <2>2, <3>1, <3>2
  <2>3. k <= i \/ k > i
    BY <1>1
  <2> QED
    BY <2>1, <2>2, <2>3
<1> QED
  BY <1>6, <1>7, <1>8, <1>9 DEF IsInsertion

\* An insertion into the pointers is one into the sequence.
LEMMA ItemsInserted ==
  ASSUME NEW S, NEW l, IsList(S, l), NEW x \in S, NEW i \in 1 .. l.size + 1,
         NEW m, Grown(S, l, m, i, x)
  PROVE  Items(m) = InsertAt(Items(l), i, x)
<1> DEFINE N == Len(l.item)
<1>1. /\ l.size \in Nat /\ N \in Nat /\ l.item \in Seq(S) /\ NewNode(l) = N + 1
      /\ i \in Nat /\ i # 0
  BY ListFields
<1>2. m.size = l.size + 1 /\ m.item = Append(l.item, x) /\ IsList(S, m)
  BY DEF Grown, Inserted
<1>3. \A k \in 1 .. l.size + 1 : FromHead(m, k) = ChainWith(l, i, k)
  BY InsertedChain DEF Grown
<1>4. /\ Items(m) \in Seq(S) /\ Len(Items(m)) = l.size + 1
      /\ \A k \in 1 .. l.size + 1 : Items(m)[k] = m.item[FromHead(m, k)]
  BY <1>2, ItemsOf
<1>5. /\ Items(l) \in Seq(S) /\ Len(Items(l)) = l.size
      /\ \A k \in 1 .. l.size : Items(l)[k] = l.item[FromHead(l, k)]
  BY ItemsOf
<1>6. /\ \A k \in 1 .. N : m.item[k] = l.item[k]
      /\ m.item[N + 1] = x
  BY <1>1, <1>2, AppendProperties
<1>7. \A k \in 1 .. l.size : FromHead(l, k) \in 1 .. N
  BY DEF IsList, Forward
<1> DEFINE s == Items(l)
           t == InsertAt(s, i, x)
<1>8. /\ t \in Seq(S) /\ Len(t) = l.size + 1
      /\ \A k \in 1 .. l.size + 1 :
           t[k] = IF k < i THEN s[k] ELSE IF k = i THEN x ELSE s[k - 1]
  <2>1. i \in 1 .. Len(s) + 1 /\ s \in Seq(S)
    BY <1>5
  <2>2. Len(s) = l.size
    BY <1>5
  <2> HIDE DEF s
  <2>3. IsInsertion(S, s, i, x, t)
    BY <2>1, InsertAtProperties
  <2> HIDE DEF t
  <2>4. /\ t \in Seq(S) /\ Len(t) = Len(s) + 1
        /\ \A k \in 1 .. Len(s) + 1 :
             t[k] = IF k < i THEN s[k] ELSE IF k = i THEN x ELSE s[k - 1]
    BY <2>3 DEF IsInsertion
  <2> QED
    BY <2>2, <2>4
<1> HIDE DEF s, t
<1>9. ASSUME NEW k \in 1 .. l.size + 1 PROVE Items(m)[k] = t[k]
  <2>1. CASE k < i
    <3>1. k \in 1 .. l.size /\ FromHead(m, k) = FromHead(l, k)
      BY <1>1, <1>3, <2>1 DEF ChainWith
    <3> QED
      <4>1. t[k] = s[k] /\ s[k] = l.item[FromHead(l, k)]
        BY <1>5, <1>8, <2>1, <3>1 DEF s
      <4>2. Items(m)[k] = m.item[FromHead(l, k)]
        BY <1>4, <3>1
      <4> QED
        BY <1>6, <1>7, <3>1, <4>1, <4>2
  <2>2. CASE k = i
    <3>1. FromHead(m, k) = N + 1
      BY <1>1, <1>3, <2>2 DEF ChainWith
    <3> QED
      BY <1>1, <1>4, <1>6, <1>8, <2>2, <3>1
  <2>3. CASE k > i
    <3>1. k - 1 \in 1 .. l.size /\ ~(k < i) /\ k # i /\ FromHead(m, k) = FromHead(l, k - 1)
      BY <1>1, <1>3, <2>3 DEF ChainWith
    <3> QED
      <4>1. t[k] = s[k - 1] /\ s[k - 1] = l.item[FromHead(l, k - 1)]
        BY <1>5, <1>8, <3>1 DEF s
      <4>2. Items(m)[k] = m.item[FromHead(l, k - 1)]
        BY <1>4, <3>1
      <4> QED
        BY <1>6, <1>7, <3>1, <4>1, <4>2
  <2> QED
    BY <1>1, <2>1, <2>2, <2>3
<1> QED
  BY <1>4, <1>8, <1>9, SeqEqual DEF s, t

\* (the same, for lists of numbers)
LEMMA NumbersInserted ==
  \A l, m, i, x : IsList(Nat, l) /\ x \in Nat /\ i \in 1 .. l.size + 1 /\ Grown(Nat, l, m, i, x)
                   => Items(m) = InsertAt(Items(l), i, x)
<1> SUFFICES ASSUME NEW l, NEW m, NEW i \in 1 .. l.size + 1, NEW x \in Nat,
                    IsList(Nat, l), Grown(Nat, l, m, i, x)
             PROVE  Items(m) = InsertAt(Items(l), i, x)
  OBVIOUS
<1>1. PICK S : S = Nat
  OBVIOUS
<1>2. x \in S /\ IsList(S, l) /\ Grown(S, l, m, i, x)
  BY <1>1
<1> QED
  BY <1>2, ItemsInserted

\* Keeping the first nodes keeps the beginning of the sequence.
LEMMA ItemsCut ==
  ASSUME NEW S, NEW l, IsList(S, l), NEW m, IsList(S, m), m.size \in 1 .. l.size,
         m.item = l.item, \A k \in 1 .. m.size : FromHead(m, k) = FromHead(l, k)
  PROVE  Items(m) = SubSeq(Items(l), 1, m.size)
<1> DEFINE s == Items(l)
           t == SubSeq(s, 1, m.size)
<1>1. l.size \in Nat /\ m.size \in Nat /\ \A k \in 1 .. m.size : k \in 1 .. l.size
  BY ListFields
<1>2. s \in Seq(S) /\ Len(s) = l.size /\ \A k \in 1 .. l.size : s[k] = l.item[FromHead(l, k)]
  BY ItemsOf
<1>3. /\ Items(m) \in Seq(S) /\ Len(Items(m)) = m.size
      /\ \A k \in 1 .. m.size : Items(m)[k] = m.item[FromHead(m, k)]
  BY ItemsOf
<1> HIDE DEF s
<1>4. t \in Seq(S) /\ Len(t) = m.size /\ \A k \in 1 .. m.size : t[k] = s[k]
  <2>1. s \in [1 .. l.size -> S]
    BY <1>2, LenProperties
  <2> QED
    BY <1>1, <1>2, <2>1
<1>5. \A k \in 1 .. m.size : Items(m)[k] = t[k]
  BY <1>1, <1>2, <1>3, <1>4
<1> QED
  BY <1>3, <1>4, <1>5, SeqEqual DEF s

-----------------------------------------------------------------------------
(* The distance of the tracked node from the head.                         *)

\* f is the distance of the nodes of rank less than j.
IsDepth(l, r, j, f) ==
  f = [k \in {k \in Nodes(l) : r[k] < j} |-> IF l.prev[k] = 0 THEN 1 ELSE 1 + f[l.prev[k]]]

\* Every node has a distance.
LEMMA DepthExists ==
  ASSUME NEW S, NEW l, IsList(S, l), NEW b \in Nat, NEW r, IsRank(l, b, r), NEW j \in Nat
  PROVE  \E f : IsDepth(l, r, j, f)
<1>1. Nodes(l) = 1 .. Len(l.item) /\ Len(l.item) \in Nat
  BY ListFields DEF Nodes
<1>2. /\ \A k \in Nodes(l) : r[k] \in Nat
      /\ \A k \in Nodes(l) : l.prev[k] # 0 => l.prev[k] \in Nodes(l) /\ r[l.prev[k]] < r[k]
  <2>1. \A k \in 1 .. Len(l.item) : l.prev[k] \in 0 .. Len(l.item)
    BY DEF IsList
  <2> QED
    BY <1>1, <2>1 DEF IsRank
<1> DEFINE T == {n \in Nat : ~\E f : IsDepth(l, r, n, f)}
<1> SUFFICES ASSUME T # {} PROVE FALSE
  OBVIOUS
<1>3. T \in SUBSET Nat
  OBVIOUS
<1>4. PICK n \in T : \A m \in T : n <= m
  BY <1>3, Least
<1>5. n \in Nat /\ ~\E f : IsDepth(l, r, n, f)
  BY <1>4
<1> DEFINE D(i) == {k \in Nodes(l) : r[k] < i}
<1>6. n # 0
  <2> SUFFICES ASSUME n = 0 PROVE FALSE
    OBVIOUS
  <2>1. \A k \in D(n) : FALSE
    BY <1>2
  <2>2. PICK f : f = [k \in D(n) |-> 0]
    OBVIOUS
  <2>3. f = [k \in D(n) |-> IF l.prev[k] = 0 THEN 1 ELSE 1 + f[l.prev[k]]]
    BY <2>1, <2>2
  <2> QED
    BY <1>5, <2>3 DEF IsDepth
<1>7. PICK f : IsDepth(l, r, n - 1, f)
  <2>1. n - 1 \in Nat /\ ~(n <= n - 1)
    BY <1>5, <1>6
  <2> QED
    BY <1>4, <2>1
<1>8. PICK g : g = [k \in D(n) |-> IF l.prev[k] = 0 THEN 1 ELSE 1 + f[l.prev[k]]]
  OBVIOUS
<1>9. f = [k \in D(n - 1) |-> IF l.prev[k] = 0 THEN 1 ELSE 1 + f[l.prev[k]]]
  BY <1>7 DEF IsDepth
<1>10. \A k \in D(n - 1) : f[k] = g[k]
  <2>1. \A k \in D(n - 1) : k \in D(n)
    BY <1>2, <1>5
  <2> HIDE DEF D
  <2> QED
    BY <1>8, <1>9, <2>1
<1>11. \A k \in D(n) : l.prev[k] # 0 => f[l.prev[k]] = g[l.prev[k]]
  <2>1. \A k \in D(n) : l.prev[k] # 0 => l.prev[k] \in D(n - 1)
    BY <1>2, <1>5
  <2> HIDE DEF D
  <2> QED
    BY <1>10, <2>1
<1>12. g = [k \in D(n) |-> IF l.prev[k] = 0 THEN 1 ELSE 1 + g[l.prev[k]]]
  BY <1>8, <1>11
<1> QED
  BY <1>5, <1>12 DEF IsDepth

\* It is one more than that of the node before.
LEMMA DepthStep ==
  ASSUME NEW S, NEW l, IsList(S, l), NEW b \in Nat, NEW r, IsRank(l, b, r)
  PROVE  \A k \in Nodes(l) :
           Depth(l, k) = IF l.prev[k] = 0 THEN 1 ELSE 1 + Depth(l, l.prev[k])
<1> DEFINE isDepth(f) == f = [k \in Nodes(l) |-> IF l.prev[k] = 0 THEN 1 ELSE 1 + f[l.prev[k]]]
           depth == CHOOSE f : isDepth(f)
<1>1. \A k : Depth(l, k) = depth[k]
  BY DEF Depth
<1>2. \E f : isDepth(f)
  <2>1. PICK f : IsDepth(l, r, b + 1, f)
    BY DepthExists
  <2>2. {k \in Nodes(l) : r[k] < b + 1} = Nodes(l)
    <3>1. \A k \in Nodes(l) : r[k] \in 0 .. b
      BY ListFields DEF Nodes, IsRank
    <3> QED
      BY <3>1
  <2> QED
    BY <2>1, <2>2 DEF IsDepth
<1>3. isDepth(depth)
  BY <1>2
<1> HIDE DEF depth
<1>4. \A k \in Nodes(l) : depth[k] = IF l.prev[k] = 0 THEN 1 ELSE 1 + depth[l.prev[k]]
  BY <1>3
<1> QED
  BY <1>1, <1>4

\* The tracked node of a list that is long enough is no nearer than track_at.
LEMMA TrackedFarEnough ==
  ASSUME NEW S, NEW l, IsList(S, l), Tracking(l), l.size >= l.track_at
  PROVE  l.tracked_node # 0 /\ Depth(l, l.tracked_node) >= l.track_at
<1> DEFINE N == Len(l.item)
           a == l.track_at
           t == FromHead(l, a)
<1>1. l.size \in Nat /\ N \in Nat /\ a \in Nat /\ a # 0 /\ a \in 1 .. l.size /\ Nodes(l) = 1 .. N
  BY ListFields DEF Tracking, Nodes
<1>2a. PICK b \in Nat : \E r : IsRank(l, b, r)
  BY DEF Tracking
<1>2. PICK r : b \in Nat /\ IsRank(l, b, r)
  BY <1>2a
<1>3. PICK D : LeadUp(l, D) /\ l.tracked_node \in D
  BY DEF Tracking
<1>4. /\ \A k \in D : k \in 1 .. N
      /\ \A k \in D : k # t => l.prev[k] \in D
  BY <1>3 DEF LeadUp
<1>5. \A k \in 1 .. N : Depth(l, k) = IF l.prev[k] = 0 THEN 1 ELSE 1 + Depth(l, l.prev[k])
  BY <1>1, <1>2, DepthStep
<1>6. /\ \A k \in 1 .. N : r[k] \in Nat
      /\ \A k \in 1 .. N : l.prev[k] # 0 => l.prev[k] \in 1 .. N /\ r[l.prev[k]] < r[k]
  <2>1. \A k \in 1 .. N : l.prev[k] \in 0 .. N
    BY DEF IsList
  <2> QED
    BY <1>1, <1>2, <2>1 DEF IsRank
<1>7. /\ \A k \in 1 .. l.size : FromHead(l, k) \in 1 .. N
      /\ \A k \in 1 .. l.size - 1 : l.prev[FromHead(l, k + 1)] = FromHead(l, k)
      /\ l.prev[FromHead(l, 1)] = 0
  <2>1. l.prev[l.head] = 0
    BY <1>1 DEF IsList, Ends
  <2> QED
    BY <2>1, FromHeadStep DEF IsList, Forward, Backward
<1>8. \A i \in 1 .. l.size : Depth(l, FromHead(l, i)) = i
  <2> DEFINE T == {i \in 1 .. l.size : Depth(l, FromHead(l, i)) # i}
  <2> SUFFICES ASSUME T # {} PROVE FALSE
    OBVIOUS
  <2>1. T \in SUBSET Nat
    OBVIOUS
  <2>2. PICK i \in T : \A j \in T : i <= j
    BY <2>1, Least
  <2>3. i \in 1 .. l.size /\ Depth(l, FromHead(l, i)) # i
    BY <2>2
  <2>4. i # 1
    <3>1. Depth(l, FromHead(l, 1)) = 1
      BY <1>1, <1>5, <1>7
    <3> QED
      BY <2>3, <3>1
  <2>5. i - 1 \in 1 .. l.size /\ i - 1 \in 1 .. l.size - 1 /\ ~(i <= i - 1) /\ (i - 1) + 1 = i
    BY <1>1, <2>3, <2>4
  <2>6. Depth(l, FromHead(l, i - 1)) = i - 1
    BY <2>2, <2>5
  <2>7. l.prev[FromHead(l, i)] = FromHead(l, i - 1)
    BY <1>7, <2>5
  <2>8. FromHead(l, i - 1) # 0 /\ FromHead(l, i) \in 1 .. N
    BY <1>1, <1>7, <2>3, <2>5
  <2>9. Depth(l, FromHead(l, i)) = 1 + (i - 1)
    BY <1>5, <2>6, <2>7, <2>8
  <2> QED
    BY <2>3, <2>9
<1> DEFINE E == {k \in D : ~(Depth(l, k) \in Nat /\ Depth(l, k) >= a)}
<1>9. E = {}
  <2> SUFFICES ASSUME E # {} PROVE FALSE
    OBVIOUS
  <2> DEFINE T == {r[k] : k \in E}
  <2>1. T \in SUBSET Nat /\ T # {}
    BY <1>4, <1>6
  <2>2. PICK v \in T : \A u \in T : v <= u
    BY <2>1, Least
  <2>3. PICK k \in E : v = r[k]
    BY <2>2
  <2>4. \A j \in E : r[k] <= r[j]
    BY <2>2, <2>3
  <2>5. k \in D /\ k \in 1 .. N /\ ~(Depth(l, k) \in Nat /\ Depth(l, k) >= a)
    BY <1>4, <2>3
  <2>6. k # t
    <3>1. Depth(l, t) = a
      BY <1>1, <1>8
    <3> QED
      BY <1>1, <2>5, <3>1
  <2>7. l.prev[k] \in D /\ l.prev[k] \in 1 .. N /\ l.prev[k] # 0
    <3>1. l.prev[k] \in D
      BY <1>4, <2>5, <2>6
    <3>2. l.prev[k] \in 1 .. N
      BY <1>4, <3>1
    <3> QED
      BY <1>1, <3>1, <3>2
  <2>8. r[l.prev[k]] < r[k] /\ r[k] \in Nat /\ r[l.prev[k]] \in Nat
    BY <1>6, <2>5, <2>7
  <2>9. l.prev[k] \notin E
    BY <2>4, <2>8
  <2>10. Depth(l, l.prev[k]) \in Nat /\ Depth(l, l.prev[k]) >= a
    BY <2>7, <2>9
  <2>11. Depth(l, k) = 1 + Depth(l, l.prev[k])
    BY <1>5, <2>5, <2>7
  <2> QED
    BY <1>1, <2>5, <2>10, <2>11
<1>10. Depth(l, l.tracked_node) >= a /\ l.tracked_node \in 1 .. N
  BY <1>3, <1>4, <1>9
<1> QED
  BY <1>10

-----------------------------------------------------------------------------
(* The theorems.                                                           *)

\* The inductive invariant: the pointers make a list, dropped nodes
\* included where the tracked node may be one of them.
ListInv ==
  /\ IsList(Nat, linked)
  /\ Tracking(linked)
  /\ Len(linked.item) <= MaxNodes

\* A new list is a list of anything.
LEMMA EmptyIsList ==
  ASSUME NEW S, NEW l, l = EmptyList
  PROVE  /\ IsList(S, l) /\ Tracking(l)
         /\ l.size = 0 /\ l.track_at = TrackAt /\ Len(l.item) = 0
<1>1. /\ l.size = 0 /\ l.head = 0 /\ l.tail = 0 /\ l.track_at = TrackAt
      /\ l.tracked_node = 0
      /\ l.item = <<>> /\ l.next = <<>> /\ l.prev = <<>>
      /\ l \in Records(S)
  <2>1. <<>> \in Seq(Nat) /\ <<>> \in Seq(S) /\ TrackAt \in Nat
    BY EmptySeq, TrackAssumption
  <2> QED
    BY <2>1 DEF EmptyList, Records
<1>2. Len(l.item) = 0 /\ Len(l.next) = 0 /\ Len(l.prev) = 0
  BY <1>1
<1>3. \A k \in 1 .. 0 : FALSE
  OBVIOUS
<1>4. \A k \in 1 .. l.size - 1 : FALSE
  BY <1>1
<1>5. IsList(S, l)
  BY <1>1, <1>2, <1>3, <1>4 DEF IsList, Forward, Ends, Backward
<1>6. \E b \in Nat : \E r : IsRank(l, b, r)
  <2>1. PICK r : r \in [1 .. 0 -> 0 .. 0]
    <3>1. [k \in 1 .. 0 |-> 0] \in [1 .. 0 -> 0 .. 0]
      OBVIOUS
    <3> QED
      BY <3>1
  <2>2. IsRank(l, 0, r)
    BY <1>2, <1>3, <2>1 DEF IsRank
  <2> QED
    BY <2>2
<1>7. Tracking(l)
  <2>1. l.track_at # 0 /\ ~(l.size >= l.track_at) /\ l.tracked_node = 0
    BY <1>1, TrackAssumption
  <2> QED
    BY <1>6, <2>1 DEF Tracking
<1> QED
  BY <1>1, <1>2, <1>5, <1>7

\* A new list is empty.
LEMMA ListInitially == ASSUME ListInit PROVE ListInv /\ Items(linked) = <<>> /\ Len(linked.item) = 0
<1>1. /\ IsList(Nat, linked) /\ Tracking(linked)
      /\ linked.size = 0 /\ Len(linked.item) = 0
  BY EmptyIsList DEF ListInit
<1>2. Items(linked) = <<>>
  <2>1. Items(linked) \in Seq(Nat) /\ Len(Items(linked)) = 0
    BY <1>1, ItemsOf
  <2> QED
    BY <2>1, EmptySeq
<1>3. Len(linked.item) <= MaxNodes
  BY <1>1, NodesAssumption
<1> QED
  BY <1>1, <1>2, <1>3 DEF ListInv

\* One item more, at some index.
Grows == \E i \in 1 .. linked.size + 1 :
           NextItem <= MaxNodes /\ Grown(Nat, linked, linked', i, NextItem)

\* Fewer items.
Shrinks ==
  /\ IsList(Nat, linked') /\ Tracking(linked')
  /\ linked'.size \in 1 .. linked.size /\ linked'.item = linked.item
  /\ \A k \in 1 .. linked'.size : FromHead(linked', k) = FromHead(linked, k)

\* Each operation does one or the other.
LEMMA ListStep == ASSUME ListInv, ListNext PROVE Grows \/ Shrinks
<1>1. IsList(Nat, linked) /\ Tracking(linked)
  BY DEF ListInv
<1>2. NextItem \in Nat /\ linked.size \in Nat
  BY <1>1, ListFields DEF NextItem
<1>3. CASE append
  <2>1. linked.size + 1 \in 1 .. linked.size + 1
    BY <1>2
  <2>2. Grown(Nat, linked, linked', linked.size + 1, NextItem)
    BY <1>1, <1>2, <1>3, PushBackGrows DEF append
  <2> QED
    BY <1>3, <2>1, <2>2 DEF append, MayGrow, NextItem, Grows
<1>4. CASE prepend
  <2>1. 1 \in 1 .. linked.size + 1
    BY <1>2
  <2>2. Grown(Nat, linked, linked', 1, NextItem)
    BY <1>1, <1>2, <1>4, PushFrontGrows DEF prepend
  <2> QED
    BY <1>4, <2>1, <2>2 DEF prepend, MayGrow, NextItem, Grows
<1>5. CASE place_after
  <2>1. PICK j \in 1 .. linked.size :
          linked' = PlaceAfter(linked, j + 1, FromHead(linked, j), NextItem)
    BY <1>5 DEF place_after
  <2>2. j + 1 \in 1 .. linked.size + 1
    BY <1>2
  <2>3. Grown(Nat, linked, linked', j + 1, NextItem)
    BY <1>1, <1>2, <2>1, PlaceAfterGrows
  <2> QED
    BY <1>5, <2>2, <2>3 DEF place_after, MayGrow, NextItem, Grows
<1>6. CASE place_before
  <2>1. PICK i \in 1 .. linked.size :
          linked' = PlaceBefore(linked, i, FromHead(linked, i), NextItem)
    BY <1>6 DEF place_before
  <2>2. i \in 1 .. linked.size + 1
    BY <1>2
  <2>3. Grown(Nat, linked, linked', i, NextItem)
    BY <1>1, <1>2, <2>1, PlaceBeforeGrows
  <2> QED
    BY <1>6, <2>2, <2>3 DEF place_before, MayGrow, NextItem, Grows
<1>7. CASE truncate
  <2>1. PICK m \in 1 .. linked.size - 1 : linked' = Truncate(linked, m)
    BY <1>7 DEF truncate
  <2>2. m \in 1 .. linked.size
    BY <1>2
  <2>3. /\ IsList(Nat, linked') /\ Tracking(linked') /\ linked'.size = m
        /\ linked'.item = linked.item
        /\ \A k \in 1 .. m : FromHead(linked', k) = FromHead(linked, k)
    BY <1>1, <2>1, TruncateCuts
  <2> QED
    BY <2>2, <2>3 DEF Shrinks
<1> QED
  BY <1>3, <1>4, <1>5, <1>6, <1>7 DEF ListNext

\* The invariant holds of every reachable list.
LEMMA ListInvariant == ListSpec => []ListInv
<1>1. ListInit => ListInv
  BY ListInitially
<1>2. ListInv /\ [ListNext]_linked => ListInv'
  <2> SUFFICES ASSUME ListInv, [ListNext]_linked PROVE ListInv'
    OBVIOUS
  <2>1. CASE UNCHANGED linked
    <3>1. linked' = linked
      BY <2>1
    <3> QED
      BY <3>1 DEF ListInv
  <2>2. CASE ListNext
    <3>1. CASE Grows
      <4>1. PICK i \in 1 .. linked.size + 1 :
              NextItem <= MaxNodes /\ Grown(Nat, linked, linked', i, NextItem)
        BY <3>1 DEF Grows
      <4>2. /\ IsList(Nat, linked') /\ Tracking(linked')
            /\ linked'.item = Append(linked.item, NextItem)
        BY <4>1 DEF Grown, Inserted
      <4>3. linked.item \in Seq(Nat) /\ NextItem = Len(linked.item) + 1 /\ NextItem \in Nat
        BY ListFields DEF ListInv, NextItem
      <4>4. Len(linked'.item) <= MaxNodes
        BY <4>1, <4>2, <4>3, AppendProperties
      <4> QED
        BY <4>2, <4>4 DEF ListInv
    <3>2. CASE Shrinks
      BY <3>2 DEF Shrinks, ListInv
    <3> QED
      BY <2>2, <3>1, <3>2, ListStep
  <2> QED
    BY <2>1, <2>2
<1> QED
  BY <1>1, <1>2, PTL DEF ListSpec

\* The pointers always make a doubly linked list of the nodes from head to
\* tail, whatever was inserted and cut off (LinkedList in
\* lua/telescope/algos/linked_list.lua), and the tracked node is never nearer
\* to the head than track_at.
THEOREM ListSound == ListSpec => [](WellFormed /\ TrackedNeverEarly)
<1>1. ListInv => WellFormed
  <2> SUFFICES ASSUME ListInv PROVE WellFormed
    OBVIOUS
  <2> DEFINE c == Chain(linked)
  <2>1. IsList(Nat, linked)
    BY DEF ListInv
  <2>2. /\ linked.size \in Nat /\ linked.size <= Len(linked.item) /\ Len(linked.item) \in Nat
        /\ Nodes(linked) = 1 .. Len(linked.item) /\ Len(linked.item) <= MaxNodes
    BY <2>1, ListFields DEF Nodes, ListInv
  <2>3. /\ DOMAIN c = 1 .. linked.size
        /\ \A k \in 1 .. linked.size : c[k] = FromHead(linked, k)
    BY DEF Chain
  <2>4. Len(c) = linked.size
    <3>1. c \in [1 .. linked.size -> Nat]
      BY <2>1, <2>2 DEF Chain, IsList, Forward
    <3>2. c \in Seq(Nat)
      BY <2>2, <3>1
    <3> QED
      BY <2>2, <2>3, <3>2, LenProperties
  <2> HIDE DEF c
  <2>5. linked.size \in 0 .. MaxNodes
    BY <2>2, NodesAssumption
  <2>6. \A i \in DOMAIN c : c[i] \in Nodes(linked)
    BY <2>1, <2>2, <2>3 DEF IsList, Forward
  <2>7. IsInjective(c)
    BY <2>1, <2>3 DEF IsInjective, IsList, Forward
  <2>8. linked.size = 0 => linked.head = 0 /\ linked.tail = 0
    BY <2>1 DEF IsList, Ends
  <2>9. ASSUME linked.size > 0
        PROVE  /\ linked.tail = Last(c) /\ linked.next[Last(c)] = 0
               /\ linked.prev[Head(c)] = 0
               /\ \A i \in 1 .. linked.size - 1 : linked.prev[c[i + 1]] = c[i]
    <3>1. linked.size # 0 /\ 1 \in 1 .. linked.size /\ linked.size \in 1 .. linked.size
      BY <2>2, <2>9
    <3>2. Last(c) = linked.tail
      <4>1. Last(c) = c[linked.size]
        BY <2>4 DEF Last
      <4>2. linked.tail = FromHead(linked, linked.size)
        BY <2>1, <3>1, EndsOf
      <4>3. c[linked.size] = FromHead(linked, linked.size)
        BY <2>3, <3>1
      <4> QED
        BY <4>1, <4>2, <4>3
    <3>3. Head(c) = linked.head
      <4>1. Head(c) = c[1]
        OBVIOUS
      <4>2. c[1] = FromHead(linked, 1)
        BY <2>3, <3>1
      <4> QED
        BY <4>1, <4>2, FromHeadStep
    <3>4. \A i \in 1 .. linked.size - 1 : i \in 1 .. linked.size /\ i + 1 \in 1 .. linked.size
      BY <2>2
    <3>5. \A i \in 1 .. linked.size - 1 : linked.prev[c[i + 1]] = c[i]
      BY <2>1, <2>3, <3>4 DEF IsList, Backward
    <3> QED
      BY <2>1, <3>1, <3>2, <3>3, <3>5 DEF IsList, Ends
  <2> QED
    BY <2>5, <2>6, <2>7, <2>8, <2>9 DEF WellFormed, c
<1>2. ListInv => TrackedNeverEarly
  BY TrackedFarEnough DEF ListInv, TrackedNeverEarly
<1> QED
  BY <1>1, <1>2, ListInvariant, PTL

\* The pointers implement a sequence that grows by one item at a time or is cut
\* to a prefix: append, prepend, place_after and place_before insert where the
\* caller asked for, and truncate keeps the first items in their order.
THEOREM ListIsSequence == ListSpec => SequenceSpec
<1>1. ListInit => Abstract!Init
  BY ListInitially DEF Abstract!Init
<1>2. ListInv /\ [ListNext]_linked => [Abstract!Next]_<<Items(linked), Len(linked.item)>>
  <2> SUFFICES ASSUME ListInv, [ListNext]_linked
               PROVE  [Abstract!Next]_<<Items(linked), Len(linked.item)>>
    OBVIOUS
  <2>1. CASE UNCHANGED linked
    <3>1. linked' = linked
      BY <2>1
    <3>2. Items(linked)' = Items(linked) /\ Len(linked.item)' = Len(linked.item)
      BY <3>1 DEF Items, Chain
    <3> QED
      BY <3>2
  <2>2. CASE ListNext
    <3>1. /\ IsList(Nat, linked) /\ linked.item \in Seq(Nat)
          /\ NextItem = Len(linked.item) + 1 /\ NextItem \in Nat
          /\ Len(Items(linked)) = linked.size /\ linked.size \in Nat
          /\ DOMAIN Items(linked) = 1 .. linked.size
      <4>1. IsList(Nat, linked)
        BY DEF ListInv
      <4> QED
        BY <4>1, ListFields, ItemsOf DEF NextItem, Items
    <3>2. CASE Grows
      <4>1. PICK i \in 1 .. linked.size + 1 : Grown(Nat, linked, linked', i, NextItem)
        BY <3>2 DEF Grows
      <4>2. Items(linked') = InsertAt(Items(linked), i, NextItem)
        <5>1. PICK l, m, x : l = linked /\ m = linked' /\ x = NextItem
          OBVIOUS
        <5>2. IsList(Nat, l) /\ x \in Nat /\ i \in 1 .. l.size + 1 /\ Grown(Nat, l, m, i, x)
          BY <3>1, <4>1, <5>1
        <5>3. Items(m) = InsertAt(Items(l), i, x)
          BY <5>2, NumbersInserted
        <5> QED
          BY <5>1, <5>3
      <4>3. Len(linked'.item) = NextItem
        <5>1. linked'.item = Append(linked.item, NextItem)
          BY <4>1 DEF Grown, Inserted
        <5> QED
          BY <3>1, <5>1, AppendProperties
      <4>4. Abstract!Insert(i)
        <5>1. Items(linked)' = Abstract!InsertAt(Items(linked), i, Len(linked.item) + 1)
          BY <3>1, <4>2 DEF InsertAt, Abstract!InsertAt
        <5>2. Len(linked.item)' = Len(linked.item) + 1
          BY <3>1, <4>3
        <5> QED
          BY <5>1, <5>2 DEF Abstract!Insert
      <4> QED
        BY <3>1, <4>4 DEF Abstract!Next
    <3>3. CASE Shrinks
      <4>1. Items(linked') = SubSeq(Items(linked), 1, linked'.size)
        BY <3>1, <3>3, ItemsCut DEF Shrinks
      <4>2. Len(linked'.item) = Len(linked.item) /\ linked'.size \in DOMAIN Items(linked)
        BY <3>1, <3>3 DEF Shrinks
      <4>3. Abstract!Cut(linked'.size)
        BY <4>1, <4>2 DEF Abstract!Cut
      <4> QED
        BY <4>2, <4>3 DEF Abstract!Next
    <3> QED
      BY <2>2, <3>2, <3>3, ListStep
  <2> QED
    BY <2>1, <2>2
<1> QED
  BY <1>1, <1>2, ListInvariant, PTL DEF ListSpec, SequenceSpec, Abstract!Spec

-----------------------------------------------------------------------------
(* Entries.                                                                *)

Entries == [score : Scores, len : Lengths]

\* What the properties say of linked, for any list l.
ScoreAt(l, i) == l.item[FromHead(l, i)].score
SeenOf(l) == IF l.size < max_results THEN l.size ELSE max_results
Best(l) ==
  \A i \in 1 .. SeenOf(l), j \in 1 .. l.size : i < j => ScoreAt(l, i) <= ScoreAt(l, j)
Stable(l) ==
  \A i, j \in 1 .. SeenOf(l) :
    i < j /\ ScoreAt(l, i) = ScoreAt(l, j) /\ ScoreAt(l, i) >= TieBelow
      => FromHead(l, i) < FromHead(l, j)

\* Every entry is listed: the entry manager does not truncate.
AllListed(l) == \A k \in 1 .. Len(l.item) : \E i \in 1 .. l.size : FromHead(l, i) = k

EntryList(l) ==
  /\ IsList(Entries, l) /\ Tracking(l) /\ l.track_at = TrackAt
  /\ AllListed(l) /\ Best(l) /\ Stable(l)

\* The new entry x belongs at index i, if that is one that is shown; else it
\* is no better than those that are.
Fits(l, x, i) ==
  /\ i <= max_results \/ i = l.size + 1
  /\ \A j \in 1 .. SeenOf(l) : /\ j < i => ScoreAt(l, j) <= x.score
                               /\ j = i => GoesBefore(x, l.item[FromHead(l, j)])

\* How many there are.
LEMMA Sizes == max_results \in Nat /\ max_results # 0 /\ Scores \subseteq Nat /\ TieBelow \in Nat
BY TrackAssumption, ScoresAssumption DEF max_results

\* Scores of listed entries are numbers.
LEMMA ScoresTyped ==
  ASSUME NEW l, IsList(Entries, l)
  PROVE  /\ l.size \in Nat
         /\ \A i \in 1 .. l.size : ScoreAt(l, i) \in Nat
         /\ \A k \in 1 .. Len(l.item) : l.item[k].score \in Nat
         /\ SeenOf(l) \in Nat /\ SeenOf(l) <= l.size /\ SeenOf(l) <= max_results
<1>1. l.size \in Nat /\ l.item \in Seq(Entries)
  BY ListFields
<1>2. \A k \in 1 .. Len(l.item) : l.item[k].score \in Nat
  <2>1. \A k \in 1 .. Len(l.item) : l.item[k] \in Entries
    BY <1>1, ElementOfSeq
  <2> QED
    BY <2>1, Sizes DEF Entries
<1>3. \A i \in 1 .. l.size : ScoreAt(l, i) \in Nat
  BY <1>2 DEF ScoreAt, IsList, Forward
<1>4. SeenOf(l) \in Nat /\ SeenOf(l) <= l.size /\ SeenOf(l) <= max_results
  BY <1>1, Sizes DEF SeenOf
<1> QED
  BY <1>1, <1>2, <1>3, <1>4

\* The scores after an insertion.
LEMMA ScoresInserted ==
  ASSUME NEW l, IsList(Entries, l), NEW x \in Entries, NEW i \in 1 .. l.size + 1,
         NEW m, Grown(Entries, l, m, i, x)
  PROVE  /\ \A k \in 1 .. l.size + 1 : FromHead(m, k) = ChainWith(l, i, k)
         /\ \A k \in 1 .. l.size + 1 :
              /\ k < i => ScoreAt(m, k) = ScoreAt(l, k) /\ k \in 1 .. l.size
              /\ k = i => ScoreAt(m, k) = x.score
              /\ k > i => ScoreAt(m, k) = ScoreAt(l, k - 1) /\ k - 1 \in 1 .. l.size
         /\ m.size = l.size + 1
<1> DEFINE N == Len(l.item)
<1>1. /\ l.size \in Nat /\ N \in Nat /\ l.item \in Seq(Entries) /\ NewNode(l) = N + 1
      /\ i \in Nat /\ i # 0
  BY ListFields
<1>2. m.size = l.size + 1 /\ m.item = Append(l.item, x)
  BY DEF Grown, Inserted
<1>3. \A k \in 1 .. l.size + 1 : FromHead(m, k) = ChainWith(l, i, k)
  BY InsertedChain DEF Grown
<1>4. /\ \A k \in 1 .. N : m.item[k] = l.item[k]
      /\ m.item[N + 1] = x
  BY <1>1, <1>2, AppendProperties
<1>5. \A k \in 1 .. l.size : FromHead(l, k) \in 1 .. N
  BY DEF IsList, Forward
<1> SUFFICES ASSUME NEW k \in 1 .. l.size + 1
             PROVE  /\ k < i => ScoreAt(m, k) = ScoreAt(l, k) /\ k \in 1 .. l.size
                    /\ k = i => ScoreAt(m, k) = x.score
                    /\ k > i => ScoreAt(m, k) = ScoreAt(l, k - 1) /\ k - 1 \in 1 .. l.size
  BY <1>2, <1>3
<1>6. CASE k < i
  <2>1. k \in 1 .. l.size /\ FromHead(m, k) = FromHead(l, k)
    BY <1>1, <1>3, <1>6 DEF ChainWith
  <2> QED
    BY <1>1, <1>4, <1>5, <1>6, <2>1 DEF ScoreAt
<1>7. CASE k = i
  <2>1. FromHead(m, k) = N + 1
    BY <1>1, <1>3, <1>7 DEF ChainWith
  <2> QED
    BY <1>1, <1>4, <1>7, <2>1 DEF ScoreAt
<1>8. CASE k > i
  <2>1. k - 1 \in 1 .. l.size /\ ~(k < i) /\ k # i /\ FromHead(m, k) = FromHead(l, k - 1)
    BY <1>1, <1>3, <1>8 DEF ChainWith
  <2> QED
    BY <1>1, <1>4, <1>5, <1>8, <2>1 DEF ScoreAt
<1> QED
  BY <1>1, <1>6, <1>7, <1>8

\* An entry that fits where it is inserted keeps what is shown the best, in
\* order and stable, and the score at the last row does not rise.
LEMMA EntryInserted ==
  ASSUME NEW l, EntryList(l), NEW x \in Entries, NEW i \in 1 .. l.size + 1, Fits(l, x, i),
         NEW m, Grown(Entries, l, m, i, x)
  PROVE  /\ EntryList(m)
         /\ l.size >= max_results => ScoreAt(m, max_results) <= ScoreAt(l, max_results)
<1> DEFINE N == Len(l.item)
           R == max_results
<1>1. /\ IsList(Entries, l) /\ AllListed(l) /\ Best(l) /\ Stable(l) /\ l.track_at = TrackAt
      /\ IsList(Entries, m) /\ Tracking(m) /\ m.track_at = TrackAt
  BY DEF EntryList, Grown
<1>2. /\ l.size \in Nat /\ i \in Nat /\ i # 0 /\ R \in Nat /\ R # 0 /\ N \in Nat
      /\ x.score \in Nat /\ TieBelow \in Nat /\ NewNode(l) = N + 1
      /\ \A k \in 1 .. l.size : ScoreAt(l, k) \in Nat
  <2>1. x.score \in Nat
    BY Sizes DEF Entries
  <2>2. i \in Nat /\ i # 0 /\ l.size \in Nat /\ N \in Nat /\ NewNode(l) = N + 1
    BY <1>1, ListFields
  <2>3. \A k \in 1 .. l.size : ScoreAt(l, k) \in Nat
    BY <1>1, ScoresTyped
  <2> QED
    BY <2>1, <2>2, <2>3, Sizes
<1>3. /\ \A k \in 1 .. l.size + 1 : FromHead(m, k) = ChainWith(l, i, k)
      /\ \A k \in 1 .. l.size + 1 :
           /\ k < i => ScoreAt(m, k) = ScoreAt(l, k) /\ k \in 1 .. l.size
           /\ k = i => ScoreAt(m, k) = x.score
           /\ k > i => ScoreAt(m, k) = ScoreAt(l, k - 1) /\ k - 1 \in 1 .. l.size
      /\ m.size = l.size + 1
  BY <1>1, ScoresInserted
<1>4. \A k \in 1 .. l.size : FromHead(l, k) \in 1 .. N
  BY <1>1 DEF IsList, Forward
<1>5. \A a, b \in 1 .. l.size : a < b /\ a <= R => ScoreAt(l, a) <= ScoreAt(l, b)
  <2> SUFFICES ASSUME NEW a \in 1 .. l.size, NEW b \in 1 .. l.size, a < b, a <= R
               PROVE  ScoreAt(l, a) <= ScoreAt(l, b)
    OBVIOUS
  <2>1. a \in 1 .. SeenOf(l)
    BY <1>2 DEF SeenOf
  <2> QED
    BY <1>1, <2>1 DEF Best
<1>6. /\ i <= R \/ i = l.size + 1
      /\ \A j \in 1 .. l.size : j <= R /\ j < i => ScoreAt(l, j) <= x.score
  <2>1. \A j \in 1 .. l.size : j <= R => j \in 1 .. SeenOf(l)
    BY <1>2 DEF SeenOf
  <2> QED
    BY <2>1 DEF Fits
<1>7. i <= R /\ i <= l.size =>
        /\ x.score <= ScoreAt(l, i)
        /\ x.score >= TieBelow => x.score < ScoreAt(l, i)
  <2> SUFFICES ASSUME i <= R, i <= l.size
               PROVE  /\ x.score <= ScoreAt(l, i)
                      /\ x.score >= TieBelow => x.score < ScoreAt(l, i)
    OBVIOUS
  <2>1. i \in 1 .. SeenOf(l) /\ i \in 1 .. l.size
    BY <1>2 DEF SeenOf
  <2>2. GoesBefore(x, l.item[FromHead(l, i)])
    BY <2>1 DEF Fits
  <2>3. l.item[FromHead(l, i)].score \in Nat
    BY <1>2, <2>1 DEF ScoreAt
  <2> QED
    BY <1>2, <2>2, <2>3 DEF GoesBefore, ScoreAt
<1>8. Best(m)
  <2> SUFFICES ASSUME NEW a \in 1 .. SeenOf(m), NEW b \in 1 .. m.size, a < b
               PROVE  ScoreAt(m, a) <= ScoreAt(m, b)
    BY DEF Best
  <2>1. a \in 1 .. l.size + 1 /\ b \in 1 .. l.size + 1 /\ a <= R /\ a \in Nat /\ b \in Nat
    <3>1. SeenOf(m) \in Nat /\ SeenOf(m) <= l.size + 1 /\ SeenOf(m) <= R
      BY <1>1, <1>3, ScoresTyped
    <3>2. a \in 1 .. l.size + 1 /\ b \in 1 .. l.size + 1
      BY <1>2, <1>3, <3>1
    <3> QED
      BY <1>2, <3>1, <3>2
  <2>2. CASE b < i
    BY <1>2, <1>3, <1>5, <2>1, <2>2
  <2>3. CASE b = i
    BY <1>2, <1>3, <1>6, <2>1, <2>3
  <2>4. CASE b > i /\ a < i
    <3>1. a \in 1 .. l.size /\ b - 1 \in 1 .. l.size /\ (a < b - 1 \/ a = b - 1)
      BY <1>2, <1>3, <2>1, <2>4
    <3>2. ScoreAt(l, a) <= ScoreAt(l, b - 1)
      BY <1>2, <1>5, <2>1, <3>1
    <3> QED
      BY <1>3, <2>1, <2>4, <3>2
  <2>5. CASE b > i /\ a = i
    <3>1. b - 1 \in 1 .. l.size /\ i <= b - 1 /\ i \in 1 .. l.size
      BY <1>2, <1>3, <2>1, <2>5
    <3>2. x.score <= ScoreAt(l, i)
      BY <1>2, <1>7, <2>1, <2>5, <3>1
    <3>3. ScoreAt(l, i) <= ScoreAt(l, b - 1)
      BY <1>2, <1>5, <2>1, <2>5, <3>1
    <3>4. ScoreAt(m, a) = x.score /\ ScoreAt(m, b) = ScoreAt(l, b - 1)
      BY <1>3, <2>1, <2>5
    <3> QED
      BY <1>2, <3>1, <3>2, <3>3, <3>4
  <2>6. CASE b > i /\ a > i
    <3>1. a - 1 \in 1 .. l.size /\ b - 1 \in 1 .. l.size /\ a - 1 < b - 1 /\ a - 1 <= R
      BY <1>2, <1>3, <2>1, <2>6
    <3>2. ScoreAt(l, a - 1) <= ScoreAt(l, b - 1)
      BY <1>5, <3>1
    <3> QED
      BY <1>3, <2>1, <2>6, <3>2
  <2> QED
    BY <1>2, <2>1, <2>2, <2>3, <2>4, <2>5, <2>6
<1>9. Stable(m)
  <2> SUFFICES ASSUME NEW a \in 1 .. SeenOf(m), NEW b \in 1 .. SeenOf(m), a < b,
                      ScoreAt(m, a) = ScoreAt(m, b), ScoreAt(m, a) >= TieBelow
               PROVE  FromHead(m, a) < FromHead(m, b)
    BY DEF Stable
  <2>1. a \in 1 .. l.size + 1 /\ b \in 1 .. l.size + 1 /\ a <= R /\ b <= R /\ a \in Nat /\ b \in Nat
    <3>1. SeenOf(m) \in Nat /\ SeenOf(m) <= l.size + 1 /\ SeenOf(m) <= R
      BY <1>1, <1>3, ScoresTyped
    <3>2. a \in 1 .. l.size + 1 /\ b \in 1 .. l.size + 1
      BY <1>2, <1>3, <3>1
    <3> QED
      BY <1>2, <3>1, <3>2
  <2>2. \A c, d \in 1 .. l.size :
          c < d /\ d <= R /\ ScoreAt(l, c) = ScoreAt(l, d) /\ ScoreAt(l, c) >= TieBelow
            => FromHead(l, c) < FromHead(l, d)
    <3>1. \A c \in 1 .. l.size : c <= R => c \in 1 .. SeenOf(l)
      BY <1>2 DEF SeenOf
    <3>2. \A c, d \in 1 .. l.size : c < d /\ d <= R => c <= R
      BY <1>2
    <3> QED
      BY <1>1, <3>1, <3>2 DEF Stable
  <2>3. CASE b < i
    <3>1. a \in 1 .. l.size /\ b \in 1 .. l.size /\ a < i
      BY <1>2, <2>1, <2>3
    <3>2. FromHead(m, a) = FromHead(l, a) /\ FromHead(m, b) = FromHead(l, b)
      BY <1>3, <2>1, <2>3, <3>1 DEF ChainWith
    <3> QED
      BY <1>3, <2>1, <2>2, <2>3, <3>1, <3>2
  <2>4. CASE b = i
    <3>1. a \in 1 .. l.size /\ a < i /\ FromHead(m, a) = FromHead(l, a)
      BY <1>2, <1>3, <2>1, <2>4 DEF ChainWith
    <3>2. FromHead(m, b) = N + 1
      BY <1>2, <1>3, <2>1, <2>4 DEF ChainWith
    <3> QED
      BY <1>2, <1>4, <3>1, <3>2
  <2>5. CASE b > i /\ a < i
    <3>1. a \in 1 .. l.size /\ b - 1 \in 1 .. l.size /\ b - 1 <= R
      BY <1>2, <1>3, <2>1, <2>5
    <3>2. FromHead(m, a) = FromHead(l, a) /\ FromHead(m, b) = FromHead(l, b - 1)
      BY <1>2, <1>3, <2>1, <2>5 DEF ChainWith
    <3>3. ScoreAt(m, a) = ScoreAt(l, a) /\ ScoreAt(m, b) = ScoreAt(l, b - 1)
      BY <1>3, <2>1, <2>5
    <3>4. a < b - 1
      BY <1>2, <2>1, <2>5
    <3> QED
      BY <2>2, <3>1, <3>2, <3>3, <3>4
  <2>6. CASE b > i /\ a = i
    <3>1. b - 1 \in 1 .. l.size /\ i \in 1 .. l.size /\ i <= R /\ (i < b - 1 \/ i = b - 1)
      BY <1>2, <1>3, <2>1, <2>6
    <3>2. ScoreAt(m, a) = x.score /\ ScoreAt(m, b) = ScoreAt(l, b - 1)
      BY <1>3, <2>1, <2>6
    <3>3. x.score < ScoreAt(l, i)
      BY <1>2, <1>7, <3>1, <3>2
    <3>4. ScoreAt(l, i) <= ScoreAt(l, b - 1)
      BY <1>2, <1>5, <3>1
    <3>5. ScoreAt(l, i) \in Nat /\ ScoreAt(l, b - 1) \in Nat
      BY <1>2, <3>1
    <3>6. ScoreAt(l, b - 1) = x.score
      BY <3>2
    <3>7. \A u, v, w \in Nat : u < v /\ v <= w => w # u
      OBVIOUS
    <3> QED
      BY <1>2, <3>3, <3>4, <3>5, <3>6, <3>7
  <2>7. CASE b > i /\ a > i
    <3>1. a - 1 \in 1 .. l.size /\ b - 1 \in 1 .. l.size /\ a - 1 < b - 1 /\ b - 1 <= R
      BY <1>2, <1>3, <2>1, <2>7
    <3>2. FromHead(m, a) = FromHead(l, a - 1) /\ FromHead(m, b) = FromHead(l, b - 1)
      BY <1>2, <1>3, <2>1, <2>7 DEF ChainWith
    <3>3. ScoreAt(m, a) = ScoreAt(l, a - 1) /\ ScoreAt(m, b) = ScoreAt(l, b - 1)
      BY <1>3, <2>1, <2>7
    <3> QED
      BY <2>2, <3>1, <3>2, <3>3
  <2> QED
    BY <1>2, <2>1, <2>3, <2>4, <2>5, <2>6, <2>7
<1>10. AllListed(m)
  <2> SUFFICES ASSUME NEW k \in 1 .. Len(m.item)
               PROVE  \E j \in 1 .. m.size : FromHead(m, j) = k
    BY DEF AllListed
  <2>1. k \in 1 .. N + 1
    <3>1. m.item = Append(l.item, x) /\ l.item \in Seq(Entries)
      BY <1>1, ListFields DEF Grown, Inserted
    <3> QED
      BY <3>1, AppendProperties
  <2>2. CASE k = N + 1
    <3>1. FromHead(m, i) = k /\ i \in 1 .. m.size
      BY <1>2, <1>3, <2>2 DEF ChainWith
    <3> QED
      BY <3>1
  <2>3. CASE k \in 1 .. N
    <3>1. PICK j \in 1 .. l.size : FromHead(l, j) = k
      BY <1>1, <2>3 DEF AllListed
    <3>2. CASE j < i
      <4>1. FromHead(m, j) = k /\ j \in 1 .. m.size
        BY <1>2, <1>3, <3>1, <3>2 DEF ChainWith
      <4> QED
        BY <4>1
    <3>3. CASE ~(j < i)
      <4>1. j + 1 \in 1 .. l.size + 1 /\ ~(j + 1 < i) /\ j + 1 # i /\ (j + 1) - 1 = j
        BY <1>2, <3>3
      <4>2. FromHead(m, j + 1) = k /\ j + 1 \in 1 .. m.size
        BY <1>3, <3>1, <4>1 DEF ChainWith
      <4> QED
        BY <4>2
    <3> QED
      BY <3>2, <3>3
  <2>4. k = N + 1 \/ k \in 1 .. N
    BY <1>2, <2>1
  <2> QED
    BY <2>2, <2>3, <2>4
<1>11. ASSUME l.size >= R PROVE ScoreAt(m, R) <= ScoreAt(l, R)
  <2>1. R \in 1 .. l.size /\ R \in 1 .. l.size + 1
    BY <1>2, <1>11
  <2>2. CASE R < i
    BY <1>2, <1>3, <2>1, <2>2
  <2>3. CASE R = i
    BY <1>2, <1>3, <1>7, <1>11, <2>1, <2>3
  <2>4. CASE R > i
    <3>1. R - 1 \in 1 .. l.size /\ R - 1 < R /\ R - 1 <= R
      BY <1>2, <1>3, <2>1, <2>4
    <3>2. ScoreAt(l, R - 1) <= ScoreAt(l, R)
      BY <1>5, <2>1, <3>1
    <3> QED
      BY <1>3, <2>1, <2>4, <3>2
  <2> QED
    BY <1>2, <2>2, <2>3, <2>4
<1> QED
  BY <1>1, <1>8, <1>9, <1>10, <1>11 DEF EntryList

\* The tracked entry is no better than the last one that is shown.
LEMMA TrackedScore ==
  ASSUME NEW l, EntryList(l), l.tracked_node # 0
  PROVE  /\ l.size >= max_results
         /\ l.item[l.tracked_node].score \in Nat
         /\ ScoreAt(l, max_results) <= l.item[l.tracked_node].score
<1>1. /\ IsList(Entries, l) /\ Tracking(l) /\ l.track_at = max_results /\ AllListed(l) /\ Best(l)
  BY DEF EntryList, max_results
<1>2. l.size \in Nat /\ max_results \in Nat /\ max_results # 0
  BY <1>1, ListFields, Sizes
<1>3. l.size >= max_results /\ l.track_at \in 1 .. l.size /\ max_results \in 1 .. l.size
  BY <1>1, <1>2 DEF Tracking
<1>4. PICK D : LeadUp(l, D) /\ l.tracked_node \in D
  BY <1>1, <1>3 DEF Tracking
<1>5a. PICK b \in Nat : \E r : IsRank(l, b, r)
  BY <1>1 DEF Tracking
<1>5. PICK r : b \in Nat /\ IsRank(l, b, r)
  BY <1>5a
<1>6. l.tracked_node \in 1 .. Len(l.item)
  BY <1>4 DEF LeadUp
<1>7. PICK i \in 1 .. l.size : FromHead(l, i) = l.tracked_node
  BY <1>1, <1>6 DEF AllListed
<1>8. i >= max_results
  <2>1. FromHead(l, i) \in D
    BY <1>4, <1>7
  <2>2. i >= l.track_at
    BY <1>1, <1>3, <1>4, <1>5, <2>1, RankOfLeadUp
  <2> QED
    BY <1>1, <2>2
<1>9. l.item[l.tracked_node].score = ScoreAt(l, i)
  BY <1>7 DEF ScoreAt
<1>10. ScoreAt(l, i) \in Nat /\ ScoreAt(l, max_results) \in Nat
  BY <1>1, <1>3, ScoresTyped
<1>11. ScoreAt(l, max_results) <= ScoreAt(l, i)
  <2>1. CASE i = max_results
    BY <1>10, <2>1
  <2>2. CASE i # max_results
    <3>1. max_results < i /\ max_results \in 1 .. SeenOf(l)
      BY <1>2, <1>3, <1>8, <2>2 DEF SeenOf
    <3> QED
      BY <1>1, <3>1 DEF Best
  <2> QED
    BY <2>1, <2>2
<1> QED
  BY <1>3, <1>9, <1>10, <1>11

-----------------------------------------------------------------------------
(* The rows of the results buffer.                                         *)

RowOf(d, i) == IF d THEN max_results - i + 1 ELSE i
RowsShow(l, rs, d) ==
  /\ rs \in Seq(Nat) /\ max_results <= Len(rs)
  /\ d /\ max_results # 1 => Len(rs) = max_results
  /\ d \in BOOLEAN
  /\ \A i \in 1 .. SeenOf(l) : rs[RowOf(d, i)] = FromHead(l, i)

\* Tail drops the first one.
LEMMA TailProperties ==
  ASSUME NEW s \in Seq(Nat), Len(s) # 0
  PROVE  /\ Tail(s) \in Seq(Nat) /\ Len(Tail(s)) = Len(s) - 1
         /\ \A k \in 1 .. Len(s) - 1 : Tail(s)[k] = s[k + 1]
<1>1. s # <<>>
  OBVIOUS
<1> QED
  BY <1>1, HeadTailProperties

\* A line that goes behind the last one is appended.
LEMMA LineInserted ==
  ASSUME NEW s \in Seq(Nat), NEW i \in 1 .. Len(s) + 1, NEW e \in Nat
  PROVE  IsInsertion(Nat, s, i, e, InsertLine(s, i, e))
<1>1. CASE i > Len(s)
  <2>1. i = Len(s) + 1 /\ InsertLine(s, i, e) = Append(s, e)
    BY <1>1, LenProperties DEF InsertLine
  <2>2. /\ Append(s, e) \in Seq(Nat) /\ Len(Append(s, e)) = Len(s) + 1
        /\ \A k \in 1 .. Len(s) : Append(s, e)[k] = s[k]
        /\ Append(s, e)[Len(s) + 1] = e /\ Len(s) \in Nat
    BY AppendProperties, LenProperties
  <2> QED
    BY <2>1, <2>2, SMTT(40) DEF IsInsertion
<1>2. CASE ~(i > Len(s))
  BY <1>2, InsertAtProperties DEF InsertLine
<1> QED
  BY <1>1, <1>2

\* With one row, which an insertion empties in a descending buffer, there is only
\* the new entry to be shown.
LEMMA OnlyRowInserted ==
  ASSUME NEW l, IsList(Entries, l), NEW x \in Entries, NEW m, Grown(Entries, l, m, 1, x),
         max_results = 1, 1 \in 1 .. l.size + 1, RowsShow(l, rows, descending),
         WriteLine(1, NewNode(l), TRUE)
  PROVE  RowsShow(m, rows', descending)
<1> DEFINE n == NewNode(l)
           cut == Prepared(TRUE)
<1>1. /\ n \in Nat /\ l.size \in Nat /\ m.size = l.size + 1
      /\ FromHead(m, 1) = ChainWith(l, 1, 1)
  <2>1. l.size \in Nat /\ Len(l.item) \in Nat /\ n = Len(l.item) + 1
    BY ListFields
  <2>2. /\ \A k \in 1 .. l.size + 1 : FromHead(m, k) = ChainWith(l, 1, k)
        /\ m.size = l.size + 1
    BY ScoresInserted, SMTT(40)
  <2> QED
    BY <2>1, <2>2
<1>2. rows \in Seq(Nat) /\ Len(rows) \in Nat /\ 1 <= Len(rows) /\ descending \in BOOLEAN
  BY LenProperties DEF RowsShow
<1>3. get_row(1) = 1
  BY <1>2 DEF get_row
<1>4. rows' = InsertLine(cut, 1, n)
  BY <1>3 DEF WriteLine
<1>5. cut \in Seq(Nat) /\ Len(cut) \in Nat /\ Len(cut) # 0
  <2>1. CASE descending /\ Len(rows) > 1
    <3>1. Len(rows) # 0
      BY <1>2
    <3>2. Tail(rows) \in Seq(Nat) /\ Len(Tail(rows)) = Len(rows) - 1
      BY <1>2, <3>1, TailProperties
    <3> QED
      BY <1>2, <2>1, <3>2 DEF Prepared, WithoutTop
  <2>2. CASE descending /\ ~(Len(rows) > 1)
    <3>1. <<0>> \in Seq(Nat) /\ Len(<<0>>) = 1
      OBVIOUS
    <3> QED
      BY <2>2, <3>1 DEF Prepared, WithoutTop
  <2>3. CASE ~descending
    BY <1>2, <2>3 DEF Prepared
  <2> QED
    BY <1>2, <2>1, <2>2, <2>3
<1> HIDE DEF n, cut
<1>6. IsInsertion(Nat, cut, 1, n, rows')
  <2>1. 1 \in 1 .. Len(cut) + 1
    BY <1>5
  <2> QED
    BY <1>1, <1>4, <1>5, <2>1, LineInserted
<1>7. rows' \in Seq(Nat) /\ Len(rows') = Len(cut) + 1 /\ rows'[1] = n
  BY <1>5, <1>6 DEF IsInsertion
<1>8. ASSUME NEW k \in 1 .. SeenOf(m) PROVE rows'[RowOf(descending, k)] = FromHead(m, k)
  <2>1. k = 1
    BY <1>1 DEF SeenOf
  <2>2. RowOf(descending, 1) = 1
    BY <1>2 DEF RowOf
  <2> QED
    BY <1>1, <1>7, <2>1, <2>2 DEF ChainWith, n
<1> QED
  BY <1>2, <1>5, <1>7, <1>8 DEF RowsShow

\* Inserting the line of an entry at its row moves the lines below it as the
\* list moved the entries.
LEMMA RowInserted ==
  ASSUME NEW l, IsList(Entries, l), NEW x \in Entries, NEW i \in 1 .. l.size + 1, i <= max_results,
         NEW m, Grown(Entries, l, m, i, x), RowsShow(l, rows, descending),
         WriteLine(i, NewNode(l), TRUE), max_results # 1
  PROVE  RowsShow(m, rows', descending)
<1> DEFINE R == max_results
           n == NewNode(l)
           row == RowOf(descending, i)
           cut == Prepared(TRUE)
<1>1. /\ R \in Nat /\ R # 0 /\ l.size \in Nat /\ i \in Nat /\ i # 0 /\ i <= R /\ n \in Nat
      /\ m.size = l.size + 1
      /\ \A k \in 1 .. l.size + 1 : FromHead(m, k) = ChainWith(l, i, k)
  BY Sizes, ListFields, ScoresInserted
<1>2. /\ rows \in Seq(Nat) /\ Len(rows) \in Nat /\ R <= Len(rows)
      /\ R # 1 /\ (descending => Len(rows) = R)
      /\ descending \in BOOLEAN
      /\ \A k \in 1 .. SeenOf(l) : rows[RowOf(descending, k)] = FromHead(l, k)
  BY LenProperties DEF RowsShow
<1>3. /\ row \in Nat /\ row # 0 /\ row <= R
      /\ row = IF descending THEN R - i + 1 ELSE i
  BY <1>1, <1>2 DEF RowOf
<1>4. /\ cut \in Seq(Nat) /\ Len(cut) \in Nat /\ row <= Len(cut) + 1
      /\ Len(cut) = IF descending THEN R - 1 ELSE Len(rows)
      /\ \A k \in 1 .. Len(cut) : cut[k] = IF descending THEN rows[k + 1] ELSE rows[k]
  <2>1. CASE descending
    <3>1. Len(rows) # 0
      BY <1>1, <1>2
    <3>2. Tail(rows) \in Seq(Nat) /\ Len(Tail(rows)) = R - 1
          /\ \A k \in 1 .. R - 1 : Tail(rows)[k] = rows[k + 1]
      BY <1>2, <2>1, <3>1, TailProperties
    <3> QED
      BY <1>1, <1>2, <1>3, <2>1, <3>2 DEF Prepared, WithoutTop
  <2>2. CASE ~descending
    BY <1>1, <1>2, <1>3, <2>2 DEF Prepared
  <2> QED
    BY <2>1, <2>2
<1>5. rows' = InsertLine(cut, row, n)
  <2>1. row = get_row(i)
    BY DEF RowOf, get_row
  <2> QED
    BY <2>1 DEF WriteLine
<1> HIDE DEF n, row, cut
<1>6. IsInsertion(Nat, cut, row, n, rows')
  <2>1. row \in 1 .. Len(cut) + 1
    BY <1>3, <1>4
  <2> QED
    BY <1>1, <1>4, <1>5, <2>1, LineInserted
<1>7. /\ rows' \in Seq(Nat) /\ Len(rows') = Len(cut) + 1
      /\ \A k \in 1 .. Len(cut) + 1 :
           rows'[k] = IF k < row THEN cut[k] ELSE IF k = row THEN n ELSE cut[k - 1]
  BY <1>6 DEF IsInsertion
<1>8. R <= Len(rows') /\ (descending => Len(rows') = R)
  BY <1>1, <1>2, <1>4, <1>7
<1>9. ASSUME NEW k \in 1 .. SeenOf(m) PROVE rows'[RowOf(descending, k)] = FromHead(m, k)
  <2>1. /\ k \in 1 .. l.size + 1 /\ k <= R /\ k \in Nat
        /\ k <= l.size => k \in 1 .. SeenOf(l)
        /\ k > i => k - 1 \in 1 .. SeenOf(l)
    BY <1>1 DEF SeenOf
  <2>2. CASE descending
    <3>1. /\ RowOf(descending, k) = R - k + 1 /\ row = R - i + 1 /\ Len(cut) = R - 1
          /\ R - k + 1 \in 1 .. Len(cut) + 1
      BY <1>1, <1>3, <1>4, <2>1, <2>2 DEF RowOf
    <3>2. CASE k = i
      BY <1>1, <1>7, <2>1, <3>1, <3>2 DEF ChainWith, n
    <3>3. CASE k < i
      <4>1. ~(R - k + 1 < row) /\ R - k + 1 # row /\ R - k \in 1 .. Len(cut) /\ (R - k + 1) - 1 = R - k
            /\ (R - k) + 1 = R - k + 1
        BY <1>1, <2>1, <3>1, <3>3
      <4>2. rows'[R - k + 1] = rows[R - k + 1]
        <5>1. rows'[R - k + 1] = cut[R - k]
          BY <1>7, <3>1, <4>1
        <5> QED
          BY <1>4, <2>2, <4>1, <5>1
      <4>3. rows[R - k + 1] = FromHead(l, k)
        <5>1. k \in 1 .. SeenOf(l)
          BY <1>1, <2>1, <3>3
        <5> QED
          BY <1>2, <3>1, <5>1
      <4> QED
        BY <1>1, <2>1, <3>1, <3>3, <4>2, <4>3 DEF ChainWith
    <3>4. CASE k > i
      <4>1. /\ R - k + 1 < row /\ R - k + 1 \in 1 .. Len(cut)
            /\ (R - k + 1) + 1 = R - (k - 1) + 1 /\ ~(k < i) /\ k # i
        BY <1>1, <2>1, <3>1, <3>4
      <4>2. rows'[R - k + 1] = rows[R - (k - 1) + 1]
        <5>1. rows'[R - k + 1] = cut[R - k + 1]
          BY <1>7, <3>1, <4>1
        <5>2. cut[R - k + 1] = rows[(R - k + 1) + 1]
          BY <1>4, <2>2, <4>1
        <5> QED
          BY <4>1, <5>1, <5>2
      <4>3. rows[R - (k - 1) + 1] = FromHead(l, k - 1)
        <5>1. RowOf(descending, k - 1) = R - (k - 1) + 1
          BY <2>2 DEF RowOf
        <5> QED
          BY <1>2, <2>1, <3>4, <5>1
      <4> QED
        BY <1>1, <2>1, <3>1, <4>1, <4>2, <4>3 DEF ChainWith
    <3> QED
      BY <1>1, <2>1, <3>2, <3>3, <3>4
  <2>3. CASE ~descending
    <3>1. RowOf(descending, k) = k /\ row = i /\ Len(cut) = Len(rows) /\ k \in 1 .. Len(cut) + 1
      BY <1>1, <1>2, <1>3, <1>4, <2>1, <2>3 DEF RowOf
    <3>2. CASE k = i
      BY <1>1, <1>7, <2>1, <3>1, <3>2 DEF ChainWith, n
    <3>3. CASE k < i
      <4>1. k \in 1 .. Len(cut) /\ k \in 1 .. SeenOf(l)
        BY <1>1, <1>2, <2>1, <3>1, <3>3
      <4>2. rows'[k] = rows[k]
        BY <1>4, <1>7, <2>3, <3>1, <3>3, <4>1
      <4>3. rows[k] = FromHead(l, k)
        BY <1>2, <3>1, <4>1
      <4> QED
        BY <1>1, <2>1, <3>1, <3>3, <4>2, <4>3 DEF ChainWith
    <3>4. CASE k > i
      <4>1. k - 1 \in 1 .. Len(cut) /\ k - 1 \in 1 .. SeenOf(l) /\ ~(k < i) /\ k # i
        BY <1>1, <1>2, <2>1, <3>1, <3>4
      <4>2. rows'[k] = rows[k - 1]
        <5>1. rows'[k] = cut[k - 1]
          BY <1>7, <3>1, <4>1
        <5> QED
          BY <1>4, <2>3, <4>1, <5>1
      <4>3. rows[k - 1] = FromHead(l, k - 1)
        <5>1. RowOf(descending, k - 1) = k - 1
          BY <2>3 DEF RowOf
        <5> QED
          BY <1>2, <4>1, <5>1
      <4> QED
        BY <1>1, <2>1, <3>1, <4>1, <4>2, <4>3 DEF ChainWith
    <3> QED
      BY <1>1, <2>1, <3>2, <3>3, <3>4
  <2> QED
    BY <2>2, <2>3
<1> QED
  BY <1>2, <1>7, <1>8, <1>9 DEF RowsShow

\* Writing the first line.
LEMMA RowWritten ==
  ASSUME NEW l, IsList(Entries, l), l.size = 0, NEW x \in Entries,
         NEW m, Grown(Entries, l, m, 1, x), RowsShow(l, rows, descending),
         rows' = Overwrite(rows, get_row(1), NewNode(l))
  PROVE  RowsShow(m, rows', descending)
<1> DEFINE R == max_results
           n == NewNode(l)
           row == RowOf(descending, 1)
<1>1. /\ R \in Nat /\ R # 0 /\ n \in Nat /\ m.size = 1 /\ FromHead(m, 1) = n
  <2>1. 1 \in 1 .. l.size + 1 /\ l.size + 1 = 1
    OBVIOUS
  <2>2. m.size = 1 /\ FromHead(m, 1) = ChainWith(l, 1, 1)
    BY <2>1, ScoresInserted
  <2> QED
    BY <2>2, Sizes, ListFields DEF ChainWith
<1>2. /\ rows \in Seq(Nat) /\ Len(rows) \in Nat /\ R <= Len(rows)
      /\ descending /\ R # 1 => Len(rows) = R
      /\ descending \in BOOLEAN
  BY LenProperties DEF RowsShow
<1>3. /\ row \in Nat /\ row # 0 /\ row <= R
      /\ row = IF descending THEN R - 1 + 1 ELSE 1
  BY <1>1, <1>2 DEF RowOf
<1>4. /\ ~(row < 1) /\ ~(row > Len(rows) + 1) /\ ~(row > Len(rows)) /\ row \in 1 .. Len(rows)
  BY <1>1, <1>2, <1>3
<1>5. rows' = [rows EXCEPT ![row] = n]
  <2>1. row = get_row(1)
    BY DEF RowOf, get_row
  <2> QED
    BY <1>4, <2>1 DEF Overwrite
<1> HIDE DEF n, row
<1>7. rows' \in Seq(Nat) /\ Len(rows') = Len(rows) /\ rows'[row] = n
  BY <1>1, <1>2, <1>4, <1>5
<1>9. ASSUME NEW k \in 1 .. SeenOf(m) PROVE rows'[RowOf(descending, k)] = FromHead(m, k)
  <2>1. k = 1
    BY <1>1 DEF SeenOf
  <2> QED
    BY <1>1, <1>7, <2>1 DEF row
<1> QED
  BY <1>2, <1>7, <1>9 DEF RowsShow

\* As long as no entry was odd, every entry that is placed has its line.
LEMMA EntryInsertedRow ==
  ASSUME NEW l, IsList(Entries, l), NEW x \in Entries, NEW i \in 1 .. l.size + 1, i <= max_results,
         NEW m, Grown(Entries, l, m, i, x), ~odd => RowsShow(l, rows, descending),
         SetEntry(i, NewNode(l), TRUE)
  PROVE  ~odd' => RowsShow(m, rows', descending)
<1> SUFFICES ASSUME ~odd' PROVE RowsShow(m, rows', descending)
  OBVIOUS
<1>1. WriteLine(i, NewNode(l), TRUE) /\ ~odd
  BY DEF SetEntry, WriteLine, WriteJoined, WriteNothing
<1>2. RowsShow(l, rows, descending)
  BY <1>1
<1>3. CASE max_results = 1
  <2>1. l.size \in Nat /\ i = 1
    BY <1>3, ListFields
  <2>2. /\ Grown(Entries, l, m, 1, x) /\ WriteLine(1, NewNode(l), TRUE)
        /\ 1 \in 1 .. l.size + 1
    BY <1>1, <2>1
  <2> QED
    BY <1>2, <1>3, <2>2, OnlyRowInserted
<1>4. CASE max_results # 1
  BY <1>1, <1>2, <1>4, RowInserted
<1> QED
  BY <1>3, <1>4

\* The first entry overwrites a blank line, also with its lines joined.
LEMMA EntryWrittenRow ==
  ASSUME NEW l, IsList(Entries, l), l.size = 0, NEW x \in Entries,
         NEW m, Grown(Entries, l, m, 1, x), ~odd => RowsShow(l, rows, descending),
         SetEntry(1, NewNode(l), FALSE)
  PROVE  ~odd' => RowsShow(m, rows', descending)
<1> SUFFICES ASSUME ~odd' PROVE RowsShow(m, rows', descending)
  OBVIOUS
<1>1. rows' = Overwrite(rows, get_row(1), NewNode(l)) /\ ~odd
  BY DEF SetEntry, WriteLine, WriteJoined, WriteNothing, Prepared
<1> QED
  BY <1>1, RowWritten

-----------------------------------------------------------------------------
(* The theorem.                                                            *)

\* The bound w is that of a score which could not be shown.
Bound(l, w) == w # Huge => l.size >= max_results /\ ScoreAt(l, max_results) <= w

\* The inductive invariant
EntryInv ==
  /\ EntryList(linked)
  /\ worst \in Nat /\ Bound(linked, worst)
  /\ ~odd => RowsShow(linked, rows, descending)

\* No score reaches math.huge.
LEMMA HugeIsBig == Huge \in Nat /\ \A s \in Scores : s < Huge
<1>1. PICK s \in Scores : \A t \in Scores : t <= s
  BY ScoresAssumption
<1> DEFINE top == CHOOSE u \in Scores : \A t \in Scores : t <= u
<1>2. top \in Scores /\ \A t \in Scores : t <= top
  BY <1>1
<1>3. Huge = 1 + top
  BY DEF Huge
<1> HIDE DEF top
<1> QED
  BY <1>2, <1>3, Sizes

\* An entry that does not go before another one is no better.
LEMMA NotBefore ==
  ASSUME NEW x \in Entries, NEW y, y.score \in Nat, ~GoesBefore(x, y)
  PROVE  y.score <= x.score
<1>1. x.score \in Nat
  BY Sizes DEF Entries
<1> QED
  BY <1>1 DEF GoesBefore

\* If the loop does not stop at the first k indices, the new entry goes before
\* none of those entries.
LEMMA NeverStops ==
  ASSUME EntryList(linked), NEW x \in Entries, NEW k \in Nat, k <= linked.size,
         ~\E i \in 1 .. k : StopsBefore(x, i)
  PROVE  \A i \in 1 .. k : ScoreAt(linked, i) <= x.score
<1>1. IsList(Entries, linked) /\ linked.size \in Nat
  BY ScoresTyped DEF EntryList
<1> DEFINE T == {i \in 1 .. k : GoesBefore(x, linked.item[FromHead(linked, i)])}
<1>2. T = {}
  <2> SUFFICES ASSUME T # {} PROVE FALSE
    OBVIOUS
  <2>1. T \in SUBSET Nat
    OBVIOUS
  <2>2. PICK i \in T : \A j \in T : i <= j
    BY <2>1, Least
  <2>3. i \in 1 .. k /\ GoesBefore(x, linked.item[FromHead(linked, i)]) /\ i \in 1 .. linked.size
    BY <1>1, <2>2
  <2>4. \A j \in 1 .. i - 1 : j \in 1 .. k /\ ~(i <= j)
    BY <2>3
  <2>5. \A j \in 1 .. i - 1 : ~GoesBefore(x, linked.item[FromHead(linked, j)])
    BY <2>2, <2>4
  <2>6. StopsBefore(x, i)
    BY <2>3, <2>5 DEF StopsBefore
  <2> QED
    BY <2>3, <2>6
<1> SUFFICES ASSUME NEW i \in 1 .. k PROVE ScoreAt(linked, i) <= x.score
  OBVIOUS
<1>3. i \in 1 .. linked.size /\ ~GoesBefore(x, linked.item[FromHead(linked, i)])
  BY <1>1, <1>2
<1>4. linked.item[FromHead(linked, i)].score \in Nat
  BY <1>1, <1>3, ScoresTyped DEF ScoreAt
<1> QED
  BY <1>3, <1>4, NotBefore DEF ScoreAt

\* A bound stays one when an entry is inserted,
LEMMA BoundKept ==
  ASSUME NEW l, EntryList(l), NEW x \in Entries, NEW i \in 1 .. l.size + 1, Fits(l, x, i),
         NEW m, Grown(Entries, l, m, i, x), NEW w \in Nat, Bound(l, w)
  PROVE  EntryList(m) /\ Bound(m, w)
<1>1. /\ EntryList(m)
      /\ l.size >= max_results => ScoreAt(m, max_results) <= ScoreAt(l, max_results)
  BY EntryInserted
<1>2. IsList(Entries, l) /\ IsList(Entries, m) /\ m.size = l.size + 1
  BY DEF EntryList, Grown, Inserted
<1>3. ASSUME w # Huge PROVE m.size >= max_results /\ ScoreAt(m, max_results) <= w
  <2>1. l.size >= max_results /\ ScoreAt(l, max_results) <= w
    BY <1>3 DEF Bound
  <2>2. max_results \in 1 .. l.size /\ max_results \in 1 .. m.size /\ m.size >= max_results
    BY <1>2, <2>1, ListFields, Sizes
  <2>3. ScoreAt(l, max_results) \in Nat /\ ScoreAt(m, max_results) \in Nat
    BY <1>2, <2>2, ScoresTyped
  <2> QED
    BY <1>1, <2>1, <2>2, <2>3
<1> QED
  BY <1>1, <1>3 DEF Bound

\* and when it is lowered to the score of the tracked entry.
LEMMA BoundTracked ==
  ASSUME NEW l, EntryList(l), NEW w \in Nat, Bound(l, w)
  PROVE  FromTracked(l, w) \in Nat /\ Bound(l, FromTracked(l, w))
<1>1. CASE l.tracked_node = 0
  BY <1>1 DEF FromTracked
<1>2. CASE l.tracked_node # 0
  <2>1. /\ l.size >= max_results
        /\ l.item[l.tracked_node].score \in Nat
        /\ ScoreAt(l, max_results) <= l.item[l.tracked_node].score
    BY <1>2, TrackedScore
  <2>2. ScoreAt(l, max_results) \in Nat
    <3>1. IsList(Entries, l) /\ max_results \in 1 .. l.size
      BY <2>1, ListFields, Sizes DEF EntryList
    <3> QED
      BY <3>1, ScoresTyped
  <2>3. FromTracked(l, w) = IF w < l.item[l.tracked_node].score THEN w ELSE l.item[l.tracked_node].score
    BY <1>2 DEF FromTracked, Lesser
  <2>4. CASE w < l.item[l.tracked_node].score
    BY <2>3, <2>4
  <2>5. CASE ~(w < l.item[l.tracked_node].score)
    BY <2>1, <2>2, <2>3, <2>5 DEF Bound
  <2> QED
    BY <2>4, <2>5
<1> QED
  BY <1>1, <1>2

\* When max_results entries or more are listed, one behind them changes no row.
LEMMA RowsKept ==
  ASSUME NEW l, IsList(Entries, l), l.size >= max_results, NEW x \in Entries,
         NEW m, Grown(Entries, l, m, l.size + 1, x), NEW rs, NEW d, RowsShow(l, rs, d)
  PROVE  RowsShow(m, rs, d)
<1>1. l.size \in Nat /\ l.size + 1 \in 1 .. l.size + 1
  BY ListFields
<1>2. PICK i \in 1 .. l.size + 1 : i = l.size + 1
  BY <1>1
<1>3. /\ \A k \in 1 .. l.size + 1 : FromHead(m, k) = ChainWith(l, i, k)
      /\ m.size = l.size + 1
  BY <1>2, ScoresInserted
<1>4. SeenOf(m) = max_results /\ SeenOf(l) = max_results
  BY <1>1, <1>3, Sizes DEF SeenOf
<1>5. \A k \in 1 .. max_results : k \in 1 .. l.size + 1 /\ k < i
  BY <1>1, <1>2, Sizes
<1>6. \A k \in 1 .. max_results : FromHead(m, k) = FromHead(l, k)
  BY <1>3, <1>5 DEF ChainWith
<1> QED
  BY <1>4, <1>6 DEF RowsShow

\* Entries that are no worse than x in all that is shown: x fits at the end.
LEMMA FitsLast ==
  ASSUME NEW l, IsList(Entries, l), NEW x \in Entries,
         \A j \in 1 .. SeenOf(l) : ScoreAt(l, j) <= x.score
  PROVE  l.size + 1 \in 1 .. l.size + 1 /\ Fits(l, x, l.size + 1)
<1>1. l.size \in Nat /\ SeenOf(l) \in Nat /\ SeenOf(l) <= l.size
  BY ScoresTyped
<1>2. \A j \in 1 .. SeenOf(l) : j # l.size + 1
  BY <1>1
<1> QED
  BY <1>1, <1>2 DEF Fits

\* The invariant after the new list m, with x inserted at index i.
LEMMA Added ==
  ASSUME EntryInv, NEW x \in Entries, NEW i \in 1 .. linked.size + 1, Fits(linked, x, i),
         Grown(Entries, linked, linked', i, x)
  PROVE  EntryList(linked') /\ Bound(linked', worst)
<1>1. PICK l, m : l = linked /\ m = linked'
  OBVIOUS
<1>2. EntryList(l) /\ worst \in Nat /\ Bound(l, worst)
  BY <1>1 DEF EntryInv
<1>3. i \in 1 .. l.size + 1 /\ Fits(l, x, i) /\ Grown(Entries, l, m, i, x)
  BY <1>1
<1>4. EntryList(m) /\ Bound(m, worst)
  BY <1>2, <1>3, BoundKept
<1> QED
  BY <1>1, <1>4

\* A new entry manager
LEMMA EntryInitially == ASSUME Init PROVE EntryInv
<1>1. PICK l : l = linked
  OBVIOUS
<1>2. /\ IsList(Entries, l) /\ Tracking(l) /\ l.size = 0 /\ l.track_at = TrackAt /\ Len(l.item) = 0
  BY <1>1, EmptyIsList DEF Init, ListInit
<1>3. \A k \in 1 .. 0 : FALSE
  OBVIOUS
<1>4. SeenOf(l) = 0
  BY <1>2, Sizes DEF SeenOf
<1>5. EntryList(l)
  BY <1>2, <1>3, <1>4 DEF EntryList, AllListed, Best, Stable
<1>6. worst \in Nat /\ Bound(l, worst)
  BY HugeIsBig DEF Init, Bound
<1>7. RowsShow(l, rows, descending)
  <2>1. rows \in [1 .. max_results -> Nat] /\ descending \in BOOLEAN
    BY DEF Init
  <2>2. rows \in Seq(Nat) /\ Len(rows) = max_results
    BY <2>1, Sizes
  <2> QED
    BY <1>3, <1>4, <2>1, <2>2, Sizes DEF RowsShow
<1> QED
  BY <1>1, <1>5, <1>6, <1>7 DEF EntryInv

\* The shortcut: at the bound or worse, an entry could not be shown.
LEMMA AddedUnseen ==
  ASSUME EntryInv, NEW x \in Entries, AppendUnseen(x), UNCHANGED descending
  PROVE  EntryInv'
<1>1. PICK l, m : l = linked /\ m = linked'
  OBVIOUS
<1>2. /\ EntryList(l) /\ IsList(Entries, l) /\ Tracking(l) /\ Best(l)
      /\ worst \in Nat /\ Bound(l, worst) /\ (~odd => RowsShow(l, rows, descending))
  BY <1>1 DEF EntryInv, EntryList
<1>3. /\ x.score >= worst /\ m = PushBack(l, x)
      /\ worst' = worst /\ rows' = rows /\ odd' = odd /\ descending' = descending
  BY <1>1 DEF AppendUnseen
<1>4. x.score \in Nat /\ x.score < Huge /\ Huge \in Nat
  BY HugeIsBig, Sizes DEF Entries
<1>5. l.size >= max_results /\ ScoreAt(l, max_results) <= worst
  <2>1. worst # Huge
    BY <1>2, <1>3, <1>4
  <2> QED
    BY <1>2, <2>1 DEF Bound
<1>6. max_results \in 1 .. l.size /\ SeenOf(l) = max_results /\ l.size \in Nat
  BY <1>2, <1>5, ListFields, Sizes DEF SeenOf
<1>7. \A j \in 1 .. SeenOf(l) : ScoreAt(l, j) <= x.score
  <2> SUFFICES ASSUME NEW j \in 1 .. SeenOf(l) PROVE ScoreAt(l, j) <= x.score
    OBVIOUS
  <2>1. /\ ScoreAt(l, max_results) \in Nat /\ ScoreAt(l, j) \in Nat /\ j \in 1 .. l.size
        /\ j < max_results \/ j = max_results
    BY <1>2, <1>6, ScoresTyped
  <2>2. ScoreAt(l, j) <= ScoreAt(l, max_results)
    BY <1>2, <1>6, <2>1 DEF Best
  <2> QED
    BY <1>2, <1>3, <1>4, <1>5, <2>1, <2>2
<1>8. Grown(Entries, l, m, l.size + 1, x)
  BY <1>2, <1>3, PushBackGrows
<1>9. EntryList(m) /\ Bound(m, worst)
  <2>1. l.size + 1 \in 1 .. l.size + 1 /\ Fits(l, x, l.size + 1)
    BY <1>2, <1>7, FitsLast
  <2> QED
    BY <1>1, <1>8, <2>1, Added
<1>10. ~odd => RowsShow(m, rows, descending)
  BY <1>2, <1>5, <1>8, RowsKept
<1> QED
  BY <1>1, <1>2, <1>3, <1>9, <1>10 DEF EntryInv

\* The first entry
LEMMA AddedFirst ==
  ASSUME EntryInv, NEW x \in Entries, AddFirst(x), UNCHANGED descending
  PROVE  EntryInv'
<1>1. PICK l, m : l = linked /\ m = linked'
  OBVIOUS
<1>2. /\ EntryList(l) /\ IsList(Entries, l) /\ Tracking(l)
      /\ worst \in Nat /\ (~odd => RowsShow(l, rows, descending))
  BY <1>1 DEF EntryInv, EntryList
<1>3. /\ l.size = 0 /\ m = PushFront(l, x) /\ SetEntry(1, NewNode(l), FALSE)
      /\ worst' = worst /\ descending' = descending
  BY <1>1 DEF AddFirst
<1>4. Grown(Entries, l, m, 1, x)
  BY <1>2, <1>3, PushFrontGrows
<1>5. EntryList(m) /\ Bound(m, worst)
  <2>1. PICK i \in 1 .. l.size + 1 : i = l.size + 1 /\ i = 1
    BY <1>3
  <2>2. \A j \in 1 .. SeenOf(l) : ScoreAt(l, j) <= x.score
    BY <1>3, Sizes DEF SeenOf
  <2>3. Fits(l, x, i)
    BY <1>2, <2>1, <2>2, FitsLast
  <2> QED
    BY <1>1, <1>4, <2>1, <2>3, Added
<1>6. ~odd' => RowsShow(m, rows', descending)
  BY <1>2, <1>3, <1>4, EntryWrittenRow
<1> QED
  BY <1>1, <1>2, <1>3, <1>5, <1>6 DEF EntryInv

\* An entry that goes before one that is shown
LEMMA AddedBefore ==
  ASSUME EntryInv, NEW x \in Entries, NEW i \in 1 .. max_results, AddBefore(x, i),
         UNCHANGED descending
  PROVE  EntryInv'
<1>1. PICK l, m : l = linked /\ m = linked'
  OBVIOUS
<1>2. /\ EntryList(l) /\ IsList(Entries, l) /\ Tracking(l)
      /\ worst \in Nat /\ (~odd => RowsShow(l, rows, descending))
  BY <1>1 DEF EntryInv, EntryList
<1>3. /\ i \in 1 .. l.size /\ i <= max_results
      /\ GoesBefore(x, l.item[FromHead(l, i)])
      /\ \A j \in 1 .. i - 1 : ~GoesBefore(x, l.item[FromHead(l, j)])
      /\ m = PlaceBefore(l, i, FromHead(l, i), x)
      /\ worst' = FromTracked(m, worst) /\ SetEntry(i, NewNode(l), TRUE)
      /\ descending' = descending
  BY <1>1 DEF AddBefore, StopsBefore
<1>4. l.size \in Nat /\ i \in 1 .. l.size + 1 /\ i \in Nat
  BY <1>2, <1>3, ListFields
<1>5. Grown(Entries, l, m, i, x)
  BY <1>2, <1>3, PlaceBeforeGrows
<1>6. Fits(l, x, i)
  <2> SUFFICES ASSUME NEW j \in 1 .. SeenOf(l)
               PROVE  /\ j < i => ScoreAt(l, j) <= x.score
                      /\ j = i => GoesBefore(x, l.item[FromHead(l, j)])
    BY <1>3 DEF Fits
  <2>1. ASSUME j < i PROVE ScoreAt(l, j) <= x.score
    <3>1. j \in 1 .. i - 1 /\ j \in 1 .. l.size
      BY <1>3, <1>4, <2>1
    <3>2. ~GoesBefore(x, l.item[FromHead(l, j)]) /\ l.item[FromHead(l, j)].score \in Nat
      BY <1>2, <1>3, <3>1, ScoresTyped DEF ScoreAt
    <3> QED
      BY <3>2, NotBefore DEF ScoreAt
  <2> QED
    BY <1>3, <2>1
<1>7. EntryList(m) /\ Bound(m, worst)
  BY <1>1, <1>4, <1>5, <1>6, Added
<1>8. FromTracked(m, worst) \in Nat /\ Bound(m, FromTracked(m, worst))
  BY <1>2, <1>7, BoundTracked
<1>9. ~odd' => RowsShow(m, rows', descending)
  BY <1>2, <1>3, <1>4, <1>5, EntryInsertedRow
<1> QED
  BY <1>1, <1>3, <1>7, <1>8, <1>9 DEF EntryInv

\* An entry behind max_results ones that are no worse
LEMMA AddedMaxed ==
  ASSUME EntryInv, NEW x \in Entries, AppendMaxed(x), UNCHANGED descending
  PROVE  EntryInv'
<1>1. PICK l, m : l = linked /\ m = linked'
  OBVIOUS
<1>2. /\ EntryList(l) /\ IsList(Entries, l) /\ Tracking(l)
      /\ worst \in Nat /\ (~odd => RowsShow(l, rows, descending))
  BY <1>1 DEF EntryInv, EntryList
<1>3. /\ l.size >= max_results /\ m = PushBack(l, x)
      /\ worst' = Lesser(worst, x.score) /\ rows' = rows /\ odd' = odd /\ descending' = descending
  BY <1>1 DEF AppendMaxed
<1>4. max_results \in 1 .. l.size /\ SeenOf(l) = max_results /\ l.size \in Nat /\ x.score \in Nat
  <2>1. x.score \in Nat
    BY Sizes DEF Entries
  <2>2. l.size \in Nat
    BY <1>2, ScoresTyped
  <2> QED
    BY <1>3, <2>1, <2>2, Sizes DEF SeenOf
<1>5. \A j \in 1 .. max_results : ScoreAt(l, j) <= x.score
  <2>1. EntryList(linked) /\ max_results \in Nat /\ max_results <= linked.size
    BY <1>1, <1>2, <1>3, Sizes
  <2>2. ~\E i \in 1 .. max_results : StopsBefore(x, i)
    BY DEF AppendMaxed
  <2> QED
    BY <1>1, <2>1, <2>2, NeverStops
<1>6. Grown(Entries, l, m, l.size + 1, x)
  BY <1>2, <1>3, PushBackGrows
<1>7. l.size + 1 \in 1 .. l.size + 1 /\ Fits(l, x, l.size + 1)
  BY <1>2, <1>4, <1>5, FitsLast
<1>8. EntryList(m) /\ Bound(m, worst)
  BY <1>1, <1>6, <1>7, Added
<1>9. Bound(m, x.score)
  <2>1. ScoreAt(m, max_results) <= ScoreAt(l, max_results)
    BY <1>2, <1>3, <1>6, <1>7, EntryInserted
  <2>2. ScoreAt(l, max_results) <= x.score
    BY <1>4, <1>5, Sizes
  <2>3. IsList(Entries, m) /\ m.size = l.size + 1
    BY <1>6 DEF Grown, Inserted
  <2>4. m.size >= max_results /\ max_results \in 1 .. m.size
    BY <1>3, <1>4, <2>3, Sizes
  <2>5. ScoreAt(m, max_results) \in Nat /\ ScoreAt(l, max_results) \in Nat
    BY <1>2, <1>4, <2>3, <2>4, ScoresTyped
  <2> QED
    BY <1>4, <2>1, <2>2, <2>4, <2>5 DEF Bound
<1>10. worst' \in Nat /\ Bound(m, worst')
  BY <1>2, <1>3, <1>4, <1>8, <1>9 DEF Lesser
<1>11. ~odd => RowsShow(m, rows, descending)
  BY <1>2, <1>3, <1>6, RowsKept
<1> QED
  BY <1>1, <1>3, <1>8, <1>10, <1>11 DEF EntryInv

\* An entry that is the last one shown
LEMMA AddedLast ==
  ASSUME EntryInv, NEW x \in Entries, AddLast(x), UNCHANGED descending
  PROVE  EntryInv'
<1>1. PICK l, m : l = linked /\ m = linked'
  OBVIOUS
<1>2. /\ EntryList(l) /\ IsList(Entries, l) /\ Tracking(l)
      /\ worst \in Nat /\ (~odd => RowsShow(l, rows, descending))
  BY <1>1 DEF EntryInv, EntryList
<1>3. /\ l.size > 0 /\ l.size < max_results
      /\ m = PlaceAfter(l, l.size + 1, l.tail, x)
      /\ worst' = FromTracked(m, worst) /\ SetEntry(l.size + 1, NewNode(l), TRUE)
      /\ descending' = descending
  BY <1>1 DEF AddLast
<1>4. l.size \in Nat /\ l.size # 0 /\ l.size \in 1 .. l.size /\ SeenOf(l) = l.size
      /\ l.tail = FromHead(l, l.size) /\ l.size + 1 <= max_results
  BY <1>2, <1>3, EndsOf, Sizes DEF SeenOf
<1>5. \A j \in 1 .. l.size : ScoreAt(l, j) <= x.score
  <2>1. PICK k \in Nat : k = l.size /\ k <= linked.size
    BY <1>1, <1>4
  <2>2. ~\E i \in 1 .. k : StopsBefore(x, i)
    BY <1>1, <2>1 DEF AddLast
  <2> QED
    BY <1>1, <1>2, <2>1, <2>2, NeverStops
<1>6. PICK i \in 1 .. l.size + 1 : i = l.size + 1
  BY <1>4
<1>7. Grown(Entries, l, m, i, x)
  BY <1>2, <1>3, <1>4, <1>6, PlaceAfterGrows
<1>8. Fits(l, x, i)
  BY <1>2, <1>4, <1>5, <1>6, FitsLast
<1>9. EntryList(m) /\ Bound(m, worst)
  BY <1>1, <1>7, <1>8, Added
<1>10. FromTracked(m, worst) \in Nat /\ Bound(m, FromTracked(m, worst))
  BY <1>2, <1>9, BoundTracked
<1>11. ~odd' => RowsShow(m, rows', descending)
  BY <1>2, <1>3, <1>4, <1>6, <1>7, EntryInsertedRow
<1> QED
  BY <1>1, <1>3, <1>9, <1>10, <1>11 DEF EntryInv

\* The invariant holds whenever entries have been added.
LEMMA EntryInvariant == Spec => []EntryInv
<1>1. Init => EntryInv
  BY EntryInitially
<1>2. EntryInv /\ [add_entry]_managerVars => EntryInv'
  <2> SUFFICES ASSUME EntryInv, [add_entry]_managerVars PROVE EntryInv'
    OBVIOUS
  <2>1. CASE UNCHANGED managerVars
    <3>1. /\ linked' = linked /\ worst' = worst /\ rows' = rows /\ odd' = odd
          /\ descending' = descending
      BY <2>1 DEF managerVars
    <3> QED
      BY <3>1 DEF EntryInv
  <2>2. CASE add_entry
    <3>1. PICK s \in Scores, n \in Lengths :
            LET x == [score |-> s, len |-> n] IN
            /\ \/ AppendUnseen(x)
               \/ AddFirst(x)
               \/ \E i \in 1 .. max_results : AddBefore(x, i)
               \/ AppendMaxed(x)
               \/ AddLast(x)
            /\ UNCHANGED descending
      BY <2>2 DEF add_entry
    <3>2. PICK x \in Entries : x = [score |-> s, len |-> n]
      BY DEF Entries
    <3> QED
      BY <3>1, <3>2, AddedUnseen, AddedFirst, AddedBefore, AddedMaxed, AddedLast
  <2> QED
    BY <2>1, <2>2
<1> QED
  BY <1>1, <1>2, PTL DEF Spec

\* What is shown are the best entries, in order and stable among equals, the
\* bound of the shortcut is that of an entry which could not be shown, and the
\* rows of the results buffer show the list (EntryManager:add_entry in
\* lua/telescope/entry_manager.lua, Picker:entry_adder in pickers.lua) as long as
\* each entry placed in it has a display of one line, however many entries and
\* rows there are and whatever their scores.
THEOREM ShownBest == Spec => [](BestFirst /\ StableOrder /\ BoundSound /\ RowsMatch)
<1>1. EntryInv => BestFirst /\ StableOrder /\ BoundSound /\ RowsMatch
  <2> SUFFICES ASSUME EntryInv PROVE BestFirst /\ StableOrder /\ BoundSound /\ RowsMatch
    OBVIOUS
  <2>1. /\ IsList(Entries, linked) /\ Best(linked) /\ Stable(linked)
        /\ worst \in Nat /\ Bound(linked, worst)
        /\ ~odd => RowsShow(linked, rows, descending)
    BY DEF EntryInv, EntryList
  <2>2. /\ Shown = 1 .. SeenOf(linked)
        /\ \A i : ItemAt(i).score = ScoreAt(linked, i)
    BY DEF Shown, LastSeen, SeenOf, ItemAt, ScoreAt
  <2>3. /\ linked.size \in Nat /\ SeenOf(linked) \in Nat
        /\ SeenOf(linked) <= linked.size /\ SeenOf(linked) <= max_results /\ max_results \in Nat
    BY <2>1, ScoresTyped, Sizes
  <2>4. BestFirst
    <3>1. \A i, j \in 1 .. SeenOf(linked) : i < j => ScoreAt(linked, i) <= ScoreAt(linked, j)
      BY <2>1, <2>3 DEF Best
    <3>2. \A i \in 1 .. SeenOf(linked), j \in 1 .. linked.size :
            j > max_results => ScoreAt(linked, i) <= ScoreAt(linked, j)
      BY <2>1, <2>3 DEF Best
    <3> QED
      BY <2>2, <3>1, <3>2 DEF BestFirst
  <2>5. StableOrder
    BY <2>1, <2>2 DEF StableOrder, Stable
  <2>6. BoundSound
    <3> SUFFICES ASSUME worst # Huge
                 PROVE  linked.size >= max_results /\ worst >= ItemAt(max_results).score
      BY DEF BoundSound
    <3>1. linked.size >= max_results /\ ScoreAt(linked, max_results) <= worst
      BY <2>1 DEF Bound
    <3>2. ScoreAt(linked, max_results) \in Nat
      BY <2>1, <2>3, <3>1, ScoresTyped, Sizes
    <3> QED
      BY <2>1, <2>2, <3>1, <3>2
  <2>7. RowsMatch
    BY <2>1, <2>2 DEF RowsMatch, RowsShow, RowOf, get_row
  <2> QED
    BY <2>4, <2>5, <2>6, <2>7
<1> QED
  BY <1>1, EntryInvariant, PTL

=============================================================================
