------------------------ MODULE TelescopeLinkedList -------------------------
(***************************************************************************)
(* The doubly linked list of telescope.nvim                                *)
(* (lua/telescope/algos/linked_list.lua), which also tracks the node at    *)
(* one index so that the picker need not walk the list to find the score   *)
(* at the edge of what it shows.                                           *)
(*                                                                         *)
(* A list is a record of pointers.  Nodes are numbered as they are made, 0 *)
(* is nil.  The code's tracked is the item of _tracked_node throughout, so *)
(* the node alone is kept.                                                 *)
(***************************************************************************)
EXTENDS Integers, SequencesExt

CONSTANTS
  TrackAt,    \* opts.track_at
  MaxNodes    \* how many nodes are made (a bound of the model)

ASSUME TrackAssumption == TrackAt \in Nat \ {0}
ASSUME NodesAssumption == MaxNodes \in Nat

VARIABLE linked   \* the list

\* LinkedList:new
EmptyList ==
  [size |-> 0, head |-> 0, tail |-> 0, track_at |-> TrackAt, tracked_node |-> 0,
   item |-> <<>>, next |-> <<>>, prev |-> <<>>]

Nodes(l) == DOMAIN l.item
NewNode(l) == Len(l.item) + 1

\* A new node holding x between the nodes p and q, either of which may be nil.
Link(l, x, p, q) ==
  LET n == NewNode(l) IN
  [l EXCEPT !.size = @ + 1,
            !.item = Append(@, x),
            !.next = [k \in 1 .. n |-> IF k = n THEN q ELSE IF k = p THEN n ELSE @[k]],
            !.prev = [k \in 1 .. n |-> IF k = n THEN p ELSE IF k = q THEN n ELSE @[k]]]

\* The node at index i of the list, walking from the head.
FromHead(l, i) ==
  LET walk[k \in 1 .. i] == IF k = 1 THEN l.head ELSE l.next[walk[k - 1]]
  IN  walk[i]

\* The node k steps before the tail.
FromTail(l, i) ==
  LET walk[k \in 0 .. i] == IF k = 0 THEN l.tail ELSE l.prev[walk[k - 1]]
  IN  walk[i]

\* The tracked node after an insertion somewhere before it.
Shifted(l) ==
  IF l.size = l.track_at THEN l.tail
  ELSE IF l.size > l.track_at THEN l.prev[l.tracked_node]
  ELSE l.tracked_node

-----------------------------------------------------------------------------

PushBack(l, x) ==
  LET n == NewNode(l)
      m == [Link(l, x, l.tail, 0) EXCEPT !.head = IF @ = 0 THEN n ELSE @, !.tail = n]
  IN  [m EXCEPT !.tracked_node = IF m.size = m.track_at THEN n ELSE @]

\* Mutant of PushFront: the tracked node stays
PushFrontStill(l, x) ==
  LET n == NewNode(l)
  IN  [Link(l, x, 0, l.head) EXCEPT !.tail = IF @ = 0 THEN n ELSE @, !.head = n,
         !.tracked_node = IF l.size + 1 = l.track_at THEN l.head ELSE @]

PushFront(l, x) ==
  LET n == NewNode(l)
      m == [Link(l, x, 0, l.head) EXCEPT !.tail = IF @ = 0 THEN n ELSE @, !.head = n]
  IN  [m EXCEPT !.tracked_node = Shifted(m)]

\* Mutant of PlaceAfter: the tail is not moved
PlaceAfterKeepsTail(l, index, node, x) ==
  Link(l, x, node, l.next[node])

PlaceAfter(l, index, node, x) ==
  LET n == NewNode(l)
      m == [Link(l, x, node, l.next[node]) EXCEPT !.tail = IF @ = node THEN n ELSE @]
  IN  [m EXCEPT !.tracked_node =
         IF index = m.track_at THEN n
         ELSE IF index < m.track_at THEN Shifted(m)
         ELSE @]

\* Mutant of PlaceBefore: the node is not counted
PlaceBeforeUncounted(l, index, node, x) ==
  LET n == NewNode(l)
  IN  [Link(l, x, l.prev[node], node) EXCEPT !.head = IF @ = node THEN n ELSE @,
         !.size = l.size]

PlaceBefore(l, index, node, x) ==
  LET n == NewNode(l)
      m == [Link(l, x, l.prev[node], node) EXCEPT !.head = IF @ = node THEN n ELSE @]
  IN  [m EXCEPT !.tracked_node =
         IF index = m.track_at - 1 THEN node
         ELSE IF index < m.track_at THEN Shifted(m)
         ELSE @]

\* truncate walks from the nearer end; callers pass at least 1.
Truncate(l, max) ==
  LET current == IF max < l.size - max THEN FromHead(l, max)
                                       ELSE FromTail(l, l.size - max)
  IN  IF max >= l.size THEN l
      ELSE [l EXCEPT !.size = max, !.tail = current, !.next[current] = 0,
                     !.track_at = IF max < @ THEN max ELSE @,
                     !.tracked_node = IF max < l.track_at THEN current ELSE @]

\* iter and ipairs: the nodes from head to tail
Chain(l) == [i \in 1 .. l.size |-> FromHead(l, i)]
Items(l) == [i \in 1 .. l.size |-> l.item[Chain(l)[i]]]

-----------------------------------------------------------------------------

ListInit == linked = EmptyList

MayGrow == NewNode(linked) <= MaxNodes
NextItem == NewNode(linked)

append == MayGrow /\ linked' = PushBack(linked, NextItem)

prepend == MayGrow /\ linked' = PushFront(linked, NextItem)

\* The caller passes the index the new item will have.
place_after ==
  /\ MayGrow
  /\ \E i \in 1 .. linked.size :
       linked' = PlaceAfter(linked, i + 1, FromHead(linked, i), NextItem)

place_before ==
  /\ MayGrow
  /\ \E i \in 1 .. linked.size :
       linked' = PlaceBefore(linked, i, FromHead(linked, i), NextItem)

truncate == \E m \in 1 .. linked.size - 1 : linked' = Truncate(linked, m)

ListNext == append \/ prepend \/ place_after \/ place_before \/ truncate

ListSpec == ListInit /\ [][ListNext]_linked

-----------------------------------------------------------------------------

\* The pointers make a list: forward from the head the chain has size nodes,
\* all different, and ends at the tail; backward pointers mirror it.
WellFormed ==
  LET c == Chain(linked) IN
  /\ linked.size \in 0 .. MaxNodes
  /\ \A i \in DOMAIN c : c[i] \in Nodes(linked)
  /\ IsInjective(c)
  /\ linked.size = 0 => linked.head = 0 /\ linked.tail = 0
  /\ linked.size > 0 =>
       /\ linked.tail = Last(c) /\ linked.next[Last(c)] = 0
       /\ linked.prev[Head(c)] = 0
       /\ \A i \in 1 .. linked.size - 1 : linked.prev[c[i + 1]] = c[i]

\* How far a node is from the head, counting backward pointers; truncate
\* leaves those of the nodes it drops.
Depth(l, n) ==
  LET depth[k \in Nodes(l)] == IF l.prev[k] = 0 THEN 1 ELSE 1 + depth[l.prev[k]]
  IN  depth[n]

\* Once the list is long enough a node is tracked, and never one that is
\* nearer to the head than track_at: its score is not too good a bound.
TrackedNeverEarly ==
  linked.size >= linked.track_at =>
    /\ linked.tracked_node # 0
    /\ Depth(linked, linked.tracked_node) >= linked.track_at

\* The pointer structure implements a sequence.
Abstract == INSTANCE SequenceList WITH seq <- Items(linked), made <- Len(linked.item)
SequenceSpec == Abstract!Spec
=============================================================================
