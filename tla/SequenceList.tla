---------------------------- MODULE SequenceList ----------------------------
(***************************************************************************)
(* What a linked list promises to be: a sequence that grows by one item at *)
(* some position, the others keeping their order, or is cut to a prefix.   *)
(***************************************************************************)
EXTENDS Integers, SequencesExt

VARIABLES
  seq,    \* the items from head to tail
  made    \* how many items were ever put in; the k-th item is the number k

Init == seq = <<>> /\ made = 0

Insert(i) ==
  /\ made' = made + 1
  /\ seq' = InsertAt(seq, i, made + 1)

Cut(m) ==
  /\ seq' = SubSeq(seq, 1, m)
  /\ UNCHANGED made

Next ==
  \/ \E i \in 1 .. Len(seq) + 1 : Insert(i)
  \/ \E m \in DOMAIN seq : Cut(m)

Spec == Init /\ [][Next]_<<seq, made>>
=============================================================================
