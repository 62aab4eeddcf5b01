----------------------------- MODULE AsyncQueue -----------------------------
(***************************************************************************)
(* What plenary's mpsc channel promises, without coroutines, callbacks or  *)
(* a deque: messages leave in the order in which they were sent, none is   *)
(* lost or delivered twice, and last takes the newest message and          *)
(* discards the older ones.                                                *)
(***************************************************************************)
EXTENDS Integers, Sequences

CONSTANT Messages   \* the values that are sent

VARIABLES
  queue,   \* the messages that were sent and not yet taken, oldest first
  got      \* the message the receiver took last

Init == queue = <<>> /\ got = 0

Send(m) ==
  /\ queue' = Append(queue, m)
  /\ UNCHANGED got

Recv ==
  /\ queue # <<>>
  /\ got' = Head(queue)
  /\ queue' = Tail(queue)

TakeLast ==
  /\ queue # <<>>
  /\ got' = queue[Len(queue)]
  /\ queue' = <<>>

Next == (\E m \in Messages : Send(m)) \/ Recv \/ TakeLast

Spec == Init /\ [][Next]_<<queue, got>>
=============================================================================
