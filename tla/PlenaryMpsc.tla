----------------------------- MODULE PlenaryMpsc ----------------------------
(***************************************************************************)
(* The multiple producer, single consumer channel of plenary.nvim          *)
(* (lua/plenary/async/control.lua, channel.mpsc): a Deque                  *)
(* (lua/plenary/async/structs.lua) and a condition variable.               *)
(*                                                                         *)
(* The receiver is a coroutine that calls recv or last in a loop and may   *)
(* suspend elsewhere between two calls, as telescope's main loop does.     *)
(* Senders are the event loop and the other coroutines.  SendInside says   *)
(* whether code that a notification of this channel resumed, the receiver  *)
(* included, sends on the same channel before it suspends.                 *)
(***************************************************************************)
EXTENDS PlenaryCondvar

CONSTANTS
  Receiver,      \* the coroutine that receives
  SendInside,    \* see above
  MaxMessages    \* how many messages are sent (a bound of the model)

ASSUME ReceiverAssumption == Receiver \in Coroutines
ASSUME MessagesAssumption == MaxMessages \in Nat

VARIABLES
  deque,   \* the Deque: its two indices and the slots between them
  sent,    \* the number of messages sent; the k-th message is the number k
  got,     \* the message the receiver took last, 0 before the first
  pc       \* where the receiver is: about to call, in recv, in last, after it

mpscVars == <<condvarVars, deque, sent, got, pc>>

-----------------------------------------------------------------------------
\* Deque: new messages enter at first - 1, so the oldest one is at last.

EmptyDeque == [first |-> 0, last |-> -1, at |-> <<>>]

DequeLen(d) == d.last - d.first + 1

\* The table of the deque with v stored at the index k.
Stored(at, k, v) == [j \in DOMAIN at \cup {k} |-> IF j = k THEN v ELSE at[j]]

\* Mutant: pushes to the other end
PushRightInstead(d, v) ==
  [d EXCEPT !.last = @ + 1, !.at = Stored(@, d.last + 1, v)]

PushLeft(d, v) ==
  [d EXCEPT !.first = @ - 1, !.at = Stored(@, d.first - 1, v)]

PopRight(d) ==
  [d EXCEPT !.last = @ - 1, !.at = [k \in DOMAIN @ \ {d.last} |-> @[k]]]

\* The messages of the deque, oldest first: from last down to first.
Pending == [k \in 1 .. DequeLen(deque) |-> deque.at[deque.last + 1 - k]]

-----------------------------------------------------------------------------

\* Sender.send: pushleft, then notify_all; the pushed message is visible
\* before any callback runs.
Send ==
  /\ MayCall
  /\ SendInside \/ ~Notifying
  /\ sent < MaxMessages
  /\ sent' = sent + 1
  /\ deque' = PushLeft(deque, sent + 1)
  /\ NotifyAllBegin
  /\ UNCHANGED <<timers, handles, got, pc>>

\* The receiver calls recv or last on an empty deque: it waits.
ReceiveBlocks(m) ==
  /\ InCoroutine(Receiver) /\ pc = "call"
  /\ DequeLen(deque) = 0
  /\ Wait(Receiver)
  /\ pc' = m
  /\ UNCHANGED <<deque, sent, got>>

\* recv or last goes on: the deque was not empty, or wait has returned.
Resumed(m) ==
  /\ InCoroutine(Receiver)
  /\ pc = m \/ (pc = "call" /\ DequeLen(deque) # 0)

\* recv: popright; unpack(nil) is an error when there is nothing to pop.
Recv ==
  /\ Resumed("recv")
  /\ IF DequeLen(deque) = 0
       THEN Unwind(stack) /\ UNCHANGED <<deque, got, pc>>
       ELSE /\ got' = deque.at[deque.last]
            /\ deque' = PopRight(deque)
            /\ pc' = "handle"
            /\ UNCHANGED <<stack, status, failed>>
  /\ UNCHANGED <<timers, handles, sent>>

\* Mutant of TakeLast: forgets to clear
TakeLastKeeps ==
  /\ Resumed("last")
  /\ got' = IF DequeLen(deque) = 0 THEN 0 ELSE deque.at[deque.first]
  /\ pc' = "handle"
  /\ UNCHANGED <<asyncVars, handles, deque, sent>>

\* last: popleft, then clear; nothing to pop is no error, unpack(val or {}).
TakeLast ==
  /\ Resumed("last")
  /\ got' = IF DequeLen(deque) = 0 THEN 0 ELSE deque.at[deque.first]
  /\ deque' = EmptyDeque
  /\ pc' = "handle"
  /\ UNCHANGED <<asyncVars, handles, sent>>

\* The receiver has handled a message and calls again, at once or after it
\* has suspended in something else.
CallAgain ==
  /\ InCoroutine(Receiver) /\ pc = "handle"
  /\ pc' = "call"
  /\ \/ Sleep(Receiver)
     \/ UNCHANGED asyncVars
  /\ UNCHANGED <<handles, deque, sent, got>>

ReceiverStep ==
  \/ \E m \in {"recv", "last"} : ReceiveBlocks(m)
  \/ Recv
  \/ TakeLast
  \/ CallAgain

\* A sender coroutine suspends or returns; it sends by Send.
SenderStep(c) ==
  /\ c # Receiver
  /\ Sleep(c) \/ Return(c)
  /\ UNCHANGED <<handles, deque, sent, got, pc>>

\* What the machine itself does: coroutines start, timers fire, and the loop
\* of notify_all proceeds.
Dispatch(c) ==
  /\ Execute(c) \/ TimerFires(c)
  /\ UNCHANGED <<handles, deque, sent, got, pc>>

Deliver ==
  /\ NotifyAllNext \/ NotifyAllEnd
  /\ UNCHANGED <<deque, sent, got, pc>>

Init ==
  /\ CondvarInit
  /\ deque = EmptyDeque
  /\ sent = 0
  /\ got = 0
  /\ pc = "call"

Next ==
  \/ Send
  \/ ReceiverStep
  \/ Deliver
  \/ \E c \in Coroutines : Dispatch(c) \/ SenderStep(c)

\* Lua code runs until it gives control back, and the event loop runs every
\* timer that is due; nobody has to send or to start.
Fairness ==
  /\ WF_mpscVars(ReceiverStep)
  /\ WF_mpscVars(Deliver)
  /\ \A c \in Coroutines :
       /\ WF_mpscVars(SenderStep(c))
       /\ SF_mpscVars(TimerFires(c) /\ UNCHANGED <<handles, deque, sent, got, pc>>)

Spec == Init /\ [][Next]_mpscVars /\ Fairness

-----------------------------------------------------------------------------

\* No wakeup is lost: when the event loop has control and the receiver is
\* blocked in recv or last, there is nothing to take.
NoStrandedReceiver ==
  EventLoop /\ status[Receiver] = "waiting" => DequeLen(deque) = 0

\* The channel implements the abstract queue.
Queue == INSTANCE AsyncQueue WITH Messages <- 1 .. MaxMessages, queue <- Pending
QueueSpec == Queue!Spec

\* Every message is taken, or discarded by last, once the receiver runs.
EveryMessageLeaves ==
  \A v \in 1 .. MaxMessages :
    v \in Range(Pending) /\ status[Receiver] # "new" ~> v \notin Range(Pending)
=============================================================================
