------------------------ MODULE PlenaryControlProofs ------------------------
(***************************************************************************)
(* Safety of plenary's condition variable and mpsc channel, for every set  *)
(* of coroutines, any number of messages and any depth of the stack, when  *)
(* coroutines wait, notify and send only while no notification is being    *)
(* delivered (for the channel: when they do not send there).               *)
(***************************************************************************)
EXTENDS PlenaryMpsc, SequenceTheorems, TLAPS

-----------------------------------------------------------------------------
(* The coroutine machine and the condition variable.                       *)

Frames == [fn : {"coroutine", "notify_all", "notify_one"},
           co : Coroutines \cup {"none"}, len : Nat, i : Nat]
Statuses == {"new", "running", "waiting", "sleeping", "dead"}

IsCoroutine(f) == f.fn = "coroutine"

\* The coroutines on the stack run and are there once.
StackOK(s) ==
  /\ s \in Seq(Frames)
  /\ \A k \in 1 .. Len(s) : IsCoroutine(s[k]) =>
       s[k].co \in Coroutines /\ status[s[k].co] = "running"
  /\ \A j, k \in 1 .. Len(s) :
       IsCoroutine(s[j]) /\ IsCoroutine(s[k]) /\ s[j].co = s[k].co => j = k

\* Who has a timer sleeps, and no error was raised.
MachineOK ==
  /\ StackOK(stack)
  /\ status \in [Coroutines -> Statuses]
  /\ timers \in SUBSET Coroutines
  /\ \A c \in timers : status[c] = "sleeping"
  /\ failed = FALSE

\* The discipline: no notification is begun inside of another.
OneNotification ==
  \A j, k \in 1 .. Len(stack) :
    ~IsCoroutine(stack[j]) /\ ~IsCoroutine(stack[k]) => j = k

\* The notification under way has called the callback at index j.
CalledIn(f, j) ==
  \/ f.fn = "notify_all" /\ j <= f.i
  \/ f.fn = "notify_one" /\ j = f.i
Called(j) == \E k \in 1 .. Len(stack) : CalledIn(stack[k], j)

\* The list does not change while a notification is being delivered.
LoopOK ==
  \A k \in 1 .. Len(stack) :
    /\ stack[k].fn = "notify_all" => stack[k].len = Len(handles) /\ stack[k].i <= Len(handles)
    /\ stack[k].fn = "notify_one" => stack[k].i \in 1 .. Len(handles)

\* The list holds each waiting coroutine once, and besides them only those
\* the notification under way has called.
ListOK ==
  /\ handles \in Seq(Coroutines)
  /\ \A j, k \in 1 .. Len(handles) : handles[j] = handles[k] => j = k
  /\ \A j \in 1 .. Len(handles) : Called(j) <=> status[handles[j]] # "waiting"
  /\ \A c \in Coroutines : status[c] = "waiting" =>
       \E j \in 1 .. Len(handles) : handles[j] = c

CondvarInv == MachineOK /\ OneNotification /\ LoopOK /\ ListOK

-----------------------------------------------------------------------------
(* The coroutine machine.                                                  *)

\* A frame is put on top of others.
LEMMA Pushed ==
  ASSUME NEW s \in Seq(Frames), NEW f \in Frames
  PROVE  LET t == Append(s, f)
         IN  /\ t \in Seq(Frames) /\ Len(t) = Len(s) + 1 /\ t[Len(s) + 1] = f
             /\ \A k \in 1 .. Len(s) : t[k] = s[k]
BY AppendProperties

\* The top frame is taken away.
LEMMA Popped ==
  ASSUME NEW s \in Seq(Frames), s # <<>>
  PROVE  /\ Front(s) \in Seq(Frames) /\ Len(Front(s)) = Len(s) - 1 /\ Len(s) >= 1
         /\ \A k \in 1 .. Len(s) - 1 : Front(s)[k] = s[k]
         /\ Last(s) = s[Len(s)] /\ Last(s) \in Frames
<1>1. Len(s) \in Nat /\ Len(s) >= 1
  BY EmptySeq
<1>2. Len(s) - 1 \in 0 .. Len(s)
  BY <1>1
<1> QED
  BY <1>1, <1>2, SubSeqProperties DEF Front, Last

\* The frames of coroutines and of the loops.
LEMMA FrameType ==
  /\ \A c \in Coroutines : /\ CoFrame(c) \in Frames /\ CoFrame(c).fn = "coroutine"
                           /\ CoFrame(c).co = c
  /\ \A fn \in {"notify_all", "notify_one"}, n, k \in Nat :
       LET f == Frame(fn, "none", n, k)
       IN  f \in Frames /\ f.fn = fn /\ f.len = n /\ f.i = k
BY DEF CoFrame, Frame, Frames

\* A loop may run on top of anything,
LEMMA LoopPushed ==
  ASSUME NEW s, StackOK(s), NEW f \in Frames, ~IsCoroutine(f)
  PROVE  StackOK(Append(s, f))
<1>1. s \in Seq(Frames)
  BY DEF StackOK
<1> DEFINE t == Append(s, f)
<1>2. /\ t \in Seq(Frames) /\ Len(t) = Len(s) + 1 /\ t[Len(s) + 1] = f
      /\ \A k \in 1 .. Len(s) : t[k] = s[k]
  BY <1>1, Pushed
<1> HIDE DEF t
<1>3. \A k \in 1 .. Len(t) : IsCoroutine(t[k]) => k \in 1 .. Len(s) /\ t[k] = s[k]
  BY <1>1, <1>2
<1> QED
  BY <1>2, <1>3 DEF StackOK, t

\* and what is below a frame may go on.
LEMMA FrontOK ==
  ASSUME NEW s, StackOK(s), s # <<>>
  PROVE  StackOK(Front(s))
<1>1. s \in Seq(Frames)
  BY DEF StackOK
<1>2. /\ Front(s) \in Seq(Frames) /\ Len(Front(s)) = Len(s) - 1 /\ Len(s) >= 1
      /\ \A k \in 1 .. Len(s) - 1 : Front(s)[k] = s[k]
  BY <1>1, Popped
<1>3. \A k \in 1 .. Len(Front(s)) : k \in 1 .. Len(s) /\ Front(s)[k] = s[k]
  BY <1>1, <1>2
<1> QED
  BY <1>2, <1>3 DEF StackOK

\* A coroutine that does not run is run on top of the frames s.
LEMMA RunsOK ==
  ASSUME MachineOK, NEW s, StackOK(s), NEW c \in Coroutines, status[c] # "running",
         RunOn(s, c), timers' \in SUBSET timers, c \notin timers'
  PROVE  MachineOK'
<1>1. /\ s \in Seq(Frames) /\ CoFrame(c) \in Frames /\ IsCoroutine(CoFrame(c))
      /\ CoFrame(c).co = c
  BY FrameType DEF StackOK, IsCoroutine
<1>2. stack' = Append(s, CoFrame(c)) /\ status' = [status EXCEPT ![c] = "running"]
      /\ failed' = failed
  BY DEF RunOn
<1>3. /\ stack' \in Seq(Frames) /\ Len(stack') = Len(s) + 1 /\ stack'[Len(s) + 1] = CoFrame(c)
      /\ \A k \in 1 .. Len(s) : stack'[k] = s[k]
  BY <1>1, <1>2, Pushed
<1>4. status' \in [Coroutines -> Statuses]
  BY <1>2 DEF MachineOK, Statuses
<1>5. \A d \in Coroutines : status'[d] = IF d = c THEN "running" ELSE status[d]
  BY <1>2 DEF MachineOK
<1>6. \A k \in 1 .. Len(s) : IsCoroutine(s[k]) =>
        s[k].co \in Coroutines /\ status[s[k].co] = "running" /\ s[k].co # c
  BY DEF StackOK
<1>7. \A k \in 1 .. Len(stack') : (k \in 1 .. Len(s) /\ stack'[k] = s[k])
                                  \/ (k = Len(s) + 1 /\ stack'[k] = CoFrame(c))
  BY <1>1, <1>3
<1>8. \A k \in 1 .. Len(stack') : IsCoroutine(stack'[k]) =>
        stack'[k].co \in Coroutines /\ status'[stack'[k].co] = "running"
  BY <1>1, <1>5, <1>6, <1>7
<1>9. \A j, k \in 1 .. Len(stack') :
        IsCoroutine(stack'[j]) /\ IsCoroutine(stack'[k]) /\ stack'[j].co = stack'[k].co => j = k
  BY <1>1, <1>6, <1>7 DEF StackOK
<1>10. timers' \in SUBSET Coroutines /\ \A d \in timers' : status'[d] = "sleeping"
  BY <1>5 DEF MachineOK
<1> QED
  BY <1>2, <1>3, <1>4, <1>8, <1>9, <1>10 DEF MachineOK, StackOK

\* The running coroutine suspends or returns.
LEMMA YieldOK ==
  ASSUME MachineOK, NEW c \in Coroutines, NEW why \in Statuses \ {"running"}, Yield(c, why),
         timers' \in SUBSET Coroutines,
         \A d \in timers' : d \in timers \/ (d = c /\ why = "sleeping")
  PROVE  MachineOK' /\ status[c] = "running"
<1>1. /\ stack # <<>> /\ Last(stack) = CoFrame(c) /\ stack' = Front(stack)
      /\ status' = [status EXCEPT ![c] = why] /\ failed' = failed
  BY DEF Yield, InCoroutine, Top, Below
<1>2. stack \in Seq(Frames)
  BY DEF MachineOK, StackOK
<1>3. /\ stack' \in Seq(Frames) /\ Len(stack') = Len(stack) - 1 /\ Len(stack) >= 1
      /\ \A k \in 1 .. Len(stack) - 1 : stack'[k] = stack[k]
      /\ stack[Len(stack)] = CoFrame(c)
  BY <1>1, <1>2, Popped
<1>4. IsCoroutine(stack[Len(stack)]) /\ stack[Len(stack)].co = c
      /\ Len(stack) \in 1 .. Len(stack)
  BY <1>2, <1>3, FrameType DEF IsCoroutine
<1>5. status[c] = "running"
  BY <1>4 DEF MachineOK, StackOK
<1>6. /\ status' \in [Coroutines -> Statuses]
      /\ \A d \in Coroutines : status'[d] = IF d = c THEN why ELSE status[d]
  BY <1>1 DEF MachineOK
<1>7. \A k \in 1 .. Len(stack') : k \in 1 .. Len(stack) /\ k # Len(stack) /\ stack'[k] = stack[k]
  BY <1>2, <1>3
<1>8. \A k \in 1 .. Len(stack') : IsCoroutine(stack'[k]) =>
        stack'[k].co \in Coroutines /\ status'[stack'[k].co] = "running"
  BY <1>4, <1>6, <1>7 DEF MachineOK, StackOK
<1>9. \A j, k \in 1 .. Len(stack') :
        IsCoroutine(stack'[j]) /\ IsCoroutine(stack'[k]) /\ stack'[j].co = stack'[k].co => j = k
  BY <1>7 DEF MachineOK, StackOK
<1>10. \A d \in timers' : status'[d] = "sleeping"
  BY <1>5, <1>6 DEF MachineOK
<1> QED
  BY <1>1, <1>3, <1>5, <1>6, <1>8, <1>9, <1>10 DEF MachineOK, StackOK

-----------------------------------------------------------------------------
(* The condition variable.                                                 *)

\* The facts about the list depend on who waits and on the loops only.
LEMMA ListKept ==
  ASSUME OneNotification, LoopOK, ListOK, handles' = handles,
         \A k \in 1 .. Len(stack') : ~IsCoroutine(stack'[k]) =>
           k \in 1 .. Len(stack) /\ stack'[k] = stack[k],
         \A k \in 1 .. Len(stack) : ~IsCoroutine(stack[k]) =>
           k \in 1 .. Len(stack') /\ stack'[k] = stack[k],
         \A c \in Coroutines : status'[c] = "waiting" <=> status[c] = "waiting"
  PROVE  OneNotification' /\ LoopOK' /\ ListOK'
<1>1. OneNotification'
  BY DEF OneNotification
<1>2. LoopOK'
  BY DEF LoopOK, IsCoroutine
<1>3. \A j : Called(j)' <=> Called(j)
  BY DEF Called, CalledIn, IsCoroutine
<1>4. \A j \in 1 .. Len(handles) : handles[j] \in Coroutines
  BY DEF ListOK
<1>5. ListOK'
  BY <1>3, <1>4 DEF ListOK
<1> QED
  BY <1>1, <1>2, <1>5

\* A coroutine starts, or wakes up from a sleep.
LEMMA DispatchStep ==
  ASSUME CondvarInv, NEW c \in Coroutines, Execute(c) \/ TimerFires(c), UNCHANGED handles
  PROVE  CondvarInv'
<1>1. MachineOK /\ StackOK(stack) /\ stack \in Seq(Frames)
  BY DEF CondvarInv, MachineOK, StackOK
<1>2. /\ status[c] \in {"new", "sleeping"} /\ RunOn(stack, c)
      /\ timers' \in SUBSET timers /\ c \notin timers'
  BY <1>1 DEF Execute, TimerFires, MachineOK, Step, Suspended
<1>3. MachineOK'
  BY <1>1, <1>2, RunsOK
<1>4. /\ Len(stack') = Len(stack) + 1 /\ IsCoroutine(stack'[Len(stack) + 1])
      /\ \A k \in 1 .. Len(stack) : stack'[k] = stack[k]
  BY <1>1, <1>2, Pushed, FrameType DEF RunOn, IsCoroutine
<1>5. \A d \in Coroutines : status'[d] = "waiting" <=> status[d] = "waiting"
  BY <1>1, <1>2 DEF RunOn, MachineOK
<1>6. \A k \in 1 .. Len(stack') : k \in 1 .. Len(stack) \/ k = Len(stack) + 1
  BY <1>1, <1>4
<1>7. OneNotification' /\ LoopOK' /\ ListOK'
  BY <1>1, <1>4, <1>5, <1>6, ListKept DEF CondvarInv
<1> QED
  BY <1>3, <1>7 DEF CondvarInv

\* The running coroutine sleeps or returns.
LEMMA SuspendStep ==
  ASSUME CondvarInv, NEW c \in Coroutines, Sleep(c) \/ Return(c), UNCHANGED handles
  PROVE  CondvarInv'
<1>1. MachineOK /\ stack \in Seq(Frames)
  BY DEF CondvarInv, MachineOK, StackOK
<1>2. PICK why \in {"sleeping", "dead"} :
        /\ Yield(c, why)
        /\ timers' \in SUBSET Coroutines
        /\ \A d \in timers' : d \in timers \/ (d = c /\ why = "sleeping")
  BY <1>1 DEF Sleep, Return, MachineOK
<1>3. MachineOK' /\ status[c] = "running"
  BY <1>1, <1>2, YieldOK DEF Statuses
<1>4. /\ Len(stack') = Len(stack) - 1 /\ Len(stack) >= 1 /\ IsCoroutine(stack[Len(stack)])
      /\ \A k \in 1 .. Len(stack) - 1 : stack'[k] = stack[k]
  BY <1>1, <1>2, Popped, FrameType DEF Yield, InCoroutine, Top, Below, IsCoroutine
<1>5. \A d \in Coroutines : status'[d] = "waiting" <=> status[d] = "waiting"
  BY <1>1, <1>2, <1>3 DEF Yield, MachineOK
<1>6. /\ \A k \in 1 .. Len(stack') : k \in 1 .. Len(stack) /\ k \in 1 .. Len(stack) - 1
      /\ \A k \in 1 .. Len(stack) : k # Len(stack) => k \in 1 .. Len(stack')
                                                  /\ k \in 1 .. Len(stack) - 1
  BY <1>1, <1>4
<1>7. OneNotification' /\ LoopOK' /\ ListOK'
  BY <1>4, <1>5, <1>6, ListKept DEF CondvarInv
<1> QED
  BY <1>3, <1>7 DEF CondvarInv

\* Between notifications nothing of the list is called, and all of it waits.
LEMMA BetweenNotifications ==
  ASSUME CondvarInv, ~Notifying
  PROVE  /\ \A k \in 1 .. Len(stack) : IsCoroutine(stack[k])
         /\ \A j : ~Called(j)
         /\ \A j \in 1 .. Len(handles) : status[handles[j]] = "waiting"
<1>1. stack \in Seq(Frames)
  BY DEF CondvarInv, MachineOK, StackOK
<1>2. \A k \in 1 .. Len(stack) : stack[k].fn = "coroutine"
  <2>1. DOMAIN stack = 1 .. Len(stack) /\ \A k \in 1 .. Len(stack) : stack[k] \in Frames
    BY <1>1
  <2>2. \A f \in Frames : f.fn \in {"coroutine", "notify_all", "notify_one"}
    BY DEF Frames
  <2> QED
    BY <2>1, <2>2 DEF Notifying
<1>3. \A j : ~Called(j)
  BY <1>2 DEF Called, CalledIn
<1> QED
  BY <1>2, <1>3 DEF IsCoroutine, CondvarInv, ListOK

\* The running coroutine waits: it is stored once more, and only once.
LEMMA WaitStep ==
  ASSUME CondvarInv, ~Notifying, NEW c \in Coroutines, Wait(c) PROVE CondvarInv'
<1>1. MachineOK /\ stack \in Seq(Frames) /\ handles \in Seq(Coroutines)
  BY DEF CondvarInv, MachineOK, StackOK, ListOK
<1>2. /\ Yield(c, "waiting") /\ timers' = timers /\ handles' = Append(handles, c)
      /\ timers \in SUBSET Coroutines
  BY <1>1 DEF Wait, MachineOK
<1>3. MachineOK' /\ status[c] = "running"
  BY <1>1, <1>2, YieldOK DEF Statuses
<1>4. /\ Len(stack') = Len(stack) - 1
      /\ \A k \in 1 .. Len(stack) - 1 : stack'[k] = stack[k]
  BY <1>1, <1>2, Popped DEF Yield, InCoroutine, Below
<1>5. \A k \in 1 .. Len(stack') : IsCoroutine(stack'[k])
  BY <1>1, <1>4, BetweenNotifications
<1>6. OneNotification' /\ LoopOK' /\ \A j : ~Called(j)'
  BY <1>5 DEF OneNotification, LoopOK, Called, CalledIn, IsCoroutine
<1>7. \A d \in Coroutines : status'[d] = IF d = c THEN "waiting" ELSE status[d]
  BY <1>1, <1>2 DEF Yield, MachineOK
<1>8. /\ handles' \in Seq(Coroutines) /\ Len(handles') = Len(handles) + 1
      /\ handles'[Len(handles) + 1] = c
      /\ \A j \in 1 .. Len(handles) : handles'[j] = handles[j]
  BY <1>1, <1>2, AppendProperties
<1>9. /\ \A j \in 1 .. Len(handles') : j \in 1 .. Len(handles) \/ j = Len(handles) + 1
      /\ \A j \in 1 .. Len(handles) : j \in 1 .. Len(handles')
      /\ Len(handles) + 1 \in 1 .. Len(handles')
  BY <1>1, <1>8
<1>10. \A j \in 1 .. Len(handles) : handles[j] \in Coroutines /\ handles[j] # c
                                 /\ status[handles[j]] = "waiting"
  BY <1>1, <1>3, BetweenNotifications
<1>11. \A j \in 1 .. Len(handles') : status'[handles'[j]] = "waiting"
  BY <1>7, <1>8, <1>9, <1>10
<1>12. \A j, k \in 1 .. Len(handles') : handles'[j] = handles'[k] => j = k
  BY <1>8, <1>9, <1>10 DEF CondvarInv, ListOK
<1>13. \A d \in Coroutines : status'[d] = "waiting" =>
         \E j \in 1 .. Len(handles') : handles'[j] = d
  BY <1>7, <1>8, <1>9 DEF CondvarInv, ListOK
<1>14. ListOK'
  BY <1>6, <1>8, <1>11, <1>12, <1>13 DEF ListOK
<1> QED
  BY <1>3, <1>6, <1>14 DEF CondvarInv

\* After a step, the frame at k is the one of a notification.
LEMMA LoopAt ==
  ASSUME NEW k \in 1 .. Len(stack'), ~IsCoroutine(stack'[k]),
         \A j \in 1 .. Len(stack') : j # k => IsCoroutine(stack'[j])
  PROVE  /\ OneNotification'
         /\ \A j : Called(j)' <=> CalledIn(stack'[k], j)
         /\ (/\ stack'[k].fn = "notify_all" => stack'[k].len = Len(handles') /\ stack'[k].i <= Len(handles')
             /\ stack'[k].fn = "notify_one" => stack'[k].i \in 1 .. Len(handles')) => LoopOK'
<1>1. OneNotification'
  BY DEF OneNotification
<1>2. \A j : Called(j)' <=> CalledIn(stack'[k], j)
  BY DEF Called, CalledIn, IsCoroutine
<1> QED
  BY <1>1, <1>2 DEF LoopOK, IsCoroutine

\* notify_all is called.
LEMMA AllBeginStep ==
  ASSUME CondvarInv, ~Notifying, NotifyAllBegin, UNCHANGED <<timers, handles>>
  PROVE  CondvarInv'
<1> DEFINE f == Frame("notify_all", "none", Len(handles), 0)
<1>1. MachineOK /\ StackOK(stack) /\ stack \in Seq(Frames) /\ handles \in Seq(Coroutines)
      /\ Len(handles) \in Nat
  BY DEF CondvarInv, MachineOK, StackOK, ListOK
<1>2. f \in Frames /\ f.fn = "notify_all" /\ f.len = Len(handles) /\ f.i = 0 /\ ~IsCoroutine(f)
  BY <1>1, FrameType DEF IsCoroutine
<1>3. stack' = Append(stack, f) /\ status' = status /\ failed' = failed /\ timers' = timers
      /\ handles' = handles
  BY DEF NotifyAllBegin
<1> HIDE DEF f
<1>4. MachineOK'
  <2>1. StackOK(Append(stack, f))
    BY <1>1, <1>2, LoopPushed
  <2> QED
    BY <1>1, <1>3, <2>1 DEF MachineOK, StackOK
<1>5. /\ Len(stack') = Len(stack) + 1 /\ stack'[Len(stack) + 1] = f
      /\ \A k \in 1 .. Len(stack) : stack'[k] = stack[k]
  BY <1>1, <1>2, <1>3, Pushed
<1>6. /\ Len(stack) + 1 \in 1 .. Len(stack')
      /\ \A j \in 1 .. Len(stack') : j # Len(stack) + 1 => j \in 1 .. Len(stack)
  BY <1>1, <1>5
<1>7. \A j \in 1 .. Len(stack') : j # Len(stack) + 1 => IsCoroutine(stack'[j])
  BY <1>5, <1>6, BetweenNotifications
<1>8. OneNotification' /\ LoopOK' /\ \A j : Called(j)' <=> CalledIn(f, j)
  BY <1>1, <1>2, <1>3, <1>5, <1>6, <1>7, LoopAt
<1>9. \A j \in 1 .. Len(handles) : ~CalledIn(f, j)
  BY <1>1, <1>2 DEF CalledIn
<1>10. ListOK'
  BY <1>3, <1>8, <1>9, BetweenNotifications DEF CondvarInv, ListOK
<1> QED
  BY <1>4, <1>8, <1>10 DEF CondvarInv

\* A notification with the frame f calls the callback at index j on top of
\* the frames s.
LEMMA CallStep ==
  ASSUME MachineOK, ListOK, NEW s, StackOK(s), NEW f \in Frames, ~IsCoroutine(f),
         \A k \in 1 .. Len(s) : IsCoroutine(s[k]),
         NEW j \in 1 .. Len(handles), status[handles[j]] = "waiting",
         Step(Append(s, f), handles[j]), UNCHANGED <<timers, handles>>,
         \A k \in 1 .. Len(handles) : CalledIn(f, k) <=> Called(k) \/ k = j,
         f.fn = "notify_all" => f.len = Len(handles) /\ f.i <= Len(handles),
         f.fn = "notify_one" => f.i \in 1 .. Len(handles)
  PROVE  CondvarInv'
<1> DEFINE c == handles[j]
           t == Append(s, f)
<1>1. c \in Coroutines /\ s \in Seq(Frames) /\ handles \in Seq(Coroutines)
  BY DEF ListOK, StackOK
<1>2. RunOn(t, c) /\ timers' = timers /\ handles' = handles /\ c \notin timers
  BY DEF Step, Suspended, MachineOK
<1>3. StackOK(t) /\ t \in Seq(Frames) /\ Len(t) = Len(s) + 1 /\ t[Len(s) + 1] = f
      /\ \A k \in 1 .. Len(s) : t[k] = s[k]
  BY <1>1, Pushed, LoopPushed
<1> HIDE DEF t
<1>4. status[c] = "waiting"
  OBVIOUS
<1> HIDE DEF c
<1>5. MachineOK'
  BY <1>1, <1>2, <1>3, <1>4, RunsOK DEF MachineOK
<1>6. /\ stack' = Append(t, CoFrame(c)) /\ CoFrame(c) \in Frames /\ IsCoroutine(CoFrame(c))
      /\ status' = [status EXCEPT ![c] = "running"]
  BY <1>1, <1>2, FrameType DEF RunOn, IsCoroutine
<1>7. /\ Len(stack') = Len(t) + 1 /\ stack'[Len(t) + 1] = CoFrame(c)
      /\ \A k \in 1 .. Len(t) : stack'[k] = t[k]
  BY <1>3, <1>6, Pushed
<1> DEFINE n == Len(s) + 1
<1>8. /\ n \in 1 .. Len(t) /\ n \in 1 .. Len(stack')
      /\ \A k \in 1 .. Len(stack') : k # n => (k \in 1 .. Len(s) /\ k \in 1 .. Len(t)) \/ k = Len(t) + 1
  BY <1>1, <1>3, <1>7
<1>9. stack'[n] = f /\ \A k \in 1 .. Len(stack') : k # n => IsCoroutine(stack'[k])
  BY <1>3, <1>6, <1>7, <1>8
<1> HIDE DEF n
<1>10. OneNotification' /\ LoopOK' /\ \A k : Called(k)' <=> CalledIn(f, k)
  BY <1>2, <1>8, <1>9, LoopAt
<1>11. \A d \in Coroutines : status'[d] = IF d = c THEN "running" ELSE status[d]
  BY <1>6 DEF MachineOK
<1>12. \A k \in 1 .. Len(handles) : handles[k] \in Coroutines /\ (handles[k] = c <=> k = j)
  BY DEF ListOK, c
<1>13. \A k \in 1 .. Len(handles) : Called(k)' <=> status'[handles[k]] # "waiting"
  BY <1>10, <1>11, <1>12 DEF ListOK
<1>14. \A d \in Coroutines : status'[d] = "waiting" => \E k \in 1 .. Len(handles) : handles[k] = d
  BY <1>11 DEF ListOK
<1>15. ListOK'
  BY <1>2, <1>13, <1>14 DEF ListOK
<1> QED
  BY <1>5, <1>10, <1>15 DEF CondvarInv

\* While a notification is on top, the list says what it has called.
LEMMA TopLoop ==
  ASSUME CondvarInv, stack # <<>>, ~IsCoroutine(Top)
  PROVE  /\ Top \in Frames /\ Below \in Seq(Frames) /\ StackOK(Below)
         /\ \A k \in 1 .. Len(Below) : IsCoroutine(Below[k])
         /\ \A j : Called(j) <=> CalledIn(Top, j)
         /\ Top.fn = "notify_all" => Top.len = Len(handles) /\ Top.i <= Len(handles)
         /\ Top.fn = "notify_one" => Top.i \in 1 .. Len(handles)
<1>1. MachineOK /\ StackOK(stack) /\ stack \in Seq(Frames)
  BY DEF CondvarInv, MachineOK, StackOK
<1>2. /\ Below \in Seq(Frames) /\ Len(Below) = Len(stack) - 1 /\ Len(stack) >= 1
      /\ \A k \in 1 .. Len(stack) - 1 : Below[k] = stack[k]
      /\ Top = stack[Len(stack)] /\ Top \in Frames
  BY <1>1, Popped DEF Below, Top
<1>3. StackOK(Below)
  BY <1>1, FrontOK DEF Below
<1>4. /\ Len(stack) \in 1 .. Len(stack)
      /\ \A k \in 1 .. Len(Below) : k \in 1 .. Len(stack) /\ k # Len(stack) /\ Below[k] = stack[k]
  BY <1>1, <1>2
<1>5. \A k \in 1 .. Len(stack) : k # Len(stack) => IsCoroutine(stack[k])
  BY <1>2, <1>4 DEF CondvarInv, OneNotification
<1>6. \A j : Called(j) <=> CalledIn(Top, j)
  BY <1>2, <1>4, <1>5 DEF Called, CalledIn, IsCoroutine
<1>7. /\ Top.fn = "notify_all" => Top.len = Len(handles) /\ Top.i <= Len(handles)
      /\ Top.fn = "notify_one" => Top.i \in 1 .. Len(handles)
  BY <1>2, <1>4 DEF CondvarInv, LoopOK
<1> QED
  BY <1>2, <1>3, <1>4, <1>5, <1>6, <1>7

\* notify_one calls a callback.
LEMMA OneBeginStep ==
  ASSUME CondvarInv, ~Notifying, NotifyOneBegin PROVE CondvarInv'
<1>1. MachineOK /\ StackOK(stack) /\ ListOK /\ handles \in Seq(Coroutines)
  BY DEF CondvarInv, MachineOK, ListOK
<1>2. PICK idx \in 1 .. Len(handles) :
        /\ Step(Append(stack, Frame("notify_one", "none", 0, idx)), handles[idx])
        /\ UNCHANGED <<timers, handles>>
  BY <1>1 DEF NotifyOneBegin
<1> DEFINE f == Frame("notify_one", "none", 0, idx)
<1>3. idx \in Nat /\ f \in Frames /\ f.fn = "notify_one" /\ f.i = idx /\ ~IsCoroutine(f)
  BY <1>1, FrameType DEF IsCoroutine
<1>4. Step(Append(stack, f), handles[idx])
  BY <1>2
<1> HIDE DEF f
<1>5. /\ \A k \in 1 .. Len(stack) : IsCoroutine(stack[k])
      /\ \A k \in 1 .. Len(handles) : CalledIn(f, k) <=> Called(k) \/ k = idx
      /\ status[handles[idx]] = "waiting"
  BY <1>3, BetweenNotifications DEF CalledIn
<1> QED
  BY <1>1, <1>2, <1>3, <1>4, <1>5, CallStep

\* notify_all calls the next callback.
LEMMA AllNextStep ==
  ASSUME CondvarInv, NotifyAllNext PROVE CondvarInv'
<1>1. stack # <<>> /\ ~IsCoroutine(Top) /\ Top.fn = "notify_all"
  BY DEF NotifyAllNext, IsCoroutine
<1>2. /\ Top \in Frames /\ Below \in Seq(Frames) /\ StackOK(Below)
      /\ \A k \in 1 .. Len(Below) : IsCoroutine(Below[k])
      /\ \A j : Called(j) <=> CalledIn(Top, j)
      /\ Top.len = Len(handles) /\ Top.i <= Len(handles)
  BY <1>1, TopLoop
<1>3. MachineOK /\ ListOK /\ handles \in Seq(Coroutines) /\ Len(handles) \in Nat
  BY DEF CondvarInv, ListOK
<1>4. /\ Top.i + 1 <= MinLen(Top.len, Len(handles))
      /\ Step(Append(Below, [Top EXCEPT !.i = @ + 1]), handles[Top.i + 1])
      /\ UNCHANGED <<timers, handles>>
  BY DEF NotifyAllNext
<1> DEFINE f == [Top EXCEPT !.i = @ + 1]
           j == Top.i + 1
<1>5. Top.i \in Nat /\ f \in Frames /\ f.fn = "notify_all" /\ f.len = Top.len /\ f.i = j
  BY <1>1, <1>2 DEF Frames
<1>6. j \in 1 .. Len(handles) /\ f.i <= Len(handles)
  <2>1. j <= Len(handles)
    BY <1>2, <1>4 DEF MinLen
  <2>2. j \in Nat /\ j # 0
    BY <1>5
  <2> QED
    BY <2>1, <2>2, <1>3, <1>5
<1>7. \A k \in 1 .. Len(handles) : CalledIn(f, k) <=> Called(k) \/ k = j
  BY <1>1, <1>2, <1>5 DEF CalledIn
<1>8. ~Called(j)
  BY <1>1, <1>2, <1>5 DEF CalledIn
<1>9. status[handles[j]] = "waiting"
  BY <1>3, <1>6, <1>8 DEF ListOK
<1>10. Step(Append(Below, f), handles[j])
  BY <1>4
<1> HIDE DEF f, j
<1> QED
  BY <1>2, <1>3, <1>4, <1>5, <1>6, <1>7, <1>9, <1>10, CallStep DEF IsCoroutine

\* notify_all ends: it has called everyone, and clears the list.
LEMMA AllEndStep ==
  ASSUME CondvarInv, NotifyAllEnd PROVE CondvarInv'
<1>1. stack # <<>> /\ ~IsCoroutine(Top) /\ Top.fn = "notify_all"
  BY DEF NotifyAllEnd, IsCoroutine
<1>2. /\ Top \in Frames /\ Below \in Seq(Frames) /\ StackOK(Below)
      /\ \A k \in 1 .. Len(Below) : IsCoroutine(Below[k])
      /\ \A j : Called(j) <=> CalledIn(Top, j)
      /\ Top.len = Len(handles) /\ Top.i <= Len(handles)
  BY <1>1, TopLoop
<1>3. MachineOK /\ handles \in Seq(Coroutines) /\ Len(handles) \in Nat
  BY DEF CondvarInv, ListOK
<1>4. Top.i \in Nat /\ Top.i = Len(handles)
  <2>1. Top.i \in Nat
    BY <1>2 DEF Frames
  <2> QED
    BY <2>1, <1>2, <1>3 DEF NotifyAllEnd, MinLen
<1>5. \A c \in Coroutines : status[c] # "waiting"
  BY <1>1, <1>2, <1>3, <1>4 DEF CalledIn, CondvarInv, ListOK
<1>6. /\ stack' = Below /\ status' = status /\ timers' = timers /\ failed' = failed
      /\ handles' = SubSeq(handles, 1, 0)
  BY <1>2, <1>3 DEF NotifyAllEnd
<1>7. handles' = <<>> /\ Len(handles') = 0 /\ handles' \in Seq(Coroutines)
  BY <1>3, <1>6, SubSeqProperties, EmptySeq
<1>8. MachineOK'
  BY <1>2, <1>3, <1>6 DEF MachineOK, StackOK
<1>9. OneNotification' /\ LoopOK'
  BY <1>2, <1>6 DEF OneNotification, LoopOK, IsCoroutine
<1>10. ListOK'
  BY <1>5, <1>6, <1>7 DEF ListOK
<1> QED
  BY <1>8, <1>9, <1>10 DEF CondvarInv

\* What table.remove leaves.
LEMMA Removed ==
  ASSUME NEW s \in Seq(Coroutines), NEW i \in 1 .. Len(s)
  PROVE  /\ RemoveAt(s, i) \in Seq(Coroutines) /\ Len(RemoveAt(s, i)) = Len(s) - 1
         /\ \A k \in 1 .. Len(s) - 1 : RemoveAt(s, i)[k] = IF k < i THEN s[k] ELSE s[k + 1]
<1>1. Len(s) \in Nat /\ i \in Nat /\ i - 1 \in 0 .. Len(s)
  OBVIOUS
<1> DEFINE a == SubSeq(s, 1, i - 1)
           b == SubSeq(s, i + 1, Len(s))
<1>2. /\ a \in Seq(Coroutines) /\ Len(a) = i - 1
      /\ \A k \in 1 .. i - 1 : a[k] = s[k]
  BY <1>1, SubSeqProperties
<1>3. /\ b \in Seq(Coroutines) /\ Len(b) = Len(s) - i
      /\ \A k \in 1 .. Len(s) - i : b[k] = s[i + k]
  BY <1>1, SubSeqProperties
<1>4. RemoveAt(s, i) = a \o b
  BY DEF RemoveAt
<1> HIDE DEF a, b
<1>5. /\ a \o b \in Seq(Coroutines) /\ Len(a \o b) = Len(a) + Len(b)
      /\ \A k \in 1 .. Len(a) + Len(b) : (a \o b)[k] = IF k <= Len(a) THEN a[k] ELSE b[k - Len(a)]
  BY <1>2, <1>3, ConcatProperties
<1>6. ASSUME NEW k \in 1 .. Len(s) - 1
      PROVE  (a \o b)[k] = IF k < i THEN s[k] ELSE s[k + 1]
  <2>1. CASE k < i
    BY <1>1, <1>2, <1>3, <1>5, <2>1
  <2>2. CASE ~(k < i)
    <3> DEFINE m == k - (i - 1)
    <3>1. /\ m \in 1 .. Len(s) - i /\ i + m = k + 1 /\ m = k - Len(a) /\ ~(k <= Len(a))
          /\ k \in 1 .. Len(a) + Len(b)
      BY <1>1, <1>2, <1>3, <2>2
    <3> HIDE DEF m
    <3>2. (a \o b)[k] = b[m] /\ b[m] = s[k + 1]
      BY <1>3, <1>5, <3>1
    <3> QED
      BY <2>2, <3>2
  <2> QED
    BY <2>1, <2>2
<1> QED
  BY <1>1, <1>2, <1>3, <1>4, <1>5, <1>6

\* notify_one ends: the callback it called leaves the list.
LEMMA OneEndStep ==
  ASSUME CondvarInv, NotifyOneEnd PROVE CondvarInv'
<1>1. stack # <<>> /\ ~IsCoroutine(Top) /\ Top.fn = "notify_one"
  BY DEF NotifyOneEnd, IsCoroutine
<1> DEFINE i == Top.i
<1>2. /\ Below \in Seq(Frames) /\ StackOK(Below)
      /\ \A k \in 1 .. Len(Below) : IsCoroutine(Below[k])
      /\ \A j : Called(j) <=> j = i
      /\ i \in 1 .. Len(handles)
  BY <1>1, TopLoop DEF CalledIn
<1>3. MachineOK /\ handles \in Seq(Coroutines) /\ Len(handles) \in Nat
  BY DEF CondvarInv, ListOK
<1>4. /\ stack' = Below /\ status' = status /\ timers' = timers /\ failed' = failed
      /\ handles' = RemoveAt(handles, i)
  BY <1>2, <1>3 DEF NotifyOneEnd
<1> HIDE DEF i
<1>5. /\ handles' \in Seq(Coroutines) /\ Len(handles') = Len(handles) - 1
      /\ \A k \in 1 .. Len(handles) - 1 :
           handles'[k] = IF k < i THEN handles[k] ELSE handles[k + 1]
  BY <1>2, <1>3, <1>4, Removed
<1>6. MachineOK'
  BY <1>2, <1>3, <1>4 DEF MachineOK, StackOK
<1>7. OneNotification' /\ LoopOK' /\ \A j : ~Called(j)'
  BY <1>2, <1>4 DEF OneNotification, LoopOK, IsCoroutine, Called, CalledIn
<1> DEFINE from(k) == IF k < i THEN k ELSE k + 1
<1>8. \A k \in 1 .. Len(handles') :
        from(k) \in 1 .. Len(handles) /\ from(k) # i /\ handles'[k] = handles[from(k)]
  BY <1>2, <1>3, <1>5
<1>9. \A j, k \in 1 .. Len(handles') : from(j) = from(k) => j = k
  BY <1>2, <1>3, <1>5
<1>10. \A j \in 1 .. Len(handles) : j # i => \E k \in 1 .. Len(handles') : from(k) = j
  <2> SUFFICES ASSUME NEW j \in 1 .. Len(handles), j # i
               PROVE  \E k \in 1 .. Len(handles') : from(k) = j
    OBVIOUS
  <2>1. CASE j < i
    <3>1. j \in 1 .. Len(handles') /\ from(j) = j
      BY <1>2, <1>3, <1>5, <2>1
    <3> QED
      BY <3>1
  <2>2. CASE j > i
    <3>1. j - 1 \in 1 .. Len(handles') /\ from(j - 1) = j
      BY <1>2, <1>3, <1>5, <2>2
    <3> QED
      BY <3>1
  <2> QED
    BY <1>2, <1>3, <2>1, <2>2
<1> HIDE DEF from
<1>11. /\ \A j, k \in 1 .. Len(handles) : handles[j] = handles[k] => j = k
       /\ \A j \in 1 .. Len(handles) : j = i <=> status[handles[j]] # "waiting"
       /\ \A c \in Coroutines : status[c] = "waiting" => \E j \in 1 .. Len(handles) : handles[j] = c
  BY <1>2 DEF CondvarInv, ListOK
<1>12. \A j, k \in 1 .. Len(handles') : handles'[j] = handles'[k] => j = k
  BY <1>8, <1>9, <1>11
<1>13. \A k \in 1 .. Len(handles') : status'[handles'[k]] = "waiting"
  BY <1>4, <1>8, <1>11
<1>14. \A c \in Coroutines : status'[c] = "waiting" => \E k \in 1 .. Len(handles') : handles'[k] = c
  <2> SUFFICES ASSUME NEW c \in Coroutines, status'[c] = "waiting"
               PROVE  \E k \in 1 .. Len(handles') : handles'[k] = c
    OBVIOUS
  <2>1. PICK j \in 1 .. Len(handles) : handles[j] = c
    BY <1>4, <1>11
  <2>2. j # i
    BY <1>4, <1>11, <2>1
  <2>3. PICK k \in 1 .. Len(handles') : from(k) = j
    BY <1>10, <2>2
  <2> QED
    BY <1>8, <2>1, <2>3
<1>15. ListOK'
  BY <1>5, <1>7, <1>12, <1>13, <1>14 DEF ListOK
<1> QED
  BY <1>6, <1>7, <1>15 DEF CondvarInv

-----------------------------------------------------------------------------

\* It holds at the start,
LEMMA CondvarInitInv == CondvarInit => CondvarInv
<1> SUFFICES ASSUME CondvarInit PROVE CondvarInv
  OBVIOUS
<1>1. /\ stack = <<>> /\ stack \in Seq(Frames) /\ Len(stack) = 0
      /\ status = [c \in Coroutines |-> "new"] /\ timers = {} /\ failed = FALSE
      /\ handles = <<>> /\ handles \in Seq(Coroutines) /\ Len(handles) = 0
  BY EmptySeq DEF CondvarInit, AsyncInit
<1>2. MachineOK
  BY <1>1 DEF MachineOK, StackOK, Statuses
<1> QED
  BY <1>1, <1>2 DEF CondvarInv, OneNotification, LoopOK, ListOK

\* and every step of coroutines that keep the discipline preserves it.
LEMMA CondvarNextInv ==
  ASSUME WaitInside = FALSE, NotifyInside = FALSE, CondvarInv, [CondvarNext]_condvarVars
  PROVE  CondvarInv'
<1>1. CASE UNCHANGED condvarVars
  BY <1>1 DEF condvarVars, asyncVars, CondvarInv, MachineOK, StackOK, OneNotification, LoopOK,
              ListOK, Called
<1>2. ASSUME NEW c \in Coroutines, (Execute(c) \/ TimerFires(c)) /\ UNCHANGED handles
      PROVE  CondvarInv'
  BY <1>2, DispatchStep
<1>3. ASSUME NEW c \in Coroutines, CoroutineStep(c)
      PROVE  CondvarInv'
  BY <1>3, SuspendStep, WaitStep DEF CoroutineStep
<1>4. CASE Notify
  BY <1>4, AllBeginStep, OneBeginStep DEF Notify
<1>5. CASE NotifyStep
  BY <1>5, AllNextStep, AllEndStep, OneEndStep DEF NotifyStep
<1> QED
  BY <1>1, <1>2, <1>3, <1>4, <1>5 DEF CondvarNext

\* When control is back at the event loop the list is exactly the set of
\* coroutines blocked in wait.
LEMMA AtTheEventLoop ==
  ASSUME CondvarInv PROVE WaitersRegistered /\ HandlesLive /\ NoFailure
<1>1. NoFailure
  BY DEF CondvarInv, MachineOK, NoFailure
<1>2. handles \in Seq(Coroutines) /\ DOMAIN handles = 1 .. Len(handles)
  BY DEF CondvarInv, ListOK
<1>3. WaitersRegistered
  BY <1>2 DEF WaitersRegistered, CondvarInv, ListOK, Range
<1>4. ASSUME EventLoop
      PROVE  /\ \A k \in DOMAIN handles : status[handles[k]] = "waiting"
             /\ IsInjective(handles)
  <2>1. ~Notifying
    BY <1>4, EmptySeq DEF EventLoop, Notifying
  <2>2. \A k \in 1 .. Len(handles) : status[handles[k]] = "waiting"
    BY <2>1, BetweenNotifications
  <2> QED
    BY <1>2, <2>2 DEF CondvarInv, ListOK, IsInjective
<1> QED
  BY <1>1, <1>3, <1>4 DEF HandlesLive

\* No wakeup is lost, no callback is left behind and none resumes what cannot
\* be resumed, whatever the number of coroutines and the depth of their
\* calls, if they wait and notify only while no notification is delivered.
THEOREM CondvarSafe ==
  ASSUME WaitInside = FALSE, NotifyInside = FALSE
  PROVE  CondvarSpec => [](WaitersRegistered /\ HandlesLive /\ NoFailure)
<1>1. CondvarInit => CondvarInv
  BY CondvarInitInv
<1>2. CondvarInv /\ [CondvarNext]_condvarVars => CondvarInv'
  BY CondvarNextInv
<1>3. CondvarInv => WaitersRegistered /\ HandlesLive /\ NoFailure
  BY AtTheEventLoop
<1> QED
  BY <1>1, <1>2, <1>3, PTL DEF CondvarSpec

-----------------------------------------------------------------------------
(* The channel.                                                            *)

\* The oldest message is at last; what is between the indices are the newest
\* messages in the order of their numbers.
DequeOK ==
  /\ sent \in Nat
  /\ deque.first \in Int /\ deque.last \in Int
  /\ DequeLen(deque) \in 0 .. sent
  /\ deque = [first |-> deque.first, last |-> deque.last, at |-> deque.at]
  /\ deque.at = [k \in deque.first .. deque.last |-> sent - (k - deque.first)]

Receiving == pc \in {"recv", "last"}
Blocked == status[Receiver] = "waiting"

\* How many callbacks are stored when n of them were called.
Registered(n) == Len(handles) = IF Blocked THEN n + 1 ELSE n

\* A loop of notify_all is about to call the one callback there is,
AboutToCall(f) ==
  f.len = 1 /\ f.i = 0 /\ Len(handles) = 1 /\ Blocked /\ DequeLen(deque) # 0

\* (is there such a loop)
CallDue == \E k \in 1 .. Len(stack) : ~IsCoroutine(stack[k]) /\ AboutToCall(stack[k])

\* or it has called all there were when it began.
HasCalled(f) == f.len = f.i /\ Registered(f.i)

\* Only the receiver waits. When there is something to take it is not blocked,
\* unless a loop is about to call it; and it is not called for nothing.
ReceiverOK ==
  /\ \A c \in Coroutines : status[c] = "waiting" => c = Receiver
  /\ pc \in {"call", "recv", "last", "handle"}
  /\ Blocked => Receiving
  /\ Receiving => Blocked \/ (status[Receiver] = "running" /\ DequeLen(deque) # 0)
  /\ Blocked /\ DequeLen(deque) # 0 => CallDue

CallbacksOK ==
  /\ handles \in Seq({Receiver})
  /\ \A k \in 1 .. Len(stack) : ~IsCoroutine(stack[k]) =>
       stack[k].fn = "notify_all" /\ (AboutToCall(stack[k]) \/ HasCalled(stack[k]))
  /\ (\A k \in 1 .. Len(stack) : IsCoroutine(stack[k])) => Registered(0)

ChannelInv == MachineOK /\ OneNotification /\ DequeOK /\ ReceiverOK /\ CallbacksOK

-----------------------------------------------------------------------------
(* The deque.                                                              *)

\* pushleft adds the next message at first - 1.
LEMMA DequePush ==
  ASSUME DequeOK, sent' = sent + 1, deque' = PushLeft(deque, sent + 1)
  PROVE  /\ DequeOK' /\ DequeLen(deque') = DequeLen(deque) + 1 /\ DequeLen(deque') # 0
         /\ deque'.last = deque.last
<1> DEFINE a == deque.first
           b == deque.last
<1>1. /\ a \in Int /\ b \in Int /\ sent \in Nat /\ b - a + 1 \in 0 .. sent
      /\ deque = [first |-> a, last |-> b, at |-> deque.at]
      /\ deque.at = [k \in a .. b |-> sent - (k - a)]
  BY DEF DequeOK, DequeLen
<1>2. deque'.first = a - 1 /\ deque'.last = b /\ deque'.at = Stored(deque.at, a - 1, sent + 1)
      /\ deque' = [first |-> a - 1, last |-> b, at |-> deque'.at]
  BY <1>1 DEF PushLeft
<1>3. deque'.at = [k \in a - 1 .. b |-> sent' - (k - (a - 1))]
  <2>1. deque'.at = [k \in DOMAIN deque.at \cup {a - 1} |->
                       IF k = a - 1 THEN sent + 1 ELSE deque.at[k]]
    BY <1>2 DEF Stored
  <2>2. (a .. b) \cup {a - 1} = a - 1 .. b
    BY <1>1
  <2>3. \A k \in a - 1 .. b :
          (IF k = a - 1 THEN sent + 1 ELSE deque.at[k]) = sent' - (k - (a - 1))
    BY <1>1
  <2>4. DOMAIN deque.at \cup {a - 1} = a - 1 .. b
    BY <1>1, <2>2
  <2> QED
    BY <2>1, <2>3, <2>4
<1>4. b - (a - 1) + 1 = (b - a + 1) + 1 /\ b - (a - 1) + 1 \in 0 .. sent' /\ a - 1 \in Int
      /\ sent' \in Nat /\ b - (a - 1) + 1 # 0
  BY <1>1
<1> QED
  BY <1>1, <1>2, <1>3, <1>4 DEF DequeOK, DequeLen

\* popright takes the message at last, the oldest one.
LEMMA DequePop ==
  ASSUME DequeOK, DequeLen(deque) # 0, sent' = sent, deque' = PopRight(deque)
  PROVE  /\ DequeOK' /\ DequeLen(deque') = DequeLen(deque) - 1
         /\ deque'.last = deque.last - 1
<1> DEFINE a == deque.first
           b == deque.last
<1>1. /\ a \in Int /\ b \in Int /\ sent \in Nat /\ b - a + 1 \in 0 .. sent /\ b - a + 1 # 0
      /\ deque = [first |-> a, last |-> b, at |-> deque.at]
      /\ deque.at = [k \in a .. b |-> sent - (k - a)]
  BY DEF DequeOK, DequeLen
<1>2. deque'.first = a /\ deque'.last = b - 1
      /\ deque'.at = [k \in DOMAIN deque.at \ {b} |-> deque.at[k]]
      /\ deque' = [first |-> a, last |-> b - 1, at |-> deque'.at]
  BY <1>1 DEF PopRight
<1>3. deque'.at = [k \in a .. b - 1 |-> sent' - (k - a)]
  <2>1. (a .. b) \ {b} = a .. b - 1
    BY <1>1
  <2>2. DOMAIN deque.at \ {b} = a .. b - 1
    BY <1>1, <2>1
  <2>3. \A k \in a .. b - 1 : deque.at[k] = sent' - (k - a)
    BY <1>1
  <2> QED
    BY <1>2, <2>2, <2>3
<1>4. b - 1 - a + 1 = (b - a + 1) - 1 /\ b - 1 - a + 1 \in 0 .. sent' /\ b - 1 \in Int
      /\ sent' \in Nat
  BY <1>1
<1> QED
  BY <1>1, <1>2, <1>3, <1>4 DEF DequeOK, DequeLen

\* clear makes it a deque without messages.
LEMMA DequeClear ==
  ASSUME sent' \in Nat, deque' = EmptyDeque
  PROVE  DequeOK' /\ DequeLen(deque') = 0
<1>1. deque'.first = 0 /\ deque'.last = -1 /\ deque'.at = <<>>
      /\ deque' = [first |-> deque'.first, last |-> deque'.last, at |-> deque'.at]
  BY DEF EmptyDeque
<1>2. -1 \in Int /\ -1 - 0 + 1 = 0 /\ 0 .. -1 = {}
  OBVIOUS
<1>3. deque'.at = [k \in deque'.first .. deque'.last |-> sent' - (k - deque'.first)]
  BY <1>1, <1>2
<1> QED
  BY <1>1, <1>2, <1>3 DEF DequeOK, DequeLen

-----------------------------------------------------------------------------
(* The channel.                                                            *)

\* A step that leaves the loops and the callbacks alone.
LEMMA LoopsKept ==
  ASSUME OneNotification, CallbacksOK, handles' = handles,
         \A k \in 1 .. Len(stack') : ~IsCoroutine(stack'[k]) =>
           k \in 1 .. Len(stack) /\ stack'[k] = stack[k],
         \A k \in 1 .. Len(stack) : ~IsCoroutine(stack[k]) =>
           k \in 1 .. Len(stack') /\ stack'[k] = stack[k],
         Blocked' <=> Blocked,
         Blocked => DequeLen(deque') = DequeLen(deque)
  PROVE  OneNotification' /\ CallbacksOK' /\ (CallDue => CallDue')
<1>1. OneNotification'
  BY DEF OneNotification
<1>2. \A f : AboutToCall(f)' <=> AboutToCall(f)
  BY DEF AboutToCall
<1>3. \A f : HasCalled(f)' <=> HasCalled(f)
  BY DEF HasCalled, Registered
<1>4. Registered(0)' <=> Registered(0)
  BY DEF Registered
<1>5. CallbacksOK'
  BY <1>2, <1>3, <1>4 DEF CallbacksOK
<1>6. CallDue => CallDue'
  BY <1>2 DEF CallDue
<1> QED
  BY <1>1, <1>5, <1>6

\* A coroutine starts, or wakes up from a sleep; a blocked receiver does not.
LEMMA ChannelDispatch ==
  ASSUME ChannelInv, NEW c \in Coroutines, Dispatch(c) PROVE ChannelInv'
<1>1. MachineOK /\ StackOK(stack) /\ stack \in Seq(Frames)
  BY DEF ChannelInv, MachineOK, StackOK
<1>2. /\ status[c] \in {"new", "sleeping"} /\ RunOn(stack, c)
      /\ timers' \in SUBSET timers /\ c \notin timers'
      /\ handles' = handles /\ deque' = deque /\ sent' = sent /\ pc' = pc
  BY <1>1 DEF Dispatch, Execute, TimerFires, MachineOK, Step, Suspended
<1>3. MachineOK'
  BY <1>1, <1>2, RunsOK
<1>4. /\ Len(stack') = Len(stack) + 1 /\ IsCoroutine(stack'[Len(stack) + 1])
      /\ \A k \in 1 .. Len(stack) : stack'[k] = stack[k]
  BY <1>1, <1>2, Pushed, FrameType DEF RunOn, IsCoroutine
<1>5. \A d \in Coroutines : status'[d] = IF d = c THEN "running" ELSE status[d]
  BY <1>1, <1>2 DEF RunOn, MachineOK
<1>6. \A k \in 1 .. Len(stack') : k \in 1 .. Len(stack) \/ k = Len(stack) + 1
  BY <1>1, <1>4
<1>7. \A k \in 1 .. Len(stack) : k \in 1 .. Len(stack')
  BY <1>1, <1>4
<1>8. Blocked' <=> Blocked
  BY <1>2, <1>5, ReceiverAssumption DEF Blocked
<1>9. OneNotification' /\ CallbacksOK' /\ (CallDue => CallDue')
  BY <1>2, <1>4, <1>6, <1>7, <1>8, LoopsKept DEF ChannelInv
<1>10. ReceiverOK'
  BY <1>2, <1>5, <1>8, <1>9, ReceiverAssumption DEF ChannelInv, ReceiverOK, Receiving, Blocked
<1>11. DequeOK'
  BY <1>2 DEF ChannelInv, DequeOK
<1> QED
  BY <1>3, <1>9, <1>10, <1>11 DEF ChannelInv

\* A coroutine leaves the stack, for a sleep or for good: the machine and the
\* loops are as they were.
LEMMA SuspendsOrReturns ==
  ASSUME MachineOK, OneNotification, CallbacksOK, NEW c \in Coroutines,
         Sleep(c) \/ Return(c), handles' = handles, deque' = deque
  PROVE  /\ MachineOK' /\ OneNotification' /\ CallbacksOK' /\ (CallDue => CallDue')
         /\ status[c] = "running"
         /\ \A d \in Coroutines : d # c => status'[d] = status[d]
         /\ status'[c] \in {"sleeping", "dead"}
<1>1. stack \in Seq(Frames)
  BY DEF MachineOK, StackOK
<1>2. PICK why \in {"sleeping", "dead"} :
        /\ Yield(c, why)
        /\ timers' \in SUBSET Coroutines
        /\ \A d \in timers' : d \in timers \/ (d = c /\ why = "sleeping")
  BY <1>1 DEF Sleep, Return, MachineOK
<1>3. MachineOK' /\ status[c] = "running"
  BY <1>1, <1>2, YieldOK DEF Statuses
<1>4. /\ Len(stack') = Len(stack) - 1 /\ Len(stack) >= 1 /\ IsCoroutine(stack[Len(stack)])
      /\ \A k \in 1 .. Len(stack) - 1 : stack'[k] = stack[k]
  BY <1>1, <1>2, Popped, FrameType DEF Yield, InCoroutine, Top, Below, IsCoroutine
<1>5. \A d \in Coroutines : status'[d] = IF d = c THEN why ELSE status[d]
  BY <1>1, <1>2 DEF Yield, MachineOK
<1>6. /\ \A k \in 1 .. Len(stack') : k \in 1 .. Len(stack) /\ k \in 1 .. Len(stack) - 1
      /\ \A k \in 1 .. Len(stack) : k # Len(stack) => k \in 1 .. Len(stack')
                                                  /\ k \in 1 .. Len(stack) - 1
  BY <1>1, <1>4
<1>7. Blocked' <=> Blocked
  BY <1>3, <1>5, ReceiverAssumption DEF Blocked
<1>8. OneNotification' /\ CallbacksOK' /\ (CallDue => CallDue')
  BY <1>4, <1>6, <1>7, LoopsKept
<1> QED
  BY <1>2, <1>3, <1>5, <1>8

\* A sender sleeps or returns.
LEMMA ChannelSender ==
  ASSUME ChannelInv, NEW c \in Coroutines, SenderStep(c) PROVE ChannelInv'
<1>1. /\ (Sleep(c) \/ Return(c)) /\ c # Receiver
      /\ handles' = handles /\ deque' = deque /\ sent' = sent /\ pc' = pc
  BY DEF SenderStep
<1>2. /\ MachineOK' /\ OneNotification' /\ CallbacksOK' /\ (CallDue => CallDue')
      /\ \A d \in Coroutines : d # c => status'[d] = status[d]
      /\ status'[c] # "waiting"
  BY <1>1, SuspendsOrReturns DEF ChannelInv
<1>3. ReceiverOK'
  <2>1. status'[Receiver] = status[Receiver]
    BY <1>1, <1>2, ReceiverAssumption DEF SenderStep
  <2>2. \A d \in Coroutines : status'[d] = "waiting" => d = Receiver
    BY <1>2 DEF ChannelInv, ReceiverOK
  <2> QED
    BY <1>1, <1>2, <2>1, <2>2 DEF ChannelInv, ReceiverOK, Receiving, Blocked
<1>4. DequeOK'
  BY <1>1 DEF ChannelInv, DequeOK
<1> QED
  BY <1>2, <1>3, <1>4 DEF ChannelInv

\* The coroutine that executes is marked as running.
LEMMA Executing ==
  ASSUME MachineOK, NEW c \in Coroutines, InCoroutine(c) PROVE status[c] = "running"
<1>1. stack \in Seq(Frames) /\ stack # <<>> /\ Last(stack) = CoFrame(c)
  BY DEF MachineOK, StackOK, InCoroutine, Top
<1>2. Len(stack) \in 1 .. Len(stack) /\ stack[Len(stack)] = CoFrame(c)
  BY <1>1, Popped
<1> QED
  BY <1>2, FrameType DEF MachineOK, StackOK, IsCoroutine

\* The receiver calls again, at once or after a sleep.
LEMMA ChannelCallAgain ==
  ASSUME ChannelInv, CallAgain PROVE ChannelInv'
<1>1. /\ InCoroutine(Receiver) /\ pc = "handle" /\ pc' = "call"
      /\ handles' = handles /\ deque' = deque /\ sent' = sent
      /\ Sleep(Receiver) \/ UNCHANGED asyncVars
  BY DEF CallAgain
<1>2. status[Receiver] = "running"
  BY <1>1, Executing, ReceiverAssumption DEF ChannelInv
<1>3. /\ MachineOK' /\ OneNotification' /\ CallbacksOK'
      /\ \A d \in Coroutines : d # Receiver => status'[d] = status[d]
      /\ status'[Receiver] # "waiting"
  <2>1. CASE Sleep(Receiver)
    BY <1>1, <2>1, SuspendsOrReturns, ReceiverAssumption DEF ChannelInv
  <2>2. CASE UNCHANGED asyncVars
    <3>1. stack' = stack /\ status' = status /\ timers' = timers /\ failed' = failed
      BY <2>2 DEF asyncVars
    <3>2. OneNotification' /\ CallbacksOK'
      BY <1>1, <3>1, LoopsKept DEF ChannelInv, Blocked
    <3>3. MachineOK'
      BY <3>1 DEF ChannelInv, MachineOK, StackOK
    <3> QED
      BY <1>2, <3>1, <3>2, <3>3
  <2> QED
    BY <1>1, <2>1, <2>2
<1>4. ReceiverOK'
  BY <1>1, <1>3 DEF ChannelInv, ReceiverOK, Receiving, Blocked
<1>5. DequeOK'
  BY <1>1 DEF ChannelInv, DequeOK
<1> QED
  BY <1>3, <1>4, <1>5 DEF ChannelInv

\* recv and last find a message when they go on.
LEMMA SomethingToTake ==
  ASSUME ChannelInv, NEW m \in {"recv", "last"}, Resumed(m)
  PROVE  DequeLen(deque) # 0 /\ status[Receiver] = "running"
<1>1. status[Receiver] = "running"
  BY Executing, ReceiverAssumption DEF ChannelInv, Resumed
<1> QED
  BY <1>1 DEF ChannelInv, ReceiverOK, Resumed, Receiving, Blocked

\* They take it: the error path of recv is never taken.
LEMMA ChannelTake ==
  ASSUME ChannelInv, Recv \/ TakeLast PROVE ChannelInv'
<1>1. DequeLen(deque) # 0 /\ status[Receiver] = "running"
  BY SomethingToTake DEF Recv, TakeLast
<1>2. /\ stack' = stack /\ status' = status /\ timers' = timers /\ failed' = failed
      /\ handles' = handles /\ sent' = sent /\ pc' = "handle"
      /\ deque' = PopRight(deque) \/ deque' = EmptyDeque
  BY <1>1 DEF Recv, TakeLast, asyncVars
<1>3. DequeOK'
  <2>1. sent' \in Nat
    BY <1>2 DEF ChannelInv, DequeOK
  <2> QED
    BY <1>1, <1>2, <2>1, DequePop, DequeClear DEF ChannelInv
<1>4. OneNotification' /\ CallbacksOK'
  BY <1>1, <1>2, LoopsKept DEF ChannelInv, Blocked
<1>5. MachineOK'
  BY <1>2 DEF ChannelInv, MachineOK, StackOK
<1>6. ReceiverOK'
  BY <1>1, <1>2 DEF ChannelInv, ReceiverOK, Receiving, Blocked
<1> QED
  BY <1>3, <1>4, <1>5, <1>6 DEF ChannelInv

\* The receiver finds nothing and waits: one callback more, to be called by
\* the next notification.
LEMMA ChannelBlocks ==
  ASSUME ChannelInv, NEW m \in {"recv", "last"}, ReceiveBlocks(m) PROVE ChannelInv'
<1>1. /\ stack \in Seq(Frames) /\ handles \in Seq({Receiver}) /\ MachineOK
      /\ Len(handles) \in Nat
  BY DEF ChannelInv, MachineOK, StackOK, CallbacksOK
<1>2. /\ InCoroutine(Receiver) /\ DequeLen(deque) = 0 /\ Yield(Receiver, "waiting")
      /\ handles' = Append(handles, Receiver) /\ timers' = timers
      /\ deque' = deque /\ sent' = sent /\ pc' = m /\ timers \in SUBSET Coroutines
  BY <1>1 DEF ReceiveBlocks, Wait, MachineOK
<1>3. MachineOK' /\ status[Receiver] = "running"
  BY <1>1, <1>2, YieldOK, ReceiverAssumption DEF Statuses
<1>4. /\ Len(stack') = Len(stack) - 1 /\ Len(stack) >= 1 /\ IsCoroutine(stack[Len(stack)])
      /\ \A k \in 1 .. Len(stack) - 1 : stack'[k] = stack[k]
  BY <1>1, <1>2, Popped, FrameType, ReceiverAssumption
     DEF Yield, InCoroutine, Top, Below, IsCoroutine
<1>5. \A d \in Coroutines : status'[d] = IF d = Receiver THEN "waiting" ELSE status[d]
  BY <1>1, <1>2 DEF Yield, MachineOK
<1>6. /\ \A k \in 1 .. Len(stack') : k \in 1 .. Len(stack) /\ stack'[k] = stack[k]
      /\ \A k \in 1 .. Len(stack) : k # Len(stack) => k \in 1 .. Len(stack')
                                                  /\ stack'[k] = stack[k]
  BY <1>1, <1>4
<1>7. handles' \in Seq({Receiver}) /\ Len(handles') = Len(handles) + 1
  BY <1>1, <1>2, AppendProperties
<1>8. Blocked' /\ ~Blocked
  BY <1>3, <1>5, ReceiverAssumption DEF Blocked
<1>9. \A n : Registered(n) => Registered(n)'
  BY <1>1, <1>7, <1>8 DEF Registered
<1>10. \A f : HasCalled(f) => HasCalled(f)'
  BY <1>9 DEF HasCalled
<1>11. OneNotification'
  BY <1>6 DEF ChannelInv, OneNotification
<1>12. CallbacksOK'
  <2>1. \A f : ~AboutToCall(f)
    BY <1>2 DEF AboutToCall
  <2>2. ASSUME NEW k \in 1 .. Len(stack'), ~IsCoroutine(stack'[k])
        PROVE  stack'[k].fn = "notify_all" /\ HasCalled(stack[k])' /\ stack'[k] = stack[k]
    BY <1>6, <1>10, <2>1, <2>2 DEF ChannelInv, CallbacksOK
  <2>3. \A k \in 1 .. Len(stack') : ~IsCoroutine(stack'[k]) =>
          stack'[k].fn = "notify_all" /\ (AboutToCall(stack[k]) \/ HasCalled(stack[k]))'
    BY <2>2 DEF HasCalled
  <2>4. ASSUME \A k \in 1 .. Len(stack') : IsCoroutine(stack'[k])
        PROVE  Registered(0)'
    BY <1>4, <1>6, <1>9, <2>4 DEF ChannelInv, CallbacksOK
  <2> QED
    BY <1>7, <2>3, <2>4 DEF CallbacksOK
<1>13. ReceiverOK'
  BY <1>2, <1>5, <1>8, ReceiverAssumption DEF ChannelInv, ReceiverOK, Receiving, Blocked
<1>14. DequeOK'
  BY <1>2 DEF ChannelInv, DequeOK
<1> QED
  BY <1>3, <1>11, <1>12, <1>13, <1>14 DEF ChannelInv

\* Between notifications there are coroutines only, and the receiver is
\* registered once if it is blocked.
LEMMA NobodyNotifies ==
  ASSUME ChannelInv, ~Notifying
  PROVE  (\A k \in 1 .. Len(stack) : IsCoroutine(stack[k])) /\ Registered(0)
<1>1. stack \in Seq(Frames)
  BY DEF ChannelInv, MachineOK, StackOK
<1>2. DOMAIN stack = 1 .. Len(stack) /\ \A k \in 1 .. Len(stack) : stack[k] \in Frames
  BY <1>1
<1>3. \A f \in Frames : f.fn \in {"coroutine", "notify_all", "notify_one"}
  BY DEF Frames
<1> QED
  BY <1>2, <1>3 DEF Notifying, IsCoroutine, ChannelInv, CallbacksOK

\* The one notification on the stack, after a step.
LEMMA OneLoop ==
  ASSUME NEW k \in 1 .. Len(stack'), NEW f, stack'[k] = f, f.fn = "notify_all",
         \A j \in 1 .. Len(stack') : j # k => IsCoroutine(stack'[j]),
         handles' \in Seq({Receiver}), AboutToCall(f)' \/ HasCalled(f)'
  PROVE  OneNotification' /\ CallbacksOK' /\ (AboutToCall(f)' => CallDue')
<1>1. ~IsCoroutine(stack'[k])
  BY DEF IsCoroutine
<1>2. OneNotification'
  BY DEF OneNotification
<1>3. AboutToCall(f)' => CallDue'
  BY <1>1 DEF CallDue, AboutToCall
<1>4. \A j \in 1 .. Len(stack') : ~IsCoroutine(stack'[j]) =>
        stack'[j].fn = "notify_all" /\ (AboutToCall(stack[j]) \/ HasCalled(stack[j]))'
  BY DEF AboutToCall, HasCalled
<1>5. CallbacksOK'
  BY <1>1, <1>4 DEF CallbacksOK
<1> QED
  BY <1>2, <1>3, <1>5

\* A message is sent: if the receiver is blocked, the loop that begins is
\* about to call it.
LEMMA ChannelSend ==
  ASSUME SendInside = FALSE, ChannelInv, Send PROVE ChannelInv'
<1>0. PICK f : f = Frame("notify_all", "none", Len(handles), 0)
  OBVIOUS
<1>a. (\A k \in 1 .. Len(stack) : IsCoroutine(stack[k])) /\ Registered(0)
  BY NobodyNotifies DEF Send
<1>1. /\ MachineOK /\ StackOK(stack) /\ stack \in Seq(Frames)
      /\ handles \in Seq({Receiver}) /\ Len(handles) \in Nat /\ Registered(0)
      /\ \A k \in 1 .. Len(stack) : IsCoroutine(stack[k])
  BY <1>a DEF ChannelInv, MachineOK, StackOK, CallbacksOK
<1>2. f \in Frames /\ f.fn = "notify_all" /\ f.len = Len(handles) /\ f.i = 0 /\ ~IsCoroutine(f)
  BY <1>0, <1>1, FrameType DEF IsCoroutine
<1>3. /\ stack' = Append(stack, f) /\ status' = status /\ failed' = failed /\ timers' = timers
      /\ handles' = handles /\ pc' = pc
      /\ sent' = sent + 1 /\ deque' = PushLeft(deque, sent + 1)
  BY <1>0 DEF Send, NotifyAllBegin
<1>4. DequeOK' /\ DequeLen(deque') # 0
  BY <1>3, DequePush DEF ChannelInv
<1>5. MachineOK'
  <2>1. StackOK(Append(stack, f))
    BY <1>1, <1>2, LoopPushed
  <2> QED
    BY <1>1, <1>3, <2>1 DEF MachineOK, StackOK
<1>6. /\ Len(stack') = Len(stack) + 1 /\ stack'[Len(stack) + 1] = f
      /\ \A k \in 1 .. Len(stack) : stack'[k] = stack[k]
  BY <1>1, <1>2, <1>3, Pushed
<1>7. /\ Len(stack) + 1 \in 1 .. Len(stack')
      /\ \A j \in 1 .. Len(stack') : j # Len(stack) + 1 => j \in 1 .. Len(stack)
  BY <1>1, <1>6
<1>8. \A j \in 1 .. Len(stack') : j # Len(stack) + 1 => IsCoroutine(stack'[j])
  BY <1>1, <1>6, <1>7
<1>9. IF Blocked THEN AboutToCall(f)' ELSE HasCalled(f)'
  <2>1. Blocked' <=> Blocked
    BY <1>3 DEF Blocked
  <2>2. CASE Blocked
    BY <1>1, <1>2, <1>3, <1>4, <2>1, <2>2 DEF Registered, AboutToCall
  <2>3. CASE ~Blocked
    BY <1>1, <1>2, <1>3, <2>1, <2>3 DEF Registered, HasCalled
  <2> QED
    BY <2>2, <2>3
<1>10. OneNotification' /\ CallbacksOK' /\ (Blocked => CallDue')
  BY <1>1, <1>2, <1>3, <1>6, <1>7, <1>8, <1>9, OneLoop
<1>11. ReceiverOK'
  BY <1>3, <1>4, <1>10 DEF ChannelInv, ReceiverOK, Receiving, Blocked
<1> QED
  BY <1>4, <1>5, <1>10, <1>11 DEF ChannelInv

\* A loop is on top: the only one.
LEMMA LoopOnTop ==
  ASSUME ChannelInv, stack # <<>>, Top.fn = "notify_all"
  PROVE  /\ Top \in Frames /\ Below \in Seq(Frames) /\ StackOK(Below)
         /\ \A k \in 1 .. Len(Below) : IsCoroutine(Below[k])
         /\ AboutToCall(Top) \/ HasCalled(Top)
         /\ CallDue => AboutToCall(Top)
<1>1. MachineOK /\ StackOK(stack) /\ stack \in Seq(Frames)
  BY DEF ChannelInv, MachineOK, StackOK
<1>2. /\ Below \in Seq(Frames) /\ Len(Below) = Len(stack) - 1 /\ Len(stack) >= 1
      /\ \A k \in 1 .. Len(stack) - 1 : Below[k] = stack[k]
      /\ Top = stack[Len(stack)] /\ Top \in Frames
  BY <1>1, Popped DEF Below, Top
<1>3. StackOK(Below)
  BY <1>1, FrontOK DEF Below
<1>4. /\ Len(stack) \in 1 .. Len(stack) /\ ~IsCoroutine(stack[Len(stack)])
      /\ \A k \in 1 .. Len(Below) : k \in 1 .. Len(stack) /\ k # Len(stack) /\ Below[k] = stack[k]
  BY <1>1, <1>2 DEF IsCoroutine
<1>5. \A k \in 1 .. Len(stack) : k # Len(stack) => IsCoroutine(stack[k])
  BY <1>4 DEF ChannelInv, OneNotification
<1>6. AboutToCall(Top) \/ HasCalled(Top)
  BY <1>2, <1>4 DEF ChannelInv, CallbacksOK
<1>7. CallDue => AboutToCall(Top)
  BY <1>2, <1>5 DEF CallDue
<1> QED
  BY <1>2, <1>3, <1>4, <1>5, <1>6, <1>7

\* The loop calls the receiver, which finds a message.
LEMMA ChannelCalls ==
  ASSUME ChannelInv, NotifyAllNext, UNCHANGED <<deque, sent, got, pc>> PROVE ChannelInv'
<1>1. /\ Top \in Frames /\ Below \in Seq(Frames) /\ StackOK(Below) /\ Top.fn = "notify_all"
      /\ \A k \in 1 .. Len(Below) : IsCoroutine(Below[k])
      /\ AboutToCall(Top) \/ HasCalled(Top)
  BY LoopOnTop DEF NotifyAllNext
<1>2. /\ Top.i + 1 <= MinLen(Top.len, Len(handles))
      /\ Step(Append(Below, [Top EXCEPT !.i = @ + 1]), handles[Top.i + 1])
      /\ timers' = timers /\ handles' = handles /\ deque' = deque /\ sent' = sent /\ pc' = pc
  BY DEF NotifyAllNext
<1>3. MachineOK /\ handles \in Seq({Receiver}) /\ Len(handles) \in Nat
  BY DEF ChannelInv, CallbacksOK
<1>4. Top.i \in Nat /\ Top.len \in Nat
  BY <1>1 DEF Frames
<1>5. AboutToCall(Top)
  BY <1>1, <1>2, <1>3, <1>4 DEF HasCalled, MinLen
<1>6. Top.len = 1 /\ Top.i = 0 /\ Len(handles) = 1 /\ Blocked /\ DequeLen(deque) # 0
  BY <1>5 DEF AboutToCall
<1>f. PICK f : f = [Top EXCEPT !.i = @ + 1]
  OBVIOUS
<1> DEFINE s == Append(Below, f)
<1>7. f \in Frames /\ f.fn = "notify_all" /\ f.len = 1 /\ f.i = 1 /\ ~IsCoroutine(f)
  BY <1>1, <1>4, <1>6, <1>f DEF Frames, IsCoroutine
<1>8. Step(s, Receiver)
  <2>1. handles[Top.i + 1] = Receiver
    BY <1>3, <1>6
  <2> QED
    BY <1>2, <1>f, <2>1
<1>9. StackOK(s) /\ s \in Seq(Frames) /\ Len(s) = Len(Below) + 1 /\ s[Len(Below) + 1] = f
      /\ \A k \in 1 .. Len(Below) : s[k] = Below[k]
  BY <1>1, <1>7, Pushed, LoopPushed
<1> HIDE DEF s
<1>10. RunOn(s, Receiver) /\ Receiver \notin timers
  BY <1>3, <1>6, <1>8 DEF Step, Suspended, Blocked, MachineOK
<1>11. MachineOK'
  BY <1>2, <1>3, <1>6, <1>9, <1>10, RunsOK, ReceiverAssumption DEF Blocked, MachineOK
<1>12. /\ stack' = Append(s, CoFrame(Receiver)) /\ CoFrame(Receiver) \in Frames
       /\ IsCoroutine(CoFrame(Receiver))
       /\ \A d \in Coroutines : status'[d] = IF d = Receiver THEN "running" ELSE status[d]
  BY <1>3, <1>10, FrameType, ReceiverAssumption DEF RunOn, IsCoroutine, MachineOK
<1>13. /\ Len(stack') = Len(s) + 1 /\ stack'[Len(s) + 1] = CoFrame(Receiver)
       /\ \A k \in 1 .. Len(s) : stack'[k] = s[k]
  BY <1>9, <1>12, Pushed
<1> DEFINE n == Len(Below) + 1
<1>14. /\ n \in 1 .. Len(s) /\ n \in 1 .. Len(stack')
       /\ \A k \in 1 .. Len(stack') : k # n =>
            (k \in 1 .. Len(Below) /\ k \in 1 .. Len(s)) \/ k = Len(s) + 1
  BY <1>1, <1>9, <1>13
<1>15. stack'[n] = f /\ \A k \in 1 .. Len(stack') : k # n => IsCoroutine(stack'[k])
  BY <1>1, <1>9, <1>12, <1>13, <1>14
<1> HIDE DEF n
<1>16. ~Blocked' /\ status'[Receiver] = "running"
  BY <1>12, ReceiverAssumption DEF Blocked
<1>17. HasCalled(f)'
  BY <1>2, <1>6, <1>7, <1>16 DEF HasCalled, Registered
<1>18. OneNotification' /\ CallbacksOK'
  BY <1>2, <1>3, <1>7, <1>14, <1>15, <1>17, OneLoop
<1>19. ReceiverOK'
  BY <1>2, <1>6, <1>12, <1>16 DEF ChannelInv, ReceiverOK, Receiving, Blocked
<1>20. DequeOK'
  BY <1>2 DEF ChannelInv, DequeOK
<1> QED
  BY <1>11, <1>18, <1>19, <1>20 DEF ChannelInv

\* The loop ends: as many callbacks leave the end of the list as were called
\* from its front, which leaves the one of a receiver that waits again.
LEMMA ChannelLoopEnds ==
  ASSUME ChannelInv, NotifyAllEnd, UNCHANGED <<deque, sent, got, pc>> PROVE ChannelInv'
<1>1. /\ Top \in Frames /\ Below \in Seq(Frames) /\ StackOK(Below)
      /\ \A k \in 1 .. Len(Below) : IsCoroutine(Below[k])
      /\ AboutToCall(Top) \/ HasCalled(Top)
      /\ CallDue => AboutToCall(Top)
  BY LoopOnTop DEF NotifyAllEnd
<1>2. /\ Top.i + 1 > MinLen(Top.len, Len(handles))
      /\ handles' = SubSeq(handles, 1, Len(handles) - Top.len)
      /\ stack' = Below /\ status' = status /\ timers' = timers /\ failed' = failed
      /\ deque' = deque /\ sent' = sent /\ pc' = pc
  BY DEF NotifyAllEnd
<1>3. MachineOK /\ handles \in Seq({Receiver}) /\ Len(handles) \in Nat
  BY DEF ChannelInv, CallbacksOK
<1>4. Top.i \in Nat /\ Top.len \in Nat
  BY <1>1 DEF Frames
<1>5. ~AboutToCall(Top)
  <2> SUFFICES ASSUME AboutToCall(Top) PROVE FALSE
    OBVIOUS
  <2>1. Top.i = 0 /\ Top.len = 1 /\ Len(handles) = 1
    BY DEF AboutToCall
  <2>2. MinLen(Top.len, Len(handles)) = 1
    BY <2>1 DEF MinLen
  <2> QED
    BY <1>2, <2>1, <2>2
<1>6. HasCalled(Top) /\ ~CallDue
  BY <1>1, <1>5
<1> DEFINE n == Len(handles) - Top.len
<1>7. n \in 0 .. Len(handles) /\ n = IF Blocked THEN 1 ELSE 0
  BY <1>3, <1>4, <1>6 DEF HasCalled, Registered
<1>8. handles' \in Seq({Receiver}) /\ Len(handles') = n
  <2>1. \A k \in 1 .. n : handles[k] \in {Receiver}
    BY <1>3, <1>7
  <2>2. n \in Int /\ handles' = SubSeq(handles, 1, n)
    BY <1>2, <1>7
  <2> HIDE DEF n
  <2>3. SubSeq(handles, 1, n) \in Seq({Receiver}) /\ Len(SubSeq(handles, 1, n)) = IF 1 <= n THEN n - 1 + 1 ELSE 0
    BY <2>1, <2>2, SubSeqProperties
  <2> QED
    BY <1>3, <1>7, <2>2, <2>3
<1>9. Registered(0)'
  BY <1>2, <1>7, <1>8 DEF Registered, Blocked
<1>10. OneNotification' /\ CallbacksOK'
  BY <1>1, <1>2, <1>8, <1>9 DEF OneNotification, CallbacksOK
<1>11. MachineOK'
  BY <1>1, <1>2, <1>3 DEF MachineOK, StackOK
<1>12. ReceiverOK'
  BY <1>2, <1>6 DEF ChannelInv, ReceiverOK, Receiving, Blocked
<1>13. DequeOK'
  BY <1>2 DEF ChannelInv, DequeOK
<1> QED
  BY <1>10, <1>11, <1>12, <1>13 DEF ChannelInv

-----------------------------------------------------------------------------

\* It holds at the start,
LEMMA ChannelInitInv == Init => ChannelInv
<1> SUFFICES ASSUME Init PROVE ChannelInv
  OBVIOUS
<1>1. /\ stack = <<>> /\ stack \in Seq(Frames) /\ Len(stack) = 0
      /\ status = [c \in Coroutines |-> "new"] /\ timers = {} /\ failed = FALSE
      /\ handles = <<>> /\ handles \in Seq({Receiver}) /\ Len(handles) = 0
      /\ deque = EmptyDeque /\ sent = 0 /\ pc = "call"
  BY EmptySeq DEF Init, CondvarInit, AsyncInit
<1>2. MachineOK
  BY <1>1 DEF MachineOK, StackOK, Statuses
<1>3. DequeOK
  <2>1. deque.first = 0 /\ deque.last = -1 /\ deque.at = <<>>
        /\ deque = [first |-> deque.first, last |-> deque.last, at |-> deque.at]
    BY <1>1 DEF EmptyDeque
  <2>2. -1 \in Int /\ -1 - 0 + 1 = 0 /\ 0 .. -1 = {}
    OBVIOUS
  <2>3. deque.at = [k \in deque.first .. deque.last |-> sent - (k - deque.first)]
    BY <2>1, <2>2
  <2> QED
    BY <1>1, <2>1, <2>2, <2>3 DEF DequeOK, DequeLen
<1>4. ReceiverOK /\ ~Blocked
  BY <1>1, ReceiverAssumption DEF ReceiverOK, Receiving, Blocked
<1>5. CallbacksOK /\ OneNotification
  BY <1>1, <1>4 DEF CallbacksOK, OneNotification, Registered
<1> QED
  BY <1>2, <1>3, <1>4, <1>5 DEF ChannelInv

\* and every step preserves it.
LEMMA ChannelNextInv ==
  ASSUME SendInside = FALSE, ChannelInv, [Next]_mpscVars PROVE ChannelInv'
<1>1. CASE UNCHANGED mpscVars
  <2>1. UNCHANGED <<stack, status, timers, failed, handles, deque, sent, pc>>
    BY <1>1 DEF mpscVars, condvarVars, asyncVars
  <2>2. OneNotification' /\ CallbacksOK' /\ (CallDue => CallDue')
    BY <2>1, LoopsKept DEF ChannelInv, Blocked
  <2>3. MachineOK'
    BY <2>1 DEF ChannelInv, MachineOK, StackOK
  <2>4. ReceiverOK'
    BY <2>1, <2>2 DEF ChannelInv, ReceiverOK, Receiving, Blocked
  <2>5. DequeOK'
    BY <2>1 DEF ChannelInv, DequeOK
  <2> QED
    BY <2>2, <2>3, <2>4, <2>5 DEF ChannelInv
<1>2. CASE Send
  BY <1>2, ChannelSend
<1>3. CASE ReceiverStep
  BY <1>3, ChannelBlocks, ChannelTake, ChannelCallAgain DEF ReceiverStep
<1>4. CASE Deliver
  BY <1>4, ChannelCalls, ChannelLoopEnds DEF Deliver
<1>5. ASSUME NEW c \in Coroutines, Dispatch(c) \/ SenderStep(c) PROVE ChannelInv'
  BY <1>5, ChannelDispatch, ChannelSender
<1> QED
  BY <1>1, <1>2, <1>3, <1>4, <1>5 DEF Next

\* At the event loop no notification is under way that could wake the
\* receiver.
LEMMA NotStranded ==
  ASSUME ChannelInv PROVE NoStrandedReceiver /\ NoFailure
<1>1. EventLoop => ~CallDue
  BY EmptySeq DEF EventLoop, CallDue
<1> QED
  BY <1>1 DEF NoStrandedReceiver, NoFailure, ChannelInv, MachineOK, ReceiverOK, Blocked

\* At the event loop the list holds the callback of the receiver, once, if it is
\* blocked, and is empty if it is not.
LEMMA OnlyTheReceiver ==
  ASSUME ChannelInv PROVE WaitersRegistered /\ HandlesLive
<1> SUFFICES ASSUME EventLoop
             PROVE  /\ \A c \in Coroutines : status[c] = "waiting" => c \in Range(handles)
                    /\ \A k \in DOMAIN handles : status[handles[k]] = "waiting"
                    /\ IsInjective(handles)
  BY DEF WaitersRegistered, HandlesLive
<1>1. Len(stack) = 0
  BY EmptySeq DEF EventLoop
<1>2. /\ handles \in Seq({Receiver}) /\ Registered(0)
      /\ \A c \in Coroutines : status[c] = "waiting" => c = Receiver
  BY <1>1 DEF ChannelInv, CallbacksOK, ReceiverOK
<1>3. /\ DOMAIN handles = 1 .. Len(handles) /\ Len(handles) \in Nat
      /\ \A k \in 1 .. Len(handles) : handles[k] = Receiver
  BY <1>2, ElementOfSeq, LenProperties
<1>4. CASE Blocked
  <2>1. DOMAIN handles = {1} /\ handles[1] = Receiver
    BY <1>2, <1>3, <1>4 DEF Registered
  <2>2. Receiver \in Range(handles)
    BY <2>1 DEF Range
  <2> QED
    BY <1>2, <1>4, <2>1, <2>2 DEF Blocked, IsInjective
<1>5. CASE ~Blocked
  <2>1. DOMAIN handles = {}
    BY <1>2, <1>3, <1>5 DEF Registered
  <2> QED
    BY <1>2, <1>5, <2>1 DEF Blocked, IsInjective
<1> QED
  BY <1>4, <1>5

\* No message waits while the receiver is blocked and nobody is about to wake
\* it, and neither recv nor a callback raises an error, whatever the number
\* of senders and messages; and though the receiver registers again while it is
\* notified, it keeps one callback while it waits and none when it does not.
THEOREM ChannelSafe ==
  ASSUME SendInside = FALSE
  PROVE  Spec => [](/\ NoStrandedReceiver /\ NoFailure
                    /\ WaitersRegistered /\ HandlesLive)
<1>1. Init => ChannelInv
  BY ChannelInitInv
<1>2. ChannelInv /\ [Next]_mpscVars => ChannelInv'
  BY ChannelNextInv
<1>3. ChannelInv =>
        NoStrandedReceiver /\ NoFailure /\ WaitersRegistered /\ HandlesLive
  BY NotStranded, OnlyTheReceiver
<1> QED
  BY <1>1, <1>2, <1>3, PTL DEF Spec

-----------------------------------------------------------------------------
(* The channel implements the queue.                                       *)

\* The pending messages are the last ones sent, in order.
NewestPending ==
  /\ Pending \in Seq(Int) /\ Len(Pending) = DequeLen(deque) /\ DequeLen(deque) \in Nat
  /\ \A k \in 1 .. DequeLen(deque) : Pending[k] = sent - DequeLen(deque) + k

\* The deque holds them so.
LEMMA PendingMessages == DequeOK => NewestPending
<1> SUFFICES ASSUME DequeOK PROVE NewestPending
  OBVIOUS
<1> DEFINE n == DequeLen(deque)
<1>1. /\ deque.first \in Int /\ deque.last \in Int /\ sent \in Nat /\ n \in 0 .. sent
      /\ n = deque.last - deque.first + 1
      /\ \A k \in deque.first .. deque.last : deque.at[k] = sent - (k - deque.first)
  BY DEF DequeOK, DequeLen
<1>2. \A k \in 1 .. n : /\ deque.last + 1 - k \in deque.first .. deque.last
                        /\ sent - ((deque.last + 1 - k) - deque.first) = sent - n + k
  BY <1>1
<1>3. n \in Nat /\ \A k \in 1 .. n : sent - n + k \in Int
  BY <1>1
<1>4. Pending = [k \in 1 .. n |-> deque.at[deque.last + 1 - k]]
  BY DEF Pending
<1> HIDE DEF n
<1>5. \A k \in 1 .. n : deque.at[deque.last + 1 - k] = sent - n + k
  BY <1>1, <1>2
<1>6. Pending \in [1 .. n -> Int] /\ \A k \in 1 .. n : Pending[k] = sent - n + k
  BY <1>3, <1>4, <1>5
<1>7. Pending \in Seq(Int) /\ Len(Pending) = n
  BY <1>3, <1>6
<1> QED
  BY <1>3, <1>6, <1>7 DEF n, NewestPending

\* A message sent is the newest one.
LEMMA SendEnqueues ==
  ASSUME ChannelInv, Send PROVE Queue!Next
<1>1. DequeOK /\ sent' = sent + 1 /\ deque' = PushLeft(deque, sent + 1) /\ got' = got
      /\ sent \in Nat /\ sent < MaxMessages
  BY DEF ChannelInv, DequeOK, Send
<1>2. DequeOK' /\ DequeLen(deque') = DequeLen(deque) + 1
  BY <1>1, DequePush
<1> DEFINE n == DequeLen(deque)
           q == Append(Pending, sent + 1)
<1>3. /\ Pending \in Seq(Int) /\ Len(Pending) = n /\ n \in Nat
      /\ \A k \in 1 .. n : Pending[k] = sent - n + k
  BY <1>1, PendingMessages DEF NewestPending
<1>4. /\ Pending' \in Seq(Int) /\ Len(Pending') = n + 1
      /\ \A k \in 1 .. n + 1 : Pending'[k] = sent + 1 - (n + 1) + k
  <2>1. (DequeOK => NewestPending)'
    BY PendingMessages, PTL
  <2> QED
    BY <1>1, <1>2, <2>1 DEF NewestPending
<1> HIDE DEF n
<1>5. /\ q \in Seq(Int) /\ Len(q) = n + 1 /\ q[n + 1] = sent + 1
      /\ \A k \in 1 .. n : q[k] = Pending[k]
  <2>1. sent + 1 \in Int
    BY <1>1
  <2> QED
    BY <1>3, <2>1, AppendProperties
<1>6. \A k \in 1 .. n + 1 : Pending'[k] = q[k]
  <2> SUFFICES ASSUME NEW k \in 1 .. n + 1 PROVE Pending'[k] = q[k]
    OBVIOUS
  <2>1. CASE k \in 1 .. n
    BY <1>1, <1>3, <1>4, <1>5, <2>1
  <2>2. CASE k = n + 1
    BY <1>1, <1>3, <1>4, <1>5, <2>2
  <2> QED
    BY <1>3, <2>1, <2>2
<1> HIDE DEF q
<1>7. Pending' = q
  BY <1>4, <1>5, <1>6, SeqEqual
<1>8. sent + 1 \in 1 .. MaxMessages
  BY <1>1, MessagesAssumption
<1>9. Queue!Send(sent + 1)
  BY <1>1, <1>7 DEF Queue!Send, q
<1> QED
  BY <1>8, <1>9 DEF Queue!Next

\* recv takes the oldest message.
LEMMA RecvDequeues ==
  ASSUME ChannelInv, Recv PROVE Queue!Next
<1>1. DequeOK /\ DequeLen(deque) # 0
  BY SomethingToTake DEF ChannelInv, Recv
<1>2. sent' = sent /\ deque' = PopRight(deque) /\ got' = deque.at[deque.last]
  BY <1>1 DEF Recv
<1>3. DequeOK' /\ DequeLen(deque') = DequeLen(deque) - 1
  BY <1>1, <1>2, DequePop
<1> DEFINE n == DequeLen(deque)
           q == Tail(Pending)
<1>4. /\ Pending \in Seq(Int) /\ Len(Pending) = n /\ n \in Nat /\ n # 0 /\ sent \in Nat
      /\ \A k \in 1 .. n : Pending[k] = sent - n + k
  BY <1>1, PendingMessages DEF NewestPending, DequeOK
<1>5. /\ Pending' \in Seq(Int) /\ Len(Pending') = n - 1
      /\ \A k \in 1 .. n - 1 : Pending'[k] = sent - (n - 1) + k
  <2>1. (DequeOK => NewestPending)'
    BY PendingMessages, PTL
  <2> QED
    BY <1>2, <1>3, <2>1 DEF NewestPending
<1>6. got' = Pending[1]
  <2>1. deque.last + 1 - 1 = deque.last /\ 1 \in 1 .. n
    BY <1>1, <1>4 DEF DequeOK
  <2> QED
    BY <1>2, <2>1 DEF Pending
<1> HIDE DEF n
<1>7. Pending # <<>>
  BY <1>4
<1>8. /\ q \in Seq(Int) /\ Len(q) = n - 1
      /\ \A k \in 1 .. n - 1 : q[k] = Pending[k + 1]
  BY <1>4, <1>7, HeadTailProperties
<1>9. \A k \in 1 .. n - 1 : k + 1 \in 1 .. n /\ sent - n + (k + 1) = sent - (n - 1) + k
  BY <1>4
<1> HIDE DEF q
<1>10. Pending' = q
  BY <1>4, <1>5, <1>8, <1>9, SeqEqual
<1>11. Queue!Recv
  BY <1>6, <1>7, <1>10 DEF Queue!Recv, q
<1> QED
  BY <1>11 DEF Queue!Next

\* last takes the newest message and discards the others.
LEMMA LastDequeues ==
  ASSUME ChannelInv, TakeLast PROVE Queue!Next
<1>1. DequeOK /\ DequeLen(deque) # 0
  BY SomethingToTake DEF ChannelInv, TakeLast
<1>2. sent' = sent /\ deque' = EmptyDeque /\ got' = deque.at[deque.first]
  BY <1>1 DEF TakeLast
<1>3. DequeOK' /\ DequeLen(deque') = 0
  BY <1>1, <1>2, DequeClear DEF DequeOK
<1> DEFINE n == DequeLen(deque)
<1>4. /\ Pending \in Seq(Int) /\ Len(Pending) = n /\ n \in Nat /\ n # 0
  BY <1>1, PendingMessages DEF NewestPending
<1>5. Pending' = <<>>
  <2>1. (DequeOK => NewestPending)'
    BY PendingMessages, PTL
  <2>2. Pending' \in Seq(Int) /\ Len(Pending') = 0
    BY <1>3, <2>1 DEF NewestPending
  <2> QED
    BY <2>2, EmptySeq
<1>6. got' = Pending[n]
  <2>1. deque.last + 1 - n = deque.first /\ n \in 1 .. n
    BY <1>1, <1>4 DEF DequeOK, DequeLen
  <2> QED
    BY <1>2, <2>1 DEF Pending
<1> HIDE DEF n
<1>7. Pending # <<>>
  BY <1>4
<1>8. Queue!TakeLast
  BY <1>4, <1>5, <1>6, <1>7 DEF Queue!TakeLast
<1> QED
  BY <1>8 DEF Queue!Next

\* Every other step leaves the queue alone.
LEMMA QueueStep ==
  ASSUME SendInside = FALSE, ChannelInv, [Next]_mpscVars
  PROVE  [Queue!Next]_<<Pending, got>>
<1>1. ASSUME deque' = deque, got' = got PROVE UNCHANGED <<Pending, got>>
  BY <1>1 DEF Pending
<1>2. CASE UNCHANGED mpscVars
  BY <1>1, <1>2 DEF mpscVars
<1>3. CASE Send
  BY <1>3, SendEnqueues
<1>4. CASE ReceiverStep
  BY <1>1, <1>4, RecvDequeues, LastDequeues DEF ReceiverStep, ReceiveBlocks, CallAgain
<1>5. CASE Deliver
  BY <1>1, <1>5 DEF Deliver
<1>6. ASSUME NEW c \in Coroutines, Dispatch(c) \/ SenderStep(c)
      PROVE  UNCHANGED <<Pending, got>>
  BY <1>1, <1>6 DEF Dispatch, SenderStep
<1> QED
  BY <1>2, <1>3, <1>4, <1>5, <1>6 DEF Next

\* The channel implements the queue: messages leave in the order they were
\* sent, none is lost, invented or delivered twice.
THEOREM ChannelIsQueue ==
  ASSUME SendInside = FALSE PROVE Spec => QueueSpec
<1>1. Init => ChannelInv
  BY ChannelInitInv
<1>2. ChannelInv /\ [Next]_mpscVars => ChannelInv'
  BY ChannelNextInv
<1>3. Init => Queue!Init
  <2> SUFFICES ASSUME Init PROVE Queue!Init
    OBVIOUS
  <2>1. DequeLen(deque) = 0 /\ got = 0
    BY DEF Init, EmptyDeque, DequeLen
  <2>2. Pending \in Seq(Int) /\ Len(Pending) = 0
    BY <1>1, <2>1, PendingMessages DEF NewestPending, ChannelInv
  <2>3. Pending = <<>>
    BY <2>2, EmptySeq
  <2> QED
    BY <2>1, <2>3 DEF Queue!Init
<1>4. ChannelInv /\ [Next]_mpscVars => [Queue!Next]_<<Pending, got>>
  BY QueueStep
<1> QED
  BY <1>1, <1>2, <1>3, <1>4, PTL DEF Spec, QueueSpec, Queue!Spec
=============================================================================
