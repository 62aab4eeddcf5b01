--------------------------- MODULE PlenaryCondvar ---------------------------
(***************************************************************************)
(* The condition variable of plenary.nvim (lua/plenary/async/control.lua,  *)
(* Condvar) on the coroutine machine of PlenaryAsync.                      *)
(*                                                                         *)
(* notify_all calls the stored step closures one after the other; each     *)
(* call runs a coroutine to its next suspension, during which it may wait  *)
(* on the same condition variable again.  Two constants say whether        *)
(* the coroutines of an instance do so, or wait and notify only when no    *)
(* notification is being delivered.                                        *)
(***************************************************************************)
EXTENDS PlenaryAsync

CONSTANTS
  MaxHandles,    \* how many callbacks may be stored (a bound of the model)
  WaitInside,    \* coroutines may wait while a notification is delivered
  NotifyInside   \* coroutines may notify while a notification is delivered

ASSUME DisciplineAssumption == WaitInside \in BOOLEAN /\ NotifyInside \in BOOLEAN

VARIABLE handles   \* self.handles

condvarVars == <<asyncVars, handles>>

\* One of the two notify functions is on the stack.
Notifying == \E k \in DOMAIN stack : stack[k].fn \in {"notify_all", "notify_one"}

\* Mutant: the loop runs over one callback less
MinLenShort(m, n) == IF m < n THEN m - 1 ELSE n - 1

\* Where the loop of notify_all stops: at len, or at the end of the live list.
MinLen(m, n) == IF m < n THEN m ELSE n

\* Condvar.wait: store the callback; not calling it suspends the coroutine
Wait(c) ==
  /\ Yield(c, "waiting")
  /\ handles' = Append(handles, c)
  /\ UNCHANGED timers

\* Condvar:notify_all is called and reads the length of the list.
NotifyAllBegin ==
  /\ Len(stack) < MaxStack
  /\ stack' = Append(stack, Frame("notify_all", "none", Len(handles), 0))
  /\ UNCHANGED <<status, failed>>

\* Mutant: the callbacks stay in the list
NotifyAllEndKeeps ==
  /\ stack # <<>> /\ Top.fn = "notify_all"
  /\ Top.i + 1 > MinLen(Top.len, Len(handles))
  /\ stack' = Below
  /\ UNCHANGED <<status, timers, failed, handles>>

-----------------------------------------------------------------------------

\* One round of the loop: ipairs reads the live list, the guard stops at len.
NotifyAllNext ==
  /\ stack # <<>> /\ Top.fn = "notify_all"
  /\ Top.i + 1 <= MinLen(Top.len, Len(handles))
  /\ Step(Append(Below, [Top EXCEPT !.i = @ + 1]), handles[Top.i + 1])
  /\ UNCHANGED <<timers, handles>>

\* The loop is over: table.remove pops len callbacks off the END of the list.
NotifyAllEnd ==
  /\ stack # <<>> /\ Top.fn = "notify_all"
  /\ Top.i + 1 > MinLen(Top.len, Len(handles))
  /\ handles' = SubSeq(handles, 1, Len(handles) - Top.len)
  /\ stack' = Below
  /\ UNCHANGED <<status, timers, failed>>

\* Condvar:notify_one calls a random callback
NotifyOneBegin ==
  \E idx \in DOMAIN handles :
    /\ Step(Append(stack, Frame("notify_one", "none", 0, idx)), handles[idx])
    /\ UNCHANGED <<timers, handles>>

\* and removes what is stored at that index when the call has returned.
NotifyOneEnd ==
  /\ stack # <<>> /\ Top.fn = "notify_one"
  /\ handles' = IF Top.i \in DOMAIN handles
                  THEN RemoveAt(handles, Top.i) ELSE handles
  /\ stack' = Below
  /\ UNCHANGED <<status, timers, failed>>

-----------------------------------------------------------------------------
\* The coroutines of this module sleep, wait, start others, notify and return
\* in any order the discipline allows.

CoroutineStep(c) ==
  \/ Sleep(c) /\ UNCHANGED handles
  \/ Return(c) /\ UNCHANGED handles
  \/ /\ WaitInside \/ ~Notifying
     /\ Len(handles) < MaxHandles
     /\ Wait(c)

Notify ==
  /\ MayCall
  /\ NotifyInside \/ ~Notifying
  /\ \/ NotifyAllBegin /\ UNCHANGED <<timers, handles>>
     \/ NotifyOneBegin

CondvarInit == AsyncInit /\ handles = <<>>

NotifyStep == NotifyAllNext \/ NotifyAllEnd \/ NotifyOneEnd

CondvarNext ==
  \/ \E c \in Coroutines :
       \/ (Execute(c) \/ TimerFires(c)) /\ UNCHANGED handles
       \/ CoroutineStep(c)
  \/ Notify
  \/ NotifyStep

CondvarSpec == CondvarInit /\ [][CondvarNext]_condvarVars

-----------------------------------------------------------------------------

\* Whoever is blocked in wait can be notified: between two turns of the event
\* loop every waiting coroutine is registered ("notify everyone that is
\* waiting on this Condvar").
WaitersRegistered ==
  EventLoop => \A c \in Coroutines :
                 status[c] = "waiting" => c \in Range(handles)

\* Only who is blocked in wait will be notified: no callback of a coroutine
\* that returned, sleeps elsewhere or waits a second time is left behind.
HandlesLive ==
  EventLoop => /\ \A k \in DOMAIN handles : status[handles[k]] = "waiting"
               /\ IsInjective(handles)

\* No callback ever resumes a coroutine that cannot be resumed.
NoFailure == ~failed
=============================================================================
