---------------------------- MODULE PlenaryAsync ----------------------------
(***************************************************************************)
(* The coroutine machine of plenary.nvim (lua/plenary/async/async.lua).    *)
(*                                                                         *)
(* Neovim runs Lua on one thread.  A coroutine started by execute, or      *)
(* resumed by calling its step closure, runs ON TOP of whoever made the    *)
(* call, until it yields or returns; only then does the caller go on.  So  *)
(* the state of the machine is its call stack, and the hazards are those   *)
(* of re-entrance: a coroutine resumed while it is already running, or     *)
(* after it returned, makes co.resume fail, and callback_or_next turns     *)
(* that into an error that unwinds the whole stack.                        *)
(***************************************************************************)
EXTENDS Integers, SequencesExt

CONSTANTS
  Coroutines,  \* the coroutines of the system
  MaxStack     \* how deep calls may nest (a bound of the model)

VARIABLES
  stack,    \* the frames of the Lua call stack, the running one last
  status,   \* what each coroutine is doing
  timers,   \* coroutines that sleep or scheduler will resume
  failed    \* an error has unwound the stack

asyncVars == <<stack, status, timers, failed>>

\* A frame is a coroutine, or a function that resumes coroutines in a loop:
\* its local len and its loop index.
Frame(f, c, n, k) == [fn |-> f, co |-> c, len |-> n, i |-> k]
CoFrame(c) == Frame("coroutine", c, 0, 0)

Top == Last(stack)
Below == Front(stack)

\* The event loop has control: no Lua code is running.
EventLoop == stack = <<>>

\* Coroutine c is executing.
InCoroutine(c) == stack # <<>> /\ Top = CoFrame(c)

\* Some code that may call another function is executing.
MayCall == EventLoop \/ \E c \in Coroutines : InCoroutine(c)

Suspended(c) == status[c] \in {"waiting", "sleeping"}

\* Run c on top of the frames s; c was just created, or its step was called.
RunOn(s, c) ==
  /\ Len(s) < MaxStack
  /\ stack' = Append(s, CoFrame(c))
  /\ status' = [status EXCEPT ![c] = "running"]
  /\ UNCHANGED failed

\* co.resume fails, callback_or_next raises an error: every coroutine on the
\* stack dies of it, since none of them protects the call.
Unwind(s) ==
  /\ stack' = <<>>
  /\ status' = [c \in Coroutines |->
                  IF \E k \in DOMAIN s : s[k].co = c THEN "dead" ELSE status[c]]
  /\ failed' = TRUE

\* Calling the step closure of c with the frames s below it.
Step(s, c) == IF Suspended(c) THEN RunOn(s, c) ELSE Unwind(s)

\* execute: a new coroutine is created and stepped at once
Execute(c) ==
  /\ MayCall
  /\ status[c] = "new"
  /\ RunOn(stack, c)
  /\ UNCHANGED timers

\* A leaf function yields; its argument decides who will call step.
Yield(c, why) ==
  /\ InCoroutine(c)
  /\ stack' = Below
  /\ status' = [status EXCEPT ![c] = why]
  /\ UNCHANGED failed

\* util.sleep, util.scheduler: step is given to vim.defer_fn or vim.schedule
Sleep(c) ==
  /\ Yield(c, "sleeping")
  /\ timers' = timers \cup {c}

\* The event loop runs a deferred or scheduled step.
TimerFires(c) ==
  /\ EventLoop
  /\ c \in timers
  /\ timers' = timers \ {c}
  /\ Step(stack, c)

\* The body of c returns: the coroutine is dead, control goes back down.
Return(c) ==
  /\ Yield(c, "dead")
  /\ UNCHANGED timers

AsyncInit ==
  /\ stack = <<>>
  /\ status = [c \in Coroutines |-> "new"]
  /\ timers = {}
  /\ failed = FALSE
=============================================================================
