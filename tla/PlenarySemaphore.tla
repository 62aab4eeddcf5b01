-------------------------- MODULE PlenarySemaphore --------------------------
(***************************************************************************)
(* The asynchronous semaphore of plenary.nvim                              *)
(* (lua/plenary/async/control.lua, Semaphore).                             *)
(*                                                                         *)
(* A client is a coroutine that acquires a permit, works and forgets it.   *)
(* Coroutines are cooperative and neither acquire nor forget contains a    *)
(* suspension point, so each of them is one step.  forget resumes a waiter *)
(* as its very last effect: whatever the resumed coroutine does next is    *)
(* done in a state forget has finished with, so it is a step of its own.   *)
(*                                                                         *)
(* The clients follow the documented discipline: the holder of a permit    *)
(* forgets it once.  A client acquires at most MaxRounds times.            *)
(***************************************************************************)
EXTENDS Integers, Sequences, FiniteSets

CONSTANTS
  Clients,         \* the coroutines that share the semaphore
  InitialPermits,  \* the argument of Semaphore.new
  MaxRounds        \* how often a client acquires (a bound of the model)

\* Semaphore.new refuses an argument that is not greater than 0.
ASSUME PermitsAssumption == InitialPermits \in Nat \ {0}
ASSUME ClientsAssumption == IsFiniteSet(Clients)
ASSUME RoundsAssumption == MaxRounds \in Nat

VARIABLES
  permits,   \* self.permits
  handles,   \* self.handles: insertion and removal are both at its end
  holders,   \* the clients whose callback has received a permit
  rounds     \* how many acquisitions a client has asked for

vars == <<permits, handles, holders, rounds>>

Waiting == {handles[i] : i \in DOMAIN handles}

\* Semaphore.new
Init ==
  /\ permits = InitialPermits
  /\ handles = <<>>
  /\ holders = {}
  /\ rounds = [c \in Clients |-> 0]

\* A suspended client cannot call, and a holder forgets before it acquires.
MayAcquire(c) ==
  /\ c \notin holders \cup Waiting
  /\ rounds[c] < MaxRounds
  /\ rounds' = [rounds EXCEPT ![c] = @ + 1]

\* acquire when a permit is left
AcquireNow(c) ==
  /\ MayAcquire(c)
  /\ permits > 0
  /\ permits' = permits - 1
  /\ holders' = holders \cup {c}
  /\ UNCHANGED handles

\* acquire when none is left: the callback is stored, the client suspended
AcquireLater(c) ==
  /\ MayAcquire(c)
  /\ permits <= 0
  /\ handles' = Append(handles, c)
  /\ UNCHANGED <<permits, holders>>

-----------------------------------------------------------------------------
\* Mutants of Forget, plausible mistakes the properties have to notice.

\* counts the permit in and hands it on as well
ForgetKeepsCount(c) ==
  /\ c \in holders
  /\ permits' = permits + 1
  /\ \/ /\ handles # <<>>
        /\ handles' = SubSeq(handles, 1, Len(handles) - 1)
        /\ holders' = (holders \ {c}) \cup {handles[Len(handles)]}
     \/ /\ handles = <<>>
        /\ holders' = holders \ {c}
        /\ UNCHANGED handles
  /\ UNCHANGED rounds

\* returns the permit and wakes nobody
ForgetWakesNobody(c) ==
  /\ c \in holders
  /\ holders' = holders \ {c}
  /\ permits' = permits + 1
  /\ UNCHANGED <<handles, rounds>>
-----------------------------------------------------------------------------

\* permit.forget: the permit goes straight to the client that began to wait
\* last (table.remove without an index pops the end), or back to the pool.
Forget(c) ==
  /\ c \in holders
  /\ \/ /\ permits + 1 > 0 /\ handles # <<>>
        /\ handles' = SubSeq(handles, 1, Len(handles) - 1)
        /\ holders' = (holders \ {c}) \cup {handles[Len(handles)]}
        /\ UNCHANGED permits
     \/ /\ ~(permits + 1 > 0 /\ handles # <<>>)
        /\ permits' = permits + 1
        /\ holders' = holders \ {c}
        /\ UNCHANGED handles
  /\ UNCHANGED rounds

Next == \E c \in Clients : AcquireNow(c) \/ AcquireLater(c) \/ Forget(c)

\* A holder forgets its permit at last; nothing makes a client acquire.
Fairness == \A c \in Clients : WF_vars(Forget(c))

Spec == Init /\ [][Next]_vars /\ Fairness

-----------------------------------------------------------------------------

TypeOK ==
  /\ permits \in 0 .. InitialPermits
  /\ handles \in Seq(Clients)
  /\ holders \in SUBSET Clients
  /\ rounds \in [Clients -> 0 .. MaxRounds]

\* Permits are conserved: what the pool and the clients have together is what
\* Semaphore.new was given, whichever way a permit changes hands.
PermitsConserved == Cardinality(holders) + permits = InitialPermits

\* No wakeup is lost: while a client is suspended in acquire, no permit lies
\* in the pool, where only another acquire could find it.
NoIdlePermit == handles # <<>> => permits = 0

\* A suspended client is stored once and holds no permit, so that its
\* coroutine is resumed once for each wait.
WaitersDistinct ==
  /\ \A i, j \in DOMAIN handles : handles[i] = handles[j] => i = j
  /\ Waiting \cap holders = {}

\* Every suspended client is resumed with a permit at last.  The stack is
\* last in, first out: the property depends on MaxRounds being finite.
WaiterServed == \A c \in Clients : c \in Waiting ~> c \in holders
=============================================================================
