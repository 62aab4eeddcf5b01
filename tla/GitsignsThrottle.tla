--------------------------- MODULE GitsignsThrottle ---------------------------
(* throttle_by_id(fn, schedule) of gitsigns.nvim (debounce.lua): a function   *)
(* guarded by two tables, scheduled and running, that are indexed by an id.   *)
(* fn awaits, so between the start and the end of one call of it any other    *)
(* caller may come by.  manager.update, the watcher's handler and attach are  *)
(* each wrapped in one such guard, with the buffer number as the id.  A guard *)
(* has its own tables: an id here stands for a guard and a buffer.            *)
EXTENDS Naturals, FiniteSets

CONSTANTS Ids,        \* the ids
          Callers,    \* coroutines that call the throttled function
          Schedule,   \* the ids whose guard was made with schedule
          MayFail,    \* the ids whose fn may raise an error
          MaxCalls    \* bound on the calls made for one id

ASSUME ThrottleAssumption ==
    /\ Schedule \subseteq Ids
    /\ MayFail \subseteq Ids
    /\ MaxCalls \in Nat

VARIABLES scheduled,  \* the table scheduled, as the set of its keys
          running,    \* the table running, as the set of its keys
          inside,     \* inside[c]: the ids whose fn the caller c is inside of
          asked,      \* asked[id]: how many calls were made (history)
          begun       \* begun[id]: asked[id] when fn(id) last started (history)

vars == <<scheduled, running, inside, asked, begun>>

Init ==
    /\ scheduled = {}
    /\ running = {}
    /\ inside = [c \in Callers |-> {}]
    /\ asked = [id \in Ids |-> 0]
    /\ begun = [id \in Ids |-> 0]

Calls(id) ==
    /\ asked[id] < MaxCalls
    /\ asked' = [asked EXCEPT ![id] = @ + 1]

\* A call while fn is already scheduled is dropped.
CallDropped(id) ==
    /\ id \in scheduled
    /\ Calls(id)
    /\ UNCHANGED <<scheduled, running, inside, begun>>

\* Mutant of CallQueued: the call is dropped.
CallQueuedForgets(id) ==
    /\ id \notin scheduled
    /\ id \in running
    /\ Calls(id)
    /\ UNCHANGED <<scheduled, running, inside, begun>>

\* A call while fn runs asks for one more run, if the guard was made to.
CallQueued(id) ==
    /\ id \notin scheduled
    /\ id \in running
    /\ Calls(id)
    /\ scheduled' = IF id \in Schedule THEN scheduled \union {id} ELSE scheduled
    /\ UNCHANGED <<running, inside, begun>>

\* Mutant of CallRuns: fn is started although another caller is inside it.
CallRunsAnyway(c, id) ==
    /\ id \notin inside[c]
    /\ id \notin scheduled
    /\ Calls(id)
    /\ running' = running \union {id}
    /\ inside' = [inside EXCEPT ![c] = @ \union {id}]
    /\ begun' = [begun EXCEPT ![id] = asked[id] + 1]
    /\ UNCHANGED scheduled

\* Otherwise the caller runs fn: scheduled[id] is set and reset on the way.
CallRuns(c, id) ==
    /\ id \notin scheduled
    /\ id \notin running
    /\ Calls(id)
    /\ running' = running \union {id}
    /\ inside' = [inside EXCEPT ![c] = @ \union {id}]
    /\ begun' = [begun EXCEPT ![id] = asked[id] + 1]
    /\ UNCHANGED scheduled

\* fn returned and was asked for again: the same caller runs it once more.
RunAgain(c, id) ==
    /\ id \in inside[c]
    /\ id \in scheduled
    /\ scheduled' = scheduled \ {id}
    /\ begun' = [begun EXCEPT ![id] = asked[id]]
    /\ UNCHANGED <<running, inside, asked>>

\* Mutant of Leave: the loop does not look at scheduled again.
LeaveAnyway(c, id) ==
    /\ id \in inside[c]
    /\ running' = running \ {id}
    /\ inside' = [inside EXCEPT ![c] = @ \ {id}]
    /\ UNCHANGED <<scheduled, asked, begun>>

\* fn returned and nobody asked for it again: the caller's loop ends.
Leave(c, id) ==
    /\ id \in inside[c]
    /\ id \notin scheduled
    /\ running' = running \ {id}
    /\ inside' = [inside EXCEPT ![c] = @ \ {id}]
    /\ UNCHANGED <<scheduled, asked, begun>>

\* fn raised an error: the caller's coroutine ends and running[id] stays set.
Fail(c, id) ==
    /\ id \in MayFail
    /\ id \in inside[c]
    /\ inside' = [inside EXCEPT ![c] = @ \ {id}]
    /\ UNCHANGED <<scheduled, running, asked, begun>>

Next ==
    \E id \in Ids :
        \/ CallDropped(id)
        \/ CallQueued(id)
        \/ \E c \in Callers :
            \/ CallRuns(c, id)
            \/ RunAgain(c, id)
            \/ Leave(c, id)
            \/ Fail(c, id)

\* fn returns in the end: its awaits are answered by git and by the event loop.
Fairness ==
    \A c \in Callers, id \in Ids : WF_vars(RunAgain(c, id) \/ Leave(c, id))

Spec == Init /\ [][Next]_vars /\ Fairness

-----------------------------------------------------------------------------
TypeOK ==
    /\ scheduled \in SUBSET Ids
    /\ running \in SUBSET Ids
    /\ inside \in [Callers -> SUBSET Ids]
    /\ asked \in [Ids -> Nat]
    /\ begun \in [Ids -> Nat]

\* The calls of fn for one id never interleave: "prevent updates to the same
\* buffer from interleaving" (watcher.lua).
NeverInterleaved ==
    \A id \in Ids, c, d \in Callers :
        id \in inside[c] /\ id \in inside[d] => c = d

\* What nobody is inside of is free to start: the tables do not outlive the
\* call that set them, unless fn raised an error.
TablesReleased ==
    \A id \in (running \union scheduled) \ MayFail :
        \E c \in Callers : id \in inside[c]

\* A call that came too late for the current run is remembered by it: "the
\* function will be scheduled to run again once the running call has finished".
NoCallLost ==
    \A id \in Schedule \ MayFail :
        asked[id] # begun[id] => id \in scheduled /\ \E c \in Callers : id \in inside[c]

\* Every call is followed by a run of fn that starts after it.
CallServed ==
    \A id \in Schedule \ MayFail, n \in 1 .. MaxCalls :
        asked[id] >= n ~> begun[id] >= n
=============================================================================
