------------------------ MODULE GitsignsThrottleProofs ------------------------
(* The throttle's guarantees for every set of ids and of callers.             *)
EXTENDS GitsignsThrottle, TLAPS

\* running covers every id that somebody is inside of and every id scheduled.
RunningCovers ==
    /\ \A c \in Callers : inside[c] \subseteq running
    /\ scheduled \subseteq running

Exclusion == TypeOK /\ RunningCovers /\ NeverInterleaved

-----------------------------------------------------------------------------
\* Nothing runs in the initial state.
LEMMA ExclusionInit == Init => Exclusion
BY DEF Init, Exclusion, TypeOK, RunningCovers, NeverInterleaved

\* A call that is dropped or queued starts nothing.
LEMMA ExclusionCall ==
    ASSUME NEW id \in Ids, Exclusion, CallDropped(id) \/ CallQueued(id)
    PROVE  Exclusion'
BY DEF Exclusion, TypeOK, RunningCovers, NeverInterleaved, CallDropped, CallQueued, Calls

\* A caller starts fn(id) only when running[id] is unset, hence alone.
LEMMA ExclusionRuns ==
    ASSUME NEW id \in Ids, NEW c \in Callers, Exclusion, CallRuns(c, id)
    PROVE  Exclusion'
<1>1. \A d \in Callers : id \notin inside[d]
    BY DEF Exclusion, RunningCovers, CallRuns
<1>2. TypeOK'
    BY DEF Exclusion, TypeOK, CallRuns, Calls
<1>3. RunningCovers'
    BY DEF Exclusion, TypeOK, RunningCovers, CallRuns
<1>4. NeverInterleaved'
    BY <1>1 DEF Exclusion, TypeOK, NeverInterleaved, CallRuns
<1> QED
    BY <1>2, <1>3, <1>4 DEF Exclusion

\* The end of fn, whatever it is, lets nobody else in.
LEMMA ExclusionEnd ==
    ASSUME NEW id \in Ids, NEW c \in Callers, Exclusion,
           RunAgain(c, id) \/ Leave(c, id) \/ Fail(c, id)
    PROVE  Exclusion'
<1>1. CASE RunAgain(c, id)
    BY <1>1 DEF Exclusion, TypeOK, RunningCovers, NeverInterleaved, RunAgain
<1>2. CASE Leave(c, id)
    <2>1. \A d \in Callers : d # c => id \notin inside[d]
        BY <1>2 DEF Exclusion, NeverInterleaved, Leave
    <2>2. TypeOK'
        BY <1>2 DEF Exclusion, TypeOK, Leave
    <2>3. RunningCovers'
        BY <1>2, <2>1 DEF Exclusion, TypeOK, RunningCovers, Leave
    <2>4. NeverInterleaved'
        BY <1>2 DEF Exclusion, TypeOK, NeverInterleaved, Leave
    <2> QED
        BY <2>2, <2>3, <2>4 DEF Exclusion
<1>3. CASE Fail(c, id)
    BY <1>3 DEF Exclusion, TypeOK, RunningCovers, NeverInterleaved, Fail
<1> QED
    BY <1>1, <1>2, <1>3

\* Every step keeps the invariant.
LEMMA ExclusionNext == Exclusion /\ [Next]_vars => Exclusion'
<1> SUFFICES ASSUME Exclusion, [Next]_vars PROVE Exclusion'
    OBVIOUS
<1>1. CASE UNCHANGED vars
    BY <1>1 DEF vars, Exclusion, TypeOK, RunningCovers, NeverInterleaved
<1>2. CASE Next
    <2> PICK id \in Ids :
            \/ CallDropped(id)
            \/ CallQueued(id)
            \/ \E c \in Callers :
                \/ CallRuns(c, id)
                \/ RunAgain(c, id)
                \/ Leave(c, id)
                \/ Fail(c, id)
        BY <1>2 DEF Next
    <2> QED
        BY ExclusionCall, ExclusionRuns, ExclusionEnd
<1> QED
    BY <1>1, <1>2

\* "Ensure updates cannot be interleaved" (manager.lua): two calls of fn for
\* the same id never overlap, even when fn may raise an error.
THEOREM UpdatesNeverInterleave == Spec => [](TypeOK /\ NeverInterleaved)
<1>1. Exclusion => TypeOK /\ NeverInterleaved
    BY DEF Exclusion
<1> QED
    BY ExclusionInit, ExclusionNext, <1>1, PTL DEF Spec

-----------------------------------------------------------------------------
\* What holds for the ids whose fn never raises an error.
Remembered == Exclusion /\ TablesReleased /\ NoCallLost

LEMMA RememberedInit == Init => Remembered
BY ExclusionInit, ThrottleAssumption DEF Init, Remembered, TablesReleased, NoCallLost

\* A call is dropped only when one is scheduled, and queued only when one runs.
LEMMA RememberedCall ==
    ASSUME NEW id \in Ids, Remembered, CallDropped(id) \/ CallQueued(id)
    PROVE  Remembered'
<1>1. Exclusion'
    BY ExclusionCall DEF Remembered
<1>2. id \notin MayFail => \E c \in Callers : id \in inside[c]
    BY DEF Remembered, TablesReleased, CallDropped, CallQueued
<1>3. TablesReleased'
    BY <1>2 DEF Remembered, TablesReleased, CallDropped, CallQueued
<1>4. NoCallLost'
    <2> SUFFICES ASSUME NEW other \in Schedule \ MayFail,
                        asked'[other] # begun'[other]
                 PROVE  /\ other \in scheduled'
                        /\ \E c \in Callers : other \in inside'[c]
        BY DEF NoCallLost
    <2>1. CASE other = id
        BY <2>1, <1>2 DEF CallDropped, CallQueued
    <2>2. CASE other # id
        BY <2>2, ThrottleAssumption
        DEF Remembered, Exclusion, TypeOK, NoCallLost, CallDropped, CallQueued, Calls
    <2> QED
        BY <2>1, <2>2
<1> QED
    BY <1>1, <1>3, <1>4 DEF Remembered

\* A run that starts has seen every call made so far.
LEMMA RememberedRuns ==
    ASSUME NEW id \in Ids, NEW c \in Callers, Remembered, CallRuns(c, id)
    PROVE  Remembered'
<1>1. Exclusion'
    BY ExclusionRuns DEF Remembered
<1>2. TablesReleased'
    BY DEF Remembered, Exclusion, TypeOK, TablesReleased, CallRuns
<1>3. NoCallLost'
    BY ThrottleAssumption DEF Remembered, Exclusion, TypeOK, NoCallLost, CallRuns, Calls
<1> QED
    BY <1>1, <1>2, <1>3 DEF Remembered

\* So has one that is repeated; the loop is left only when nobody asked, and
\* an error concerns no id but its own.
LEMMA RememberedEnd ==
    ASSUME NEW id \in Ids, NEW c \in Callers, Remembered,
           RunAgain(c, id) \/ Leave(c, id) \/ Fail(c, id)
    PROVE  Remembered'
<1>1. Exclusion'
    BY ExclusionEnd DEF Remembered
<1>2. CASE RunAgain(c, id)
    <2>1. TablesReleased'
        BY <1>2 DEF Remembered, TablesReleased, RunAgain
    <2>2. NoCallLost'
        BY <1>2, ThrottleAssumption DEF Remembered, Exclusion, TypeOK, NoCallLost, RunAgain
    <2> QED
        BY <1>1, <2>1, <2>2 DEF Remembered
<1>3. CASE Leave(c, id)
    <2>1. TablesReleased'
        BY <1>3 DEF Remembered, Exclusion, TypeOK, TablesReleased, Leave
    <2>2. id \in Schedule \ MayFail => asked[id] = begun[id]
        BY <1>3 DEF Remembered, NoCallLost, Leave
    <2>3. NoCallLost'
        BY <1>3, <2>2, ThrottleAssumption DEF Remembered, Exclusion, TypeOK, NoCallLost, Leave
    <2> QED
        BY <1>1, <2>1, <2>3 DEF Remembered
<1>4. CASE Fail(c, id)
    <2>1. \A d \in Callers, other \in Ids \ MayFail :
             other \in inside'[d] <=> other \in inside[d]
        BY <1>4 DEF Remembered, Exclusion, TypeOK, Fail
    <2>2. TablesReleased'
        BY <1>4, <2>1 DEF Remembered, Exclusion, TypeOK, TablesReleased, Fail
    <2>3. NoCallLost'
        BY <1>4, <2>1, ThrottleAssumption DEF Remembered, NoCallLost, Fail
    <2> QED
        BY <1>1, <2>2, <2>3 DEF Remembered
<1> QED
    BY <1>2, <1>3, <1>4

LEMMA RememberedNext == Remembered /\ [Next]_vars => Remembered'
<1> SUFFICES ASSUME Remembered, [Next]_vars PROVE Remembered'
    OBVIOUS
<1>1. CASE UNCHANGED vars
    <2>1. Exclusion'
        BY <1>1, ExclusionNext DEF Remembered
    <2> QED
        BY <1>1, <2>1 DEF vars, Remembered, TablesReleased, NoCallLost
<1>2. CASE Next
    <2> PICK id \in Ids :
            \/ CallDropped(id)
            \/ CallQueued(id)
            \/ \E c \in Callers :
                \/ CallRuns(c, id)
                \/ RunAgain(c, id)
                \/ Leave(c, id)
                \/ Fail(c, id)
        BY <1>2 DEF Next
    <2> QED
        BY RememberedCall, RememberedRuns, RememberedEnd
<1> QED
    BY <1>1, <1>2

\* "The function will be scheduled to run again once the running call has
\* finished" (debounce.lua): where fn raises no error no call is forgotten, and
\* the tables hold nothing that nobody is left to remove.
THEOREM EveryCallRemembered == Spec => [](TablesReleased /\ NoCallLost)
<1>1. Remembered => TablesReleased /\ NoCallLost
    BY DEF Remembered
<1> QED
    BY RememberedInit, RememberedNext, <1>1, PTL DEF Spec
=============================================================================
