------------------------ MODULE TelescopePickerProofs ------------------------
(***************************************************************************)
(* Safety of the picker's search loop for every set of prompts, number of  *)
(* batches, kinds of finder and bounds on inputs and refreshes.            *)
(*                                                                         *)
(* The inductive invariant says where main_loop's step may stand in the    *)
(* queue of vim.schedule (QueueShape), from which it follows that no older *)
(* completion is pending while a search runs, that the running search is   *)
(* that of the picker's state unless a message is pending (InStep), and    *)
(* that a search which ends has shown every batch or failed (UpToDate).    *)
(***************************************************************************)
EXTENDS TelescopePicker, SequenceTheorems, FiniteSetTheorems, TLAPS

Callbacks == {StepCallback, CompletionCallback}
Searches == [id : Nat, all : 0 .. Batches, pos : 0 .. Batches,
             eof : BOOLEAN, failed : BOOLEAN]
Results == [prompt : Prompts \cup {"none"}, finder : Nat, n : 0 .. Batches]

TypeOK ==
  /\ pc \in {"boot", "awake", "find", "paused", "reading", "end", "sleeping",
             "rx", "gone"}
  /\ pending \in BOOLEAN
  /\ queue \in Seq(Callbacks)
  /\ typed \in Prompts
  /\ find_id \in Nat
  /\ kind \in {"static", "job"}
  /\ finder \in Nat
  /\ closed \in BOOLEAN
  /\ search \in Searches /\ search.pos <= search.all
  /\ jobs \subseteq Nat
  /\ manager \in Results
  /\ sorter \in {"init", "start", "finish", "destroy"}
  /\ dropped \in Nat
  /\ completed \in Results

OnlyCompletions(q) == \A k \in DOMAIN q : q[k] = CompletionCallback

\* q ends with a step, before which there are completions only.
EndsWithStep(q) ==
  /\ q # <<>>
  /\ \A k \in DOMAIN q : q[k] = IF k = Len(q) THEN StepCallback ELSE CompletionCallback

\* A step is scheduled last; while the finder runs nothing else is.
QueueShape ==
  /\ pc \in {"boot", "awake"} => EndsWithStep(queue)
  /\ pc = "paused" => queue = <<StepCallback>>
  /\ pc \in {"find", "reading"} => queue = <<>>
  /\ pc \in {"end", "sleeping", "rx", "gone"} => OnlyCompletions(queue)

Searching == pc \in {"find", "paused", "reading"}

\* Every batch of the running search is in the manager.
AllTaken ==
  /\ Searching /\ ~closed => sorter = "start" /\ manager.n = search.pos
  /\ closed => sorter = "destroy"
  /\ NothingDropped

\* The running search is that of the present input, or a message is pending.
InStep ==
  Searching /\ ~closed /\ ~pending =>
    search.id = find_id /\ manager.prompt = typed /\ manager.finder = finder

\* A job is over when it has written every batch.
EofIsLast ==
  kind = "job" /\ pc \in {"paused", "find"} => (search.eof <=> search.pos = search.all)

Current == Latest /\ (~search.failed => Full)

UpToDate ==
  /\ pc \in {"end", "sleeping", "rx"} /\ ~closed /\ ~pending => Current
  /\ pc = "rx" => ~pending
  /\ pc = "boot" => pending

IInv == TypeOK /\ QueueShape /\ AllTaken /\ InStep /\ EofIsLast /\ UpToDate /\ NoJobLeft

-----------------------------------------------------------------------------
\* The queue

\* The empty queue, and one with a step only
LEMMA ShortQueues ==
  /\ <<>> \in Seq(Callbacks) /\ OnlyCompletions(<<>>)
  /\ Append(<<>>, StepCallback) = <<StepCallback>>
  /\ <<StepCallback>> \in Seq(Callbacks) /\ Tail(<<StepCallback>>) = <<>>
BY DEF OnlyCompletions, Callbacks

\* A step scheduled behind completions is the last callback.
LEMMA AppendStep ==
  ASSUME NEW q \in Seq(Callbacks), OnlyCompletions(q)
  PROVE  /\ Append(q, StepCallback) \in Seq(Callbacks)
         /\ EndsWithStep(Append(q, StepCallback))
BY DEF OnlyCompletions, EndsWithStep, Callbacks

\* Completions stay completions when another one is scheduled.
LEMMA AppendCompletion ==
  ASSUME NEW q \in Seq(Callbacks), OnlyCompletions(q)
  PROVE  /\ Append(q, CompletionCallback) \in Seq(Callbacks)
         /\ OnlyCompletions(Append(q, CompletionCallback))
BY DEF OnlyCompletions, Callbacks

\* Running the first callback keeps the shape; a step that is first is alone.
LEMMA RunFirst ==
  ASSUME NEW q \in Seq(Callbacks), q # <<>>
  PROVE  /\ Tail(q) \in Seq(Callbacks)
         /\ OnlyCompletions(q) =>
              OnlyCompletions(Tail(q)) /\ Head(q) = CompletionCallback
         /\ EndsWithStep(q) =>
              IF Head(q) = StepCallback THEN Tail(q) = <<>> ELSE EndsWithStep(Tail(q))
<1>1. /\ Tail(q) \in Seq(Callbacks) /\ Len(Tail(q)) = Len(q) - 1 /\ Len(q) > 0
      /\ \A k \in 1 .. Len(q) - 1 : Tail(q)[k] = q[k + 1]
      /\ Head(q) = q[1] /\ Len(q) \in Nat
      /\ DOMAIN q = 1 .. Len(q) /\ DOMAIN Tail(q) = 1 .. Len(q) - 1
  BY HeadTailProperties, EmptySeq, LenProperties
<1>2. OnlyCompletions(q) => OnlyCompletions(Tail(q)) /\ Head(q) = CompletionCallback
  BY <1>1 DEF OnlyCompletions
<1>3. ASSUME EndsWithStep(q)
      PROVE  IF Head(q) = StepCallback THEN Tail(q) = <<>> ELSE EndsWithStep(Tail(q))
  <2>1. CASE Head(q) = StepCallback
    <3>1. Len(q) = 1
      BY <1>1, <1>3, <2>1 DEF EndsWithStep, StepCallback, CompletionCallback
    <3>2. QED
      BY <1>1, <2>1, <3>1, EmptySeq
  <2>2. CASE Head(q) # StepCallback
    <3>1. Len(q) # 1
      BY <1>1, <1>3, <2>2 DEF EndsWithStep
    <3>2. QED
      BY <1>1, <1>3, <2>2, <3>1, EmptySeq DEF EndsWithStep
  <2>3. QED
    BY <2>1, <2>2
<1>4. QED
  BY <1>1, <1>2, <1>3

\* The shape of the queue says how many steps are in it.
LEMMA ShapeCounts == TypeOK /\ QueueShape => OneStep
<1> SUFFICES ASSUME TypeOK, QueueShape PROVE OneStep
  OBVIOUS
<1> DEFINE steps == {k \in DOMAIN queue : queue[k] = StepCallback}
<1>1. queue \in Seq(Callbacks) /\ Len(queue) \in Nat /\ DOMAIN queue = 1 .. Len(queue)
  BY LenProperties DEF TypeOK
<1>2. CASE pc \in {"boot", "awake", "paused"}
  <2>1. EndsWithStep(queue)
    BY <1>2, <1>1 DEF QueueShape, EndsWithStep
  <2>2. Len(queue) > 0
    BY <2>1, <1>1, EmptySeq DEF EndsWithStep
  <2>3. steps = {Len(queue)}
    BY <2>1, <2>2, <1>1 DEF EndsWithStep, StepCallback, CompletionCallback
  <2>4. Cardinality(steps) = 1
    BY <2>3, FS_Singleton
  <2>5. QED
    BY <1>2, <2>4 DEF OneStep
<1>3. CASE pc \notin {"boot", "awake", "paused"}
  <2>1. OnlyCompletions(queue)
    BY <1>3, <1>1 DEF TypeOK, QueueShape, OnlyCompletions
  <2>2. steps = {}
    BY <2>1 DEF OnlyCompletions, StepCallback, CompletionCallback
  <2>3. Cardinality(steps) = 0
    BY <2>2, FS_EmptySet
  <2>4. QED
    BY <1>3, <2>3 DEF OneStep
<1>4. QED
  BY <1>2, <1>3

-----------------------------------------------------------------------------
\* The steps

\* A picker is opened with a message sent and main_loop's first step scheduled.
LEMMA InitInv == Init => IInv
<1> SUFFICES ASSUME Init PROVE IInv
  OBVIOUS
<1>1. TypeOK
  <2>1. <<StepCallback>> \in Seq(Callbacks)
    BY DEF Callbacks
  <2>2. /\ NoResults \in Results
        /\ NoSearch \in Searches /\ NoSearch.pos <= NoSearch.all
    BY BatchesAssumption DEF Results, Searches, NoResults, NoSearch
  <2>3. QED
    BY <2>1, <2>2, KindAssumption DEF Init, TypeOK
<1>2. QueueShape
  BY DEF Init, QueueShape, EndsWithStep
<1>3. AllTaken /\ InStep /\ EofIsLast /\ UpToDate /\ NoJobLeft
  BY DEF Init, AllTaken, NothingDropped, Searching, InStep, EofIsLast, UpToDate, NoJobLeft
<1>4. QED
  BY <1>1, <1>2, <1>3 DEF IInv

\* tx.send either resumes main_loop, which waits for nothing else, or leaves a
\* message.
LEMMA SendInv ==
  ASSUME IInv, EventLoop, Send(queue)
  PROVE  /\ pc' \in {pc, "awake"} /\ (pc' # "rx")
         /\ pending' \in BOOLEAN /\ (pc' # "awake" => pending')
         /\ queue' \in Seq(Callbacks)
         /\ QueueShape'
         /\ pc' # pc => pc = "rx"
<1>1. CASE pc = "rx"
  <2>1. /\ queue' = Append(queue, StepCallback) /\ pc' = "awake" /\ pending' = pending
        /\ OnlyCompletions(queue)
    BY <1>1 DEF Send, IInv, QueueShape
  <2>2. queue' \in Seq(Callbacks) /\ EndsWithStep(queue')
    BY <2>1, AppendStep DEF IInv, TypeOK
  <2>3. QED
    BY <1>1, <2>1, <2>2 DEF IInv, TypeOK, QueueShape
<1>2. CASE pc # "rx"
  BY <1>2 DEF Send, IInv, TypeOK, QueueShape
<1>3. QED
  BY <1>1, <1>2

\* An edit makes the running search stale and leaves a message.
LEMMA EditInv ==
  ASSUME IInv, NEW p \in Prompts, Edit(p)
  PROVE  IInv'
<1>1. /\ EventLoop /\ ~closed /\ Send(queue) /\ typed' = p /\ find_id' = find_id + 1
      /\ UNCHANGED <<kind, finder, closed, search, jobs, manager, sorter, dropped,
                     completed>>
  BY DEF Edit, OnLines, resultVars
<1>2. QED
  BY <1>1, SendInv
  DEF IInv, TypeOK, AllTaken, NothingDropped, InStep, Searching, EofIsLast, UpToDate,
      EventLoop, Executing, NoJobLeft

\* So does a refresh, which may change the finder, whose job it closes, and the
\* prompt.
LEMMA RefreshInv ==
  ASSUME IInv, NEW new \in BOOLEAN, NEW reset_prompt \in BOOLEAN,
         Refresh(new, reset_prompt)
  PROVE  IInv'
<1>1. /\ EventLoop /\ ~closed /\ Send(queue)
      /\ typed' \in {typed, EmptyPrompt} /\ find_id' \in {find_id, find_id + 1}
      /\ UNCHANGED <<kind, closed, search, manager, sorter, dropped, completed>>
  BY DEF Refresh, OnLines, resultVars
<1>2. /\ finder' \in {finder, finder + 1}
      /\ jobs' \subseteq Nat /\ NoJobLeft'
  <2>1. jobs \subseteq {finder} /\ finder \in Nat
    BY DEF IInv, TypeOK, NoJobLeft
  <2>2. \/ finder' = finder + 1 /\ jobs' = jobs \ {finder}
        \/ finder' = finder /\ jobs' = jobs
    BY DEF Refresh
  <2>3. QED
    BY <1>1, <2>1, <2>2 DEF NoJobLeft
<1>3. QED
  BY <1>1, <1>2, SendInv, EmptyPromptAssumption
  DEF IInv, TypeOK, AllTaken, NothingDropped, InStep, Searching, EofIsLast, UpToDate,
      EventLoop, Executing

\* After the close most of the invariant asks for nothing.
LEMMA CloseInv ==
  ASSUME IInv, Close
  PROVE  IInv'
BY DEF Close, IInv, TypeOK, QueueShape, AllTaken, NothingDropped, InStep, Searching,
       EofIsLast, UpToDate, NoJobLeft

\* rx.last is reached with completions scheduled only, and with all results of
\* the present input if no message is pending.
LEMMA ReceiveInv ==
  ASSUME IInv, NEW q \in Seq(Callbacks), OnlyCompletions(q), Receive(q),
         ~closed /\ ~pending => Current,
         UNCHANGED <<userVars, search, jobs, resultVars>>
  PROVE  IInv'
<1>1. /\ pending' = FALSE
      /\ \/ pc' = "awake" /\ queue' = Append(q, StepCallback)
         \/ pc' = "rx" /\ queue' = q /\ ~pending
  BY DEF Receive
<1>2. queue' \in Seq(Callbacks) /\ QueueShape'
  BY <1>1, AppendStep DEF QueueShape
<1>3. QED
  BY <1>1, <1>2
  DEF userVars, resultVars, IInv, TypeOK, AllTaken, NothingDropped, InStep, Searching,
      EofIsLast, UpToDate, Current, Latest, Full, NoJobLeft

\* A search that starts takes the prompt, the finder and the find_id of the
\* picker, no older completion is left in the queue, and its job is the only one.
LEMMA StartFindInv ==
  ASSUME IInv, pc = "awake", Head(queue) = StepCallback, StartFind(Tail(queue)),
         UNCHANGED userVars
  PROVE  IInv'
<1>1. Tail(queue) = <<>>
  BY RunFirst DEF IInv, TypeOK, QueueShape, EndsWithStep
<1>2. CASE closed
  <2>1. /\ pc' = "gone" /\ queue' = <<>>
        /\ UNCHANGED <<pending, completed, typed, find_id, kind, finder, closed, search,
                       jobs, manager, sorter, dropped>>
    BY <1>1, <1>2 DEF StartFind, userVars, resultVars
  <2>2. QueueShape' /\ queue' \in Seq(Callbacks)
    BY <2>1, ShortQueues DEF QueueShape
  <2>3. QED
    BY <1>2, <2>1, <2>2
    DEF IInv, TypeOK, AllTaken, NothingDropped, InStep, Searching, EofIsLast, UpToDate,
        NoJobLeft
<1>3. CASE ~closed
  <2>1. /\ manager' = [prompt |-> typed, finder |-> finder, n |-> 0]
        /\ sorter' = "start" /\ dropped' = 0 /\ CallFinder(<<>>)
        /\ UNCHANGED <<pending, completed, typed, find_id, kind, finder, closed>>
    BY <1>1, <1>3 DEF StartFind, StartSearch, userVars
  <2>2. PICK all \in {0, Batches} :
          \/ /\ search' = [NoSearch EXCEPT !.id = find_id, !.all = all]
             /\ queue' = <<>>
             /\ IF kind = "job" THEN pc' = "reading" /\ jobs' = jobs \cup {finder}
                                ELSE pc' = "find" /\ UNCHANGED jobs
          \/ /\ kind = "job" /\ all = 0
             /\ \E failed \in BOOLEAN :
                  /\ search' = [NoSearch EXCEPT !.id = find_id, !.failed = failed]
                  /\ queue' = IF failed THEN <<>> ELSE Append(<<>>, CompletionCallback)
             /\ pc' = "end"
             /\ jobs' = jobs \ {finder}
    BY <2>1 DEF CallFinder
  <2>3. jobs' \subseteq Nat /\ NoJobLeft'
    BY <1>3, <2>1, <2>2 DEF IInv, TypeOK, NoJobLeft
  <2>4. manager' \in Results
    BY <2>1, BatchesAssumption DEF IInv, TypeOK, Results
  <2>4a. all \in 0 .. Batches /\ find_id \in Nat
    <3>1. all \in {0, Batches}
      BY <2>2
    <3>2. QED
      BY <3>1, BatchesAssumption DEF IInv, TypeOK
  <2>5. CASE /\ search' = [NoSearch EXCEPT !.id = find_id, !.all = all]
             /\ queue' = <<>> /\ pc' = IF kind = "job" THEN "reading" ELSE "find"
    <3>1. search' = [id |-> find_id, all |-> all, pos |-> 0, eof |-> FALSE,
                     failed |-> FALSE]
      BY <2>5 DEF NoSearch
    <3>2. search' \in Searches /\ search'.pos <= search'.all
      BY <2>4a, <3>1, BatchesAssumption DEF Searches
    <3>2a. queue' = <<>> /\ pc' = IF kind = "job" THEN "reading" ELSE "find"
      BY <2>5
    <3>3. TypeOK'
      BY <2>1, <2>3, <2>4, <3>2, <3>2a, ShortQueues DEF IInv, TypeOK
    <3>4. QueueShape' /\ EofIsLast' /\ UpToDate'
      BY <2>1, <3>1, <3>2a, BatchesAssumption
      DEF IInv, TypeOK, QueueShape, EofIsLast, UpToDate
    <3>5. AllTaken' /\ InStep'
      BY <1>3, <2>1, <3>1, <3>2a DEF AllTaken, NothingDropped, InStep, Searching
    <3>6. QED
      BY <2>3, <3>3, <3>4, <3>5 DEF IInv
  <2>6. ASSUME NEW failed \in BOOLEAN, pc' = "end",
               search' = [NoSearch EXCEPT !.id = find_id, !.failed = failed],
               queue' = IF failed THEN <<>> ELSE Append(<<>>, CompletionCallback)
        PROVE  IInv'
    <3>1. search' = [id |-> find_id, all |-> 0, pos |-> 0, eof |-> FALSE,
                     failed |-> failed]
      BY <2>6 DEF NoSearch
    <3>2. search' \in Searches /\ search'.pos <= search'.all
      BY <3>1, BatchesAssumption DEF IInv, TypeOK, Searches
    <3>3. queue' \in Seq(Callbacks) /\ OnlyCompletions(queue')
      BY <2>6, ShortQueues, AppendCompletion
    <3>4. TypeOK'
      BY <2>1, <2>3, <2>4, <2>6, <3>2, <3>3 DEF IInv, TypeOK
    <3>5. QueueShape' /\ EofIsLast'
      BY <2>6, <3>3 DEF QueueShape, EofIsLast
    <3>6. UpToDate'
      <4>1. pc' = "end"
        BY <2>6
      <4>2. QED
        BY <2>1, <3>1, <4>1 DEF UpToDate, Current, Latest, Full
    <3>7. AllTaken' /\ InStep'
      BY <1>3, <2>1, <2>6 DEF AllTaken, NothingDropped, InStep, Searching
    <3>8. QED
      BY <2>3, <3>4, <3>5, <3>6, <3>7 DEF IInv
  <2>7. QED
    BY <2>2, <2>5, <2>6
<1>4. QED
  BY <1>2, <1>3

\* A batch is taken, for the sorter has started.
LEMMA ScoreTaken ==
  ASSUME IInv, pc = "find", MoreBatches, Score
  PROVE  /\ search' = [search EXCEPT !.pos = @ + 1]
         /\ search' \in Searches /\ search'.pos <= search'.all
         /\ manager' \in Results /\ dropped' \in Nat
         /\ ~closed => /\ manager' = [manager EXCEPT !.n = @ + 1]
                       /\ manager'.n = search'.pos
         /\ ~closed => dropped' = dropped
<1>1. search' = [search EXCEPT !.pos = @ + 1]
  BY DEF Score
<1>2. search \in Searches /\ search.pos < search.all
  BY DEF IInv, TypeOK, MoreBatches
<1>3. /\ search' \in Searches /\ search'.pos <= search'.all
      /\ search'.pos = search.pos + 1
  BY <1>1, <1>2, BatchesAssumption DEF Searches
<1>4. /\ manager \in Results /\ dropped \in Nat
      /\ sorter = "start" => ~closed
      /\ ~closed => sorter = "start" /\ manager.n = search.pos
  BY DEF IInv, TypeOK, AllTaken, Searching
<1>5. CASE closed
  BY <1>1, <1>3, <1>4, <1>5 DEF Score
<1>6. CASE ~closed
  <2>1. manager' = [manager EXCEPT !.n = @ + 1] /\ dropped' = dropped
    BY <1>4, <1>6 DEF Score
  <2>2. manager' \in Results /\ manager'.n = search'.pos
    BY <1>2, <1>3, <1>4, <1>6, <2>1, BatchesAssumption DEF Results, Searches
  <2>3. QED
    BY <1>1, <1>3, <1>4, <2>1, <2>2
<1>7. QED
  BY <1>5, <1>6

\* A batch is taken, and the coroutine yields or goes on.
LEMMA StaticBatchInv ==
  ASSUME IInv, StaticBatch
  PROVE  IInv'
<1>1. /\ pc = "find" /\ kind = "static" /\ MoreBatches /\ Score
      /\ \/ pc' = "paused" /\ queue' = Append(queue, StepCallback)
         \/ pc' = "find" /\ queue' = queue
      /\ UNCHANGED <<pending, typed, find_id, kind, finder, closed, jobs, sorter,
                     completed>>
  BY DEF StaticBatch, userVars
<1>2. queue = <<>> /\ QueueShape' /\ queue' \in Seq(Callbacks)
  BY <1>1, ShortQueues DEF IInv, QueueShape
<1>3. QED
  BY <1>1, <1>2, ScoreTaken
  DEF IInv, TypeOK, Results, Searches, AllTaken, NothingDropped, InStep, Searching, EofIsLast,
      UpToDate, NoJobLeft

\* A line is taken; one that was read is there to be taken.
LEMMA JobLineInv ==
  ASSUME IInv, JobLine
  PROVE  IInv'
<1>1. /\ pc = "find" /\ kind = "job" /\ ~search.eof /\ Score /\ pc' = "reading"
      /\ UNCHANGED <<pending, queue, typed, find_id, kind, finder, closed, jobs, sorter,
                     completed>>
  BY DEF JobLine, userVars
<1>2. MoreBatches
  BY <1>1, BatchesAssumption DEF IInv, TypeOK, Searches, EofIsLast, MoreBatches
<1>3. QED
  BY <1>1, <1>2, ScoreTaken
  DEF IInv, TypeOK, QueueShape, Results, Searches, AllTaken, NothingDropped, InStep, Searching,
      EofIsLast, UpToDate, NoJobLeft

\* A search which ends though it is not stale has taken every batch or failed.
LEMMA FindEndsInv ==
  ASSUME IInv, pc = "find", pc' = "end",
         queue' \in {queue, Append(queue, CompletionCallback)},
         search' \in {search, [search EXCEPT !.failed = TRUE]},
         search.pos = search.all \/ Stale \/ search'.failed,
         UNCHANGED <<pending, userVars, jobs, resultVars>>
  PROVE  IInv'
<1>1. QueueShape' /\ queue' \in Seq(Callbacks)
  <2>1. queue = <<>> /\ OnlyCompletions(queue) /\ queue \in Seq(Callbacks)
    BY ShortQueues DEF IInv, QueueShape
  <2>2. OnlyCompletions(queue') /\ queue' \in Seq(Callbacks)
    BY <2>1, AppendCompletion
  <2>3. QED
    BY <2>2 DEF QueueShape
<1>2. /\ search' \in Searches /\ search'.pos <= search'.all
      /\ search'.all = search.all
  BY DEF IInv, TypeOK, Searches
<1>3. ~closed' /\ ~pending' => Current'
  BY <1>2
  DEF userVars, resultVars, IInv, AllTaken, InStep, Searching, Stale, Current, Latest,
      Full
<1>4. QED
  BY <1>1, <1>2, <1>3
  DEF userVars, resultVars, IInv, TypeOK, AllTaken, NothingDropped, InStep, Searching,
      EofIsLast, UpToDate, NoJobLeft

\* Both finders end a search that is not stale after the last batch only, unless
\* they fail.
LEMMA FindDoneInv ==
  ASSUME IInv, StaticDone \/ JobDone \/ FinderFails
  PROVE  IInv'
<1>1. CASE StaticDone
  <2>1. search.pos = search.all \/ Stale
    BY <1>1 DEF StaticDone, MoreBatches, IInv, TypeOK, Searches
  <2>2. QED
    BY <1>1, <2>1, FindEndsInv DEF StaticDone
<1>2. CASE JobDone
  <2>1. search.pos = search.all \/ Stale
    BY <1>2 DEF JobDone, IInv, EofIsLast
  <2>2. QED
    BY <1>2, <2>1, FindEndsInv DEF JobDone
<1>3. CASE FinderFails
  <2>1. /\ pc = "find" /\ pc' = "end" /\ queue' = queue
        /\ search' = [search EXCEPT !.failed = TRUE]
        /\ UNCHANGED <<pending, userVars, jobs, resultVars>>
    BY <1>3 DEF FinderFails
  <2>2. search'.failed
    BY <2>1 DEF IInv, TypeOK, Searches
  <2>3. QED
    BY <2>1, <2>2, FindEndsInv
<1>4. QED
  BY <1>1, <1>2, <1>3

\* The read tells the end of the output from a line.
LEMMA JobReadsInv ==
  ASSUME IInv, JobReads
  PROVE  IInv'
<1>1. /\ pc = "reading" /\ pc' = "paused" /\ queue' = Append(queue, StepCallback)
      /\ search' = [search EXCEPT !.eof = (search.pos = search.all)]
      /\ UNCHANGED <<pending, typed, find_id, kind, finder, closed, jobs, manager, sorter,
                     dropped, completed>>
  BY DEF JobReads, userVars, resultVars
<1>2. queue = <<>> /\ QueueShape' /\ queue' \in Seq(Callbacks)
  BY <1>1, ShortQueues DEF IInv, QueueShape
<1>3. search \in Searches /\ search.pos <= search.all
  BY DEF IInv, TypeOK
<1>4. /\ search' \in Searches /\ search'.pos <= search'.all
      /\ search'.eof <=> search'.pos = search'.all
      /\ search'.id = search.id /\ search'.pos = search.pos
  BY <1>1, <1>3 DEF Searches
<1>5. /\ pc = "reading" /\ pc' = "paused"
      /\ UNCHANGED <<pending, typed, find_id, kind, finder, closed, jobs, manager, sorter,
                     dropped, completed>>
  BY <1>1
<1>6. QED
  BY <1>2, <1>4, <1>5
  DEF IInv, TypeOK, AllTaken, NothingDropped, InStep, Searching, EofIsLast,
      UpToDate, NoJobLeft

\* The debounce sleep delays the next reception and changes nothing else.
LEMMA EndFindInv ==
  ASSUME IInv, EndFind \/ SleepOver
  PROVE  IInv'
<1>1. /\ pc \in {"end", "sleeping"}
      /\ \/ pc' = "sleeping" /\ UNCHANGED <<pending, queue>>
         \/ Receive(queue)
      /\ UNCHANGED <<userVars, search, jobs, resultVars>>
  BY DEF EndFind, SleepOver
<1>2. CASE Receive(queue)
  BY <1>1, <1>2, ReceiveInv DEF IInv, TypeOK, QueueShape, UpToDate
<1>3. CASE pc' = "sleeping" /\ UNCHANGED <<pending, queue>>
  BY <1>1, <1>3
  DEF userVars, resultVars, IInv, TypeOK, QueueShape, AllTaken, NothingDropped, InStep,
      Searching, EofIsLast, UpToDate, Current, Latest, Full, NoJobLeft
<1>4. QED
  BY <1>1, <1>2, <1>3

\* The scheduled step resumes main_loop where it yielded, with nothing else
\* scheduled.
LEMMA RunStepInv ==
  ASSUME IInv, RunStep
  PROVE  IInv'
<1>1. queue # <<>> /\ Head(queue) = StepCallback /\ queue \in Seq(Callbacks)
  BY DEF RunStep, IInv, TypeOK
<1>2. CASE /\ pc = "boot" /\ Receive(Tail(queue))
           /\ UNCHANGED <<userVars, search, jobs, resultVars>>
  <2>1. Tail(queue) = <<>>
    BY <1>1, <1>2, RunFirst DEF IInv, QueueShape
  <2>2. Tail(queue) \in Seq(Callbacks) /\ OnlyCompletions(Tail(queue))
    BY <2>1, ShortQueues
  <2>3. QED
    BY <1>2, <2>2, ReceiveInv DEF IInv, UpToDate
<1>3. CASE pc = "awake" /\ StartFind(Tail(queue)) /\ UNCHANGED userVars
  BY <1>1, <1>3, StartFindInv
<1>4. CASE /\ pc = "paused" /\ pc' = "find" /\ queue' = Tail(queue)
           /\ UNCHANGED <<pending, search, jobs, resultVars, userVars>>
  <2>1. queue' = <<>>
    BY <1>4, ShortQueues DEF IInv, QueueShape
  <2>2. QED
    BY <1>4, <2>1, ShortQueues
    DEF userVars, resultVars, IInv, TypeOK, QueueShape, AllTaken, NothingDropped, InStep,
        Searching, EofIsLast, UpToDate, NoJobLeft
<1>5. QED
  BY <1>2, <1>3, <1>4 DEF RunStep

\* A completion runs only while no search does.
LEMMA CompleteInv ==
  ASSUME IInv, Complete
  PROVE  IInv'
<1>1. /\ queue # <<>> /\ Head(queue) = CompletionCallback /\ queue \in Seq(Callbacks)
      /\ queue' = Tail(queue) /\ EventLoop
      /\ UNCHANGED <<pc, pending, typed, find_id, kind, finder, closed, search, jobs,
                     manager, dropped>>
      /\ IF closed THEN UNCHANGED <<sorter, completed>>
                   ELSE sorter' = "finish" /\ completed' = manager
  BY DEF Complete, userVars, IInv, TypeOK
<1>2. ~Searching
  BY <1>1 DEF Searching, IInv, QueueShape, EventLoop, Executing, StepCallback,
              CompletionCallback
<1>3. queue' \in Seq(Callbacks) /\ QueueShape'
  BY <1>1, <1>2, RunFirst
  DEF QueueShape, Searching, IInv, StepCallback, CompletionCallback
<1>4. QED
  BY <1>1, <1>2, <1>3
  DEF IInv, TypeOK, Results, AllTaken, NothingDropped, InStep, Searching, EofIsLast,
      UpToDate, Current, Latest, Full, NoJobLeft

\* Every step preserves the invariant.
LEMMA NextInv == IInv /\ [Next]_vars => IInv'
<1> SUFFICES ASSUME IInv, [Next]_vars PROVE IInv'
  OBVIOUS
<1>1. CASE UNCHANGED vars
  BY <1>1
  DEF vars, IInv, TypeOK, QueueShape, AllTaken, NothingDropped, InStep, Searching,
      EofIsLast, UpToDate, Current, Latest, Full, NoJobLeft
<1>2. CASE Next
  BY <1>2, EditInv, RefreshInv, CloseInv, StaticBatchInv, JobLineInv, FindDoneInv,
     JobReadsInv, EndFindInv, RunStepInv, CompleteInv
  DEF Next, User, Program
<1>3. QED
  BY <1>1, <1>2

-----------------------------------------------------------------------------

\* However edits, refreshes, completions and the finder interleave: when
\* main_loop waits, it has searched for the present prompt with the present finder
\* and shows all results of that, unless the finder failed; no completion of an
\* older search makes the sorter ignore results; one step is scheduled for
\* main_loop exactly when it has yielded; closing the picker leaves no job.
THEOREM PickerSafe ==
  Spec => [](WaitsUpToDate /\ NothingDropped /\ OneStep /\ NoJobLeft)
<1>1. IInv => WaitsUpToDate /\ NothingDropped /\ OneStep /\ NoJobLeft
  BY ShapeCounts DEF IInv, WaitsUpToDate, AllTaken, UpToDate, Current
<1>2. QED
  BY InitInv, NextInv, <1>1, PTL DEF Spec

=============================================================================
