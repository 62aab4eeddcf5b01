-------------------------- MODULE TelescopePicker ---------------------------
(***************************************************************************)
(* The search loop of telescope.nvim (lua/telescope/pickers.lua, find)     *)
(* with its finders (lua/telescope/finders/async_static_finder.lua and     *)
(* async_job_finder.lua), its completion callback and its sorter's status. *)
(*                                                                         *)
(* One coroutine, main_loop, takes the latest input from a channel and     *)
(* runs the finder.  The user edits the prompt, refreshes or closes the    *)
(* picker whenever the coroutine has yielded.  vim.schedule is a first in, *)
(* first out queue of callbacks, libuv reads and timers come at any time.  *)
(*                                                                         *)
(* The channel is plenary's mpsc as PlenaryMpsc shows it to behave: last   *)
(* takes everything that was sent, and a send resumes a blocked receiver   *)
(* at once, up to its next suspension.                                     *)
(*                                                                         *)
(* A batch stands for the entries between two suspensions of a finder: up  *)
(* to 1000 entries of a static finder, one line of a job.                  *)
(***************************************************************************)
EXTENDS Integers, Sequences, FiniteSets

CONSTANTS
  Prompts,       \* what the user types
  EmptyPrompt,   \* what a refresh with reset_prompt leaves of it
  Batches,       \* the batches of results of a search
  MaxRefinders,  \* for each kind of finder, "static" and "job", how many
                 \* refreshes bring a new one (a bound)
  MaxInputs      \* how many edits and refreshes there are (a bound)

ASSUME KindAssumption == DOMAIN MaxRefinders \subseteq {"static", "job"}
ASSUME BatchesAssumption == Batches \in Nat \ {0}
ASSUME EmptyPromptAssumption == EmptyPrompt \in Prompts

VARIABLES
  pc,         \* where main_loop is
  pending,    \* the channel holds a message
  queue,      \* what vim.schedule will run
  typed,      \* the prompt in the buffer
  inputs,     \* how many edits and refreshes there were
  find_id,    \* self._find_id
  kind,       \* what its finders are
  finder,     \* self.finder: which one of those the picker was given
  closed,     \* the prompt buffer is gone, self.closed
  search,     \* the finder's last call: its find_id, the batches it has and has
              \* delivered, whether its job's output is over, whether it failed
  jobs,       \* the finders with a job they have not closed
  manager,    \* self.manager: whose results it holds, and how many batches
  sorter,     \* self.sorter._status
  dropped,    \* batches of the running search the sorter ignored
  completed   \* what the completion callback last saw

vars == <<pc, pending, queue, typed, inputs, find_id, kind, finder, closed, search,
          jobs, manager, sorter, dropped, completed>>

userVars == <<typed, inputs, find_id, kind, finder, closed>>
resultVars == <<manager, sorter, dropped, completed>>

NoResults == [prompt |-> "none", finder |-> 0, n |-> 0]
NoSearch == [id |-> 0, all |-> 0, pos |-> 0, eof |-> FALSE, failed |-> FALSE]

StepCallback == "step"
CompletionCallback == "completion"

\* main_loop is executing: the event loop does not run.
Executing == pc \in {"find", "end"}
EventLoop == ~Executing

-----------------------------------------------------------------------------
\* The channel

\* Mutant: a message sent while main_loop does not wait is lost
SendLost(q) ==
  /\ pc' = IF pc = "rx" THEN "awake" ELSE pc
  /\ queue' = IF pc = "rx" THEN Append(q, StepCallback) ELSE q
  /\ UNCHANGED pending

\* Mutant: a message resumes main_loop wherever it is suspended
SendResumes(q) ==
  /\ pc' = IF pc = "rx" THEN "awake" ELSE pc
  /\ queue' = Append(q, StepCallback)
  /\ UNCHANGED pending

\* tx.send: main_loop, if it waits, runs through rx.last to await_schedule.
Send(q) ==
  IF pc = "rx"
    THEN /\ pc' = "awake"
         /\ queue' = Append(q, StepCallback)
         /\ UNCHANGED pending
    ELSE /\ pending' = TRUE
         /\ queue' = q
         /\ UNCHANGED pc

\* Mutant: no await_schedule after rx.last
ReceiveAtOnce(q) ==
  /\ pending' = FALSE
  /\ pc' = IF pending THEN "awake" ELSE "rx"
  /\ queue' = IF pending THEN <<StepCallback>> \o q ELSE q

\* The head of the loop: rx.last, then await_schedule
Receive(q) ==
  /\ pending' = FALSE
  /\ pc' = IF pending THEN "awake" ELSE "rx"
  /\ queue' = IF pending THEN Append(q, StepCallback) ELSE q

-----------------------------------------------------------------------------
\* The user

\* on_lines: a new find_id, which makes running searches stale, and a message
OnLines(p) ==
  /\ typed' = p
  /\ find_id' = find_id + 1
  /\ Send(queue)

Edit(p) ==
  /\ EventLoop /\ ~closed /\ inputs < MaxInputs
  /\ inputs' = inputs + 1
  /\ OnLines(p)
  /\ UNCHANGED <<kind, finder, closed, search, jobs, resultVars>>

\* refresh: the old finder is closed, which kills its job and closes the pipe.
\* With reset_prompt the prompt's lines are set, which is an edit; else a
\* message is sent and find_id stays.
Refresh(new, reset_prompt) ==
  /\ EventLoop /\ ~closed /\ inputs < MaxInputs
  /\ new => finder < MaxRefinders[kind]
  /\ inputs' = inputs + 1
  /\ IF new THEN finder' = finder + 1 /\ jobs' = jobs \ {finder}
            ELSE UNCHANGED <<finder, jobs>>
  /\ IF reset_prompt THEN OnLines(EmptyPrompt)
                     ELSE Send(queue) /\ UNCHANGED <<typed, find_id>>
  /\ UNCHANGED <<kind, closed, search, resultVars>>

\* on_close_prompt: the sorter is destroyed, the finder closed, the windows and
\* with them the buffer deleted, which calls _detach.
Close ==
  /\ EventLoop /\ ~closed
  /\ closed' = TRUE
  /\ sorter' = "destroy"
  /\ jobs' = jobs \ {finder}
  /\ UNCHANGED <<pc, pending, queue, typed, inputs, find_id, kind, finder, search,
                 manager, dropped, completed>>

-----------------------------------------------------------------------------
\* The coroutine

\* The finder is called: it runs and has results or not; a job's finder closes
\* its old job before anything else, completes at once if there is no command
\* for the prompt, or raises, if the command fails to start, which main_loop
\* catches.  (A static finder that raises does so at its first entry.)
CallFinder(q) ==
  \E all \in {0, Batches} :
    \/ /\ search' = [NoSearch EXCEPT !.id = find_id, !.all = all]
       /\ queue' = q
       /\ IF kind = "job" THEN pc' = "reading" /\ jobs' = jobs \cup {finder}
                          ELSE pc' = "find" /\ UNCHANGED jobs
    \/ /\ kind = "job" /\ all = 0
       /\ \E failed \in BOOLEAN :
            /\ search' = [NoSearch EXCEPT !.id = find_id, !.failed = failed]
            /\ queue' = IF failed THEN q ELSE Append(q, CompletionCallback)
       /\ pc' = "end"
       /\ jobs' = jobs \ {finder}

\* With the prompt and the find_id of this moment.
StartSearch(q) ==
  /\ manager' = [prompt |-> typed, finder |-> finder, n |-> 0]
  /\ sorter' = "start"
  /\ dropped' = 0
  /\ CallFinder(q)
  /\ UNCHANGED <<pending, completed>>

\* Mutant: the prompt's buffer is not asked for
StartFindAnyway(q) == StartSearch(q)

\* After await_schedule: leave if the buffer is gone, else start a search.
StartFind(q) ==
  \/ /\ closed
     /\ pc' = "gone" /\ queue' = q
     /\ UNCHANGED <<pending, search, jobs, resultVars>>
  \/ ~closed /\ StartSearch(q)

\* process_result refuses what belongs to an older find_id.
Stale == search.id # find_id

\* process_result and Sorter:score: ignored unless the sorter has started
Score ==
  /\ search' = [search EXCEPT !.pos = @ + 1]
  /\ IF sorter = "start"
       THEN manager' = [manager EXCEPT !.n = @ + 1] /\ UNCHANGED dropped
       ELSE dropped' = dropped + 1 /\ UNCHANGED manager

MoreBatches == search.pos < search.all

\* async_static_finder: a batch is processed; after 1000 entries it yields,
\* after a shorter, last batch it does not.
StaticBatch ==
  /\ pc = "find" /\ kind = "static"
  /\ MoreBatches /\ ~Stale
  /\ Score
  /\ \/ pc' = "paused" /\ queue' = Append(queue, StepCallback)
     \/ search.pos + 1 = search.all /\ UNCHANGED <<pc, queue>>
  /\ UNCHANGED <<pending, userVars, jobs, sorter, completed>>

\* async_static_finder: the loop is over or broken off, and process_complete
\* is called in either case.
StaticDone ==
  /\ pc = "find" /\ kind = "static"
  /\ ~MoreBatches \/ Stale
  /\ queue' = Append(queue, CompletionCallback)
  /\ pc' = "end"
  /\ UNCHANGED <<pending, userVars, search, jobs, resultVars>>

\* LinesPipe.read: libuv hands over data or the end of the file, unless the
\* pipe has been closed; the coroutine runs up to scheduler in iter.
JobReads ==
  /\ EventLoop /\ pc = "reading" /\ manager.finder \in jobs
  /\ search' = [search EXCEPT !.eof = (search.pos = search.all)]
  /\ pc' = "paused"
  /\ queue' = Append(queue, StepCallback)
  /\ UNCHANGED <<pending, userVars, jobs, resultVars>>

\* async_job_finder: a line is processed, then the next one is read.
JobLine ==
  /\ pc = "find" /\ kind = "job"
  /\ ~search.eof /\ ~Stale
  /\ Score
  /\ pc' = "reading"
  /\ UNCHANGED <<pending, queue, userVars, jobs, sorter, completed>>

\* async_job_finder: at the end of the output process_complete is called; a
\* stale search returns without it.
JobDone ==
  /\ pc = "find" /\ kind = "job"
  /\ search.eof \/ Stale
  /\ queue' = IF search.eof THEN Append(queue, CompletionCallback) ELSE queue
  /\ pc' = "end"
  /\ UNCHANGED <<pending, userVars, search, jobs, resultVars>>

\* An entry maker or the sorter raises; main_loop catches it and goes on: the
\* rest of the results is lost, nothing is completed, a job is not closed.
FinderFails ==
  /\ pc = "find"
  /\ IF kind = "job" THEN ~search.eof ELSE MoreBatches /\ ~Stale
  /\ search' = [search EXCEPT !.failed = TRUE]
  /\ pc' = "end"
  /\ UNCHANGED <<pending, queue, userVars, jobs, resultVars>>

\* The finder has returned: sleep for the debounce time or go on at once.
EndFind ==
  /\ pc = "end"
  /\ \/ pc' = "sleeping" /\ UNCHANGED <<pending, queue>>
     \/ Receive(queue)
  /\ UNCHANGED <<userVars, search, jobs, resultVars>>

SleepOver ==
  /\ EventLoop /\ pc = "sleeping"
  /\ Receive(queue)
  /\ UNCHANGED <<userVars, search, jobs, resultVars>>

-----------------------------------------------------------------------------
\* vim.schedule

\* A scheduled step resumes main_loop.
RunStep ==
  /\ EventLoop /\ queue # <<>> /\ Head(queue) = StepCallback
  /\ \/ pc = "boot" /\ Receive(Tail(queue)) /\ UNCHANGED <<search, jobs, resultVars>>
     \/ pc = "awake" /\ StartFind(Tail(queue))
     \/ /\ pc = "paused" /\ pc' = "find" /\ queue' = Tail(queue)
        /\ UNCHANGED <<pending, search, jobs, resultVars>>
  /\ UNCHANGED userVars

\* get_result_completor: nothing when closed; the find_id it was made with is
\* ignored, it completes whatever the picker holds.
Complete ==
  /\ EventLoop /\ queue # <<>> /\ Head(queue) = CompletionCallback
  /\ queue' = Tail(queue)
  /\ IF closed
       THEN UNCHANGED <<sorter, completed>>
       ELSE sorter' = "finish" /\ completed' = manager
  /\ UNCHANGED <<pc, pending, userVars, search, jobs, manager, dropped>>

-----------------------------------------------------------------------------

\* find: the first message is sent before main_loop starts, which yields to
\* await_schedule at once.
Init ==
  /\ pc = "boot" /\ pending = TRUE /\ queue = <<StepCallback>>
  /\ typed \in Prompts /\ inputs = 0 /\ find_id = 1
  /\ kind \in DOMAIN MaxRefinders /\ finder = 0
  /\ closed = FALSE
  /\ search = NoSearch /\ jobs = {}
  /\ manager = NoResults /\ sorter = "init" /\ dropped = 0 /\ completed = NoResults

User ==
  \/ \E p \in Prompts : Edit(p)
  \/ \E new, reset_prompt \in BOOLEAN : Refresh(new, reset_prompt)
  \/ Close

Program ==
  \/ StaticBatch \/ StaticDone
  \/ JobReads \/ JobLine \/ JobDone
  \/ FinderFails
  \/ EndFind \/ SleepOver
  \/ RunStep \/ Complete

Next == User \/ Program

\* Lua code runs on, the event loop runs what is scheduled and due, and a job
\* writes its output and exits.  The user need not do anything.
Fairness ==
  /\ WF_vars(StaticBatch \/ StaticDone) /\ WF_vars(JobLine \/ JobDone)
  /\ WF_vars(EndFind) /\ WF_vars(RunStep \/ Complete)
  /\ WF_vars(JobReads) /\ WF_vars(SleepOver)

Spec == Init /\ [][Next]_vars /\ Fairness

-----------------------------------------------------------------------------

\* The last search was for the prompt and the finder the picker has now.
Latest == manager.prompt = typed /\ manager.finder = finder

\* The picker shows all the results of its last search.
Full == manager.n = search.all

\* When main_loop waits for input, it has searched with the prompt in the buffer
\* and the present finder, and unless the finder failed it shows everything that
\* search has found: no input was lost between the search it interrupted and the
\* wait.
WaitsUpToDate ==
  pc = "rx" /\ ~closed => ~pending /\ Latest /\ (~search.failed => Full)

\* No result is ignored because an older search's completion callback set the
\* sorter's status after this search had set it to "start".
NothingDropped == dropped > 0 => closed

\* main_loop is suspended in one place: one step is scheduled for it exactly
\* when it yielded to vim.schedule.
OneStep ==
  Cardinality({k \in DOMAIN queue : queue[k] = StepCallback}) =
    IF pc \in {"boot", "awake", "paused"} THEN 1 ELSE 0

\* Closing reaches every job: one that was started and not closed belongs to
\* the finder the picker has now, and there is none once the picker is closed,
\* whatever was pending then.
NoJobLeft == jobs \subseteq {finder} /\ (closed => jobs = {})

\* After any input the picker comes to show all results of a search for it,
\* completed, unless the user does something else first, the finder fails, in
\* which case main_loop waits again without a completion, or a refresh has
\* closed the pipe main_loop reads from: its read callback is never called
\* (_.lua), and the message of the refresh is never received.
Settled == pc = "rx" /\ Latest /\ (search.failed \/ (Full /\ completed = manager))
Stranded == pc = "reading" /\ manager.finder \notin jobs

=============================================================================
