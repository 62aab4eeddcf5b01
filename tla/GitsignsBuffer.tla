---------------------------- MODULE GitsignsBuffer ----------------------------
(* One buffer of gitsigns.nvim: attach.lua, manager.lua, watcher.lua,         *)
(* cache.lua and debounce.lua around the buffer's cache entry.  Neovim runs   *)
(* one coroutine at a time; every await (a git process, the diff worker,      *)
(* vim.schedule) lets any other step in.  A text is its version; hunks are    *)
(* the pair of versions they were computed from.  Of the other buffers only   *)
(* their calls of update_debounced are there: all buffers share its timer.    *)
EXTENDS Integers, Sequences

CONSTANTS MaxEntries,  \* bound on the cache entries made for the buffer
          Budgets      \* how often what happens: the text and the git directory
                       \* change, the user writes, detaches, renames, ...

ASSUME BufferAssumption ==
    /\ MaxEntries \in Nat \ {0}
    /\ Budgets \subseteq
           [{"edit", "git", "write", "detach", "rename", "unload", "stage", "other"} -> Nat]

VARIABLES buf,      \* the Neovim buffer: text, name, state, listeners, and whether it
                    \* has the BufWrite autocommand
          repo,     \* the version of the git directory
          entries,  \* the cache entries made so far
          cur,      \* cache[bufnr]: an index of entries, 0 when it is nil
          timer,    \* whose call update_debounced will make: its one timer keeps
                    \* the arguments of the last call only
          lost,     \* history: a call for this buffer was replaced by another's,
                    \* and no update has begun since
          upd,      \* manager.update: the throttle and the running call
          watch,    \* watcher_handler: debounce, throttle and running call
          att,      \* attach: the throttle's running call
          stg,      \* stage_hunk: the running call
          status,   \* heads of the hunks in the signs and in the status line
          left      \* what remains of the budget

vars == <<buf, repo, entries, cur, timer, lost, upd, watch, att, stg, status, left>>

-----------------------------------------------------------------------------
(* Values.                                                                    *)

Nil == -1
NoHunks == [base |-> Nil, text |-> Nil]
NoStaged == [base |-> Nil, text |-> Nil, less |-> NoHunks]

\* What compare_heads looks at: where the hunks are, not their text.  The
\* versions 2k and 2k + 1 of the text differ inside of a hunk only.
Heads(h) == <<h.base, h.text \div 2>>
SameHeads(a, b) == Heads(a) = Heads(b)
SameStaged(a, b) == SameHeads(a, b) /\ SameHeads(a.less, b.less)

NewEntry(file, object) ==
    [file |-> file, object |-> object, compare |-> Nil, compareHead |-> Nil,
     hunks |-> NoHunks, staged |-> NoStaged, force |-> FALSE,
     lock |-> FALSE, gitLock |-> FALSE, watching |-> TRUE]

\* CacheEntry:invalidate(), and invalidate(true).
Invalidate(e) == [e EXCEPT !.hunks = NoHunks, !.staged = NoStaged]
InvalidateAll(e) == [Invalidate(e) EXCEPT !.compare = Nil, !.compareHead = Nil]

Locked(e) == e.gitLock \/ e.lock

UpdateIdle == [at |-> "idle", by |-> "", again |-> FALSE, entry |-> 0, since |-> Nil,
               args |-> NoHunks, old |-> NoHunks, oldStaged |-> NoStaged]
WatchIdle == [at |-> "idle", again |-> FALSE, timer |-> FALSE, entry |-> 0, since |-> Nil]
AttachIdle == [at |-> "idle", file |-> Nil, object |-> Nil]
StageIdle == [at |-> "idle", entry |-> 0, since |-> Nil]

Init ==
    /\ buf = [text |-> 0, name |-> 0, state |-> "loaded", listeners |-> 0, autocmd |-> FALSE]
    /\ repo = 0
    /\ entries = <<>>
    /\ cur = 0
    /\ timer = "none" /\ lost = FALSE
    /\ upd = UpdateIdle
    /\ watch = WatchIdle
    /\ att = [AttachIdle EXCEPT !.at = "git", !.file = 0, !.object = 0]
    /\ stg = StageIdle
    /\ status = Heads(NoHunks)
    /\ left \in Budgets

Spend(what) ==
    /\ left[what] > 0
    /\ left' = [left EXCEPT ![what] = @ - 1]

Valid == buf.state # "wiped"

\* manager.schedule after its await, with and without check_compare_text
StillAttached == Valid /\ cur # 0
StillCompared == StillAttached /\ entries[cur].compare # Nil

-----------------------------------------------------------------------------
(* manager.update, wrapped in throttle_by_id(fn, true).                       *)

\* The throttled function is called: it is dropped, queued, or starts.
Called(u, caller) ==
    IF u.at # "idle" THEN [u EXCEPT !.again = TRUE]
    ELSE [UpdateIdle EXCEPT !.at = "begin", !.by = caller]

\* Mutant of Debounced: a change is left to the update that is running.
DebouncedUnlessRunning(id) ==
    /\ timer' = IF upd.at = "idle" THEN id ELSE timer
    /\ lost' = (id # "this" /\ (lost \/ timer = "this"))

\* update_debounced is called: debounce_trailing has no hash, so that one timer
\* starts, or starts over, with the arguments of this call.
Debounced(id) ==
    /\ timer' = id
    /\ lost' = (id # "this" /\ (lost \/ timer = "this"))

\* What a coroutine that awaited the update does next: it ends, or, being the
\* throttled watcher handler, starts over.
WatchEnds(w) ==
    [WatchIdle EXCEPT !.timer = w.timer, !.at = IF w.again THEN "begin" ELSE "idle"]

CallerEnds ==
    /\ watch' = IF upd.by = "watch" THEN WatchEnds(watch) ELSE watch
    /\ att' = IF upd.by = "attach" THEN AttachIdle ELSE att

\* Mutant of UpdateReturns: calls made during the update are forgotten.
UpdateReturnsForgets ==
    /\ upd' = UpdateIdle
    /\ CallerEnds

\* fn returned: run it once more for the calls that came meanwhile, or leave.
UpdateReturns ==
    \/ /\ upd.again
       /\ upd' = [UpdateIdle EXCEPT !.at = "begin", !.by = upd.by]
       /\ UNCHANGED <<watch, att>>
    \/ /\ ~upd.again
       /\ upd' = UpdateIdle
       /\ CallerEnds

UpdateUnchanged == UNCHANGED <<buf, repo, cur, timer, lost, stg, left>>

\* A check after an await failed: the entry keeps what was written to it.
UpdateAborts(check) ==
    /\ ~check
    /\ UpdateReturns
    /\ UNCHANGED <<entries, status>>
    /\ UpdateUnchanged

UpdateGoesOn(at) ==
    /\ upd' = [upd EXCEPT !.at = at]
    /\ UNCHANGED <<watch, att, status>>
    /\ UpdateUnchanged

\* The text is read and handed to the diff with compare_text.
StartDiff(u, e) ==
    [u EXCEPT !.at = "diff", !.args = [base |-> e.compare, text |-> buf.text]]

\* The first part, up to the diff or to the await of get_show_text.
UpdateBegin ==
    /\ upd.at = "begin"
    /\ StillAttached
    /\ LET e == entries[cur]
           u == [upd EXCEPT !.entry = cur, !.old = e.hunks, !.oldStaged = e.staged]
       IN  /\ entries' = [entries EXCEPT ![cur] = [Invalidate(e) EXCEPT !.lock = TRUE]]
           /\ upd' = IF e.compare = Nil
                     THEN [u EXCEPT !.at = "show", !.since = e.object]
                     ELSE StartDiff(u, e)
    /\ lost' = FALSE
    /\ UNCHANGED <<buf, repo, cur, timer, watch, att, stg, status, left>>

\* git show answers with the text of the object named when it was asked.
UpdateShown ==
    /\ upd.at = "show"
    /\ entries' = [entries EXCEPT ![upd.entry].compare = upd.since]
    /\ UpdateGoesOn("shown")

UpdateDiff ==
    /\ upd.at = "shown"
    /\ StillCompared
    /\ upd' = StartDiff(upd, entries[upd.entry])
    /\ UNCHANGED <<watch, att, status, entries>>
    /\ UpdateUnchanged

UpdateDiffed ==
    /\ upd.at = "diff"
    /\ entries' = [entries EXCEPT ![upd.entry].hunks = upd.args]
    /\ UpdateGoesOn("diffed")

\* The second part, against HEAD: the text is the one read for the first.
StartDiffHead(u, e) ==
    [u EXCEPT !.at = "diffHead", !.args.base = e.compareHead]

UpdateHead ==
    /\ upd.at = "diffed"
    /\ StillAttached
    /\ LET e == entries[upd.entry]
       IN  upd' = IF e.compareHead = Nil
                  THEN [upd EXCEPT !.at = "showHead", !.since = repo]
                  ELSE StartDiffHead(upd, e)
    /\ UNCHANGED <<watch, att, status, entries>>
    /\ UpdateUnchanged

\* git show HEAD:file reads HEAD at some moment of the await.
UpdateShownHead ==
    /\ upd.at = "showHead"
    /\ \E v \in upd.since .. repo :
           entries' = [entries EXCEPT ![upd.entry].compareHead = v]
    /\ UpdateGoesOn("shownHead")

UpdateDiffHead ==
    /\ upd.at = "shownHead"
    /\ StillCompared
    /\ upd' = StartDiffHead(upd, entries[upd.entry])
    /\ UNCHANGED <<watch, att, status, entries>>
    /\ UpdateUnchanged

UpdateDiffedHead ==
    /\ upd.at = "diffHead"
    /\ UNCHANGED entries
    /\ UpdateGoesOn("diffedHead")

\* Mutant of Applies: only a change of the signs' lines writes them again.
AppliesForced(e) == e.force

\* Whether the signs and the status are written.
Applies(e) ==
    \/ e.force
    \/ ~SameHeads(e.hunks, upd.old)
    \/ ~SameStaged(e.staged, upd.oldStaged)

\* The last part: signs and status are written when the heads changed.
UpdateFinish ==
    /\ upd.at = "diffedHead"
    /\ StillAttached
    /\ LET e == entries[upd.entry]
           f == [e EXCEPT !.staged = [base |-> upd.args.base, text |-> upd.args.text,
                                      less |-> e.hunks]]
       IN  /\ status' = IF Applies(f) THEN Heads(f.hunks) ELSE status
           /\ entries' = [entries EXCEPT ![upd.entry] =
                  [f EXCEPT !.force = @ /\ ~Applies(f), !.lock = FALSE]]
    /\ UpdateReturns
    /\ UpdateUnchanged

UpdateStops ==
    \/ upd.at \in {"begin", "diffed", "diffedHead"} /\ UpdateAborts(StillAttached)
    \/ upd.at \in {"shown", "shownHead"} /\ UpdateAborts(StillCompared)

UpdateStep ==
    \/ UpdateBegin \/ UpdateShown \/ UpdateDiff \/ UpdateDiffed \/ UpdateHead
    \/ UpdateShownHead \/ UpdateDiffHead \/ UpdateDiffedHead \/ UpdateFinish
    \/ UpdateStops

\* update_debounced fires: a new coroutine calls update for the buffer of the
\* last call.
TimerFires ==
    /\ timer # "none"
    /\ timer' = "none"
    /\ upd' = IF timer = "this" THEN Called(upd, "timer") ELSE upd
    /\ UNCHANGED <<buf, repo, entries, cur, lost, watch, att, stg, status, left>>

-----------------------------------------------------------------------------
(* watcher_handler: debounce_trailing over throttle_by_id(fn, true).          *)

\* The git directory changes and the entry's watcher, if any, sees it.
RepoChanges ==
    /\ Spend("git")
    /\ repo' = repo + 1
    /\ watch' = IF cur # 0 /\ entries[cur].watching
                THEN [watch EXCEPT !.timer = TRUE] ELSE watch

GitEvent ==
    /\ RepoChanges
    /\ UNCHANGED <<buf, entries, cur, timer, lost, upd, att, stg, status>>

\* Mutant of WatchFires: a call while the handler runs is dropped (no schedule).
WatchFiresDropped ==
    /\ watch.timer
    /\ watch' = IF watch.at # "idle" THEN [watch EXCEPT !.timer = FALSE]
                ELSE [watch EXCEPT !.timer = FALSE, !.at = "begin"]
    /\ UNCHANGED <<buf, repo, entries, cur, timer, lost, upd, att, stg, status, left>>

WatchFires ==
    /\ watch.timer
    /\ watch' = IF watch.at # "idle" THEN [watch EXCEPT !.timer = FALSE, !.again = TRUE]
                ELSE [watch EXCEPT !.timer = FALSE, !.at = "begin"]
    /\ UNCHANGED <<buf, repo, entries, cur, timer, lost, upd, att, stg, status, left>>

WatchUnchanged == UNCHANGED <<buf, repo, cur, timer, lost, att, stg, status, left>>

\* The captured git_obj is the one of the entry the handler began with.
WatchBegin ==
    /\ watch.at = "begin"
    /\ StillAttached
    /\ watch' = [watch EXCEPT !.at = "abbrevHead", !.entry = cur]
    /\ UNCHANGED <<entries, upd>>
    /\ WatchUnchanged

WatchAsks ==
    /\ watch.at = "abbrevHead"
    /\ StillAttached
    /\ watch' = [watch EXCEPT !.at = "info", !.since = repo]
    /\ UNCHANGED <<entries, upd>>
    /\ WatchUnchanged

\* git_obj:update(): git reads the index at some moment of the await.
WatchInfo ==
    /\ watch.at = "info"
    /\ \E v \in watch.since .. repo :
           entries' = [entries EXCEPT ![watch.entry].object = v]
    /\ watch' = [watch EXCEPT !.at = "informed", !.since = Nil]
    /\ UNCHANGED upd
    /\ WatchUnchanged

\* The entry cached now is invalidated and update is called: the handler awaits
\* it, or ends when an update is already running.
WatchInvalidates ==
    /\ watch.at = "informed"
    /\ StillAttached
    /\ entries' = [entries EXCEPT ![cur] = InvalidateAll(@)]
    /\ upd' = Called(upd, "watch")
    /\ watch' = IF upd.at = "idle" THEN [watch EXCEPT !.at = "updating"] ELSE WatchEnds(watch)
    /\ WatchUnchanged

WatchStops ==
    /\ watch.at \in {"begin", "abbrevHead", "informed"}
    /\ ~StillAttached
    /\ watch' = WatchEnds(watch)
    /\ UNCHANGED <<entries, upd>>
    /\ WatchUnchanged

WatchStep == WatchBegin \/ WatchAsks \/ WatchInfo \/ WatchInvalidates \/ WatchStops

-----------------------------------------------------------------------------
(* attach, wrapped in throttle_by_id(fn), and detach.                         *)

\* attach_throttled is called: nothing while it runs or an entry is cached.
AttachCalled(b, attached) ==
    IF att.at = "idle" /\ ~attached /\ b.state = "loaded"
    THEN [AttachIdle EXCEPT !.at = "git", !.file = b.name, !.object = repo]
    ELSE att

AttachUnchanged == UNCHANGED <<repo, timer, lost, watch, stg, status, left>>

\* git.Obj.new: git reads the index at some moment of the await.
AttachFound ==
    /\ att.at = "git"
    /\ \E v \in att.object .. repo : att' = [att EXCEPT !.at = "enter", !.object = v]
    /\ UNCHANGED <<buf, entries, cur, upd>>
    /\ AttachUnchanged

\* The early returns: not in a repository, untracked, refused by on_attach, or
\* a buffer that is no longer valid.
AttachGivesUp ==
    /\ \/ att.at = "git"
       \/ att.at = "enter" /\ ~Valid
    /\ att' = AttachIdle
    /\ UNCHANGED <<buf, entries, cur, upd>>
    /\ AttachUnchanged

\* The entry is made and its watcher started.  An unloaded buffer stops here.
AttachEnters ==
    /\ att.at = "enter"
    /\ Valid
    /\ Len(entries) < MaxEntries
    /\ entries' = Append(entries, NewEntry(att.file, att.object))
    /\ cur' = Len(entries')
    /\ IF buf.state = "loaded"
       THEN /\ buf' = [buf EXCEPT !.listeners = @ + 1, !.autocmd = TRUE]
            /\ upd' = Called(upd, "attach")
            /\ att' = IF upd.at = "idle" THEN [att EXCEPT !.at = "updating"] ELSE AttachIdle
       ELSE /\ att' = AttachIdle
            /\ UNCHANGED <<buf, upd>>
    /\ AttachUnchanged

AttachStep == AttachFound \/ AttachGivesUp \/ AttachEnters

\* M.detach: the watcher is closed, the entry dropped, the status cleared.  The
\* callbacks given to nvim_buf_attach stay until they run next.
Detaches ==
    /\ cur' = 0
    /\ entries' = IF cur = 0 THEN entries ELSE [entries EXCEPT ![cur].watching = FALSE]
    /\ status' = IF cur = 0 THEN status ELSE Heads(NoHunks)

\* :Gitsigns detach.
Detach ==
    /\ cur # 0
    /\ Spend("detach")
    /\ Detaches
    /\ UNCHANGED <<buf, repo, timer, lost, upd, watch, att, stg>>

\* :file: BufFilePre detaches and BufFilePost attaches.
Rename ==
    /\ buf.state = "loaded"
    /\ Spend("rename")
    /\ buf' = [buf EXCEPT !.name = @ + 1]
    /\ Detaches
    /\ att' = AttachCalled(buf', FALSE)
    /\ UNCHANGED <<repo, timer, lost, upd, watch, stg>>

\* :bunload or :bwipeout.  Every listener gets on_detach, which also clears the
\* autocommand, and is gone.
Unload ==
    /\ buf.state = "loaded"
    /\ Spend("unload")
    /\ \E state \in {"unloaded", "wiped"} :
           buf' = [buf EXCEPT !.state = state, !.listeners = 0,
                               !.autocmd = @ /\ buf.listeners = 0]
    /\ IF buf.listeners > 0 THEN Detaches ELSE UNCHANGED <<cur, entries, status>>
    /\ UNCHANGED <<repo, timer, lost, upd, watch, att, stg>>

\* The buffer is shown again: BufRead attaches.
Load ==
    /\ buf.state = "unloaded"
    /\ buf' = [buf EXCEPT !.state = "loaded"]
    /\ att' = AttachCalled(buf', cur # 0)
    /\ UNCHANGED <<repo, entries, cur, timer, lost, upd, watch, stg, status, left>>

-----------------------------------------------------------------------------
(* Callbacks of the buffer.                                                   *)

Changes ==
    /\ buf.state = "loaded"
    /\ Spend("edit")

CallbacksUnchanged == UNCHANGED <<repo, upd, watch, stg, status>>

\* on_lines with an entry: hunks whose signs were in the region make the next
\* update write the signs again.
EditAttached ==
    /\ Changes
    /\ buf.listeners > 0
    /\ cur # 0
    /\ buf' = [buf EXCEPT !.text = @ + 1]
    /\ \E signed \in BOOLEAN :
           entries' = [entries EXCEPT ![cur].force = @ \/ (signed /\ entries[cur].hunks # NoHunks)]
    /\ Debounced("this")
    /\ UNCHANGED <<cur, att>>
    /\ CallbacksUnchanged

\* on_lines without an entry returns true, which removes the listener.
EditDetached ==
    /\ Changes
    /\ buf.listeners = 0 \/ cur = 0
    /\ buf' = [buf EXCEPT !.text = @ + 1, !.listeners = 0]
    /\ UNCHANGED <<entries, cur, timer, lost, att>>
    /\ CallbacksUnchanged

\* :edit reads the file again: on_reload, which fails when there is no entry,
\* and BufRead.
Reload ==
    /\ Changes
    /\ buf' = [buf EXCEPT !.text = @ + 1]
    /\ IF buf.listeners > 0 /\ cur # 0
       THEN /\ entries' = [entries EXCEPT ![cur] = Invalidate(@)]
            /\ Debounced("this")
       ELSE UNCHANGED <<entries, timer, lost>>
    /\ att' = AttachCalled(buf', cur # 0)
    /\ UNCHANGED cur
    /\ CallbacksUnchanged

\* :write: BufWrite, whose autocommand outlives a listener that on_lines has
\* removed, and BufWritePost.
Write ==
    /\ buf.state = "loaded"
    /\ Spend("write")
    /\ IF buf.autocmd THEN Debounced("this") ELSE UNCHANGED <<timer, lost>>
    /\ att' = AttachCalled(buf, cur # 0)
    /\ UNCHANGED <<buf, entries, cur>>
    /\ CallbacksUnchanged

\* Another buffer calls update_debounced.
OtherBuffer ==
    /\ Spend("other")
    /\ Debounced("other")
    /\ UNCHANGED <<buf, repo, entries, cur, upd, watch, att, stg, status>>

-----------------------------------------------------------------------------
(* stage_hunk (actions.lua), of which one call at a time is modelled.  Which   *)
(* hunk it stages, and whether it finds one, is left open.                     *)

StageUnchanged == UNCHANGED <<buf, cur, timer, lost, att, status>>

\* The locks are asked.  get_hunk may then await a diff, once for the hunks and
\* once for the staged ones, before the lock is taken.
StageBegin ==
    /\ stg.at = "idle"
    /\ cur # 0
    /\ ~Locked(entries[cur])
    /\ Spend("stage")
    /\ stg' = [StageIdle EXCEPT !.at = "hunk", !.entry = cur]
    /\ UNCHANGED <<repo, entries, upd, watch>>
    /\ StageUnchanged

\* The file is not there, no hunk is found, or the diff's schedule says no.
StageGivesUp ==
    /\ stg.at = "hunk"
    /\ stg' = StageIdle
    /\ UNCHANGED <<repo, entries, upd, watch, left>>
    /\ StageUnchanged

\* stage_hunks takes the lock of the entry it began with.  A file that is not in
\* the index, or has conflicts there, is added first.
StageLocks ==
    /\ stg.at = "hunk"
    /\ entries' = [entries EXCEPT ![stg.entry].gitLock = TRUE]
    /\ \E at \in {"add", "apply"} : stg' = [stg EXCEPT !.at = at]
    /\ UNCHANGED <<repo, upd, watch, left>>
    /\ StageUnchanged

\* A git command that changes the index, or fails: then it is logged only.
IndexMayChange == RepoChanges \/ UNCHANGED <<repo, watch, left>>

\* ensure_file_in_index: the file was added, git_obj:update() asks for its object.
StageAdded ==
    /\ stg.at = "add"
    /\ IndexMayChange
    /\ stg' = [stg EXCEPT !.at = "info", !.since = repo']
    /\ UNCHANGED <<entries, upd>>
    /\ StageUnchanged

\* ... which arrives.  The lock is released before git apply starts.
StageInfo ==
    /\ stg.at = "info"
    /\ \E v \in stg.since .. repo :
           entries' = [entries EXCEPT ![stg.entry].object = v, ![stg.entry].gitLock = FALSE]
    /\ stg' = [stg EXCEPT !.at = "apply", !.since = Nil]
    /\ UNCHANGED <<repo, upd, watch, left>>
    /\ StageUnchanged

\* git apply has ended; stage_hunks sleeps for 100 ms.
StageApplied ==
    /\ stg.at = "apply"
    /\ IndexMayChange
    /\ stg' = [stg EXCEPT !.at = "sleep"]
    /\ UNCHANGED <<entries, upd>>
    /\ StageUnchanged

\* git apply could not be run: the lock is released and the error raised.
StageRaises ==
    /\ stg.at = "apply"
    /\ entries' = [entries EXCEPT ![stg.entry].gitLock = FALSE]
    /\ stg' = StageIdle
    /\ UNCHANGED <<repo, upd, watch, left>>
    /\ StageUnchanged

\* The entry it began with is invalidated, and update called.
StageEnds ==
    /\ stg.at = "sleep"
    /\ entries' = [entries EXCEPT ![stg.entry] = [InvalidateAll(@) EXCEPT !.gitLock = FALSE]]
    /\ upd' = Called(upd, "stage")
    /\ stg' = StageIdle
    /\ UNCHANGED <<repo, watch, left>>
    /\ StageUnchanged

StageStep ==
    \/ StageGivesUp \/ StageLocks \/ StageAdded \/ StageInfo
    \/ StageApplied \/ StageRaises \/ StageEnds

-----------------------------------------------------------------------------
User ==
    \/ EditAttached \/ EditDetached \/ Reload \/ Write \/ StageBegin
    \/ Detach \/ Rename \/ Unload \/ Load \/ GitEvent \/ OtherBuffer

Next ==
    \/ User
    \/ TimerFires \/ UpdateStep
    \/ WatchFires \/ WatchStep
    \/ AttachStep \/ StageStep

\* Timers fire, git and the diff worker answer, and vim.schedule runs.
Fairness ==
    /\ WF_vars(TimerFires)
    /\ WF_vars(UpdateStep)
    /\ WF_vars(WatchFires)
    /\ WF_vars(WatchStep)
    /\ WF_vars(AttachStep)
    /\ WF_vars(StageStep)

Spec == Init /\ [][Next]_vars /\ Fairness

-----------------------------------------------------------------------------
Quiet ==
    /\ timer = "none" /\ upd.at = "idle"
    /\ ~watch.timer /\ watch.at = "idle"
    /\ att.at = "idle" /\ stg.at = "idle"

\* There is an entry and the buffer tells it about its changes.
Listening == cur # 0 /\ buf.listeners > 0

\* Once nothing is under way the hunks are those of the text in the buffer,
\* whatever edits, reloads, detaches and attaches crossed the updates, unless
\* another buffer's call took the timer.
HunksUpToDate ==
    Quiet /\ Listening /\ ~lost =>
        /\ entries[cur].hunks.text = buf.text
        /\ entries[cur].staged.text = buf.text
        /\ entries[cur].staged.less = entries[cur].hunks

\* ... and the signs and the status line show these hunks, although an update
\* writes them only when they differ from those the last one left.
StatusUpToDate ==
    Quiet /\ Listening /\ ~lost => status = Heads(entries[cur].hunks)

\* Once nothing is under way "update in progress" (cache.lua) is not left behind
\* by an update that returned early, nor git's lock by a staging, so that
\* stage_hunk and the others are not refused.  An update that stops because its
\* buffer was wiped out does leave its lock behind.
LockReleased ==
    Quiet /\ StillAttached => ~Locked(entries[cur])

\* Every change of an attached buffer's text gets into its hunks in the end,
\* unless another buffer's call took the timer.
ChangeShown ==
    \A k \in 1 .. MaxEntries, n \in {budget["edit"] : budget \in Budgets} :
        (cur = k /\ Listening /\ buf.text = n)
            ~> (cur # k \/ lost \/ entries[k].hunks.text >= n)

\* Every change of the git directory that the watcher saw is looked up in the end,
\* also one that comes while the handler runs: the entry's object is not an older
\* one for good.
ChangeLookedUp ==
    \A k \in 1 .. MaxEntries, n \in {budget["git"] : budget \in Budgets} :
        (cur = k /\ watch.timer /\ repo = n)
            ~> (~StillAttached \/ cur # k \/ entries[k].object >= n)

\* "prevent updates to the same buffer from interleaving as the handler is
\* async" (watcher.lua): no update that was running when the handler refreshed
\* git_obj leaves the text of the previous object behind.
BaseIsObject ==
    Quiet /\ Listening => entries[cur].compare = entries[cur].object

\* "can debounce and throttle updates per buffer" (gitdir_watcher_spec.lua): what
\* another buffer does keeps no change of this one's text from its hunks.
UpdatedPerBuffer ==
    Quiet /\ Listening => entries[cur].hunks.text = buf.text
=============================================================================
