------------------------- MODULE GitsignsBufferProofs -------------------------
(* Safety of gitsigns' buffer for any number of cache entries and every        *)
(* budget of edits, writes, detaches, renames, unloads and stagings.           *)
EXTENDS GitsignsBuffer, SequenceTheorems, TLAPS

Hunks == [base : Int, text : Int]
Staged == [base : Int, text : Int, less : Hunks]
Entry == [file : Int, object : Nat, compare : Int, compareHead : Int,
          hunks : Hunks, staged : Staged, force : BOOLEAN,
          lock : BOOLEAN, gitLock : BOOLEAN, watching : BOOLEAN]

\* Where an update that has entered its entry may be, by what it has done.
Asking == {"show", "shown"}
Differing == {"diff"}
Differed == {"diffed", "showHead", "shownHead", "diffHead", "diffedHead"}
Inside == Asking \cup Differing \cup Differed

UpdatePoints == {"idle", "begin"} \cup Inside
Callers == {"", "timer", "watch", "attach", "stage"}

Buffer == [text : Nat, name : Nat, state : {"loaded", "unloaded", "wiped"}, listeners : Nat,
           autocmd : BOOLEAN]
Update == [at : UpdatePoints, by : Callers, again : BOOLEAN, entry : Nat, since : Int,
           args : Hunks, old : Hunks, oldStaged : Staged]
Watch == [at : {"idle", "begin", "abbrevHead", "info", "informed", "updating"},
          again : BOOLEAN, timer : BOOLEAN, entry : Nat, since : Int]
Attach == [at : {"idle", "git", "enter", "updating"}, file : Int, object : Int]
\* Where stage_hunk may be, and where it may hold git's lock of its entry.
Holding == {"add", "info", "apply", "sleep"}
Staging == {"hunk"} \cup Holding
Stage == [at : {"idle"} \cup Staging, entry : Nat, since : Int]

TypeOK ==
    /\ buf \in Buffer /\ repo \in Nat
    /\ entries \in Seq(Entry) /\ cur \in 0 .. Len(entries)
    /\ timer \in {"none", "this", "other"} /\ lost \in BOOLEAN
    /\ upd \in Update /\ watch \in Watch /\ att \in Attach /\ stg \in Stage

\* What a running call keeps in its locals across an await.
LocalsOK ==
    /\ upd.at = "idle" => upd = UpdateIdle
    /\ upd.at \in Inside => upd.entry \in 1 .. Len(entries)
    /\ upd.at \in {"show", "showHead"} => upd.since \in Nat
    /\ upd.at \in Differing \cup Differed => upd.args.text \in Nat
    /\ watch.at \in {"abbrevHead", "info"} => watch.entry \in 1 .. Len(entries)
    /\ watch.at = "info" => watch.since \in Nat
    /\ stg.at \in Staging => stg.entry \in 1 .. Len(entries)
    /\ stg.at = "info" => stg.since \in Nat
    /\ att.at \in {"git", "enter"} => att.object \in Nat

\* Only a loaded buffer has listeners.
ListenersLoaded == buf.state # "loaded" => buf.listeners = 0

\* An update without a text to compare with was superseded meanwhile.
Superseded ==
    upd.at \in Inside \ {"show"} /\ entries[upd.entry].compare = Nil => upd.again

\* The update locks its entry while it is inside; an entry that is cached and
\* locked has an update inside, or one that is about to begin.
LockHeld ==
    /\ upd.at \in Inside => entries[upd.entry].lock
    /\ StillAttached /\ entries[cur].lock =>
           upd.at = "begin" \/ (upd.at \in Inside /\ upd.entry = cur)

\* git's lock is held by stage_hunk, on the entry it began with.
GitLockHeld ==
    \A k \in 1 .. Len(entries) :
        entries[k].gitLock => stg.at \in Holding /\ stg.entry = k

\* An update is yet to read the text, or was lost to another buffer.
Pending == timer = "this" \/ lost \/ upd.again \/ upd.at = "begin"

\* Otherwise the last update is about the cached entry and the text it has.
TextRead ==
    Listening /\ ~Pending =>
        /\ upd.at # "idle" => upd.entry = cur
        /\ upd.at \in Differing \cup Differed => upd.args.text = buf.text
        /\ upd.at \in Differed => entries[cur].hunks.text = buf.text
        /\ upd.at = "idle" =>
               /\ entries[cur].hunks.text = buf.text
               /\ entries[cur].staged.text = buf.text
               /\ entries[cur].staged.less = entries[cur].hunks

\* The status shows the hunks of an entry that is not invalidated; the update
\* remembers whether it did.
StatusKept ==
    cur # 0 =>
        /\ entries[cur].staged = NoStaged \/ status = Heads(entries[cur].hunks)
        /\ upd.at \in Inside =>
               /\ entries[cur].staged = NoStaged
               /\ upd.entry = cur =>
                      upd.oldStaged = NoStaged \/ status = Heads(upd.old)

IInv ==
    /\ TypeOK
    /\ LocalsOK
    /\ ListenersLoaded
    /\ Superseded
    /\ LockHeld
    /\ GitLockHeld
    /\ TextRead
    /\ StatusKept

-----------------------------------------------------------------------------
\* The calls that do not run and what is made of entries have their types.
LEMMA IdleType ==
    /\ Nil \in Int /\ Nil < 0
    /\ NoHunks \in Hunks /\ NoStaged \in Staged
    /\ UpdateIdle \in Update /\ WatchIdle \in Watch
    /\ AttachIdle \in Attach /\ StageIdle \in Stage
<1>1. Nil \in Int /\ Nil < 0
    BY DEF Nil
<1>2. NoHunks \in Hunks /\ NoStaged \in Staged
    BY <1>1 DEF NoHunks, NoStaged, Hunks, Staged
<1>3. "idle" \in UpdatePoints /\ "" \in Callers
    BY DEF UpdatePoints, Callers
<1>4. UpdateIdle \in Update
    BY <1>1, <1>2, <1>3 DEF UpdateIdle, Update
<1>5. WatchIdle \in Watch /\ AttachIdle \in Attach /\ StageIdle \in Stage
    BY <1>1 DEF WatchIdle, Watch, AttachIdle, Attach, StageIdle, Stage
<1> QED
    BY <1>1, <1>2, <1>4, <1>5

\* A new entry is neither locked nor has hunks.
LEMMA NewType ==
    ASSUME NEW file \in Int, NEW object \in Nat
    PROVE  LET e == NewEntry(file, object)
           IN  e \in Entry /\ ~e.lock /\ ~e.gitLock /\ e.staged = NoStaged
BY IdleType DEF NewEntry, Entry

\* invalidate() touches the hunks only, invalidate(true) also the texts.
LEMMA InvalidateType ==
    ASSUME NEW e \in Entry
    PROVE  /\ Invalidate(e) \in Entry
           /\ Invalidate(e).staged = NoStaged
           /\ Invalidate(e).compare = e.compare
           /\ Invalidate(e).lock = e.lock /\ Invalidate(e).gitLock = e.gitLock
           /\ InvalidateAll(e) \in Entry
           /\ InvalidateAll(e).staged = NoStaged
           /\ InvalidateAll(e).lock = e.lock /\ InvalidateAll(e).gitLock = e.gitLock
<1>1. /\ Invalidate(e) \in Entry
      /\ Invalidate(e).staged = NoStaged
      /\ Invalidate(e).compare = e.compare
      /\ Invalidate(e).lock = e.lock /\ Invalidate(e).gitLock = e.gitLock
    BY IdleType DEF Invalidate, Entry
<1> QED
    BY <1>1, IdleType DEF InvalidateAll, Entry

\* One entry is replaced, the others stay.
LEMMA SetEntry ==
    ASSUME NEW es \in Seq(Entry), NEW k \in 1 .. Len(es), NEW e \in Entry
    PROVE  LET fs == [es EXCEPT ![k] = e]
           IN  /\ fs \in Seq(Entry)
               /\ Len(fs) = Len(es)
               /\ fs[k] = e
               /\ \A j \in 1 .. Len(es) : j # k => fs[j] = es[j]
BY ExceptSeq

\* The update enters its entry: it locks and invalidates it.
LEMMA BeginStep == ASSUME IInv, UpdateBegin PROVE IInv'
<1> DEFINE e == entries[cur]
           f == [Invalidate(e) EXCEPT !.lock = TRUE]
<1>1. e \in Entry /\ cur \in 1 .. Len(entries) /\ buf \in Buffer
    BY DEF IInv, TypeOK, UpdateBegin, StillAttached
<1>2. /\ f \in Entry /\ f.lock /\ f.staged = NoStaged /\ f.compare = e.compare
      /\ f.gitLock = e.gitLock
    <2> DEFINE w == Invalidate(e)
    <2>1. /\ w \in Entry /\ w.staged = NoStaged /\ w.compare = e.compare
          /\ w.gitLock = e.gitLock
        BY <1>1, InvalidateType
    <2> HIDE DEF w
    <2>2. f = [w EXCEPT !.lock = TRUE]
        BY DEF w
    <2> QED
        BY <2>1, <2>2 DEF Entry
<1>3. entries' = [entries EXCEPT ![cur] = f]
    BY DEF UpdateBegin
<1> HIDE DEF f
<1>4. /\ entries' \in Seq(Entry) /\ Len(entries') = Len(entries) /\ entries'[cur] = f
      /\ \A j \in 1 .. Len(entries) : j # cur => entries'[j] = entries[j]
    BY <1>1, <1>2, <1>3, SetEntry DEF IInv, TypeOK
<1>5. UNCHANGED <<buf, repo, cur, timer, watch, att, stg, status>> /\ lost' = FALSE
    BY DEF UpdateBegin
<1>6. /\ upd.at = "begin" /\ upd'.entry = cur
      /\ upd'.old = e.hunks /\ upd'.oldStaged = e.staged
      /\ upd'.by = upd.by /\ upd'.again = upd.again
      /\ \/ e.compare = Nil /\ upd'.at = "show" /\ upd'.since = e.object
         \/ e.compare # Nil /\ upd'.at = "diff" /\ upd'.args.text = buf.text
      /\ upd' \in Update
    <2> upd \in Update
        BY DEF IInv, TypeOK
    <2> e.object \in Nat
        BY <1>1 DEF Entry
    <2>1. upd \in Update /\ e.hunks \in Hunks /\ e.staged \in Staged /\ e.object \in Int
        BY <1>1 DEF Entry
    <2>2. [base |-> e.compare, text |-> buf.text] \in Hunks
        BY <1>1 DEF Hunks, Entry, Buffer
    <2>3. "show" \in UpdatePoints /\ "diff" \in UpdatePoints /\ cur \in Nat
        BY <1>1 DEF UpdatePoints, Inside, Asking, Differing
    <2>4. CASE e.compare = Nil
        <3>1. upd' = [upd EXCEPT !.entry = cur, !.old = e.hunks, !.oldStaged = e.staged,
                                !.at = "show", !.since = e.object]
            BY <2>4 DEF UpdateBegin
        <3> QED
            BY <2>1, <2>3, <2>4, <3>1 DEF Update, UpdateBegin
    <2>5. CASE e.compare # Nil
        <3> DEFINE args == [base |-> e.compare, text |-> buf.text]
        <3>1. upd' = [upd EXCEPT !.entry = cur, !.old = e.hunks, !.oldStaged = e.staged,
                                !.at = "diff", !.args = args]
            BY <2>5 DEF UpdateBegin, StartDiff
        <3>2. args.text = buf.text /\ args \in Hunks
            BY <2>2
        <3> HIDE DEF args
        <3> QED
            BY <2>1, <2>3, <2>5, <3>1, <3>2 DEF Update, UpdateBegin
    <2> QED
        BY <2>4, <2>5
<1>7. TypeOK'
    BY <1>1, <1>4, <1>5, <1>6 DEF IInv, TypeOK
<1>8. LocalsOK'
    BY <1>1, <1>4, <1>5, <1>6 DEF IInv, TypeOK, LocalsOK, Differing, Differed, Entry, Buffer
<1>9. ListenersLoaded'
    BY <1>5, <1>6 DEF IInv, ListenersLoaded
<1>10. Superseded'
    BY <1>1, <1>2, <1>4, <1>5, <1>6 DEF IInv, Superseded
<1>11. LockHeld'
    BY <1>1, <1>2, <1>4, <1>5, <1>6 DEF IInv, LockHeld, Inside, Asking, Differing
<1>12. GitLockHeld'
    BY <1>1, <1>2, <1>4, <1>5 DEF IInv, GitLockHeld
<1>13. TextRead'
    BY <1>5, <1>6 DEF IInv, TextRead, Listening, Pending, Differing, Differed
<1>14. StatusKept'
    BY <1>1, <1>2, <1>4, <1>5, <1>6 DEF IInv, StatusKept, Inside
<1> QED
    BY <1>7, <1>8, <1>9, <1>10, <1>11, <1>12, <1>13, <1>14 DEF IInv

\* An update moves on inside of its entry: whatever it writes there but the
\* staged hunks and the locks, these parts of the invariant do not see it.
LEMMA InsideStep ==
    ASSUME IInv, upd.at \in Inside,
           upd' \in Update, upd'.at \in Inside,
           upd'.entry = upd.entry, upd'.by = upd.by,
           upd'.old = upd.old, upd'.oldStaged = upd.oldStaged,
           entries' \in Seq(Entry), Len(entries') = Len(entries),
           \A j \in 1 .. Len(entries) :
               /\ entries'[j].lock = entries[j].lock
               /\ entries'[j].gitLock = entries[j].gitLock
               /\ entries'[j].staged = entries[j].staged,
           UNCHANGED <<watch, att, status>>, UpdateUnchanged
    PROVE  /\ TypeOK' /\ ListenersLoaded'
           /\ LockHeld' /\ GitLockHeld' /\ StatusKept'
<1>1. UNCHANGED <<buf, repo, cur, timer, lost, watch, att, stg, status>>
    BY DEF UpdateUnchanged
<1>2. upd.entry \in 1 .. Len(entries) /\ cur \in 0 .. Len(entries)
    BY DEF IInv, LocalsOK, TypeOK
<1>3. TypeOK'
    BY <1>1 DEF IInv, TypeOK
<1>4. ListenersLoaded'
    BY <1>1 DEF IInv, ListenersLoaded
<1>5. LockHeld'
    BY <1>1, <1>2 DEF IInv, LockHeld, StillAttached, Valid, Inside, Asking, Differing, Differed
<1>6. GitLockHeld'
    BY <1>1 DEF IInv, GitLockHeld
<1>7. StatusKept'
    BY <1>1, <1>2 DEF IInv, StatusKept
<1> QED
    BY <1>3, <1>4, <1>5, <1>6, <1>7

\* Moving an update on changes nothing else of it.
LEMMA PointType ==
    ASSUME NEW u \in Update, NEW at \in UpdatePoints
    PROVE  LET v == [u EXCEPT !.at = at]
           IN  /\ v \in Update /\ v.at = at
               /\ v.entry = u.entry /\ v.by = u.by /\ v.again = u.again
               /\ v.args = u.args /\ v.old = u.old /\ v.oldStaged = u.oldStaged
BY DEF Update

\* The text to compare with arrives.
LEMMA ShownStep == ASSUME IInv, UpdateShown PROVE IInv'
<1> DEFINE e == entries[upd.entry]
           f == [e EXCEPT !.compare = upd.since]
<1>1. /\ upd.at = "show" /\ upd \in Update /\ upd.entry \in 1 .. Len(entries)
      /\ upd.since \in Nat /\ e \in Entry
    BY DEF UpdateShown, IInv, TypeOK, LocalsOK, Inside, Asking
<1> upd.since \in Int
    BY <1>1
<1>2. /\ f \in Entry /\ f.lock = e.lock /\ f.gitLock = e.gitLock /\ f.staged = e.staged
      /\ f.compare = upd.since
    BY <1>1 DEF Entry
<1>3. entries' = [entries EXCEPT ![upd.entry] = f]
    BY DEF UpdateShown
<1> HIDE DEF f
<1>4. /\ entries' \in Seq(Entry) /\ Len(entries') = Len(entries) /\ entries'[upd.entry] = f
      /\ \A j \in 1 .. Len(entries) : j # upd.entry => entries'[j] = entries[j]
    BY <1>1, <1>2, <1>3, SetEntry DEF IInv, TypeOK
<1>5. UNCHANGED <<watch, att, stg, status, buf, cur, timer, lost>> /\ UpdateUnchanged
    BY DEF UpdateShown, UpdateGoesOn, UpdateUnchanged
<1>6. upd' = [upd EXCEPT !.at = "shown"]
    BY DEF UpdateShown, UpdateGoesOn
<1>7. /\ upd' \in Update /\ upd'.at = "shown" /\ upd'.entry = upd.entry /\ upd'.by = upd.by
      /\ upd'.again = upd.again /\ upd'.old = upd.old /\ upd'.oldStaged = upd.oldStaged
    BY <1>1, <1>6, PointType DEF UpdatePoints, Inside, Asking
<1>8. /\ TypeOK' /\ ListenersLoaded'
      /\ LockHeld' /\ GitLockHeld' /\ StatusKept'
    BY <1>1, <1>2, <1>4, <1>5, <1>7, InsideStep DEF Inside, Asking
<1>9. LocalsOK'
    BY <1>1, <1>4, <1>5, <1>7 DEF IInv, LocalsOK, Inside, Asking, Differing, Differed
<1>10. Superseded'
    BY <1>1, <1>2, <1>4, <1>7, IdleType DEF Superseded
<1>11. TextRead'
    BY <1>1, <1>5, <1>7 DEF IInv, TextRead, Listening, Pending, Differing, Differed
<1> QED
    BY <1>8, <1>9, <1>10, <1>11 DEF IInv

\* The diff's result becomes the entry's hunks.
LEMMA DiffedStep == ASSUME IInv, UpdateDiffed PROVE IInv'
<1> DEFINE e == entries[upd.entry]
           f == [e EXCEPT !.hunks = upd.args]
<1>1. /\ upd.at = "diff" /\ upd \in Update /\ upd.entry \in 1 .. Len(entries)
      /\ upd.args \in Hunks /\ upd.args.text \in Nat /\ e \in Entry
    BY DEF UpdateDiffed, IInv, TypeOK, LocalsOK, Inside, Differing, Update
<1>2. /\ f \in Entry /\ f.lock = e.lock /\ f.gitLock = e.gitLock /\ f.staged = e.staged
      /\ f.compare = e.compare /\ f.hunks = upd.args
    BY <1>1 DEF Entry
<1>3. entries' = [entries EXCEPT ![upd.entry] = f]
    BY DEF UpdateDiffed
<1> HIDE DEF f
<1>4. /\ entries' \in Seq(Entry) /\ Len(entries') = Len(entries) /\ entries'[upd.entry] = f
      /\ \A j \in 1 .. Len(entries) : j # upd.entry => entries'[j] = entries[j]
    BY <1>1, <1>2, <1>3, SetEntry DEF IInv, TypeOK
<1>5. UNCHANGED <<watch, att, stg, status, buf, cur, timer, lost>> /\ UpdateUnchanged
    BY DEF UpdateDiffed, UpdateGoesOn, UpdateUnchanged
<1>6. upd' = [upd EXCEPT !.at = "diffed"]
    BY DEF UpdateDiffed, UpdateGoesOn
<1>7. /\ upd' \in Update /\ upd'.at = "diffed" /\ upd'.entry = upd.entry /\ upd'.by = upd.by
      /\ upd'.again = upd.again /\ upd'.old = upd.old /\ upd'.oldStaged = upd.oldStaged
      /\ upd'.args = upd.args
    BY <1>1, <1>6, PointType DEF UpdatePoints, Inside, Differed
<1>8. /\ TypeOK' /\ ListenersLoaded'
      /\ LockHeld' /\ GitLockHeld' /\ StatusKept'
    BY <1>1, <1>2, <1>4, <1>5, <1>7, InsideStep DEF Inside, Differing, Differed
<1>9. LocalsOK'
    BY <1>1, <1>4, <1>5, <1>7 DEF IInv, LocalsOK, Inside, Differing, Differed
<1>10. Superseded'
    BY <1>1, <1>2, <1>4, <1>7 DEF IInv, Superseded, Inside, Differing
<1>11. TextRead'
    BY <1>1, <1>2, <1>4, <1>5, <1>7 DEF IInv, TextRead, Listening, Pending, Differing, Differed
<1> QED
    BY <1>8, <1>9, <1>10, <1>11 DEF IInv

\* The text of HEAD arrives.
LEMMA ShownHeadStep == ASSUME IInv, UpdateShownHead PROVE IInv'
<1> DEFINE e == entries[upd.entry]
<1>1. /\ upd.at = "showHead" /\ upd \in Update /\ upd.entry \in 1 .. Len(entries)
      /\ upd.since \in Nat /\ repo \in Nat /\ e \in Entry
    BY DEF UpdateShownHead, IInv, TypeOK, LocalsOK, Inside, Differed
<1>2. PICK v \in upd.since .. repo : entries' = [entries EXCEPT ![upd.entry].compareHead = v]
    BY DEF UpdateShownHead
<1> v \in Int
    BY <1>1, <1>2
<1> DEFINE f == [e EXCEPT !.compareHead = v]
<1>3. /\ f \in Entry /\ f.lock = e.lock /\ f.gitLock = e.gitLock /\ f.staged = e.staged
      /\ f.compare = e.compare /\ f.hunks = e.hunks
    BY <1>1 DEF Entry
<1>4. entries' = [entries EXCEPT ![upd.entry] = f]
    BY <1>2
<1> HIDE DEF f
<1>5. /\ entries' \in Seq(Entry) /\ Len(entries') = Len(entries) /\ entries'[upd.entry] = f
      /\ \A j \in 1 .. Len(entries) : j # upd.entry => entries'[j] = entries[j]
    BY <1>1, <1>3, <1>4, SetEntry DEF IInv, TypeOK
<1>6. UNCHANGED <<watch, att, stg, status, buf, cur, timer, lost>> /\ UpdateUnchanged
    BY DEF UpdateShownHead, UpdateGoesOn, UpdateUnchanged
<1>7. upd' = [upd EXCEPT !.at = "shownHead"]
    BY DEF UpdateShownHead, UpdateGoesOn
<1>8. /\ upd' \in Update /\ upd'.at = "shownHead" /\ upd'.entry = upd.entry
      /\ upd'.by = upd.by /\ upd'.again = upd.again /\ upd'.old = upd.old
      /\ upd'.oldStaged = upd.oldStaged /\ upd'.args = upd.args
    BY <1>1, <1>7, PointType DEF UpdatePoints, Inside, Differed
<1>9. /\ TypeOK' /\ ListenersLoaded'
      /\ LockHeld' /\ GitLockHeld' /\ StatusKept'
    BY <1>1, <1>3, <1>5, <1>6, <1>8, InsideStep DEF Inside, Differed
<1>10. LocalsOK'
    BY <1>1, <1>5, <1>6, <1>8 DEF IInv, LocalsOK, Inside, Differed
<1>11. Superseded'
    BY <1>1, <1>3, <1>5, <1>8 DEF IInv, Superseded, Inside, Differed
<1>12. TextRead'
    BY <1>1, <1>3, <1>5, <1>6, <1>8 DEF IInv, TextRead, Listening, Pending, Differing, Differed
<1> QED
    BY <1>9, <1>10, <1>11, <1>12 DEF IInv

\* An update reads the text, or what it compares the text with, and moves on.
LEMMA ReadStep ==
    ASSUME IInv, upd' \in Update,
           \/ /\ upd.at = "shown" /\ upd'.at = "diff"
              /\ upd'.args.text = buf.text
           \/ /\ upd.at \in Differed /\ upd'.at \in Differed
              /\ upd'.args.text = upd.args.text
              /\ upd'.at = "showHead" => upd'.since \in Nat,
           upd'.entry = upd.entry, upd'.by = upd.by, upd'.again = upd.again,
           upd'.old = upd.old, upd'.oldStaged = upd.oldStaged,
           UNCHANGED <<entries, watch, att, status>>, UpdateUnchanged
    PROVE  IInv'
<1>1. upd.at \in Inside \ {"show"} /\ upd'.at \in Inside \ {"show"}
    BY DEF Inside, Asking, Differing, Differed
<1>2. UNCHANGED <<buf, repo, cur, timer, lost, stg>> /\ buf.text \in Nat /\ entries \in Seq(Entry)
    BY DEF UpdateUnchanged, IInv, TypeOK, Buffer
<1>3. /\ TypeOK' /\ ListenersLoaded'
      /\ LockHeld' /\ GitLockHeld' /\ StatusKept'
    BY <1>1, <1>2, InsideStep
<1>4. LocalsOK'
    BY <1>1, <1>2 DEF IInv, LocalsOK, Inside, Asking, Differing, Differed
<1>5. Superseded'
    BY <1>1 DEF IInv, Superseded
<1>6. TextRead'
    BY <1>1, <1>2 DEF IInv, TextRead, Listening, Pending, Inside, Asking, Differing, Differed
<1> QED
    BY <1>3, <1>4, <1>5, <1>6 DEF IInv

\* The diff starts once the text to compare with is there.
LEMMA DiffStep == ASSUME IInv, UpdateDiff PROVE IInv'
<1> DEFINE args == [base |-> entries[upd.entry].compare, text |-> buf.text]
<1>1. /\ upd.at = "shown" /\ upd \in Update /\ upd.entry \in 1 .. Len(entries)
      /\ entries[upd.entry] \in Entry /\ buf \in Buffer
    BY DEF UpdateDiff, IInv, TypeOK, LocalsOK, Inside, Asking
<1>2. args \in Hunks /\ args.text = buf.text
    BY <1>1 DEF Hunks, Entry, Buffer
<1>3. upd' = [upd EXCEPT !.at = "diff", !.args = args]
    BY DEF UpdateDiff, StartDiff
<1>4. "diff" \in UpdatePoints
    BY DEF UpdatePoints, Inside, Differing
<1> HIDE DEF args
<1>5. /\ upd' \in Update /\ upd'.at = "diff" /\ upd'.args.text = buf.text
      /\ upd'.entry = upd.entry /\ upd'.by = upd.by /\ upd'.again = upd.again
      /\ upd'.old = upd.old /\ upd'.oldStaged = upd.oldStaged
    BY <1>1, <1>2, <1>3, <1>4 DEF Update
<1> QED
    BY <1>1, <1>5, ReadStep DEF UpdateDiff

\* Starting the diff against HEAD keeps the text of the first diff.
LEMMA HeadType ==
    ASSUME NEW u \in Update, NEW e \in Entry
    PROVE  LET v == StartDiffHead(u, e)
           IN  /\ v \in Update /\ v.at = "diffHead" /\ v.args.text = u.args.text
               /\ v.entry = u.entry /\ v.by = u.by /\ v.again = u.again
               /\ v.old = u.old /\ v.oldStaged = u.oldStaged
<1> DEFINE args == [u.args EXCEPT !.base = e.compareHead]
<1>1. u.args \in Hunks /\ e.compareHead \in Int /\ "diffHead" \in UpdatePoints
    BY DEF Update, Entry, UpdatePoints, Inside, Differed
<1>2. args \in Hunks /\ args.text = u.args.text
    BY <1>1 DEF Hunks
<1>3. StartDiffHead(u, e) = [u EXCEPT !.at = "diffHead", !.args = args]
    BY DEF StartDiffHead
<1> HIDE DEF args
<1> QED
    BY <1>1, <1>2, <1>3 DEF Update

\* The update asks for HEAD's text, or has it, and starts the second diff.
LEMMA HeadStep ==
    ASSUME IInv, UpdateHead \/ UpdateDiffHead \/ UpdateDiffedHead PROVE IInv'
<1> DEFINE e == entries[upd.entry]
<1>1. upd \in Update /\ repo \in Nat
    BY DEF IInv, TypeOK
<1>2. ASSUME upd.at \in Differed, upd' = StartDiffHead(upd, e),
             UNCHANGED <<entries, watch, att, status>>, UpdateUnchanged
      PROVE  IInv'
    <2>1. e \in Entry
        BY <1>2 DEF IInv, TypeOK, LocalsOK, Inside
    <2>2. "diffHead" \in Differed
        BY DEF Differed
    <2> QED
        BY <1>1, <1>2, <2>1, <2>2, HeadType, ReadStep
<1>3. CASE UpdateHead
    <2>1. upd.at \in Differed
        BY <1>3 DEF UpdateHead, Differed
    <2>2. CASE e.compareHead # Nil
        BY <1>2, <1>3, <2>1, <2>2 DEF UpdateHead
    <2>3. CASE e.compareHead = Nil
        <3>1. upd' = [upd EXCEPT !.at = "showHead", !.since = repo]
            BY <1>3, <2>3 DEF UpdateHead
        <3>2. "showHead" \in Differed /\ "showHead" \in UpdatePoints
            BY DEF Differed, UpdatePoints, Inside
        <3> repo \in Int
            BY <1>1
        <3>3. /\ upd' \in Update /\ upd'.at = "showHead" /\ upd'.since = repo
              /\ upd'.args.text = upd.args.text
              /\ upd'.entry = upd.entry /\ upd'.by = upd.by /\ upd'.again = upd.again
              /\ upd'.old = upd.old /\ upd'.oldStaged = upd.oldStaged
            BY <1>1, <3>1, <3>2 DEF Update
        <3>4. UNCHANGED <<entries, watch, att, status>> /\ UpdateUnchanged
            BY <1>3 DEF UpdateHead
        <3>5. upd'.at \in Differed /\ (upd'.at = "showHead" => upd'.since \in Nat)
            BY <1>1, <3>2, <3>3
        <3> QED
            BY <2>1, <3>3, <3>4, <3>5, ReadStep
    <2> QED
        BY <2>2, <2>3
<1>4. CASE UpdateDiffHead
    BY <1>2, <1>4 DEF UpdateDiffHead, Differed
<1>5. CASE UpdateDiffedHead
    <2>1. upd.at \in Differed /\ "diffedHead" \in Differed /\ "diffedHead" \in UpdatePoints
        BY <1>5 DEF UpdateDiffedHead, Differed, UpdatePoints, Inside
    <2>2. upd' = [upd EXCEPT !.at = "diffedHead"]
        BY <1>5 DEF UpdateDiffedHead, UpdateGoesOn
    <2> QED
        BY <1>1, <1>5, <2>1, <2>2, PointType, ReadStep DEF UpdateDiffedHead, UpdateGoesOn
<1> QED
    BY <1>3, <1>4, <1>5

\* The update returns: it starts over, or it is idle and who awaited it goes on.
LEMMA ReturnType ==
    ASSUME TypeOK, LocalsOK, UpdateReturns, upd.at # "idle"
    PROVE  /\ upd' \in Update /\ watch' \in Watch /\ att' \in Attach
           /\ \/ upd.again /\ upd'.at = "begin"
              \/ ~upd.again /\ upd' = UpdateIdle /\ upd'.at = "idle"
           /\ upd'.again = FALSE
           /\ watch'.at \in {"abbrevHead", "info"} => watch' = watch
           /\ att'.at \in {"git", "enter"} => att' = att
<1>1. /\ upd \in Update /\ watch \in Watch /\ att \in Attach
      /\ UpdateIdle \in Update
    BY IdleType DEF TypeOK
<1>2. CASE upd.again /\ upd' = [UpdateIdle EXCEPT !.at = "begin", !.by = upd.by]
           /\ UNCHANGED <<watch, att>>
    <2>1. "begin" \in UpdatePoints
        BY DEF UpdatePoints
    <2>2. UpdateIdle.again = FALSE
        BY DEF UpdateIdle
    <2>3. /\ upd' \in Update /\ upd'.at = "begin" /\ upd'.again = FALSE
          /\ upd'.by = upd.by
        BY <1>1, <1>2, <2>1, <2>2 DEF Update
    <2> QED
        BY <1>1, <1>2, <2>3
<1>3. CASE ~upd.again /\ upd' = UpdateIdle /\ CallerEnds
    <2>1. UpdateIdle.again = FALSE /\ UpdateIdle.at = "idle" /\ UpdateIdle.by = ""
        BY DEF UpdateIdle
    <2>2. /\ WatchEnds(watch) \in Watch
          /\ WatchEnds(watch).at \in {"idle", "begin"}
        <3>1. WatchIdle \in Watch
            BY IdleType
        <3> QED
            BY <1>1, <3>1 DEF WatchEnds, Watch
    <2>3. AttachIdle \in Attach /\ AttachIdle.at = "idle"
        BY IdleType DEF AttachIdle
    <2>4. watch' \in Watch /\ (watch'.at \in {"abbrevHead", "info"} => watch' = watch)
        BY <1>1, <1>3, <2>2 DEF CallerEnds
    <2>5. att' \in Attach /\ (att'.at \in {"git", "enter"} => att' = att)
        BY <1>1, <1>3, <2>3 DEF CallerEnds
    <2> QED
        BY <1>1, <1>3, <2>1, <2>4, <2>5
<1> QED
    BY <1>2, <1>3 DEF UpdateReturns

\* An update that stops leaves an entry that is no longer attached, or one
\* that an update still to come will lock again.
LEMMA StopStep == ASSUME IInv, UpdateStops PROVE IInv'
<1>1. /\ upd.at \in {"begin", "diffed", "diffedHead", "shown", "shownHead"}
      /\ UpdateReturns
      /\ UNCHANGED <<buf, repo, cur, timer, lost, stg, entries, status>>
    BY DEF UpdateStops, UpdateAborts, UpdateUnchanged
<1>2. TypeOK /\ LocalsOK
    BY DEF IInv
<1>3. /\ upd' \in Update /\ watch' \in Watch /\ att' \in Attach
      /\ \/ upd.again /\ upd'.at = "begin"
         \/ ~upd.again /\ upd' = UpdateIdle /\ upd'.at = "idle"
      /\ watch'.at \in {"abbrevHead", "info"} => watch' = watch
      /\ att'.at \in {"git", "enter"} => att' = att
    BY <1>1, <1>2, ReturnType
<1>4. upd'.at \in {"idle", "begin"} /\ upd'.at \notin Inside
    BY <1>3 DEF Inside, Asking, Differing, Differed
<1>5. ~StillAttached \/ (upd.at # "begin" /\ (cur # upd.entry \/ upd.again))
    BY <1>2 DEF UpdateStops, UpdateAborts, StillCompared, IInv, Superseded, Inside,
                Asking, Differed
<1>6. TypeOK'
    BY <1>1, <1>2, <1>3 DEF TypeOK
<1>7. LocalsOK'
    BY <1>1, <1>2, <1>3, <1>4 DEF LocalsOK, Inside, Differed
<1>8. ListenersLoaded' /\ Superseded' /\ StatusKept'
    BY <1>1, <1>4 DEF IInv, ListenersLoaded, Superseded, StatusKept
<1>9. LockHeld'
    BY <1>1, <1>3, <1>4, <1>5 DEF IInv, LockHeld, StillAttached, Valid
<1>10. GitLockHeld'
    BY <1>1, <1>3 DEF IInv, GitLockHeld
<1>11. TextRead'
    BY <1>1, <1>3, <1>4, <1>5 DEF IInv, TextRead, Listening, Pending, ListenersLoaded,
                                StillAttached, Valid
<1> QED
    BY <1>3, <1>6, <1>7, <1>8, <1>9, <1>10, <1>11 DEF IInv

\* The update writes what it staged and, if the heads changed, the status.
LEMMA FinishStep == ASSUME IInv, UpdateFinish PROVE IInv'
<1> DEFINE e == entries[upd.entry]
           staged == [base |-> upd.args.base, text |-> upd.args.text, less |-> e.hunks]
           f == [e EXCEPT !.staged = staged]
           g == [f EXCEPT !.force = @ /\ ~Applies(f), !.lock = FALSE]
<1>1. /\ upd.at = "diffedHead" /\ upd \in Update /\ upd.entry \in 1 .. Len(entries)
      /\ upd.args.text \in Nat /\ upd.args \in Hunks /\ e \in Entry /\ StillAttached
      /\ UpdateReturns /\ UNCHANGED <<buf, repo, cur, timer, lost, stg>>
    BY DEF UpdateFinish, UpdateUnchanged, IInv, TypeOK, LocalsOK, Inside, Differed, Update
<1>2. /\ staged \in Staged /\ staged.text = upd.args.text /\ staged.less = e.hunks
      /\ staged.base = upd.args.base
    BY <1>1 DEF Staged, Hunks, Entry
<1>3. /\ entries' = [entries EXCEPT ![upd.entry] = g]
      /\ status' = IF Applies(f) THEN Heads(f.hunks) ELSE status
    BY DEF UpdateFinish
<1> HIDE DEF staged
<1>4. /\ f \in Entry /\ f.hunks = e.hunks /\ f.staged = staged /\ f.gitLock = e.gitLock
      /\ f.compare = e.compare
    BY <1>1, <1>2 DEF Entry
<1>5. ASSUME NEW force \in BOOLEAN
      PROVE  LET h == [f EXCEPT !.force = force, !.lock = FALSE]
             IN  /\ h \in Entry /\ ~h.lock /\ h.hunks = e.hunks /\ h.staged = staged
                 /\ h.gitLock = e.gitLock
    <2> HIDE DEF f
    <2> QED
        BY <1>4 DEF Entry
<1> HIDE DEF f
<1>6. /\ g \in Entry /\ ~g.lock /\ g.hunks = e.hunks /\ g.staged = staged
      /\ g.gitLock = e.gitLock
    <2>1. (f.force /\ ~Applies(f)) \in BOOLEAN
        OBVIOUS
    <2> QED
        BY <1>5, <2>1
<1> HIDE DEF g
<1>7. /\ entries' \in Seq(Entry) /\ Len(entries') = Len(entries) /\ entries'[upd.entry] = g
      /\ \A j \in 1 .. Len(entries) : j # upd.entry => entries'[j] = entries[j]
    BY <1>1, <1>3, <1>6, SetEntry DEF IInv, TypeOK
<1>8. /\ upd' \in Update /\ watch' \in Watch /\ att' \in Attach
      /\ \/ upd.again /\ upd'.at = "begin"
         \/ ~upd.again /\ upd' = UpdateIdle /\ upd'.at = "idle"
      /\ watch'.at \in {"abbrevHead", "info"} => watch' = watch
      /\ att'.at \in {"git", "enter"} => att' = att
    BY <1>1, ReturnType DEF IInv
<1>9. upd'.at \in {"idle", "begin"} /\ upd'.at \notin Inside /\ upd.at \in Inside
      /\ upd.at \in Differed
    BY <1>1, <1>8 DEF Inside, Asking, Differing, Differed
<1>10. cur \in 1 .. Len(entries)
    BY <1>1 DEF StillAttached, IInv, TypeOK
<1>11. TypeOK'
    BY <1>1, <1>7, <1>8 DEF IInv, TypeOK
<1>12. LocalsOK'
    BY <1>1, <1>7, <1>8, <1>9 DEF IInv, LocalsOK, Inside
<1>13. ListenersLoaded' /\ Superseded'
    BY <1>1, <1>9 DEF IInv, ListenersLoaded, Superseded
<1>14. LockHeld'
    BY <1>1, <1>6, <1>7, <1>9, <1>10 DEF IInv, LockHeld, StillAttached, Valid
<1>15. GitLockHeld'
    <2>1. \A k \in 1 .. Len(entries) : entries'[k].gitLock = entries[k].gitLock
        BY <1>6, <1>7
    <2> QED
        BY <1>1, <1>7, <2>1 DEF IInv, GitLockHeld
<1>16. TextRead'
    <2>1. upd'.at \notin Differing \cup Differed
        BY <1>9 DEF Inside
    <2> QED
        BY <1>1, <1>2, <1>6, <1>7, <1>8, <1>9, <1>10, <2>1
        DEF IInv, TextRead, Listening, Pending
<1>17. StatusKept'
    <2>1. CASE cur # upd.entry
        BY <1>1, <1>7, <1>9, <1>10, <2>1 DEF IInv, StatusKept
    <2>2. CASE cur = upd.entry
        <3>1. CASE Applies(f)
            BY <1>1, <1>3, <1>4, <1>6, <1>7, <1>9, <2>2, <3>1 DEF StatusKept
        <3>2. CASE ~Applies(f)
            <4>1. Heads(e.hunks) = Heads(upd.old) /\ Heads(staged) = Heads(upd.oldStaged)
                BY <1>4, <3>2 DEF Applies, SameStaged, SameHeads
            <4>2. Heads(staged) # Heads(NoStaged)
                <5>1. staged.text \in Nat /\ NoStaged.text = Nil
                    BY <1>1, <1>2 DEF NoStaged
                <5>2. \A n \in Nat : n \div 2 >= 0
                    OBVIOUS
                <5>3. \A n \in Int : n < 0 => n \div 2 < 0
                    OBVIOUS
                <5>4. staged.text \div 2 # NoStaged.text \div 2
                    BY <5>1, <5>2, <5>3, IdleType
                <5> QED
                    BY <5>4 DEF Heads
            <4>3. status = Heads(upd.old)
                BY <1>9, <1>10, <2>2, <4>1, <4>2 DEF IInv, StatusKept
            <4> QED
                BY <1>1, <1>3, <1>6, <1>7, <1>9, <2>2, <3>2, <4>1, <4>3 DEF StatusKept
        <3> QED
            BY <3>1, <3>2
    <2> QED
        BY <2>1, <2>2
<1> QED
    BY <1>8, <1>11, <1>12, <1>13, <1>14, <1>15, <1>16, <1>17 DEF IInv

-----------------------------------------------------------------------------
\* A call of update makes the text be read again, at once or after the update
\* that is running.
LEMMA CallStep ==
    ASSUME upd \in Update, NEW caller \in Callers, upd' = Called(upd, caller)
    PROVE  /\ upd' \in Update /\ upd'.at # "idle"
           /\ \/ /\ upd.at = "idle" /\ upd'.at = "begin" /\ upd'.by = caller
              \/ /\ upd.at # "idle" /\ upd'.at = upd.at /\ upd'.by = upd.by
                 /\ upd'.entry = upd.entry /\ upd'.since = upd.since
                 /\ upd'.args = upd.args /\ upd'.old = upd.old
                 /\ upd'.oldStaged = upd.oldStaged
           /\ Superseded' /\ TextRead'
<1>1. /\ upd' \in Update
      /\ \/ /\ upd.at = "idle" /\ upd'.at = "begin" /\ upd'.by = caller
         \/ /\ upd.at # "idle" /\ upd'.at = upd.at /\ upd'.by = upd.by
            /\ upd'.entry = upd.entry /\ upd'.since = upd.since
            /\ upd'.args = upd.args /\ upd'.old = upd.old
            /\ upd'.oldStaged = upd.oldStaged /\ upd'.again
    <2>1. CASE upd.at = "idle"
        <3>1. UpdateIdle \in Update /\ "begin" \in UpdatePoints
            BY IdleType DEF UpdatePoints
        <3>2. upd' = [UpdateIdle EXCEPT !.at = "begin", !.by = caller]
            BY <2>1 DEF Called
        <3> QED
            BY <2>1, <3>1, <3>2 DEF Update
    <2>2. CASE upd.at # "idle"
        <3>1. upd' = [upd EXCEPT !.again = TRUE]
            BY <2>2 DEF Called
        <3> QED
            BY <2>2, <3>1 DEF Update
    <2> QED
        BY <2>1, <2>2
<1>2. upd'.at = "begin" \/ upd'.again
    BY <1>1
<1>3. Superseded'
    BY <1>2 DEF Superseded, Inside, Asking, Differing, Differed
<1>4. TextRead'
    BY <1>2 DEF TextRead, Pending
<1> QED
    BY <1>1, <1>3, <1>4

\* Nobody awaits an update that does not run.
LEMMA IdleBy ==
    /\ LocalsOK => (upd.at = "idle" => upd.by = "")
    /\ "begin" \notin Inside /\ "idle" \notin Inside
<1>1. UpdateIdle.by = ""
    BY DEF UpdateIdle
<1>2. LocalsOK => (upd.at = "idle" => upd.by = "")
    BY <1>1 DEF LocalsOK
<1>3. "begin" \notin Inside /\ "idle" \notin Inside
    BY DEF Inside, Asking, Differing, Differed
<1> QED
    BY <1>2, <1>3

\* The debounced update is called for this buffer.
LEMMA TimerStep == ASSUME IInv, TimerFires, timer = "this" PROVE IInv'
<1>1. /\ upd \in Update /\ upd' = Called(upd, "timer") /\ "timer" \in Callers
      /\ timer' = "none" /\ UNCHANGED <<buf, repo, entries, cur, lost, watch, att, stg, status>>
    BY DEF TimerFires, IInv, TypeOK, Callers
<1>2. /\ upd' \in Update /\ upd'.at # "idle"
      /\ \/ /\ upd.at = "idle" /\ upd'.at = "begin" /\ upd'.by = "timer"
         \/ /\ upd.at # "idle" /\ upd'.at = upd.at /\ upd'.by = upd.by
            /\ upd'.entry = upd.entry /\ upd'.since = upd.since
            /\ upd'.args = upd.args /\ upd'.old = upd.old
            /\ upd'.oldStaged = upd.oldStaged
      /\ Superseded' /\ TextRead'
    BY <1>1, CallStep
<1>3. /\ upd.at = "idle" => upd.by = ""
      /\ "begin" \notin Inside /\ "idle" \notin Inside
    BY IdleBy DEF IInv
<1>4. TypeOK'
    BY <1>1, <1>2 DEF IInv, TypeOK
<1>5. LocalsOK'
    BY <1>1, <1>2, <1>3 DEF IInv, LocalsOK, Inside
<1>6. ListenersLoaded' /\ GitLockHeld'
    BY <1>1 DEF IInv, ListenersLoaded, GitLockHeld
<1>8. LockHeld'
    BY <1>1, <1>2, <1>3 DEF IInv, LockHeld, StillAttached, Valid
<1>9. StatusKept'
    BY <1>1, <1>2, <1>3 DEF IInv, StatusKept
<1> QED
    BY <1>2, <1>4, <1>5, <1>6, <1>8, <1>9 DEF IInv

\* The watcher's handler invalidates the cached entry and calls update.
LEMMA InvalidatesStep == ASSUME IInv, WatchInvalidates PROVE IInv'
<1> DEFINE e == entries[cur]
           f == InvalidateAll(e)
<1>1. /\ upd \in Update /\ upd' = Called(upd, "watch") /\ "watch" \in Callers
      /\ e \in Entry /\ cur \in 1 .. Len(entries)
      /\ watch.at = "informed" /\ watch \in Watch
      /\ UNCHANGED <<buf, repo, cur, timer, lost, att, stg, status>>
    BY DEF WatchInvalidates, WatchUnchanged, StillAttached, IInv, TypeOK, Callers
<1>2. /\ upd' \in Update /\ upd'.at # "idle"
      /\ \/ /\ upd.at = "idle" /\ upd'.at = "begin" /\ upd'.by = "watch"
         \/ /\ upd.at # "idle" /\ upd'.at = upd.at /\ upd'.by = upd.by
            /\ upd'.entry = upd.entry /\ upd'.since = upd.since
            /\ upd'.args = upd.args /\ upd'.old = upd.old
            /\ upd'.oldStaged = upd.oldStaged
      /\ Superseded' /\ TextRead'
    BY <1>1, CallStep
<1>3. /\ upd.at = "idle" => upd.by = ""
      /\ "begin" \notin Inside /\ "idle" \notin Inside
    BY IdleBy DEF IInv
<1>4. f \in Entry /\ f.staged = NoStaged /\ f.lock = e.lock /\ f.gitLock = e.gitLock
    BY <1>1, InvalidateType
<1>5. entries' = [entries EXCEPT ![cur] = f]
    BY DEF WatchInvalidates
<1> HIDE DEF f
<1>6. /\ entries' \in Seq(Entry) /\ Len(entries') = Len(entries) /\ entries'[cur] = f
      /\ \A j \in 1 .. Len(entries) : j # cur => entries'[j] = entries[j]
    BY <1>1, <1>4, <1>5, SetEntry DEF IInv, TypeOK
<1>7. watch' \in Watch /\ watch'.at \in {"updating", "idle", "begin"}
    <2>1. CASE upd.at = "idle"
        BY <1>1, <2>1 DEF WatchInvalidates, Watch
    <2>2. CASE upd.at # "idle"
        <3>1. WatchIdle \in Watch
            BY IdleType
        <3> QED
            BY <1>1, <2>2, <3>1 DEF WatchInvalidates, WatchEnds, Watch
    <2> QED
        BY <2>1, <2>2
<1>8. TypeOK'
    BY <1>1, <1>2, <1>6, <1>7 DEF IInv, TypeOK
<1>9. LocalsOK'
    BY <1>1, <1>2, <1>3, <1>6, <1>7 DEF IInv, LocalsOK, Inside
<1>10. ListenersLoaded'
    BY <1>1 DEF IInv, ListenersLoaded
<1>12. LockHeld'
    BY <1>1, <1>2, <1>3, <1>4, <1>6 DEF IInv, LocalsOK, LockHeld, StillAttached, Valid
<1>13. GitLockHeld'
    BY <1>1, <1>4, <1>6 DEF IInv, GitLockHeld
<1>14. StatusKept'
    BY <1>1, <1>2, <1>3, <1>4, <1>6 DEF IInv, StatusKept
<1> QED
    BY <1>2, <1>8, <1>9, <1>10, <1>12, <1>13, <1>14 DEF IInv

\* stage_hunk invalidates the entry it began with and calls update.
LEMMA StageEndsStep == ASSUME IInv, StageEnds PROVE IInv'
<1> DEFINE k == stg.entry
           e == entries[k]
           w == InvalidateAll(e)
           f == [w EXCEPT !.gitLock = FALSE]
<1>1. /\ upd \in Update /\ upd' = Called(upd, "stage") /\ "stage" \in Callers
      /\ e \in Entry /\ k \in 1 .. Len(entries)
      /\ stg.at = "sleep" /\ stg \in Stage
      /\ UNCHANGED <<buf, repo, cur, timer, lost, watch, att, status>>
    BY DEF StageEnds, StageUnchanged, IInv, TypeOK, LocalsOK, Callers, Staging, Holding
<1>2. /\ upd' \in Update /\ upd'.at # "idle"
      /\ \/ /\ upd.at = "idle" /\ upd'.at = "begin" /\ upd'.by = "stage"
         \/ /\ upd.at # "idle" /\ upd'.at = upd.at /\ upd'.by = upd.by
            /\ upd'.entry = upd.entry /\ upd'.since = upd.since
            /\ upd'.args = upd.args /\ upd'.old = upd.old
            /\ upd'.oldStaged = upd.oldStaged
      /\ Superseded' /\ TextRead'
    BY <1>1, CallStep
<1>3. /\ upd.at = "idle" => upd.by = ""
      /\ "begin" \notin Inside /\ "idle" \notin Inside
    BY IdleBy DEF IInv
<1>4. w \in Entry /\ w.staged = NoStaged /\ w.lock = e.lock
    BY <1>1, InvalidateType
<1>5. entries' = [entries EXCEPT ![k] = f]
    BY DEF StageEnds
<1> HIDE DEF w
<1>6. f \in Entry /\ f.staged = NoStaged /\ f.lock = e.lock /\ ~f.gitLock
    BY <1>4 DEF Entry
<1> HIDE DEF f
<1>7. /\ entries' \in Seq(Entry) /\ Len(entries') = Len(entries) /\ entries'[k] = f
      /\ \A j \in 1 .. Len(entries) : j # k => entries'[j] = entries[j]
    BY <1>1, <1>5, <1>6, SetEntry DEF IInv, TypeOK
<1>8. stg' \in Stage /\ stg'.at \notin Staging /\ stg'.at # "info"
    BY IdleType DEF StageEnds, StageIdle, Staging, Holding
<1>9. TypeOK'
    BY <1>1, <1>2, <1>7, <1>8 DEF IInv, TypeOK
<1>10. LocalsOK'
    BY <1>1, <1>2, <1>3, <1>7, <1>8 DEF IInv, LocalsOK, Inside
<1>11. ListenersLoaded'
    BY <1>1 DEF IInv, ListenersLoaded
<1>13. LockHeld'
    <2>1. \A j \in 1 .. Len(entries) : entries'[j].lock = entries[j].lock
        BY <1>6, <1>7
    <2>2. /\ cur # 0 => cur \in 1 .. Len(entries)
          /\ upd.at \in Inside => upd.entry \in 1 .. Len(entries)
        BY DEF IInv, TypeOK, LocalsOK
    <2> QED
        BY <1>1, <1>2, <1>3, <2>1, <2>2 DEF IInv, LockHeld, StillAttached, Valid
<1>14. GitLockHeld'
    BY <1>1, <1>6, <1>7 DEF IInv, GitLockHeld
<1>15. StatusKept'
    <2>1. cur # 0 => cur \in 1 .. Len(entries)
        BY DEF IInv, TypeOK
    <2>2. CASE cur = k
        BY <1>1, <1>2, <1>3, <1>6, <1>7, <2>2 DEF IInv, StatusKept
    <2>3. CASE cur # k
        BY <1>1, <1>2, <1>3, <1>7, <2>1, <2>3 DEF IInv, StatusKept
    <2> QED
        BY <2>2, <2>3
<1> QED
    BY <1>2, <1>9, <1>10, <1>11, <1>13, <1>14, <1>15 DEF IInv

-----------------------------------------------------------------------------
\* Steps beside the update: what is not about the text or a lock stays true
\* when entries are at most invalidated and the cached one at most dropped.
LEMMA BesideStep ==
    ASSUME IInv, upd' = upd, cur' \in {0, cur}, cur' # 0 => status' = status,
           buf.state = "wiped" => buf'.state = "wiped",
           entries' \in Seq(Entry), Len(entries') = Len(entries),
           \A j \in 1 .. Len(entries) :
               /\ entries'[j].lock = entries[j].lock
               /\ entries'[j].compare = entries[j].compare
               /\ \/ entries'[j].staged = NoStaged
                  \/ /\ entries'[j].staged = entries[j].staged
                     /\ entries'[j].hunks = entries[j].hunks
    PROVE  Superseded' /\ LockHeld' /\ StatusKept'
<1>1. cur \in 0 .. Len(entries) /\ (upd.at \in Inside => upd.entry \in 1 .. Len(entries))
    BY DEF IInv, TypeOK, LocalsOK
<1>2. Superseded'
    BY <1>1 DEF IInv, Superseded
<1>3. LockHeld'
    BY <1>1 DEF IInv, LockHeld, StillAttached, Valid
<1>4. StatusKept'
    BY <1>1 DEF IInv, StatusKept
<1> QED
    BY <1>2, <1>3, <1>4

\* attach_throttled is called, or not.
LEMMA AttachType ==
    ASSUME att \in Attach, repo \in Nat, NEW b \in Buffer, NEW attached,
           att' = AttachCalled(b, attached),
           att.at \in {"git", "enter"} => att.object \in Nat
    PROVE  /\ att' \in Attach
           /\ att'.at \in {"git", "enter"} => att'.object \in Nat
<1>1. CASE att.at = "idle" /\ ~attached /\ b.state = "loaded"
    <2>1. att' = [AttachIdle EXCEPT !.at = "git", !.file = b.name, !.object = repo]
        BY <1>1 DEF AttachCalled
    <2>2. b.name \in Int /\ repo \in Int /\ AttachIdle \in Attach
        BY IdleType DEF Buffer
    <2> QED
        BY <1>1, <2>1, <2>2 DEF Attach
<1>2. CASE ~(att.at = "idle" /\ ~attached /\ b.state = "loaded")
    <2>1. att' = att
        BY <1>2 DEF AttachCalled
    <2> QED
        BY <2>1
<1> QED
    BY <1>1, <1>2

\* Steps of the timer, the watcher, attach and stage_hunk that leave the entries
\* alone; what the timer owes this buffer stays owed.
LEMMA QuietStep ==
    ASSUME IInv, UNCHANGED <<buf, entries, cur, upd, status>>,
           timer' \in {"none", "this", "other"}, lost' \in BOOLEAN,
           timer = "this" \/ lost => timer' = "this" \/ lost',
           repo' \in Nat, watch' \in Watch, att' \in Attach, stg' \in Stage,
           watch'.at = "info" => watch'.since \in Nat,
           watch'.at \in {"abbrevHead", "info"} => watch'.entry \in 1 .. Len(entries),
           att'.at \in {"git", "enter"} => att'.object \in Nat,
           stg'.at \in Staging => stg'.entry \in 1 .. Len(entries),
           stg'.at = "info" => stg'.since \in Nat,
           stg.at \in Holding => stg'.at \in Holding /\ stg'.entry = stg.entry
    PROVE  IInv'
<1>1. TypeOK'
    BY DEF IInv, TypeOK
<1>2. LocalsOK'
    BY DEF IInv, LocalsOK
<1>3. ListenersLoaded' /\ GitLockHeld'
    BY DEF IInv, ListenersLoaded, GitLockHeld
<1>4. Superseded' /\ LockHeld' /\ StatusKept'
    BY DEF IInv, Superseded, LockHeld, StatusKept, StillAttached, Valid
<1>5. TextRead'
    BY DEF IInv, TextRead, Listening, Pending
<1> QED
    BY <1>1, <1>2, <1>3, <1>4, <1>5 DEF IInv

\* What running calls keep, for the steps that leave them alone.
LEMMA CallsKept ==
    IInv => /\ watch \in Watch /\ repo \in Nat /\ att \in Attach /\ stg \in Stage
            /\ timer \in {"none", "this", "other"} /\ lost \in BOOLEAN
            /\ cur \in 0 .. Len(entries) /\ entries \in Seq(Entry)
            /\ watch.at \in {"abbrevHead", "info"} => watch.entry \in 1 .. Len(entries)
            /\ watch.at = "info" => watch.since \in Nat
            /\ att.at \in {"git", "enter"} => att.object \in Nat
            /\ stg.at \in Staging => stg.entry \in 1 .. Len(entries)
            /\ stg.at = "info" => stg.since \in Nat
BY DEF IInv, TypeOK, LocalsOK

\* The timer is this buffer's, or another one's call replaces what it owed.
LEMMA DebounceType ==
    IInv => /\ Debounced("this") => timer' = "this" /\ lost' \in BOOLEAN
            /\ Debounced("other") =>
                   /\ timer' = "other" /\ lost' \in BOOLEAN
                   /\ timer = "this" \/ lost => lost'
<1>1. ASSUME IInv, Debounced("this") PROVE timer' = "this" /\ lost' \in BOOLEAN
    BY <1>1, Zenon DEF Debounced
<1>2. ASSUME IInv, Debounced("other")
      PROVE  timer' = "other" /\ lost' \in BOOLEAN /\ (timer = "this" \/ lost => lost')
    <2>1. timer' = "other" /\ lost' = ("other" # "this" /\ (lost \/ timer = "this"))
        BY <1>2, Zenon DEF Debounced
    <2> QED
        BY <2>1
<1> QED
    BY <1>1, <1>2

\* Another buffer takes the timer, or its call is made.
LEMMA OtherStep ==
    ASSUME IInv, OtherBuffer \/ (TimerFires /\ timer # "this") PROVE IInv'
<1>1. /\ UNCHANGED <<buf, repo, entries, cur, upd, watch, att, stg, status>>
      /\ timer' \in {"none", "other"} /\ lost' \in BOOLEAN
      /\ timer = "this" \/ lost => timer' = "this" \/ lost'
    <2>1. CASE OtherBuffer
        BY <2>1, DebounceType DEF OtherBuffer
    <2>2. CASE TimerFires /\ timer # "this"
        BY <2>2, CallsKept DEF TimerFires
    <2> QED
        BY <2>1, <2>2
<1> QED
    BY <1>1, CallsKept, QuietStep

\* The watcher's timer, and the steps of its handler that only read.
LEMMA WatchReads ==
    ASSUME IInv, WatchFires \/ WatchBegin \/ WatchAsks \/ WatchStops PROVE IInv'
<1>1. /\ watch \in Watch /\ repo \in Nat /\ cur \in 0 .. Len(entries) /\ WatchIdle \in Watch
      /\ watch.at \in {"abbrevHead", "info"} => watch.entry \in 1 .. Len(entries)
      /\ watch.at = "info" => watch.since \in Nat
    BY IdleType, CallsKept
<1>2. repo \in Int /\ cur \in Nat
    BY <1>1
<1>3. UNCHANGED <<buf, repo, entries, cur, timer, lost, upd, att, stg, status>>
    BY DEF WatchFires, WatchBegin, WatchAsks, WatchStops, WatchUnchanged
<1>4. /\ watch' \in Watch
      /\ watch'.at = "info" => watch'.since \in Nat
      /\ watch'.at \in {"abbrevHead", "info"} => watch'.entry \in 1 .. Len(entries)
    <2>1. CASE WatchFires
        <3>1. CASE watch.at = "idle"
            <4>1. watch' = [watch EXCEPT !.timer = FALSE, !.at = "begin"]
                BY <2>1, <3>1 DEF WatchFires
            <4> QED
                BY <1>1, <3>1, <4>1 DEF Watch
        <3>2. CASE watch.at # "idle"
            <4>1. watch' = [watch EXCEPT !.timer = FALSE, !.again = TRUE]
                BY <2>1, <3>2 DEF WatchFires
            <4> QED
                BY <1>1, <3>2, <4>1 DEF Watch
        <3> QED
            BY <3>1, <3>2
    <2>2. CASE WatchBegin
        <3>1. /\ watch' = [watch EXCEPT !.at = "abbrevHead", !.entry = cur]
              /\ watch.at = "begin" /\ cur # 0
            BY <2>2 DEF WatchBegin, StillAttached
        <3>2. cur \in 1 .. Len(entries)
            BY <1>1, <3>1
        <3> QED
            BY <1>1, <1>2, <3>1, <3>2 DEF Watch
    <2>3. CASE WatchAsks
        <3>1. /\ watch' = [watch EXCEPT !.at = "info", !.since = repo]
              /\ watch.at = "abbrevHead"
            BY <2>3 DEF WatchAsks
        <3> QED
            BY <1>1, <1>2, <3>1 DEF Watch
    <2>4. CASE WatchStops
        <3>1. watch' = WatchEnds(watch)
            BY <2>4 DEF WatchStops
        <3>2. WatchEnds(watch) \in Watch /\ WatchEnds(watch).at \in {"idle", "begin"}
            BY <1>1 DEF WatchEnds, Watch
        <3> QED
            BY <3>1, <3>2
    <2> QED
        BY <2>1, <2>2, <2>3, <2>4
<1> QED
    BY <1>3, <1>4, CallsKept, QuietStep

\* The git directory may change, by hand or by stage_hunk.
LEMMA RepoStep == ASSUME IInv, GitEvent \/ StageAdded \/ StageApplied PROVE IInv'
<1>1. /\ RepoChanges \/ UNCHANGED <<repo, watch>>
      /\ UNCHANGED <<buf, entries, cur, timer, lost, upd, att, status>>
    BY DEF GitEvent, StageAdded, StageApplied, IndexMayChange, StageUnchanged
<1>2. repo' \in Nat
    BY <1>1, CallsKept DEF RepoChanges
<1>3. watch' = watch \/ watch' = [watch EXCEPT !.timer = TRUE]
    BY <1>1 DEF RepoChanges
<1>4. /\ watch' \in Watch /\ watch'.at = watch.at
      /\ watch'.entry = watch.entry /\ watch'.since = watch.since
    BY <1>3, CallsKept DEF Watch
<1>5. /\ stg' \in Stage
      /\ stg'.at \in Staging => stg.at \in Staging /\ stg'.entry = stg.entry
      /\ stg'.at = "info" => stg'.since \in Nat
      /\ stg.at \in Holding => stg'.at \in Holding /\ stg'.entry = stg.entry
    <2>1. CASE GitEvent
        BY <2>1, CallsKept DEF GitEvent
    <2>2. CASE StageAdded
        <3>1. stg.at = "add" /\ stg' = [stg EXCEPT !.at = "info", !.since = repo']
            BY <2>2 DEF StageAdded
        <3>2. repo' \in Int
            BY <1>2
        <3> QED
            BY <1>2, <3>1, <3>2, CallsKept DEF Stage, Staging, Holding
    <2>3. CASE StageApplied
        <3>1. stg.at = "apply" /\ stg' = [stg EXCEPT !.at = "sleep"]
            BY <2>3 DEF StageApplied
        <3> QED
            BY <3>1, CallsKept DEF Stage, Staging, Holding
    <2> QED
        BY <2>1, <2>2, <2>3
<1> QED
    BY <1>1, <1>2, <1>4, <1>5, CallsKept, QuietStep

\* stage_hunk finds the locks free and looks for the hunk, or gives up: it holds
\* nothing meanwhile.
LEMMA StageWaits == ASSUME IInv, StageBegin \/ StageGivesUp PROVE IInv'
<1>1. UNCHANGED <<buf, repo, entries, cur, timer, lost, upd, watch, att, status>>
    BY DEF StageBegin, StageGivesUp, StageUnchanged
<1>2. /\ stg' \in Stage
      /\ stg'.at \in Staging => stg'.entry \in 1 .. Len(entries)
      /\ stg'.at # "info" /\ stg.at \notin Holding
    <2>1. CASE StageBegin
        <3>1. cur \in 1 .. Len(entries) /\ cur \in Nat
            BY <2>1, CallsKept DEF StageBegin
        <3>2. stg' = [StageIdle EXCEPT !.at = "hunk", !.entry = cur] /\ stg.at = "idle"
            BY <2>1 DEF StageBegin
        <3> QED
            BY <3>1, <3>2, IdleType DEF Stage, Staging, Holding
    <2>2. CASE StageGivesUp
        BY <2>2, IdleType DEF StageGivesUp, StageIdle, Staging, Holding
    <2> QED
        BY <2>1, <2>2
<1> QED
    BY <1>1, <1>2, CallsKept, QuietStep

\* attach asks git and may give up.
LEMMA AttachWaits == ASSUME IInv, AttachFound \/ AttachGivesUp PROVE IInv'
<1>1. att \in Attach /\ (att.at = "git" => att.object \in Nat) /\ repo \in Nat
    BY CallsKept
<1>2. UNCHANGED <<buf, repo, entries, cur, timer, lost, upd, watch, stg, status>>
    BY DEF AttachFound, AttachGivesUp, AttachUnchanged
<1>3. /\ att' \in Attach
      /\ att'.at \in {"git", "enter"} => att'.object \in Nat
    <2>1. CASE AttachFound
        <3>1. att.at = "git"
            BY <2>1 DEF AttachFound
        <3>2. PICK v \in att.object .. repo : att' = [att EXCEPT !.at = "enter", !.object = v]
            BY <2>1 DEF AttachFound
        <3>3. v \in Nat /\ v \in Int
            BY <1>1, <3>1, <3>2
        <3> QED
            BY <1>1, <3>1, <3>2, <3>3 DEF Attach
    <2>2. CASE AttachGivesUp
        BY <2>2, IdleType DEF AttachGivesUp, AttachIdle
    <2> QED
        BY <2>1, <2>2
<1> QED
    BY <1>2, <1>3, CallsKept, QuietStep

\* git's answer about the index is written to the entry the handler began with.
LEMMA InfoStep == ASSUME IInv, WatchInfo PROVE IInv'
<1> DEFINE k == watch.entry
           e == entries[k]
<1>1. /\ watch \in Watch /\ watch.at = "info" /\ watch.since \in Nat /\ repo \in Nat
      /\ k \in 1 .. Len(entries) /\ e \in Entry /\ cur \in 0 .. Len(entries)
      /\ UNCHANGED <<buf, repo, cur, timer, lost, upd, att, stg, status>>
    BY DEF WatchInfo, WatchUnchanged, IInv, TypeOK, LocalsOK
<1>2. PICK v \in watch.since .. repo : entries' = [entries EXCEPT ![watch.entry].object = v]
    BY DEF WatchInfo
<1> DEFINE f == [e EXCEPT !.object = v]
<1>3. v \in Nat
    BY <1>1
<1>4. /\ f \in Entry /\ f.lock = e.lock /\ f.gitLock = e.gitLock /\ f.staged = e.staged
      /\ f.compare = e.compare /\ f.hunks = e.hunks
    BY <1>1, <1>3 DEF Entry
<1>5. entries' = [entries EXCEPT ![k] = f]
    BY <1>2
<1> HIDE DEF f
<1>6. /\ entries' \in Seq(Entry) /\ Len(entries') = Len(entries) /\ entries'[k] = f
      /\ \A j \in 1 .. Len(entries) : j # k => entries'[j] = entries[j]
    BY <1>1, <1>4, <1>5, SetEntry DEF IInv, TypeOK
<1>7. \A j \in 1 .. Len(entries) :
          /\ entries'[j].lock = entries[j].lock
          /\ entries'[j].gitLock = entries[j].gitLock
          /\ entries'[j].compare = entries[j].compare
          /\ entries'[j].staged = entries[j].staged
          /\ entries'[j].hunks = entries[j].hunks
    BY <1>4, <1>6
<1>8. watch' \in Watch /\ watch'.at = "informed"
    <2>1. watch' = [watch EXCEPT !.at = "informed", !.since = Nil]
        BY DEF WatchInfo
    <2> QED
        BY <1>1, <2>1, IdleType DEF Watch
<1>9. TypeOK'
    BY <1>1, <1>6, <1>8 DEF IInv, TypeOK
<1>10. LocalsOK'
    BY <1>1, <1>6, <1>8 DEF IInv, LocalsOK
<1>11. ListenersLoaded' /\ GitLockHeld'
    BY <1>1, <1>6, <1>7, <1>8 DEF IInv, ListenersLoaded, GitLockHeld
<1>12. Superseded' /\ LockHeld' /\ StatusKept'
    BY <1>1, <1>6, <1>7, BesideStep
<1>13. TextRead'
    BY <1>1, <1>7 DEF IInv, TextRead, Listening, Pending
<1> QED
    BY <1>9, <1>10, <1>11, <1>12, <1>13 DEF IInv

\* stage_hunk writes to its entry nothing but git's lock and the object.
LEMMA HoldStep ==
    ASSUME IInv, NEW f \in Entry,
           stg.at \in Staging, entries' = [entries EXCEPT ![stg.entry] = f],
           LET e == entries[stg.entry]
           IN  /\ f.lock = e.lock /\ f.staged = e.staged
               /\ f.compare = e.compare /\ f.hunks = e.hunks,
           stg' \in Stage, f.gitLock => stg'.at \in Holding /\ stg'.entry = stg.entry,
           stg'.at \in Staging => stg'.entry = stg.entry, stg'.at # "info",
           UNCHANGED <<buf, repo, cur, timer, lost, upd, watch, att, status>>
    PROVE  IInv'
<1> DEFINE k == stg.entry
           e == entries[k]
<1>1. k \in 1 .. Len(entries)
    BY CallsKept
<1>2. /\ entries' \in Seq(Entry) /\ Len(entries') = Len(entries) /\ entries'[k] = f
      /\ \A j \in 1 .. Len(entries) : j # k => entries'[j] = entries[j]
    BY <1>1, CallsKept, SetEntry
<1>3. \A j \in 1 .. Len(entries) :
          /\ entries'[j].lock = entries[j].lock
          /\ entries'[j].compare = entries[j].compare
          /\ entries'[j].staged = entries[j].staged
          /\ entries'[j].hunks = entries[j].hunks
    BY <1>2
<1>4. TypeOK'
    BY <1>2 DEF IInv, TypeOK
<1>5. LocalsOK'
    BY <1>1, <1>2 DEF IInv, LocalsOK
<1>6. ListenersLoaded'
    BY DEF IInv, ListenersLoaded
<1>7. GitLockHeld'
    <2>1. \A j \in 1 .. Len(entries) : j # k => ~entries'[j].gitLock
        BY <1>2 DEF IInv, GitLockHeld
    <2> QED
        BY <1>2, <2>1 DEF GitLockHeld
<1>8. Superseded' /\ LockHeld' /\ StatusKept'
    BY <1>2, <1>3, BesideStep
<1>9. TextRead'
    <2>1. cur # 0 => cur \in 1 .. Len(entries)
        BY CallsKept
    <2> QED
        BY <1>3, <2>1 DEF IInv, TextRead, Listening, Pending
<1> QED
    BY <1>4, <1>5, <1>6, <1>7, <1>8, <1>9 DEF IInv

\* stage_hunk takes git's lock, releases it when the file was added, or when git
\* apply could not be run.
LEMMA LockStep == ASSUME IInv, StageLocks \/ StageInfo \/ StageRaises PROVE IInv'
<1> DEFINE k == stg.entry
           e == entries[k]
<1>1. /\ stg.at \in Staging /\ stg \in Stage /\ k \in 1 .. Len(entries) /\ e \in Entry
      /\ UNCHANGED <<buf, repo, cur, timer, lost, upd, watch, att, status>>
    BY CallsKept
    DEF StageLocks, StageInfo, StageRaises, StageUnchanged, Staging, Holding
<1>2. CASE StageLocks
    <2> DEFINE f == [e EXCEPT !.gitLock = TRUE]
    <2>1. /\ f \in Entry /\ f.lock = e.lock /\ f.staged = e.staged
          /\ f.compare = e.compare /\ f.hunks = e.hunks
        BY <1>1 DEF Entry
    <2>2. entries' = [entries EXCEPT ![k] = f]
        BY <1>2 DEF StageLocks
    <2>3. PICK at \in {"add", "apply"} : stg' = [stg EXCEPT !.at = at]
        BY <1>2 DEF StageLocks
    <2>4. stg' \in Stage /\ stg'.at \in Holding /\ stg'.at # "info" /\ stg'.entry = k
        BY <1>1, <2>3 DEF Stage, Staging, Holding
    <2> HIDE DEF f
    <2> QED
        BY <1>1, <2>1, <2>2, <2>4, HoldStep
<1>3. CASE StageInfo
    <2>1. stg.since \in Nat /\ repo \in Nat
        BY <1>3, CallsKept DEF StageInfo
    <2>2. PICK v \in stg.since .. repo :
              entries' = [entries EXCEPT ![stg.entry].object = v, ![stg.entry].gitLock = FALSE]
        BY <1>3 DEF StageInfo
    <2>3. v \in Nat
        BY <2>1, <2>2
    <2> DEFINE f == [e EXCEPT !.object = v, !.gitLock = FALSE]
    <2>4. /\ f \in Entry /\ f.lock = e.lock /\ f.staged = e.staged
          /\ f.compare = e.compare /\ f.hunks = e.hunks /\ ~f.gitLock
        BY <1>1, <2>3 DEF Entry
    <2>5. entries' = [entries EXCEPT ![k] = f]
        <3> DEFINE g == [e EXCEPT !.object = v]
        <3>1. entries' = [[entries EXCEPT ![k] = g] EXCEPT ![k].gitLock = FALSE]
            BY <2>2
        <3>2. g \in Entry /\ f = [g EXCEPT !.gitLock = FALSE]
            BY <1>1, <2>3 DEF Entry
        <3> HIDE DEF f, g
        <3>3. [entries EXCEPT ![k] = g][k] = g
            BY <1>1, <3>2, CallsKept, SetEntry
        <3>4. entries' = [[entries EXCEPT ![k] = g] EXCEPT ![k] = f]
            BY <3>1, <3>2, <3>3
        <3> QED
            BY <1>1, <3>4, CallsKept
    <2>6. stg' = [stg EXCEPT !.at = "apply", !.since = Nil]
        BY <1>3 DEF StageInfo
    <2>7. stg' \in Stage /\ stg'.at = "apply" /\ stg'.entry = k
        BY <1>1, <2>6, IdleType DEF Stage, Staging, Holding
    <2> HIDE DEF f
    <2> QED
        BY <1>1, <2>4, <2>5, <2>7, HoldStep
<1>4. CASE StageRaises
    <2> DEFINE f == [e EXCEPT !.gitLock = FALSE]
    <2>1. /\ f \in Entry /\ f.lock = e.lock /\ f.staged = e.staged
          /\ f.compare = e.compare /\ f.hunks = e.hunks /\ ~f.gitLock
        BY <1>1 DEF Entry
    <2>2. entries' = [entries EXCEPT ![k] = f] /\ stg' = StageIdle
        BY <1>4 DEF StageRaises
    <2>3. stg' \in Stage /\ stg'.at = "idle" /\ "idle" \notin Staging
        BY <2>2, IdleType DEF StageIdle, Staging, Holding
    <2> HIDE DEF f
    <2> QED
        BY <1>1, <2>1, <2>2, <2>3, HoldStep
<1> QED
    BY <1>2, <1>3, <1>4

\* What the user does to the buffer: a change of its text that the entry is
\* told of makes the timer run, and an entry is at most dropped.
LEMMA UserStep ==
    ASSUME IInv, UNCHANGED <<repo, upd, watch, stg>>,
           buf' \in Buffer, ListenersLoaded',
           buf.state = "wiped" => buf'.state = "wiped",
           cur' \in {0, cur}, cur' # 0 => status' = status,
           timer' \in {"none", "this", "other"}, lost' \in BOOLEAN, att' \in Attach,
           att'.at \in {"git", "enter"} => att'.object \in Nat,
           entries' \in Seq(Entry), Len(entries') = Len(entries),
           \A j \in 1 .. Len(entries) :
               /\ entries'[j].lock = entries[j].lock
               /\ entries'[j].gitLock = entries[j].gitLock
               /\ entries'[j].compare = entries[j].compare
               /\ \/ entries'[j].staged = NoStaged
                  \/ /\ entries'[j].staged = entries[j].staged
                     /\ entries'[j].hunks = entries[j].hunks,
           \/ ~Listening' \/ timer' = "this"
           \/ /\ Listening /\ timer' = timer /\ lost' = lost /\ buf'.text = buf.text
              /\ entries'[cur].hunks = entries[cur].hunks
              /\ entries'[cur].staged = entries[cur].staged
    PROVE  IInv'
<1>1. cur \in 0 .. Len(entries)
    BY DEF IInv, TypeOK
<1>2. TypeOK'
    BY <1>1 DEF IInv, TypeOK
<1>3. LocalsOK'
    BY DEF IInv, LocalsOK
<1>4. GitLockHeld'
    BY DEF IInv, GitLockHeld
<1>5. Superseded' /\ LockHeld' /\ StatusKept'
    BY BesideStep
<1>6. TextRead'
    BY DEF IInv, TextRead, Listening, Pending
<1> QED
    BY <1>2, <1>3, <1>4, <1>5, <1>6 DEF IInv

\* A detach closes the watcher and drops the entry, nothing else.
LEMMA DetachesType ==
    ASSUME IInv, Detaches
    PROVE  /\ cur' = 0 /\ entries' \in Seq(Entry) /\ Len(entries') = Len(entries)
           /\ \A j \in 1 .. Len(entries) :
                  /\ entries'[j].lock = entries[j].lock
                  /\ entries'[j].gitLock = entries[j].gitLock
                  /\ entries'[j].compare = entries[j].compare
                  /\ entries'[j].staged = entries[j].staged
                  /\ entries'[j].hunks = entries[j].hunks
<1>1. entries \in Seq(Entry) /\ cur \in 0 .. Len(entries) /\ cur' = 0
    BY DEF IInv, TypeOK, Detaches
<1>2. CASE cur = 0
    BY <1>1, <1>2 DEF Detaches
<1>3. CASE cur # 0
    <2> DEFINE f == [entries[cur] EXCEPT !.watching = FALSE]
    <2>1. cur \in 1 .. Len(entries) /\ entries[cur] \in Entry
        BY <1>1, <1>3
    <2>2. /\ f \in Entry /\ f.lock = entries[cur].lock /\ f.gitLock = entries[cur].gitLock
          /\ f.compare = entries[cur].compare /\ f.staged = entries[cur].staged
          /\ f.hunks = entries[cur].hunks
        BY <2>1 DEF Entry
    <2>3. entries' = [entries EXCEPT ![cur] = f]
        BY <1>3 DEF Detaches
    <2> HIDE DEF f
    <2>4. /\ entries' \in Seq(Entry) /\ Len(entries') = Len(entries) /\ entries'[cur] = f
          /\ \A j \in 1 .. Len(entries) : j # cur => entries'[j] = entries[j]
        BY <1>1, <2>1, <2>2, <2>3, SetEntry
    <2> QED
        BY <1>1, <2>2, <2>4
<1> QED
    BY <1>2, <1>3

\* What attach's throttle remembers does not change beside it.
LEMMA AttachKept ==
    IInv => /\ att \in Attach /\ repo \in Nat /\ buf \in Buffer
            /\ entries \in Seq(Entry) /\ cur \in 0 .. Len(entries)
            /\ timer \in {"none", "this", "other"} /\ lost \in BOOLEAN
            /\ att.at \in {"git", "enter"} => att.object \in Nat
            /\ buf.state # "loaded" => buf.listeners = 0
BY DEF IInv, TypeOK, LocalsOK, ListenersLoaded

\* :Gitsigns detach, and :file.
LEMMA DetachStep == ASSUME IInv, Detach \/ Rename PROVE IInv'
<1>1. Detaches /\ UNCHANGED <<repo, timer, lost, upd, watch, stg>>
    BY DEF Detach, Rename
<1>2. /\ cur' = 0 /\ entries' \in Seq(Entry) /\ Len(entries') = Len(entries)
      /\ \A j \in 1 .. Len(entries) :
             /\ entries'[j].lock = entries[j].lock
             /\ entries'[j].gitLock = entries[j].gitLock
             /\ entries'[j].compare = entries[j].compare
             /\ entries'[j].staged = entries[j].staged
             /\ entries'[j].hunks = entries[j].hunks
    BY <1>1, DetachesType
<1>3. ~Listening'
    BY <1>2 DEF Listening
<1>4. CASE Detach
    <2>1. UNCHANGED <<buf, att>>
        BY <1>4 DEF Detach
    <2> QED
        BY <1>1, <1>2, <1>3, <2>1, AttachKept, UserStep DEF ListenersLoaded
<1>5. CASE Rename
    <2>1. /\ buf.state = "loaded" /\ buf' = [buf EXCEPT !.name = @ + 1]
          /\ att' = AttachCalled(buf', FALSE)
        BY <1>5 DEF Rename
    <2>2. buf' \in Buffer /\ buf'.state = buf.state /\ buf'.listeners = buf.listeners
        BY <2>1, AttachKept DEF Buffer
    <2>3. /\ att' \in Attach
          /\ att'.at \in {"git", "enter"} => att'.object \in Nat
        BY <2>1, <2>2, AttachKept, AttachType
    <2>4. ListenersLoaded'
        BY <2>1, <2>2 DEF ListenersLoaded
    <2> QED
        BY <1>1, <1>2, <1>3, <2>1, <2>2, <2>3, <2>4, AttachKept, UserStep
<1> QED
    BY <1>4, <1>5

\* Unloading tells the listeners, which detach; without one the entry stays.
LEMMA UnloadStep == ASSUME IInv, Unload PROVE IInv'
<1>1. PICK state \in {"unloaded", "wiped"} :
          buf' = [buf EXCEPT !.state = state, !.listeners = 0,
                              !.autocmd = @ /\ buf.listeners = 0]
    BY DEF Unload
<1>2. /\ buf' \in Buffer /\ buf'.listeners = 0 /\ buf.state = "loaded"
      /\ UNCHANGED <<repo, timer, lost, upd, watch, att, stg>>
    BY <1>1, AttachKept DEF Buffer, Unload
<1>3. ListenersLoaded' /\ ~Listening'
    BY <1>2, AttachKept DEF ListenersLoaded, Listening
<1>4. CASE Detaches
    <2>1. /\ cur' = 0 /\ entries' \in Seq(Entry) /\ Len(entries') = Len(entries)
          /\ \A j \in 1 .. Len(entries) :
                 /\ entries'[j].lock = entries[j].lock
                 /\ entries'[j].gitLock = entries[j].gitLock
                 /\ entries'[j].compare = entries[j].compare
                 /\ entries'[j].staged = entries[j].staged
                 /\ entries'[j].hunks = entries[j].hunks
        BY <1>4, DetachesType
    <2> QED
        BY <1>2, <1>3, <2>1, AttachKept, UserStep
<1>5. CASE UNCHANGED <<cur, entries, status>>
    BY <1>2, <1>3, <1>5, AttachKept, UserStep
<1> QED
    BY <1>4, <1>5 DEF Unload

\* The buffer is loaded again, or written.
LEMMA LoadStep == ASSUME IInv, Load \/ Write PROVE IInv'
<1>1. /\ UNCHANGED <<repo, entries, cur, upd, watch, stg, status>>
      /\ att' = AttachCalled(buf', cur # 0)
    BY DEF Load, Write, CallbacksUnchanged
<1>2. /\ buf' \in Buffer /\ buf'.text = buf.text /\ buf'.listeners = buf.listeners
      /\ buf.state # "wiped" /\ buf'.state = "loaded" 
      /\ timer' \in {"none", "this", "other"} /\ lost' \in BOOLEAN
      /\ (timer' = timer /\ lost' = lost) \/ timer' = "this"
    <2>1. CASE Load
        BY <2>1, AttachKept DEF Load, Buffer
    <2>2. CASE Write
        BY <2>2, AttachKept, DebounceType DEF Write
    <2> QED
        BY <2>1, <2>2
<1>3. ListenersLoaded'
    BY <1>2 DEF ListenersLoaded
<1>4. /\ att' \in Attach
      /\ att'.at \in {"git", "enter"} => att'.object \in Nat
    BY <1>1, <1>2, AttachKept, AttachType
<1>5. Listening' => Listening
    BY <1>1, <1>2 DEF Listening
<1> QED
    BY <1>1, <1>2, <1>3, <1>4, <1>5, AttachKept, UserStep

\* on_lines: with an entry the timer runs, without one nobody listens.
LEMMA EditStep == ASSUME IInv, EditAttached \/ EditDetached PROVE IInv'
<1>1. UNCHANGED <<repo, upd, watch, stg, status, att, cur>> /\ buf.state = "loaded"
    BY DEF EditAttached, EditDetached, CallbacksUnchanged, Changes
<1>2. CASE EditAttached
    <2>1. /\ buf' = [buf EXCEPT !.text = @ + 1] /\ cur # 0
          /\ timer' = "this" /\ lost' \in BOOLEAN
        BY <1>2, DebounceType DEF EditAttached
    <2>2. buf' \in Buffer /\ buf'.state = "loaded"
        BY <1>1, <2>1, AttachKept DEF Buffer
    <2>3. cur \in 1 .. Len(entries) /\ entries[cur] \in Entry
        BY <2>1, AttachKept
    <2>4. PICK force \in BOOLEAN : entries' = [entries EXCEPT ![cur].force = force]
        <3>1. PICK signed \in BOOLEAN :
                  entries' = [entries EXCEPT
                      ![cur].force = @ \/ (signed /\ entries[cur].hunks # NoHunks)]
            BY <1>2 DEF EditAttached
        <3>2. (entries[cur].force \/ (signed /\ entries[cur].hunks # NoHunks)) \in BOOLEAN
            OBVIOUS
        <3> QED
            BY <3>1, <3>2
    <2> DEFINE f == [entries[cur] EXCEPT !.force = force]
    <2>5. /\ f \in Entry /\ f.lock = entries[cur].lock /\ f.gitLock = entries[cur].gitLock
          /\ f.compare = entries[cur].compare /\ f.staged = entries[cur].staged
          /\ f.hunks = entries[cur].hunks
        BY <2>3 DEF Entry
    <2>6. entries' = [entries EXCEPT ![cur] = f]
        BY <2>4
    <2> HIDE DEF f
    <2>7. /\ entries' \in Seq(Entry) /\ Len(entries') = Len(entries) /\ entries'[cur] = f
          /\ \A j \in 1 .. Len(entries) : j # cur => entries'[j] = entries[j]
        BY <2>3, <2>5, <2>6, SetEntry, AttachKept
    <2>8. \A j \in 1 .. Len(entries) :
              /\ entries'[j].lock = entries[j].lock
              /\ entries'[j].gitLock = entries[j].gitLock
              /\ entries'[j].compare = entries[j].compare
              /\ entries'[j].staged = entries[j].staged
              /\ entries'[j].hunks = entries[j].hunks
        BY <2>5, <2>7
    <2>9. ListenersLoaded'
        BY <2>2 DEF ListenersLoaded
    <2> QED
        BY <1>1, <2>1, <2>2, <2>7, <2>8, <2>9, AttachKept, UserStep
<1>3. CASE EditDetached
    <2>1. /\ buf' = [buf EXCEPT !.text = @ + 1, !.listeners = 0]
          /\ UNCHANGED <<entries, timer, lost>>
        BY <1>3 DEF EditDetached
    <2>2. buf' \in Buffer /\ buf'.state = "loaded" /\ buf'.listeners = 0
        <3> DEFINE n == buf.text + 1
        <3>1. n \in Nat /\ buf' = [buf EXCEPT !.text = n, !.listeners = 0]
            BY <2>1, AttachKept DEF Buffer
        <3> HIDE DEF n
        <3> QED
            BY <1>1, <3>1, AttachKept DEF Buffer
    <2>3. ListenersLoaded' /\ ~Listening'
        BY <2>2 DEF ListenersLoaded, Listening
    <2> QED
        BY <1>1, <2>1, <2>2, <2>3, AttachKept, UserStep
<1> QED
    BY <1>2, <1>3

\* :edit, after which the entry has no hunks and the timer runs.
LEMMA ReloadStep == ASSUME IInv, Reload PROVE IInv'
<1>1. /\ UNCHANGED <<repo, upd, watch, stg, status, cur>> /\ buf.state = "loaded"
      /\ buf' = [buf EXCEPT !.text = @ + 1] /\ att' = AttachCalled(buf', cur # 0)
    BY DEF Reload, CallbacksUnchanged, Changes
<1>2. buf' \in Buffer /\ buf'.state = "loaded" /\ buf'.listeners = buf.listeners
    BY <1>1, AttachKept DEF Buffer
<1>3. /\ att' \in Attach
      /\ att'.at \in {"git", "enter"} => att'.object \in Nat
    BY <1>1, <1>2, AttachKept, AttachType
<1>4. ListenersLoaded'
    BY <1>2 DEF ListenersLoaded
<1>5. CASE buf.listeners > 0 /\ cur # 0
    <2> DEFINE f == Invalidate(entries[cur])
    <2>1. /\ cur \in 1 .. Len(entries) /\ entries[cur] \in Entry
          /\ timer' = "this" /\ lost' \in BOOLEAN
        BY <1>5, AttachKept, DebounceType DEF Reload
    <2>2. /\ f \in Entry /\ f.lock = entries[cur].lock /\ f.gitLock = entries[cur].gitLock
          /\ f.compare = entries[cur].compare /\ f.staged = NoStaged
        BY <2>1, InvalidateType
    <2>3. entries' = [entries EXCEPT ![cur] = f]
        BY <1>5 DEF Reload
    <2> HIDE DEF f
    <2>4. /\ entries' \in Seq(Entry) /\ Len(entries') = Len(entries) /\ entries'[cur] = f
          /\ \A j \in 1 .. Len(entries) : j # cur => entries'[j] = entries[j]
        BY <2>1, <2>2, <2>3, SetEntry, AttachKept
    <2>5. \A j \in 1 .. Len(entries) :
              /\ entries'[j].lock = entries[j].lock
              /\ entries'[j].gitLock = entries[j].gitLock
              /\ entries'[j].compare = entries[j].compare
              /\ \/ entries'[j].staged = NoStaged
                 \/ /\ entries'[j].staged = entries[j].staged
                    /\ entries'[j].hunks = entries[j].hunks
        BY <2>2, <2>4
    <2> QED
        BY <1>1, <1>2, <1>3, <1>4, <2>1, <2>4, <2>5, AttachKept, UserStep
<1>6. CASE ~(buf.listeners > 0 /\ cur # 0)
    <2>1. UNCHANGED <<entries, timer, lost>>
        BY <1>6 DEF Reload
    <2>2. ~Listening'
        BY <1>1, <1>2, <1>6 DEF Listening
    <2> QED
        BY <1>1, <1>2, <1>3, <1>4, <2>1, <2>2, AttachKept, UserStep
<1> QED
    BY <1>5, <1>6

\* attach makes the entry; a loaded buffer listens from now on and an update
\* of it is called, an unloaded one has no listeners.
LEMMA EntersStep == ASSUME IInv, AttachEnters PROVE IInv'
<1> DEFINE new == NewEntry(att.file, att.object)
           n == Len(entries) + 1
<1>1. /\ att \in Attach /\ att.at = "enter" /\ att.object \in Nat /\ att.file \in Int
      /\ entries \in Seq(Entry) /\ buf \in Buffer /\ cur \in 0 .. Len(entries)
      /\ UNCHANGED <<repo, timer, lost, watch, stg, status>>
      /\ entries' = Append(entries, new) /\ cur' = Len(entries')
    BY DEF AttachEnters, AttachUnchanged, IInv, TypeOK, LocalsOK, Attach
<1>2. new \in Entry /\ ~new.lock /\ ~new.gitLock /\ new.staged = NoStaged
    BY <1>1, NewType
<1> HIDE DEF new
<1>3. /\ entries' \in Seq(Entry) /\ Len(entries') = n /\ cur' = n /\ entries'[n] = new
      /\ \A j \in 1 .. Len(entries) : entries'[j] = entries[j]
    BY <1>1, <1>2, AppendProperties
<1>4. /\ n \in Nat /\ n \notin 1 .. Len(entries) /\ n \in 1 .. n /\ n # 0
      /\ 1 .. n = (1 .. Len(entries)) \cup {n}
    BY <1>1
<1>5. /\ upd.at \in Inside => upd.entry \in 1 .. Len(entries)
      /\ upd.at = "idle" => upd.by = ""
      /\ "begin" \notin Inside /\ "idle" \notin Inside /\ upd \in Update
    BY IdleBy DEF IInv, TypeOK, LocalsOK
<1>6. GitLockHeld'
    BY <1>1, <1>2, <1>3, <1>4 DEF IInv, GitLockHeld
<1>7. CASE buf.state = "loaded"
    <2>1. /\ buf' = [buf EXCEPT !.listeners = @ + 1, !.autocmd = TRUE] /\ upd' = Called(upd, "attach")
          /\ att' = IF upd.at = "idle" THEN [att EXCEPT !.at = "updating"] ELSE AttachIdle
        BY <1>7 DEF AttachEnters
    <2>2. buf' \in Buffer /\ buf'.state = buf.state
        <3> DEFINE m == buf.listeners + 1
        <3>1. m \in Nat /\ buf' = [buf EXCEPT !.listeners = m, !.autocmd = TRUE]
            BY <1>1, <2>1 DEF Buffer
        <3> HIDE DEF m
        <3> QED
            BY <1>1, <3>1 DEF Buffer
    <2>3. "attach" \in Callers
        BY DEF Callers
    <2>4. /\ upd' \in Update /\ upd'.at # "idle"
          /\ \/ /\ upd.at = "idle" /\ upd'.at = "begin" /\ upd'.by = "attach"
             \/ /\ upd.at # "idle" /\ upd'.at = upd.at /\ upd'.by = upd.by
                /\ upd'.entry = upd.entry /\ upd'.since = upd.since
                /\ upd'.args = upd.args /\ upd'.old = upd.old
                /\ upd'.oldStaged = upd.oldStaged
          /\ Superseded' /\ TextRead'
        BY <1>5, <2>1, <2>3, CallStep
    <2>5. att' \in Attach /\ att'.at \notin {"git", "enter"}
        BY <1>1, <2>1, IdleType DEF Attach, AttachIdle
    <2>6. TypeOK'
        BY <1>1, <1>3, <1>4, <2>2, <2>4, <2>5 DEF IInv, TypeOK
    <2>7. LocalsOK'
        BY <1>1, <1>3, <1>4, <1>5, <2>4, <2>5 DEF IInv, LocalsOK, Inside
    <2>8. ListenersLoaded'
        BY <1>1, <1>5, <1>7, <2>2, <2>4, <2>5 DEF IInv, ListenersLoaded
    <2>9. LockHeld'
        BY <1>2, <1>3, <1>5, <2>4 DEF IInv, LockHeld
    <2>10. StatusKept'
        BY <1>2, <1>3, <1>4, <1>5, <2>4 DEF StatusKept
    <2> QED
        BY <1>6, <2>4, <2>6, <2>7, <2>8, <2>9, <2>10 DEF IInv
<1>8. CASE buf.state # "loaded"
    <2>1. UNCHANGED <<buf, upd>> /\ att' = AttachIdle
        BY <1>8 DEF AttachEnters
    <2>2. att' \in Attach /\ att'.at = "idle"
        BY <2>1, IdleType DEF AttachIdle
    <2>3. ~Listening' /\ ListenersLoaded'
        BY <1>1, <1>8, <2>1 DEF IInv, ListenersLoaded, Listening, Buffer
    <2>4. TypeOK'
        BY <1>1, <1>3, <1>4, <2>1, <2>2 DEF IInv, TypeOK
    <2>5. LocalsOK'
        BY <1>1, <1>3, <1>4, <2>1, <2>2 DEF IInv, LocalsOK
    <2>6. TextRead'
        BY <1>1, <2>1, <2>2, <2>3 DEF IInv, TextRead
    <2>7. LockHeld' /\ Superseded'
        BY <1>2, <1>3, <1>4, <1>5, <2>1 DEF IInv, LockHeld, Superseded
    <2>8. StatusKept'
        BY <1>2, <1>3, <1>4, <1>5, <2>1 DEF StatusKept
    <2> QED
        BY <1>6, <2>3, <2>4, <2>5, <2>6, <2>7, <2>8 DEF IInv
<1> QED
    BY <1>7, <1>8

-----------------------------------------------------------------------------
\* A buffer that attach has just been called for.
LEMMA InitInv == Init => IInv
<1> SUFFICES ASSUME Init PROVE IInv
    OBVIOUS
<1>1. /\ entries = <<>> /\ cur = 0 /\ upd = UpdateIdle /\ watch = WatchIdle
      /\ stg = StageIdle /\ repo = 0 /\ timer = "none" /\ lost = FALSE
      /\ att = [AttachIdle EXCEPT !.at = "git", !.file = 0, !.object = 0]
      /\ buf = [text |-> 0, name |-> 0, state |-> "loaded", listeners |-> 0,
                autocmd |-> FALSE]
    BY DEF Init
<1>2. buf \in Buffer
    BY <1>1 DEF Buffer
<1>3. /\ upd \in Update /\ watch \in Watch /\ stg \in Stage /\ AttachIdle \in Attach
    BY <1>1, IdleType
<1>4. att \in Attach /\ att.at = "git" /\ att.object \in Nat
    <2>1. ASSUME NEW n \in Nat, att = [AttachIdle EXCEPT !.at = "git", !.file = n, !.object = n]
          PROVE  att \in Attach /\ att.at = "git" /\ att.object \in Nat
        <3>1. n \in Int
            OBVIOUS
        <3> QED
            BY <1>3, <2>1, <3>1 DEF Attach
    <2> QED
        BY <1>1, <2>1
<1>5. /\ upd.at = "idle" /\ upd.by = "" /\ upd.at \notin Inside
      /\ upd.at \notin Differing \cup Differed
      /\ watch.at = "idle" /\ stg.at = "idle" /\ stg.at \notin Staging
    BY <1>1 DEF UpdateIdle, WatchIdle, StageIdle, Staging, Holding, Inside, Asking, Differing, Differed
<1>6. /\ entries \in Seq(Entry) /\ Len(entries) = 0
      /\ repo \in Nat /\ timer \in {"none", "this", "other"} /\ lost \in BOOLEAN
      /\ cur \in 0 .. Len(entries)
    <2>1. entries \in Seq(Entry) /\ Len(entries) = 0
        BY <1>1
    <2>2. 0 \in 0 .. Len(entries)
        BY <2>1
    <2>3. repo \in Nat /\ timer \in {"none", "this", "other"} /\ lost \in BOOLEAN
        BY <1>1
    <2> QED
        BY <1>1, <2>1, <2>2, <2>3
<1>7. TypeOK
    BY <1>2, <1>3, <1>4, <1>6 DEF TypeOK
<1>8. LocalsOK
    BY <1>1, <1>4, <1>5 DEF LocalsOK
<1>9. ListenersLoaded
    BY <1>1, <1>4, <1>5 DEF ListenersLoaded
<1>10. Superseded
    BY <1>5 DEF Superseded
<1>11. LockHeld /\ TextRead /\ StatusKept
    BY <1>1, <1>5 DEF LockHeld, TextRead, Listening, StatusKept, StillAttached
<1>12. GitLockHeld
    BY <1>6 DEF GitLockHeld
<1> QED
    BY <1>7, <1>8, <1>9, <1>10, <1>11, <1>12 DEF IInv

\* Every step keeps the inductive invariant.
LEMMA NextInv == IInv /\ [Next]_vars => IInv'
<1> SUFFICES ASSUME IInv, [Next]_vars PROVE IInv'
    OBVIOUS
<1>1. CASE UNCHANGED vars
    <2>1. /\ UNCHANGED <<buf, repo, entries, cur, timer, lost, upd, status>>
          /\ UNCHANGED <<watch, att, stg>>
        BY <1>1 DEF vars
    <2> QED
        BY <2>1, CallsKept, QuietStep
<1>2. CASE User
    BY <1>2, EditStep, ReloadStep, LoadStep, StageWaits, DetachStep, UnloadStep, RepoStep, OtherStep
    DEF User
<1>3. CASE TimerFires \/ UpdateStep
    BY <1>3, TimerStep, OtherStep, BeginStep, ShownStep, DiffStep, DiffedStep, HeadStep, ShownHeadStep,
       FinishStep, StopStep
    DEF UpdateStep
<1>4. CASE WatchFires \/ WatchStep
    BY <1>4, WatchReads, InfoStep, InvalidatesStep DEF WatchStep
<1>5. CASE AttachStep \/ StageStep
    BY <1>5, AttachWaits, EntersStep, RepoStep, StageWaits, LockStep, StageEndsStep
    DEF AttachStep, StageStep
<1> QED
    BY <1>1, <1>2, <1>3, <1>4, <1>5 DEF Next

\* Whatever crossed the updates, once nothing is under way the hunks are those
\* of the text and the status shows them, unless another buffer's call took the
\* timer, and the locks are free.
THEOREM BufferSafe ==
    Spec => [](HunksUpToDate /\ StatusUpToDate /\ LockReleased)
<1>1. IInv => HunksUpToDate
    <2> SUFFICES ASSUME IInv, Quiet, Listening, ~lost
                 PROVE  /\ entries[cur].hunks.text = buf.text
                        /\ entries[cur].staged.text = buf.text
                        /\ entries[cur].staged.less = entries[cur].hunks
        BY DEF HunksUpToDate
    <2>1. UpdateIdle.again = FALSE
        BY DEF UpdateIdle
    <2>2. timer = "none" /\ upd.at = "idle" /\ ~upd.again
        BY <2>1 DEF Quiet, IInv, LocalsOK
    <2> QED
        BY <2>2 DEF IInv, TextRead, Pending
<1>2. IInv => StatusUpToDate
    <2> SUFFICES ASSUME IInv, Quiet, Listening, ~lost PROVE status = Heads(entries[cur].hunks)
        BY DEF StatusUpToDate
    <2>1. entries[cur].staged.text = buf.text
        BY <1>1 DEF HunksUpToDate
    <2>2. buf.text \in Nat
        BY DEF IInv, TypeOK, Buffer
    <2>3. NoStaged.text = Nil
        BY DEF NoStaged
    <2> QED
        BY <2>1, <2>2, <2>3, IdleType DEF IInv, StatusKept, Listening
<1>3. IInv => LockReleased
    <2> SUFFICES ASSUME IInv, Quiet, StillAttached PROVE ~Locked(entries[cur])
        BY DEF LockReleased
    <2>1. cur \in 1 .. Len(entries)
        BY DEF IInv, TypeOK, StillAttached
    <2> QED
        BY <2>1, IdleBy DEF IInv, LockHeld, GitLockHeld, Quiet, Locked, Holding
<1> QED
    BY <1>1, <1>2, <1>3, InitInv, NextInv, PTL DEF Spec
=============================================================================
