----------------------- MODULE TelescopeEntryManager ------------------------
(***************************************************************************)
(* The entry manager of telescope.nvim (lua/telescope/entry_manager.lua)   *)
(* on the linked list of TelescopeLinkedList, and the rows of the results  *)
(* buffer that its callback writes (pickers.lua, Picker:entry_adder).      *)
(*                                                                         *)
(* Entries arrive in any order of scores.  Most of a large result set is   *)
(* never displayed: worst_acceptable_score lets add_entry append such an   *)
(* entry without walking the list.  The hazard is that the shortcut, or    *)
(* the tracked node it is computed from, drops an entry that belongs to    *)
(* the best max_results ones.                                              *)
(*                                                                         *)
(* The k-th node of the list holds the k-th entry.  An item is a score and *)
(* the length of the entry's ordinal, which the default tiebreak compares. *)
(***************************************************************************)
EXTENDS TelescopeLinkedList

CONSTANTS
  Scores,      \* the scores sorters give, natural numbers; smaller is better
  TieBelow,    \* the score the code writes as 1: ties below it are broken
  Lengths      \* the lengths of ordinals

ASSUME ScoresAssumption ==
  /\ Scores \subseteq Nat /\ TieBelow \in Nat /\ Lengths \subseteq Nat
  /\ \E s \in Scores : \A t \in Scores : t <= s

VARIABLES
  worst,   \* self.worst_acceptable_score
  rows,    \* the lines of the results buffer, 0 is a blank one
  odd,     \* history: an entry of the list got no line, or took another's
  descending   \* the picker's sorting_strategy is "descending"

managerVars == <<linked, worst, rows, odd, descending>>

max_results == TrackAt

\* math.huge: larger than every score
Huge == 1 + CHOOSE s \in Scores : \A t \in Scores : t <= s

Lesser(s, t) == IF s < t THEN s ELSE t

\* config.lua, tiebreak: the shorter ordinal wins
Tiebreak(x, y) == x.len < y.len

\* Mutant: a new entry goes before an old one of the same score
GoesBeforeEqual(x, y) == y.score >= x.score

\* Whether add_entry places the new item x before the listed item y
GoesBefore(x, y) ==
  \/ y.score > x.score
  \/ x.score < TieBelow /\ y.score = x.score /\ Tiebreak(x, y)

-----------------------------------------------------------------------------

get_row(index) == IF descending THEN max_results - index + 1 ELSE index

\* nvim_buf_set_lines at a row or, if there are fewer lines, behind the last one;
\* a buffer has at least one line.
Overwrite(lines, row, e) ==
  IF row > Len(lines) THEN Append(lines, e) ELSE [lines EXCEPT ![row] = e]
InsertLine(lines, row, e) ==
  IF row > Len(lines) THEN Append(lines, e) ELSE InsertAt(lines, row, e)
WithoutTop == IF Len(rows) > 1 THEN Tail(rows) ELSE <<0>>

\* An insertion into a descending buffer removes the top line first.
Prepared(insert) == IF insert /\ descending THEN WithoutTop ELSE rows

\* The entry is displayed in one line.
WriteLine(index, e, insert) ==
  /\ rows' = IF insert THEN InsertLine(Prepared(insert), get_row(index), e)
                       ELSE Overwrite(rows, get_row(index), e)
  /\ UNCHANGED odd

\* The display has a newline, which nvim_buf_set_lines refuses after the top line
\* is gone; the second attempt overwrites a line also where one was to be inserted.
WriteJoined(index, e, insert) ==
  /\ rows' = Overwrite(Prepared(insert), get_row(index), e)
  /\ odd' = (odd \/ insert)

\* Nothing is written: the entry has no display.
WriteNothing == UNCHANGED rows /\ odd' = TRUE

\* Picker:entry_adder; a row behind the end of the buffer is not written.
SetEntry(index, e, insert) ==
  IF get_row(index) > Len(rows) + 1 THEN WriteNothing
  ELSE WriteLine(index, e, insert) \/ WriteJoined(index, e, insert) \/ WriteNothing

\* _update_score_from_tracked, after the list has become l
FromTracked(l, w) ==
  IF l.tracked_node = 0 THEN w ELSE Lesser(w, l.item[l.tracked_node].score)

\* add_entry: a score that is too bad is appended unseen.
AppendUnseen(x) ==
  /\ x.score >= worst
  /\ linked' = PushBack(linked, x)
  /\ UNCHANGED <<worst, rows, odd>>

\* add_entry: the first entry
AddFirst(x) ==
  /\ x.score < worst
  /\ linked.size = 0
  /\ linked' = PushFront(linked, x)
  /\ SetEntry(1, NewNode(linked), FALSE)
  /\ UNCHANGED worst

\* The loop of add_entry stops at the first index where the new item goes
\* before the old one, else at max_results, else it runs off the end.
StopsBefore(x, i) ==
  /\ i \in 1 .. linked.size
  /\ GoesBefore(x, linked.item[FromHead(linked, i)])
  /\ \A j \in 1 .. i - 1 : ~GoesBefore(x, linked.item[FromHead(linked, j)])

LastSeen == IF linked.size < max_results THEN linked.size ELSE max_results

\* Mutant: the bound follows the new entry, not the tracked one
AddBeforeBound(x, i) ==
  /\ x.score < worst /\ linked.size > 0
  /\ StopsBefore(x, i) /\ i <= max_results
  /\ linked' = PlaceBefore(linked, i, FromHead(linked, i), x)
  /\ worst' = IF linked'.size >= max_results THEN Lesser(worst, x.score) ELSE worst
  /\ SetEntry(i, NewNode(linked), TRUE)

\* Mutant: the row is overwritten
AddBeforeOverwrites(x, i) ==
  /\ x.score < worst /\ linked.size > 0
  /\ StopsBefore(x, i) /\ i <= max_results
  /\ linked' = PlaceBefore(linked, i, FromHead(linked, i), x)
  /\ worst' = FromTracked(linked', worst)
  /\ SetEntry(i, NewNode(linked), FALSE)

\* add_entry, _insert_container_before
AddBefore(x, i) ==
  /\ x.score < worst /\ linked.size > 0
  /\ StopsBefore(x, i) /\ i <= max_results
  /\ linked' = PlaceBefore(linked, i, FromHead(linked, i), x)
  /\ worst' = FromTracked(linked', worst)
  /\ SetEntry(i, NewNode(linked), TRUE)

\* add_entry, _append_container: max_results entries were no worse
AppendMaxed(x) ==
  /\ x.score < worst /\ linked.size >= max_results
  /\ ~\E i \in 1 .. max_results : StopsBefore(x, i)
  /\ linked' = PushBack(linked, x)
  /\ worst' = Lesser(worst, x.score)
  /\ UNCHANGED <<rows, odd>>

\* add_entry, _insert_container_after: the new entry is the last one shown
AddLast(x) ==
  /\ x.score < worst /\ linked.size > 0 /\ linked.size < max_results
  /\ ~\E i \in 1 .. linked.size : StopsBefore(x, i)
  /\ linked' = PlaceAfter(linked, linked.size + 1, linked.tail, x)
  /\ worst' = FromTracked(linked', worst)
  /\ SetEntry(linked.size + 1, NewNode(linked), TRUE)

add_entry ==
  \E s \in Scores, n \in Lengths :
    LET x == [score |-> s, len |-> n] IN
    /\ MayGrow
    /\ \/ AppendUnseen(x)
       \/ AddFirst(x)
       \/ \E i \in 1 .. max_results : AddBefore(x, i)
       \/ AppendMaxed(x)
       \/ AddLast(x)
    /\ UNCHANGED descending

\* A new EntryManager for a search; the results buffer starts blank.
Init ==
  /\ ListInit
  /\ worst = Huge
  /\ rows = [k \in 1 .. max_results |-> 0]
  /\ odd = FALSE
  /\ descending \in BOOLEAN

Spec == Init /\ [][add_entry]_managerVars

-----------------------------------------------------------------------------

Shown == 1 .. LastSeen
ItemAt(i) == linked.item[FromHead(linked, i)]

\* The list begins with the best entries in order: nothing after the first
\* max_results ones, wherever a shortcut put it, has a better score.
BestFirst ==
  /\ \A i, j \in Shown : i < j => ItemAt(i).score <= ItemAt(j).score
  /\ \A i \in Shown, j \in 1 .. linked.size :
       j > max_results => ItemAt(i).score <= ItemAt(j).score

\* Entries of an equal score that is not to be tie-broken keep the order in which
\* they were found, among what is shown.
StableOrder ==
  \A i, j \in Shown :
    i < j /\ ItemAt(i).score = ItemAt(j).score /\ ItemAt(i).score >= TieBelow
      => FromHead(linked, i) < FromHead(linked, j)

\* The bound is never too small: a score at which add_entry takes the shortcut
\* could not be shown.
BoundSound ==
  worst # Huge => linked.size >= max_results /\ worst >= ItemAt(max_results).score

\* What the buffer shows is what the list holds, row by row, as long as every
\* entry that was placed in it had a display of one line.
RowsMatch ==
  ~odd => \A i \in Shown : rows[get_row(i)] = FromHead(linked, i)
=============================================================================
