----------------------------- MODULE FzfFuzzyV2 -----------------------------
(***************************************************************************)
(* fzf_fuzzy_match_v2 of telescope-fzf-native (src/fzf.c): one call.       *)
(*                                                                         *)
(* A first pass over the text ("bonus") takes the bonus of each character, *)
(* the first column f of each character of the pattern and the scores h0   *)
(* of its first character.  A second one ("fill") fills a table with a row *)
(* for each character of the pattern: h, the best score of its characters  *)
(* so far that ends in a column, and c, how many of them were found one    *)
(* behind the other.  A walk back through the table ("trace") collects the *)
(* columns to highlight.  The caller may have no use for them.             *)
(*                                                                         *)
(* The tables lie in a slab that the calls of a search share, one behind   *)
(* the other in allocation order, or in cleared memory of their own when   *)
(* they do not fit in it.  bo, h and c hold only what this call has        *)
(* written; what else is read from the slab is arbitrary.                  *)
(***************************************************************************)
EXTENDS FzfText

CONSTANTS
  Texts,      \* the texts matched
  Patterns,   \* the patterns, in lower case unless the call is sensitive
  Caps        \* how many 16 bit numbers the slab holds: 100 * 1024

ASSUME InputsAssumption ==
  /\ \A string \in Texts \cup Patterns : string \in Seq(Range(string))
  /\ <<>> \notin Patterns
  /\ Caps \subseteq Nat

VARIABLES
  call,       \* the arguments: text, pattern, sensitive, cap, wantPos
  pc,         \* "start", "bonus", "row", "fill", "trace" or "done"
  at,         \* idx + off, then j + foff, then j
  pidx,       \* how many characters are found, then the row i
  f,          \* the first column of each character of the pattern
  last_idx,   \* the last column of the last character found
  bo,         \* column -> bonus
  h, c,       \* <<row, column>> -> score, consecutive; h0 and c0 are row 0
  in_gap,
  max_score, max_score_pos,
  prefer_match,
  pos,        \* the columns appended
  result
vars == <<call, pc, at, pidx, f, last_idx, bo, h, c, in_gap,
          max_score, max_score_pos, prefer_match, pos, result>>

text == call.text
pattern == call.pattern
M == Len(pattern)
N == Len(text)
Matches(k, p) == Same(call.sensitive, text, k, pattern, p)

Calls ==
  {a \in [text : Texts, pattern : Patterns, sensitive : BOOLEAN, cap : Caps, wantPos : BOOLEAN] :
     a.sensitive \/ \A p \in Columns(a.pattern) : At(a.pattern, p) \notin DOMAIN LowerOf}

\* An array with one more cell written
Put(array, cell, value) ==
  [k \in DOMAIN array \cup {cell} |-> IF k = cell THEN value ELSE array[k]]

-----------------------------------------------------------------------------

Init ==
  /\ call \in Calls
  /\ pc = "start"
  /\ at = 0 /\ pidx = 0 /\ f = <<>> /\ last_idx = 0
  /\ bo = <<>> /\ h = <<>> /\ c = <<>>
  /\ in_gap = FALSE
  /\ max_score = 0 /\ max_score_pos = 0
  /\ prefer_match = TRUE
  /\ pos = <<>>
  /\ result = NoMatch

Answer(answer) == pc' = "done" /\ result' = answer

Fits == TablesFit(call.cap, text, pattern)

NotFound ==
  /\ pc = "start"
  /\ AsciiFuzzyIndex(call.sensitive, text, pattern) < 0
  /\ Answer(NoMatch)
  /\ UNCHANGED <<call, at, pidx, f, last_idx, bo, h, c, in_gap,
                 max_score, max_score_pos, prefer_match, pos>>

\* fzf_fuzzy_match_v1: the pattern ends where it first can, and starts at the last
\* column from which it gets there.
FallBack ==
  /\ pc = "start" /\ ~Fits
  /\ \E from \in Columns(text), end \in 1 .. N :
       /\ end = FirstColumns(call.sensitive, text, pattern, 0)[M - 1] + 1
       /\ FirstColumns(call.sensitive, text, pattern, from)[M - 1] < end
       /\ FirstColumns(call.sensitive, text, pattern, from + 1)[M - 1] >= end
       /\ \E cols \in {Range(FirstColumns(call.sensitive, text, pattern, from))} :
            Answer(Result(from, end, ScoreAt(text, cols), IF call.wantPos THEN cols ELSE {}))
  /\ UNCHANGED <<call, at, pidx, f, last_idx, bo, h, c, in_gap,
                 max_score, max_score_pos, prefer_match, pos>>

Start ==
  /\ pc = "start" /\ Fits
  /\ at' = AsciiFuzzyIndex(call.sensitive, text, pattern)
  /\ at' \in Columns(text)
  /\ pc' = "bonus"
  /\ UNCHANGED <<call, pidx, f, last_idx, bo, h, c, in_gap,
                 max_score, max_score_pos, prefer_match, pos, result>>

\* Phase 2, a character of the text.  prev_class starts as CharNonWord even when
\* idx is not the first column.
BonusCell ==
  /\ pc = "bonus" /\ at < N
  /\ LET prev == IF at - 1 \in DOMAIN bo THEN ClassOf(At(text, at - 1)) ELSE "NonWord"
         bonus == BonusFor(prev, ClassOf(At(text, at)))
         prev_h0 == IF at - 1 \in DOMAIN bo THEN h[<<0, at - 1>>] ELSE 0
         found == Matches(at, IF pidx < M THEN pidx ELSE M - 1)
         score == ScoreMatch + bonus * BonusFirstCharMultiplier
         best == M = 1 /\ Matches(at, 0) /\ score > max_score
     IN  /\ bo' = Put(bo, at, bonus)
         /\ f' = IF found /\ pidx < M THEN Append(f, at) ELSE f
         /\ pidx' = IF found /\ pidx < M THEN pidx + 1 ELSE pidx
         /\ last_idx' = IF found THEN at ELSE last_idx
         /\ h' = Put(h, <<0, at>>,
                     IF Matches(at, 0) THEN score
                     ELSE MaxOf(prev_h0 + (IF in_gap THEN ScoreGapExtention ELSE ScoreGapStart), 0))
         /\ c' = Put(c, <<0, at>>, IF Matches(at, 0) THEN 1 ELSE 0)
         /\ in_gap' = ~Matches(at, 0)
         /\ max_score' = IF best THEN score ELSE max_score
         /\ max_score_pos' = IF best THEN at ELSE max_score_pos
         /\ at' = IF best /\ bonus = BonusBoundary THEN N ELSE at + 1
  /\ UNCHANGED <<call, pc, prefer_match, pos, result>>

\* A pattern that was not found, or one of a single character, is done.  For a
\* longer one the rows of h and c take h0 and c0 from its first column to its last.
BonusDone ==
  /\ pc = "bonus" /\ at >= N
  /\ \/ /\ M > 1 => pidx # M
        /\ Answer(IF pidx # M THEN NoMatch
                  ELSE Result(max_score_pos, max_score_pos + 1, max_score,
                              IF call.wantPos THEN {max_score_pos} ELSE {}))
        /\ UNCHANGED <<h, c, pidx>>
     \/ /\ M > 1 /\ pidx = M
        /\ LET copied == {0} \X (At(f, 0) .. last_idx)
           IN  /\ h' = [cell \in copied |-> h[cell]]
               /\ c' = [cell \in copied |-> c[cell]]
        /\ pidx' = 1
        /\ pc' = "row"
        /\ result' = result
  /\ UNCHANGED <<call, at, f, last_idx, bo, in_gap, max_score, max_score_pos, prefer_match, pos>>

\* Mutant of Row: the cell left of the first one keeps what was there
RowUncleared ==
  /\ pc = "row"
  /\ at' = At(f, pidx) /\ in_gap' = FALSE /\ pc' = "fill"
  /\ UNCHANGED <<call, pidx, f, last_idx, bo, h, c, max_score, max_score_pos, prefer_match, pos, result>>

\* The row of the next character: its first cell has nothing on its left.
Row ==
  /\ pc = "row"
  /\ h' = Put(h, <<pidx, At(f, pidx) - 1>>, 0)
  /\ at' = At(f, pidx)
  /\ in_gap' = FALSE
  /\ pc' = "fill"
  /\ UNCHANGED <<call, pidx, f, last_idx, bo, c, max_score, max_score_pos, prefer_match, pos, result>>

\* Mutant of Cell: a run does not carry the bonus it started with
CellOwnBonus(i, col) ==
  LET s1 == h[<<i - 1, col - 1>>] + ScoreMatch + bo[col]
      s2 == h[<<i, col - 1>>] + (IF in_gap THEN ScoreGapExtention ELSE ScoreGapStart)
  IN  IF Matches(col, i) THEN [matched |-> s1, gap |-> s2, consecutive |-> c[<<i - 1, col - 1>>] + 1]
      ELSE [matched |-> 0, gap |-> s2, consecutive |-> 0]

\* Mutant of Cell: every character is scored like the first one of the pattern
CellFirstCharBonus(i, col) ==
  LET s1 == h[<<i - 1, col - 1>>] + ScoreMatch + bo[col] * BonusFirstCharMultiplier
  IN  [matched |-> IF Matches(col, i) THEN s1 ELSE 0, gap |-> h[<<i, col - 1>>] + ScoreGapStart,
       consecutive |-> IF Matches(col, i) THEN 1 ELSE 0]

\* The score and consecutive of a cell from the cells left of it and diagonal
Cell(i, col) ==
  LET s2 == h[<<i, col - 1>>] + (IF in_gap THEN ScoreGapExtention ELSE ScoreGapStart)
      run == IF bo[col] = BonusBoundary THEN 1 ELSE c[<<i - 1, col - 1>>] + 1
      b == IF run > 1 THEN MaxOf(bo[col], MaxOf(BonusConsecutive, bo[col - run + 1]))
           ELSE bo[col]
      s1 == h[<<i - 1, col - 1>>] + ScoreMatch
      scored == [matched |-> s1 + b, gap |-> s2, consecutive |-> run]
      gapped == [matched |-> s1 + bo[col], gap |-> s2, consecutive |-> 0]
  IN  IF ~Matches(col, i) THEN [matched |-> 0, gap |-> s2, consecutive |-> 0]
      ELSE IF s1 + b < s2 THEN gapped ELSE scored

FillCell ==
  /\ pc = "fill" /\ at <= last_idx
  /\ LET cell == Cell(pidx, at)
         score == MaxOf(MaxOf(cell.matched, cell.gap), 0)
         best == pidx = M - 1 /\ score > max_score
     IN  /\ h' = Put(h, <<pidx, at>>, score)
         /\ c' = Put(c, <<pidx, at>>, cell.consecutive)
         /\ in_gap' = (cell.matched < cell.gap)
         /\ max_score' = IF best THEN score ELSE max_score
         /\ max_score_pos' = IF best THEN at ELSE max_score_pos
  /\ at' = at + 1
  /\ UNCHANGED <<call, pc, pidx, f, last_idx, bo, prefer_match, pos, result>>

RowDone ==
  /\ pc = "fill" /\ at > last_idx
  /\ \/ /\ pidx < M - 1
        /\ pidx' = pidx + 1 /\ pc' = "row"
        /\ UNCHANGED <<at, result>>
     \/ /\ pidx = M - 1 /\ call.wantPos
        /\ pc' = "trace" /\ at' = max_score_pos
        /\ UNCHANGED <<pidx, result>>
     \/ /\ pidx = M - 1 /\ ~call.wantPos
        /\ Answer(Result(max_score_pos, max_score_pos + 1, max_score, {}))
        /\ UNCHANGED <<at, pidx>>
  /\ UNCHANGED <<call, f, last_idx, bo, h, c, in_gap, max_score, max_score_pos, prefer_match, pos>>

-----------------------------------------------------------------------------

\* alloc16: the offset behind an array; one that does not fit leaves it alone.
After(offset, size) == IF call.cap > offset + size THEN offset + size ELSE offset

Width == last_idx - At(f, 0) + 1

\* c is the fifth array, after h0, c0, bo and h.
CInSlab ==
  LET offset == After(After(After(After(0, N), N), N), Width * M)
  IN  call.cap > offset + Width * M

\* c.data[ii + width + j0 + 1] > 0.  The cell may be one this call has not written,
\* and behind the last column it is the first one of the row after.
RunGoesOn(i, col) ==
  LET cell == IF col = last_idx THEN <<i + 2, At(f, 0)>> ELSE <<i + 1, col + 1>>
  IN  IF cell[1] >= M THEN {FALSE}
      ELSE IF cell \in DOMAIN c THEN {c[cell] > 0}
      ELSE IF CInSlab THEN BOOLEAN ELSE {FALSE}

\* s2 and s1 of the walk: the scores left of a cell and diagonal to it, where they count
Left(i, col) == IF col > At(f, i) THEN h[<<i, col - 1>>] ELSE 0
Diagonal(i, col) == IF i > 0 /\ col >= At(f, i) THEN h[<<i - 1, col - 1>>] ELSE 0

\* Mutant of TakesColumn: the score on the left is not looked at
TakesColumnEagerly(i, col) == h[<<i, col>>] > Diagonal(i, col)

TakesColumn(i, col) ==
  LET s == h[<<i, col>>]
  IN  s > Diagonal(i, col) /\ (s > Left(i, col) \/ (s = Left(i, col) /\ prefer_match))

AppendPos(columns, col) == Append(columns, col)

\* Mutant of Trace: the walk moves only when it has taken a column
TraceStays ==
  /\ pc = "trace"
  /\ LET taken == TakesColumn(pidx, at)
     IN  /\ pos' = IF taken THEN AppendPos(pos, at) ELSE pos
         /\ IF taken /\ pidx = 0
            THEN Answer(Result(at, max_score_pos + 1, max_score, Range(pos'))) /\ UNCHANGED <<at, pidx>>
            ELSE /\ pidx' = IF taken THEN pidx - 1 ELSE pidx
                 /\ at' = IF taken THEN at - 1 ELSE at
                 /\ UNCHANGED <<pc, result>>
  /\ UNCHANGED <<call, f, last_idx, bo, h, c, in_gap, max_score, max_score_pos, prefer_match>>

\* Back to where the best score comes from.  The look ahead keeps a run together.
Trace ==
  /\ pc = "trace"
  /\ LET taken == TakesColumn(pidx, at)
         shown == IF taken THEN AppendPos(pos, at) ELSE pos
     IN  /\ pos' = shown
         /\ \/ /\ taken /\ pidx = 0
               /\ Answer(Result(at, max_score_pos + 1, max_score, Range(shown)))
               /\ UNCHANGED <<at, pidx, prefer_match>>
            \/ /\ ~(taken /\ pidx = 0)
               /\ pidx' = IF taken THEN pidx - 1 ELSE pidx
               /\ at' = at - 1
               /\ prefer_match' \in IF c[<<pidx, at>>] > 1 THEN {TRUE} ELSE RunGoesOn(pidx, at)
               /\ UNCHANGED <<pc, result>>
  /\ UNCHANGED <<call, f, last_idx, bo, h, c, in_gap, max_score, max_score_pos>>

Next == NotFound \/ FallBack \/ Start \/ BonusCell \/ BonusDone \/ Row \/ FillCell \/ RowDone \/ Trace

Spec == Init /\ [][Next]_vars /\ WF_vars(Next)

-----------------------------------------------------------------------------

\* The answer is the one promised, whatever the slab holds and whether or not the
\* columns are wanted; also when the tables would not fit and v1 answers.  The walk
\* back decides by c alone between equal scores, and may read a stale cell of it.
Promise ==
  pc = "done" => FuzzyPromise(call.cap, call.sensitive, text, pattern, call.wantPos, result)

\* No score is computed from, and no column is taken by, a cell of h, c or bo that
\* this call has not written: only the look ahead in prefer_match reads beyond.
ScoresFromThisCall ==
  /\ (pc = "fill" /\ at <= last_idx) =>
       /\ {<<pidx, at - 1>>, <<pidx - 1, at - 1>>} \subseteq DOMAIN h
       /\ <<pidx - 1, at - 1>> \in DOMAIN c
       /\ at - c[<<pidx - 1, at - 1>>] \in DOMAIN bo
  /\ pc = "trace" =>
       /\ {<<pidx, at>>} \cup (IF at > At(f, pidx) THEN {<<pidx, at - 1>>} ELSE {})
                         \cup (IF pidx > 0 THEN {<<pidx - 1, at - 1>>} ELSE {}) \subseteq DOMAIN h
       /\ <<pidx, at>> \in DOMAIN c

\* The walk back never passes the first column of the character it looks for, and
\* what it has collected spells the end of the pattern, from right to left.
TraceSpells ==
  pc = "trace" =>
    /\ at >= At(f, pidx)
    /\ Len(pos) = M - 1 - pidx
    /\ \A k \in Columns(pos) :
         Matches(At(pos, k), M - 1 - k) /\ At(pos, k) > (IF k = Len(pos) - 1 THEN at ELSE At(pos, k + 1))

\* A cell scores no more than its characters can bring, which keeps the 16 bit
\* numbers of the tables from overflowing in any table a slab holds.
ScoreBounded ==
  \A cell \in DOMAIN h :
    h[cell] \in 0 .. (cell[1] + 1) * (ScoreMatch + BonusBoundary) + BonusBoundary

\* The loops end; the one of the walk back has no condition.
CallEnds == <>(pc = "done")
=============================================================================
