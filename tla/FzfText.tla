------------------------------- MODULE FzfText -------------------------------
(***************************************************************************)
(* Characters, bonuses and scores of telescope-fzf-native (src/fzf.c).     *)
(*                                                                         *)
(* A text is a sequence of characters.  Columns are counted from 0 as the  *)
(* code does, At reads one.  normalize is always false: normalize_rune     *)
(* returns its argument.                                                   *)
(***************************************************************************)
EXTENDS Integers, SequencesExt

CONSTANTS
  LowerOf,   \* the upper case letters, each with its lower case letter
  Digits     \* the digits

\* Whatever is no letter and no digit is CharNonWord.
ASSUME LettersAssumption ==
  /\ DOMAIN LowerOf \cap (Range(LowerOf) \cup Digits) = {}
  /\ Range(LowerOf) \cap Digits = {}
  /\ " " \notin DOMAIN LowerOf \cup Range(LowerOf)

ScoreMatch == 16
ScoreGapStart == -3
ScoreGapExtention == -1
BonusBoundary == 8
BonusNonWord == 8
BonusCamel123 == 7
BonusConsecutive == 4
BonusFirstCharMultiplier == 2

\* One result of a matcher; start is negative when there is no match.
Result(from, to, points, columns) ==
  [start |-> from, end |-> to, score |-> points, pos |-> columns]
NoMatch == Result(-1, -1, 0, {})

MaxOf(a, b) == IF a > b THEN a ELSE b

At(string, k) == string[k + 1]
Columns(string) == 0 .. Len(string) - 1

ClassOf(ch) ==
  IF ch \in DOMAIN LowerOf THEN "Upper"
  ELSE IF ch \in Range(LowerOf) THEN "Lower"
  ELSE IF ch \in Digits THEN "Number"
  ELSE "NonWord"

\* tolower, or not when the term is case sensitive
Fold(sensitive, ch) ==
  IF ~sensitive /\ ch \in DOMAIN LowerOf THEN LowerOf[ch] ELSE ch

IsSpace(ch) == ch = " "

BonusFor(prev, class) ==
  IF prev = "NonWord" /\ class # "NonWord" THEN BonusBoundary
  ELSE IF \/ prev = "Lower" /\ class = "Upper"
          \/ prev # "Number" /\ class = "Number" THEN BonusCamel123
  ELSE IF class = "NonWord" THEN BonusNonWord
  ELSE 0

BonusAt(text, k) ==
  IF k = 0 THEN BonusBoundary
  ELSE BonusFor(ClassOf(At(text, k - 1)), ClassOf(At(text, k)))

\* A character of the text is that of the pattern.
Same(sensitive, text, k, pattern, p) ==
  Fold(sensitive, At(text, k)) = At(pattern, p)

-----------------------------------------------------------------------------

LeadingWhitespaces(text) ==
  IF \A k \in Columns(text) : IsSpace(At(text, k)) THEN Len(text)
  ELSE CHOOSE n \in Columns(text) :
         ~IsSpace(At(text, n)) /\ \A k \in 0 .. n - 1 : IsSpace(At(text, k))

\* Of a text that is not blank: the loop ends at a character that is no space.
TrailingWhitespaces(text) == LeadingWhitespaces(Reverse(text))

\* The first column from the given one on where a character matches; the length
\* of the text stands for the -1 of the code.
TrySkip(sensitive, text, pattern, p, from) ==
  CHOOSE k \in (from .. Len(text)) \cup {Len(text)} :
    /\ k = Len(text) \/ Same(sensitive, text, k, pattern, p)
    /\ \A l \in from .. k - 1 : ~Same(sensitive, text, l, pattern, p)

\* The columns a greedy walk from the left gives the characters of the pattern
FirstColumns(sensitive, text, pattern, from) ==
  LET walk[p \in -1 .. Len(pattern) - 1] ==
        IF p = -1 THEN from - 1
        ELSE TrySkip(sensitive, text, pattern, p, walk[p - 1] + 1)
  IN  [p \in Columns(pattern) |-> walk[p]]

\* -1 when the pattern does not occur in the text, else the column before the
\* first one that matters
AsciiFuzzyIndex(sensitive, text, pattern) ==
  LET first == FirstColumns(sensitive, text, pattern, 0)
  IN  IF first[Len(pattern) - 1] = Len(text) THEN -1
      ELSE MaxOf(first[0] - 1, 0)

-----------------------------------------------------------------------------

\* calculate_score.  In a run of adjacent columns each takes the bonus of the first
\* one, or of a boundary since, when that is better than its own.
CarriedBonus(text, cols) ==
  LET carried[k \in Columns(text)] ==
        IF k - 1 \in cols /\ BonusAt(text, k) # BonusBoundary THEN carried[k - 1]
        ELSE BonusAt(text, k)
  IN  carried

\* What a column brings when the characters of the pattern are found in cols
Points(text, cols, k) ==
  LET bonus == IF k - 1 \notin cols THEN BonusAt(text, k)
               ELSE MaxOf(MaxOf(BonusAt(text, k), CarriedBonus(text, cols)[k]), BonusConsecutive)
  IN  IF k = Min(cols) THEN ScoreMatch + bonus * BonusFirstCharMultiplier
      ELSE IF k \in cols THEN ScoreMatch + bonus
      ELSE IF k - 1 \in cols THEN ScoreGapStart
      ELSE ScoreGapExtention

\* The score from the first of the columns on up to each column of the text.  In the
\* tables of fzf_fuzzy_match_v2 it does not fall below 0.
ScoreUpTo(text, cols, inTable) ==
  LET total[k \in Columns(text)] ==
        IF k < Min(cols) THEN 0
        ELSE LET score == Points(text, cols, k) + (IF k = 0 THEN 0 ELSE total[k - 1])
             IN  IF inTable THEN MaxOf(score, 0) ELSE score
  IN  total

ScoreAt(text, cols) == ScoreUpTo(text, cols, FALSE)[Max(cols)]
TableScoreAt(text, cols) == ScoreUpTo(text, cols, TRUE)[Max(cols)]

-----------------------------------------------------------------------------
\* What matching means.

\* Where the pattern occurs, its characters in order, not necessarily adjacent
Occurrences(sensitive, text, pattern) ==
  {cols \in SUBSET {k \in Columns(text) : \E p \in Columns(pattern) : Same(sensitive, text, k, pattern, p)} :
     /\ Cardinality(cols) = Len(pattern)
     /\ \A k \in cols :
          Same(sensitive, text, k, pattern, Cardinality({l \in cols : l < k}))}

\* fzf_fuzzy_match_v2 makes its tables; if not, v1 answers.
TablesFit(cap, text, pattern) == Len(text) * Len(pattern) <= cap

\* The score of a fuzzy match whose characters are in these columns
FuzzyScoreAt(cap, text, pattern, cols) ==
  IF TablesFit(cap, text, pattern) THEN TableScoreAt(text, cols) ELSE ScoreAt(text, cols)

\* What a fuzzy matcher promises: an answer for each text the pattern occurs in,
\* with the score of an occurrence that ends where the answer says and, when the
\* columns are wanted, those of an occurrence that ends there, from start on.
FuzzyPromise(cap, sensitive, text, pattern, wantPos, answer) ==
  LET EndsThere(cols) == answer.end - 1 \in cols /\ \A k \in cols : k < answer.end
      found == {cols \in Occurrences(sensitive, text, pattern) : EndsThere(cols)}
  IN  IF Occurrences(sensitive, text, pattern) = {} THEN answer = NoMatch
      ELSE /\ \E cols \in found : answer.score = FuzzyScoreAt(cap, text, pattern, cols)
           /\ answer.start \in 0 .. answer.end - 1
           /\ IF wantPos
              THEN answer.pos \in found /\ answer.start \in answer.pos
                   /\ \A k \in answer.pos : k >= answer.start
              ELSE answer.pos = {}
=============================================================================
