---------------------------- MODULE FzfMatchers ----------------------------
(***************************************************************************)
(* The matchers of telescope-fzf-native (src/fzf.c) that look for adjacent *)
(* characters, each by the result it returns.  The pattern of a term is    *)
(* never empty.  The columns are collected only on request; here they are  *)
(* always part of the result.                                              *)
(***************************************************************************)
EXTENDS FzfText

\* The pattern stands in the text from this column on.
StandsAt(sensitive, text, pattern, k) ==
  /\ k >= 0 /\ k + Len(pattern) <= Len(text)
  /\ \A p \in Columns(pattern) : Same(sensitive, text, k + p, pattern, p)

SpanAt(text, pattern, k) ==
  LET end == k + Len(pattern)
  IN  Result(k, end, ScoreAt(text, k .. end - 1), k .. end - 1)

\* The first place with the best bonus; the search ends at a boundary, which is best.
ExactMatch(sensitive, text, pattern) ==
  LET places == {k \in Columns(text) : StandsAt(sensitive, text, pattern, k)}
      Better(k, l) == \/ BonusAt(text, k) > BonusAt(text, l)
                      \/ BonusAt(text, k) = BonusAt(text, l) /\ k <= l
  IN  IF places = {} THEN NoMatch
      ELSE SpanAt(text, pattern, CHOOSE k \in places : \A l \in places : Better(k, l))

PrefixMatch(sensitive, text, pattern) ==
  LET start == IF IsSpace(Head(pattern)) THEN 0 ELSE LeadingWhitespaces(text)
  IN  IF StandsAt(sensitive, text, pattern, start) THEN SpanAt(text, pattern, start)
      ELSE NoMatch

\* With a text shorter than the pattern the start is negative, which is no match.
SuffixMatch(sensitive, text, pattern) ==
  LET end == Len(text) - (IF IsSpace(Last(pattern)) THEN 0 ELSE TrailingWhitespaces(text))
      start == end - Len(pattern)
  IN  IF StandsAt(sensitive, text, pattern, start) THEN SpanAt(text, pattern, start)
      ELSE NoMatch

EqualMatch(sensitive, text, pattern) ==
  LET start == LeadingWhitespaces(text)
      M == Len(pattern)
      whole == Len(text) - start - TrailingWhitespaces(text) = M
  IN  IF whole /\ StandsAt(sensitive, text, pattern, start)
      THEN Result(start, start + M,
                  (ScoreMatch + BonusBoundary) * M + (BonusFirstCharMultiplier - 1) * BonusBoundary,
                  start .. start + M - 1)
      ELSE NoMatch

\* What fzf_fuzzy_match_v2 may answer, by its promise
FuzzyMatches(cap, sensitive, text, pattern) ==
  LET found == Occurrences(sensitive, text, pattern)
  IN  IF found = {} THEN {NoMatch}
      ELSE {Result(Min(shown[2]), Max(shown[2]) + 1,
                   FuzzyScoreAt(cap, text, pattern, shown[1]), shown[2]) :
              shown \in {pair \in found \X found : Max(pair[1]) = Max(pair[2])}}
=============================================================================
