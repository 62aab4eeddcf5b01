SPECIFICATION Spec
CONSTANTS
  LowerOf <- MCLowerOf
  Digits = {}
  Texts <- MCTexts
  Patterns <- MCPatterns
  Caps = {9, 100}
CHECK_DEADLOCK FALSE
INVARIANTS Promise ScoresFromThisCall TraceSpells ScoreBounded
PROPERTY CallEnds
