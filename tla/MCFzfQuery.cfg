SPECIFICATION Spec
CONSTANTS
  LowerOf <- MCLowerOf
  Digits = {}
  Cap = 4
  Texts <- MCTexts
  Meanings <- MCMeanings
  Typed <- MCTyped
CHECK_DEADLOCK FALSE
INVARIANTS ParsesAsWritten BarsJoin ScoreIffSatisfied PositionsIffSatisfied
