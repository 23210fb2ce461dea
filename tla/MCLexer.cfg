SPECIFICATION Spec
CONSTANT Texts <- MCTexts
INVARIANT TypeOK
INVARIANT LongestLexemes
INVARIANT PositionsPoint
CHECK_DEADLOCK FALSE
