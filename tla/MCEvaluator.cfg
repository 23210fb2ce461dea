SPECIFICATION Spec
CONSTANT Programs <- MCPrograms
INVARIANT TypeOK
INVARIANT ValueOfTheTree
INVARIANT OnlyTheValueIsLeft
INVARIANT RefusedInOrder
CHECK_DEADLOCK FALSE
