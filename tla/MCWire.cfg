SPECIFICATION Spec
CONSTANT Sessions <- MCSessions
CONSTANT MAX_HTTP_HEADER_LENGTH = 9
INVARIANT TypeOK
INVARIANT DeliveredAsSent
INVARIANT UnderstoodAsMeant
INVARIANT AnswersSayAll
CHECK_DEADLOCK FALSE
