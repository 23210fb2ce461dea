CONSTANTS
  Workers = {w1, w2}
  Messages <- FullVocabulary
  MaxMessages = 3
  Uris <- MCUris
  NoText <- MCText
SPECIFICATION FairSpec
CHECK_DEADLOCK FALSE
INVARIANT
  TypeOK
PROPERTIES
  RequestsAnswered
  StopsAtNextMessage
