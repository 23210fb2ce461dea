CONSTANTS
  Workers = {w1, w2}
  Messages <- BusyVocabulary
  MaxMessages = 4
  Uris <- MCUris
  NoText <- MCText
SPECIFICATION Spec
CHECK_DEADLOCK FALSE
INVARIANTS
  OneAnswerEach
  InFlightExact
  CancelledByClient
  DrainedAtStop
  DocsFollowTheClient
