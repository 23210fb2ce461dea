CONSTANTS
  Workers = {w1, w2}
  Messages <- BusyVocabulary
  MaxMessages = 2
  Uris <- MCUris
  NoText <- MCText
SPECIFICATION FairSpec
CHECK_DEADLOCK FALSE
PROPERTY
  ExitStopsServer
