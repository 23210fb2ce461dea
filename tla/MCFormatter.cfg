CONSTANTS
  Workers = {w1, w2}
  Args <- MCArgs
  Children <- MCChildren
  Hill <- MCHill
  Other <- MCOther
  Readable <- MCReadable
  Writable <- MCWritable
  MaxFound = 4
SPECIFICATION FairSpec
CHECK_DEADLOCK FALSE
INVARIANTS
  TypeOK
  NoTextLost
  OnlyTheTailIsSkipped
PROPERTY
  Ends
