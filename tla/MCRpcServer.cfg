SPECIFICATION FairSpec
CONSTANTS
  main = main
  t1 = t1
  s1 = s1
  s2 = s2
  s3 = s3
  Thread <- MCThread
  Main = main
  Session <- MCSession
  NoOne = NoOne
INVARIANTS
  TypeOK
  Registry
  NotCorrupt
PROPERTIES
  Erased
  StopEnds
CHECK_DEADLOCK FALSE
