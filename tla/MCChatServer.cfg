SPECIFICATION Spec
CONSTANTS
  main = main
  t1 = t1
  s1 = s1
  s2 = s2
  s3 = s3
  Thread <- MCThread
  Main = main
  Session <- MCSession
  MaxMessages = 2
  NoOne = NoOne
SYMMETRY MCSymmetry
INVARIANTS
  ReadOutlives
  EveryoneElse
  Listening
CHECK_DEADLOCK FALSE
