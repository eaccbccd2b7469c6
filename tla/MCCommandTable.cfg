SPECIFICATION FairSpec
CONSTANTS
  c1 = c1
  c2 = c2
  c3 = c3
  t1 = t1
  t2 = t2
  NoCommand = NoCommand
  Command <- MCCommand
  HostConfig <- MCHostConfig
  IOThread <- MCIOThread
  MaxSeq = 3
INVARIANTS TypeOK OneOutcome SuccessIsAnswered AckFindsCommand
PROPERTY EveryCommandCalledBack
CHECK_DEADLOCK FALSE
