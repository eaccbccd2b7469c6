SPECIFICATION FairSpec
CONSTANTS
  Setups <- MCSetups
  TimeMod = 1000
  MaxQueue = 2
INVARIANTS TypeOK EveryPointOnce SpanBounded
PROPERTY UninitReturns
CHECK_DEADLOCK FALSE
