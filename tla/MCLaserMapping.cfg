SPECIFICATION FairSpec
CONSTANTS
  Setups <- MCSetups
  Start = 100
  ImuAhead <- MCImuAhead
  Spans = {2}
  Sizes = {1, 6}
  Period = 2
  ImuSteps = {2, 3}
  Second = 20
  MAX_INI_COUNT = 1
  Garbage = {0, 1000}
  MaxScans = 5
INVARIANTS TypeOK EachCloudOnce OwnTime
PROPERTIES PropagatedOverScan NoBacklog
CHECK_DEADLOCK FALSE
