SPECIFICATION FairSpec
CONSTANTS
  l1 = l1
  l2 = l2
  Lidar <- TwoLidars
  Loader <- LoaderL2
  Wanted <- TwoWanted
  Other <- AttitudeAndImu
  MaxRetry = 1
  MaxWrite = 2
INVARIANTS TypeOK SamplingMeansConfirmed
PROPERTIES AnnouncedOnce LidarStreams
CHECK_DEADLOCK FALSE
