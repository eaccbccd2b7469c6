SPECIFICATION FairSpec
CONSTANTS
  Stream <- BothStreams
  NLidar = 1
  Capacity = 1
  MaxImu = 1
  Format <- Formats
  ROS2 = TRUE
INVARIANTS
  TypeOK
  SemaphoreBound
  NoStrandedPacket
PROPERTIES
  DrainedWhenQuiet
  ShutdownOrBlocked
