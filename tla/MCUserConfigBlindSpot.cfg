SPECIFICATION Spec
CONSTANT Absent = Absent
INVARIANT BlindSpotReachesLidar
CHECK_DEADLOCK FALSE
