--------------------------- MODULE MCLidarBringUp ---------------------------
(* Two lidars, one in loader mode and with two settings, share the retry     *)
(* count and the lock; each also gets its attitude and the IMU switched on.  *)
EXTENDS LidarBringUp

CONSTANTS l1, l2

TwoLidars == {l1, l2}
LoaderL2 == {l2}
TwoWanted == [l \in {l1, l2} |-> IF l = l1 THEN {"pcl_data_type"}
                                         ELSE {"pcl_data_type", "pattern_mode"}]
AttitudeAndImu == {"attitude", "imu"}
=============================================================================
