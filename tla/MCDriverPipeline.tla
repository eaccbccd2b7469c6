-------------------------- MODULE MCDriverPipeline --------------------------
(* An instance of DriverPipeline for TLC: both polling threads, one lidar.   *)
EXTENDS DriverPipeline

BothStreams == {"pcd", "imu"}

\* A format that is published, and one that is not under ROS 2.
Formats == {"custom", "pcl"}
=============================================================================
