--------------------------- MODULE MCLaserMapping ---------------------------
(***************************************************************************)
(* Instances of LaserMapping for TLC.  A unit of time is half a scan, and a *)
(* second is long beside all the time that passes.                          *)
(***************************************************************************)
EXTENDS LaserMapping

\* As configured for the robot; the same with a recording that is played twice;
\* and with the software synchronisation.
MCSetups ==
  {[lidar_type |-> "MID360", time_sync_en |-> FALSE, length |-> 9, plays |-> 1],
   [lidar_type |-> "MID360", time_sync_en |-> FALSE, length |-> 7, plays |-> 2],
   [lidar_type |-> "AVIA", time_sync_en |-> TRUE, length |-> 9, plays |-> 1]}
MCImuAhead == {-40, 40}
=============================================================================
