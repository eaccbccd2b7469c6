---------------------------- MODULE LaserMapping ----------------------------
(***************************************************************************)
(* FAST_LIO (laserMapping.cpp, IMU_Processing.hpp): how scans and IMU       *)
(* messages are buffered by their callbacks, put together to packages by    *)
(* sync_packages, and taken through the timer's callback: the filter is     *)
(* propagated over the time of the scan and the scan goes into the map.     *)
(*                                                                          *)
(* All callbacks run on the one thread of rclcpp::spin, so each is one      *)
(* action.  Clouds are told apart by the number of their scan; of the       *)
(* filter's state only the time for which it holds is kept, in kf_time.     *)
(* Messages of the two topics are lost and arrive late independently; the   *)
(* IMU may have a clock of its own, and once the clocks may jump back, as   *)
(* they do when a recording is played in a loop.                            *)
(***************************************************************************)
EXTENDS Integers, Sequences, SequencesExt, FiniteSets

CONSTANTS Setups,        \* what is configured, and the length of the recording
                         \* (or mission) and how often it is played
          Start,         \* the lidar's clock in the beginning
          ImuAhead,      \* by how much the IMU's clock may be ahead
          Spans,         \* times from a scan's first to its last point
          Sizes,         \* points of a scan
          Period,        \* time from a scan to the next
          ImuSteps,      \* times from an IMU message to the next
          Second,        \* beyond this the clocks are taken as not synchronised
          MAX_INI_COUNT, \* IMU messages with which the filter is initialised
          Garbage,       \* what memory that is not initialised may hold
          MaxScans       \* bound of the model on the scans that are received

ASSUME LaserMappingAssumption ==
  /\ Setups \subseteq [lidar_type : {"AVIA", "MID360"}, time_sync_en : BOOLEAN,
                       length : Nat, plays : Nat]
  /\ Start \in Nat
  /\ ImuAhead \subseteq Int
  /\ Spans \subseteq 0 .. Period
  /\ Sizes \subseteq Nat
  /\ Period \in Nat \ {0}
  /\ ImuSteps \subseteq Nat \ {0}
  /\ MAX_INI_COUNT \in Nat
  /\ Garbage \subseteq Int
  /\ MaxScans \in Nat

VARIABLES
  setup, ahead,          \* the configuration, and the IMU's clock
  lidar_clock,           \* when the next scan begins
  imu_clock,             \* the last IMU message, by the lidar's clock
  scans, plays,          \* scans received, and plays of the recording begun
  lidar_buffer, time_buffer, imu_buffer,
  is_first_lidar, last_timestamp_lidar, last_timestamp_imu,
  timediff_lidar_wrt_imu, timediff_set_flg,
  lidar_pushed, lidar_end_time,
  scan_num, scantime,    \* scans measured, and the sum of their times
  meas,                  \* the package: lidar and lidar_beg_time
  flg_first_scan,
  imu_need_init_, init_iter_num, last_imu_, last_lidar_end_time_,
  kf_time,               \* the time for which the filter's state holds
  undistorted,           \* whether UndistortPcl has ever run
  feats_undistort,       \* the cloud that goes into the map
  in_map,                \* the scans whose clouds were added to the map
  holes                  \* what has gone wrong with the input so far

clocks == <<setup, ahead, lidar_clock, imu_clock, scans, plays>>
buffers == <<lidar_buffer, time_buffer, imu_buffer>>
stamps == <<is_first_lidar, last_timestamp_lidar, last_timestamp_imu,
            timediff_lidar_wrt_imu, timediff_set_flg>>
sync == <<lidar_pushed, lidar_end_time, scan_num, scantime, meas>>
imuProcess == <<imu_need_init_, init_iter_num, last_imu_, last_lidar_end_time_,
                kf_time, undistorted, feats_undistort>>
vars == <<clocks, buffers, stamps, sync, flg_first_scan, imuProcess, in_map, holes>>

NoScan == [n |-> 0, beg |-> 0, points |-> 0, span |-> 0]

Init ==
  /\ setup \in Setups
  /\ ahead \in IF setup.time_sync_en THEN ImuAhead ELSE {0}
  /\ lidar_clock = Start
  /\ imu_clock = Start
  /\ scans = 0 /\ plays = 1
  /\ lidar_buffer = <<>> /\ time_buffer = <<>> /\ imu_buffer = <<>>
  /\ is_first_lidar = TRUE
  /\ last_timestamp_lidar = 0 /\ last_timestamp_imu = -1
  /\ timediff_lidar_wrt_imu = 0 /\ timediff_set_flg = FALSE
  /\ lidar_pushed = FALSE /\ lidar_end_time = 0
  /\ scan_num = 0 /\ scantime = 0
  /\ meas = [lidar |-> NoScan, lidar_beg_time |-> 0]
  /\ flg_first_scan = TRUE
  /\ imu_need_init_ = TRUE /\ init_iter_num = 1
  /\ last_imu_ = 0
  /\ last_lidar_end_time_ \in Garbage
  /\ kf_time = 0
  /\ undistorted = FALSE
  /\ feats_undistort = NoScan
  /\ in_map = <<>>
  /\ holes = {}

Abs(x) == IF x < 0 THEN -x ELSE x

-----------------------------------------------------------------------------
(* The outside. *)

\* A scan that does not reach the node.
LoseScan ==
  /\ lidar_clock + Period <= Start + setup.length
  /\ lidar_clock' = lidar_clock + Period
  /\ UNCHANGED <<setup, ahead, imu_clock, scans, plays, buffers, stamps, sync,
                 flg_first_scan, imuProcess, in_map, holes>>

\* The recording ends and begins again: the clocks jump back.
Restart ==
  /\ plays < setup.plays
  /\ lidar_clock + Period > Start + setup.length
  /\ plays' = plays + 1
  /\ lidar_clock' = Start
  /\ imu_clock' = Start
  /\ UNCHANGED <<setup, ahead, scans, buffers, stamps, sync, flg_first_scan,
                 imuProcess, in_map, holes>>

-----------------------------------------------------------------------------
(* The callbacks of the subscriptions. *)

LoopsBack(cur_time) == ~is_first_lidar /\ cur_time < last_timestamp_lidar

\* The scan whose last acceptable time the lidar's clock shows.
Received(points, span) ==
  [n |-> scans + 1, beg |-> lidar_clock, points |-> points, span |-> span]

\* What both callbacks do to the buffers: when time has gone back, the scans are
\* dropped, but neither their times nor the one that is already in the package.
Push(scan) ==
  /\ scans' = scans + 1
  /\ lidar_clock' = lidar_clock + Period
  /\ is_first_lidar' = FALSE
  /\ last_timestamp_lidar' = scan.beg
  /\ lidar_buffer' = Append(IF LoopsBack(scan.beg) THEN <<>> ELSE lidar_buffer, scan)
  /\ time_buffer' = Append(time_buffer, scan.beg)
  /\ holes' = IF LoopsBack(scan.beg) /\ lidar_buffer # <<>>
              THEN holes \cup {"scans dropped"} ELSE holes

NewScan(points, span) ==
  /\ scans < MaxScans
  /\ lidar_clock + Period <= Start + setup.length

standard_pcl_cbk(points, span) ==
  /\ setup.lidar_type # "AVIA"
  /\ NewScan(points, span)
  /\ Push(Received(points, span))
  /\ UNCHANGED <<setup, ahead, imu_clock, plays, imu_buffer, last_timestamp_imu,
                 timediff_lidar_wrt_imu, timediff_set_flg, sync, flg_first_scan,
                 imuProcess, in_map>>

\* The callback for Livox messages also sets the clocks against each other, once.
livox_pcl_cbk(points, span) ==
  /\ setup.lidar_type = "AVIA"
  /\ NewScan(points, span)
  /\ Push(Received(points, span))
  /\ IF /\ setup.time_sync_en /\ ~timediff_set_flg
        /\ Abs(lidar_clock - last_timestamp_imu) > Second
        /\ imu_buffer # <<>>
     THEN /\ timediff_set_flg' = TRUE
          /\ timediff_lidar_wrt_imu' = lidar_clock + Period - last_timestamp_imu
     ELSE UNCHANGED <<timediff_set_flg, timediff_lidar_wrt_imu>>
  /\ UNCHANGED <<setup, ahead, imu_clock, plays, imu_buffer, last_timestamp_imu,
                 sync, flg_first_scan, imuProcess, in_map>>

imu_cbk(step) ==
  /\ imu_clock + step <= Start + setup.length
  /\ imu_clock' = imu_clock + step
  /\ LET sent == imu_clock' + ahead
         timestamp == IF Abs(timediff_lidar_wrt_imu) > Period /\ setup.time_sync_en
                      THEN sent + timediff_lidar_wrt_imu ELSE sent
         back == timestamp < last_timestamp_imu
     IN  /\ last_timestamp_imu' = timestamp
         /\ imu_buffer' = Append(IF back THEN <<>> ELSE imu_buffer, timestamp)
         /\ holes' = IF back THEN holes \cup {"imu back"} ELSE holes
  /\ UNCHANGED <<setup, ahead, lidar_clock, scans, plays, lidar_buffer, time_buffer,
                 is_first_lidar, last_timestamp_lidar, timediff_lidar_wrt_imu,
                 timediff_set_flg, sync, flg_first_scan, imuProcess, in_map>>

-----------------------------------------------------------------------------
(* sync_packages *)

\* lidar_mean_scantime
MeanScantime == IF scan_num = 0 THEN 0 ELSE scantime \div scan_num

\* Whether the last point of a scan tells when it ends.
Measured(scan) == scan.points > 1 /\ 2 * scan.span * scan_num >= scantime

\* A scan is taken from the front of the buffer, and stays there.
PushScan ==
  LET scan == Head(lidar_buffer)
  IN  /\ lidar_end_time' = Head(time_buffer) + (IF Measured(scan) THEN scan.span
                                                ELSE MeanScantime)
      /\ scan_num' = IF Measured(scan) THEN scan_num + 1 ELSE scan_num
      /\ scantime' = IF Measured(scan) THEN scantime + scan.span ELSE scantime
      /\ meas' = [meas EXCEPT !.lidar = scan, !.lidar_beg_time = Head(time_buffer)]

\* The first half of sync_packages: afterwards a scan is in the package.
TakeScan ==
  /\ lidar_buffer # <<>> /\ imu_buffer # <<>>
  /\ IF lidar_pushed THEN UNCHANGED <<lidar_end_time, scan_num, scantime, meas>>
     ELSE PushScan

\* A faulty Package, in which every message received belongs to the scan.
PackageAll(end) == imu_buffer

\* The messages are taken from the front until one is at the end of the scan or
\* beyond it; the first one is left for the next scan if it is at the end already.
Package(end) ==
  LET taken == {k \in DOMAIN imu_buffer : /\ imu_buffer[k] <= end
                                          /\ \A i \in 1 .. k - 1 : imu_buffer[i] < end}
  IN  IF Head(imu_buffer) < end THEN SubSeq(imu_buffer, 1, Max(taken)) ELSE <<>>

-----------------------------------------------------------------------------
(* ImuProcess::Process *)

\* IMU_init: init_iter_num counts the messages of all its calls.
IMU_init(imu) ==
  /\ init_iter_num' = init_iter_num + Len(imu)
  /\ imu_need_init_' = (init_iter_num' <= MAX_INI_COUNT)
  /\ last_imu_' = Last(imu)
  /\ kf_time' = Last(imu)
  /\ UNCHANGED <<last_lidar_end_time_, undistorted, feats_undistort>>

\* A faulty dt, which does not know where the last scan ended.
dtWhole(head, tail) == IF tail < last_lidar_end_time_ THEN 0 ELSE tail - head

\* The time of the step from one message to the next, from the end of the last
\* scan on.
dt(head, tail) ==
  CASE tail < last_lidar_end_time_ -> 0
    [] tail >= last_lidar_end_time_ /\ head < last_lidar_end_time_ ->
         tail - last_lidar_end_time_
    [] OTHER -> tail - head

\* A faulty UndistortPcl, which does not look at a scan with too few points.
UndistortPclIfPoints(scan, imu, end) ==
  LET v_imu == <<last_imu_>> \o imu
      steps == [i \in 1 .. Len(imu) |-> dt(v_imu[i], v_imu[i + 1])]
  IN  /\ kf_time' = FoldLeft(+, kf_time, steps) + Abs(end - Last(v_imu))
      /\ last_imu_' = Last(imu)
      /\ last_lidar_end_time_' = end
      /\ undistorted' = TRUE
      /\ feats_undistort' = IF scan.points <= 1 THEN feats_undistort ELSE scan
      /\ UNCHANGED <<imu_need_init_, init_iter_num>>

\* The filter is propagated from message to message, then to the end of the scan.
UndistortPcl(scan, imu, end) ==
  LET v_imu == <<last_imu_>> \o imu
      steps == [i \in 1 .. Len(imu) |-> dt(v_imu[i], v_imu[i + 1])]
  IN  /\ kf_time' = FoldLeft(+, kf_time, steps) + Abs(end - Last(v_imu))
      /\ last_imu_' = Last(imu)
      /\ last_lidar_end_time_' = end
      /\ undistorted' = TRUE
      /\ feats_undistort' = scan
      /\ UNCHANGED <<imu_need_init_, init_iter_num>>

\* Without IMU messages it returns at once, and the cloud stays that of the scan
\* before.
Process(scan, imu, end) ==
  IF imu = <<>> THEN UNCHANGED imuProcess
  ELSE IF imu_need_init_ THEN IMU_init(imu)
  ELSE UndistortPcl(scan, imu, end)

-----------------------------------------------------------------------------
(* timer_callback *)

\* The map is initialised with a cloud of more than five points; from then on
\* the pose is updated and published, and the cloud added.
Register(cloud) ==
  IF cloud.points > 5 \/ (cloud.points = 5 /\ in_map # <<>>)
  THEN in_map' = Append(in_map, cloud.n)
  ELSE UNCHANGED in_map

\* The scan is in the package, but its last IMU messages have not arrived.
TimerWaits ==
  /\ ~lidar_pushed
  /\ TakeScan
  /\ last_timestamp_imu < lidar_end_time'
  /\ lidar_pushed' = TRUE
  /\ UNCHANGED <<clocks, buffers, stamps, flg_first_scan, imuProcess, in_map, holes>>

\* A faulty Handed, which leaves the time of the scan where it is.
HandedKeepsTime ==
  /\ TakeScan
  /\ last_timestamp_imu >= lidar_end_time'
  /\ lidar_pushed' = FALSE
  /\ imu_buffer' = SubSeq(imu_buffer, Len(Package(lidar_end_time')) + 1, Len(imu_buffer))
  /\ lidar_buffer' = Tail(lidar_buffer)
  /\ UNCHANGED <<time_buffer, clocks, stamps>>

\* A faulty Handed, which keeps lidar_pushed.
HandedKeepsPushed ==
  /\ TakeScan
  /\ last_timestamp_imu >= lidar_end_time'
  /\ lidar_pushed' = TRUE
  /\ imu_buffer' = SubSeq(imu_buffer, Len(Package(lidar_end_time')) + 1, Len(imu_buffer))
  /\ lidar_buffer' = Tail(lidar_buffer)
  /\ time_buffer' = Tail(time_buffer)
  /\ UNCHANGED <<clocks, stamps>>

\* The package is complete: what was at the fronts of the buffers goes.
Handed ==
  /\ TakeScan
  /\ last_timestamp_imu >= lidar_end_time'
  /\ lidar_pushed' = FALSE
  /\ imu_buffer' = SubSeq(imu_buffer, Len(Package(lidar_end_time')) + 1, Len(imu_buffer))
  /\ lidar_buffer' = Tail(lidar_buffer)
  /\ time_buffer' = Tail(time_buffer)
  /\ UNCHANGED <<clocks, stamps>>

FirstScan ==
  /\ flg_first_scan
  /\ Handed
  /\ flg_first_scan' = FALSE
  /\ UNCHANGED <<imuProcess, in_map, holes>>

NextScan ==
  /\ ~flg_first_scan
  /\ Handed
  /\ LET imu == Package(lidar_end_time')
     IN  /\ Process(meas'.lidar, imu, lidar_end_time')
         /\ holes' = IF imu = <<>> THEN holes \cup {"no imu"} ELSE holes
  /\ Register(feats_undistort')
  /\ UNCHANGED flg_first_scan

timer_callback == TimerWaits \/ FirstScan \/ NextScan

-----------------------------------------------------------------------------
Next ==
  \/ LoseScan
  \/ Restart
  \/ \E points \in Sizes, span \in Spans : \/ standard_pcl_cbk(points, span)
                                           \/ livox_pcl_cbk(points, span)
  \/ \E step \in ImuSteps : imu_cbk(step)
  \/ timer_callback

Spec == Init /\ [][Next]_vars

\* The timer fires; nothing makes a sensor send.
FairSpec == Spec /\ WF_vars(timer_callback)

-----------------------------------------------------------------------------
ScanNumber == 0 .. MaxScans
Scan == [n : ScanNumber, beg : Nat, points : Sizes \cup {0}, span : Spans \cup {0}]

\* Every variable has its type, and a scan in the package is still in front of
\* the buffers, which hold a time for every scan.
TypeOK ==
  /\ lidar_buffer \in Seq(Scan) /\ time_buffer \in Seq(Nat) /\ imu_buffer \in Seq(Int)
  /\ Len(time_buffer) >= Len(lidar_buffer)
  /\ lidar_pushed => lidar_buffer # <<>>
  /\ {last_timestamp_lidar, last_timestamp_imu, timediff_lidar_wrt_imu, lidar_end_time,
      last_imu_, last_lidar_end_time_, kf_time} \subseteq Int
  /\ {is_first_lidar, timediff_set_flg, lidar_pushed, flg_first_scan, imu_need_init_,
      undistorted} \subseteq BOOLEAN
  /\ scan_num \in ScanNumber /\ scantime \in Nat /\ init_iter_num \in Nat
  /\ meas.lidar \in Scan /\ feats_undistort \in Scan
  /\ in_map \in Seq(ScanNumber)
  /\ holes \subseteq {"scans dropped", "imu back", "no imu"}

\* Whatever IMU messages are lost or late, and whether or not the clocks had to
\* be set against each other: from the second scan on, the filter is propagated
\* exactly from the end of the last scan to the end of this one.  No stretch of
\* time is left out or gone through twice, so that the pose, which is published
\* with the stamp of the scan's end, is the one of that time.  Once the stamps of
\* the IMU have jumped back, this asks for a message since the end of the last scan.
PropagatedOverScan ==
  [][/\ undistorted /\ last_lidar_end_time_' > last_lidar_end_time_
     /\ "imu back" \in holes => last_imu_' >= last_lidar_end_time_
     => kf_time' - kf_time = last_lidar_end_time_' - last_lidar_end_time_]_vars

\* The cloud of a scan goes into the map at most once, unless a scan came
\* without IMU messages: then the cloud before it goes in once more.
EachCloudOnce == "no imu" \notin holes => IsInjective(in_map)

\* A scan is handed on with the time of its own header, unless the clocks have
\* jumped back while scans were waiting.
OwnTime == "scans dropped" \notin holes => meas.lidar_beg_time = meas.lidar.beg

\* When the scan that is next ends.
NextEnd ==
  IF lidar_pushed THEN lidar_end_time
  ELSE Head(time_buffer) + (IF Measured(Head(lidar_buffer)) THEN Head(lidar_buffer).span
                            ELSE MeanScantime)

\* No scan waits for good once the stamps of the IMU have passed its end; after
\* a jump back it may still need the next IMU message.
NoBacklog ==
  []<>(\/ lidar_buffer = <<>>
       \/ last_timestamp_imu <= NextEnd
       \/ plays > 1 /\ imu_buffer = <<>>)
=============================================================================
