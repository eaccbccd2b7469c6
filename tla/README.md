# go2-lab in TLA+

go2-lab is the software that drives a Unitree Go2 robot dog: the Livox lidar SDK
and its ROS driver, lidar-inertial odometry (FAST_LIO), voice commands, and the
bridge from ROS velocity commands to the robot's own requests. This directory
holds TLA+ models of its concurrent and stateful parts, TLC configurations that
check them on small instances, and TLAPS proofs that hold for every instance.

`PROJECT.json` is the index: which module models which lines, what each run
checks, the hazards of the code and the properties that cover them. `tlc -config MCCommandTable.cfg MCCommandTable` repeats a
run, `tlapm CommandTableProofs.tla` the proofs about a module.

## 1. The system

Points travel from a lidar to ROS like this:

```
 lidar ==UDP==> SDK IO threads --> PubHandler --> LidarDataQueue --> poll thread --> ROS topic
   ^            (data channel)     (frames)       (ring, per lidar)  (DriverPipeline)
   |
   +--UDP-- SDK command table <-- bring-up: probe, firmware query, host configuration,
            (CommandTable)        settings, until the lidar is Sampling (LidarBringUp)
```

and commands from a voice to the robot like this:

```
 microphone --> VadGate --> local recognition --+
            \                                   +--> cooldown --> /cmd_vel --> bridge --> robot
             +-> RealtimeSession (Azure) -------+    (CmdVelBridge: node.py and cmd_vel_control_updown)
```

and inside FAST_LIO, which turns points and IMU messages into a pose and a map:

```
 /livox/lidar --> lidar_buffer, time_buffer --+
                                              +--> sync_packages --> ImuProcess --> filter --> ikd-Tree
 /livox/imu ----> imu_buffer -----------------+    (LaserMapping: one thread)     searches ^   (IkdTree:
                                                                                   and adds    main, searching
                                                                                               and rebuild threads)
```

Paths below are relative to `src/src/`. *K* stands for `Livox-SDK2/sdk_core`, *L* for
`ros/livox_ros_driver2/src`, *F* for `ros/FAST_LIO`.

### Components that are modelled

| Component | State | Operations | Talks to | What is hard | What makes it correct |
|---|---|---|---|---|---|
| point-cloud ring, *L*`/comm/ldq.cpp` | slots, two free-running indices | push, pop, full and empty tests | one storing and one publishing thread, no lock | steps inside a slot interleave; the indices wrap | never two threads in a slot, whole packets, a bounded FIFO |
| driver pipeline, *L*`/lds.cpp`, `lddc.cpp`, `driver_node.cpp`, `comm/semaphore.cpp` | queues, two counting semaphores, exit flags | store, signal, poll, publish, shut down | frames in, ROS messages out | the semaphore's count is read without its lock; a joined thread may be blocked | no lost wake-up, no pile of wake-ups, shutdown completes |
| frame assembly, *L*`/comm/pub_handler.cpp` | raw packet queue, points of each lidar, one synchronisation flag, frame | receive, process, cut frames, uninit | SDK callback in, ring out | two rules for cutting frames share a flag of all lidars; the interval is rounded for the boundaries and not for the tolerance | every point once and in order, no boundary missed without a loss, but for the one an uneven interval skips |
| SDK command table, *K*`/command_handler`, `comm/generate_seq.cpp` | 16-bit number, table of waiting commands | send, enter, acknowledge, expire, call back | callers, three IO threads, the lidar | acknowledgements lost, doubled, late; expiry on three threads; number reuse | one outcome for each command, the right one, always |
| lidar bring-up, *K*`/device_manager.cpp`, `general_command_handler.cpp`, *L*`/call_back` | devices, firmware type, retry count, `set_bits`, connection state | probe, query, write, announce, configure, retry | SDK and driver, by callbacks | announcement before registration; settings acknowledged while others are being sent; one retry count for all | configured once, Sampling only when configured, and at last Sampling |
| lidar settings, *L*`/parse_cfg_file/parse_livox_lidar_cfg.cpp` | fields of a configuration entry | parse, send, resend | file to bring-up | 8-bit fields | a documented value reaches the lidar |
| utterance gate, `ros/voice_teleop/voice_teleop/node.py` `VadGate` | prefix, buffer, run lengths | push a frame, flush | microphone to recognition | cut at the maximal length, stale prefix | utterances whole, disjoint, nothing said is dropped |
| Azure session, same file | two threads, an asyncio loop, three queues, an event | start, send, receive, poll, close | service over a web socket | a connection that dies at any point, failed transcriptions, events between two looks at the queues | transcripts in order and, but for the last one before an error, with their turns; losses are noticed, closing ends |
| velocity bridge, `ros/cmd_vel_control/src/cmd_vel_control_updown.cpp`, with `handle_asr_result` | time of the last action, subscription queue | command, publish, callback with a three-second sleep | voice and other publishers to the robot | a blocking callback before a bounded queue | stand-up and balance stay together; the newest command wins |
| scan and IMU synchronisation, *F*`/src/laserMapping.cpp`, `IMU_Processing.hpp` | three buffers, time stamps, the scan being put together, the filter's time | three subscriptions, timer | driver in, filter and map out | messages lost, late, at the boundary of a scan; clocks that differ or jump back | time is integrated once, each cloud goes into the map once and under its own time, no scan waits for good |
| map, *F*`/include/ikd-Tree` | tree with lazy marks, request, log of operations, three locks, search counter | add, delete a box, downsample, search; copy, replay, swap | main thread, parallel searches, rebuild thread | operations while a subtree is rebuilt; a subtree freed under a search | no operation missed, no counted search in freed memory, every rebuild ends |

### Components that are not modelled

| Component | Why not |
|---|---|
| SDK device manager, IO loops, data handler | planned, section 7; discovery is already in `LidarBringUp` |
| SDK firmware upgrade | planned |
| SDK log and debug-point-cloud collection | planned after the upgrade |
| FAST_LIO's filter and preprocessing | numerical, out of a model checker's reach |
| trajectory example `sport_mode_ctrl.cpp` | a path computed from a start pose and the time, an example of the robot's vendor; it publishes by the clock alone, also if no state was received before (line 32) |
| driver index cache | waits for the viewer mode, in which lidars outside the file appear on IO threads |
| batch recognition loop | the gate and the bridge at its ends are modelled; between them is an external program |
| sockets, epoll and poll, wake-up pipes, packet formats | wrappers of system calls and byte layout, no state that a property would be about |
| HAP command handler | the twin of the mid360 one |
| `cmd_vel_control.cpp`, `imu_publisher`, read-out and low-level examples | one message out for each message in |
| vendored code (rapidjson, spdlog, FastCRC, IKFoM, unitree_ros2), scripts, containers | third-party or without program logic |

## 2. The modules

### LidarDataQueue, BoundedFifo, MCLidarDataQueue, LidarDataQueueProofs

`LidarDataQueue` is the ring: `storage`, `rd_idx` and `wr_idx` are the fields of
`LidarDataQueue` in `ldq.h`, and `ppc`, `cpc` say where the storing thread is in
`Lds::PushLidarData` and the publishing thread in its loop. A slot has two fields here,
base time and points, written and copied in separate steps, so that a torn packet can
show. Indices wrap at `IdxMod` (2^32 in the code). `BoundedFifo` is what the ring
promises: packets go in, are accepted or refused when `Capacity` wait, and come out in
order. The refinement maps the channel to the slots between the two indices.

Threads interleave in program order; the indices are plain volatile integers in the
code, so reorderings by compiler or processor are outside the model.

### DriverPipeline, MCDriverPipeline, DriverPipelineProofs

For each stream, point clouds and IMU: a storing thread (`ppc`), a polling thread
(`cpc`), one semaphore (`count`). A queue is only its length here. The test
`GetCount() <= 0` and `Signal` are separate steps, as are the exit test, `Wait`, the
visit of each lidar and every pass of the publishing loop. `main` is the destructor of
`DriverNode`. `transfer_format` is the parameter of the node; `Published` says for which
formats the build has a publisher (`ROS2`). Under ROS 2 it has none for `kPclPxyziMsg`:
`PublishPclMsg` (`lddc.cpp:234-243`) returns without taking anything out of the queue, and
the loop around it (`:162`) goes round until the node is asked to stop
(`PublishNothing`). The driver's text offers this format "just for ROS". A format that no
branch tests behaves the same.

### PubHandler, MCPubHandler, PubHandlerProofs

One module, several instances at once: `Setups` holds lidars with synchronised time on
a lossy network, with intervals of whole milliseconds and not, and two lidars whose
packets now and then carry it. The interval has the two forms it has in the code
(`pub_handler.cpp:66-68`): `publish_interval_`, from which the tolerance and the rule by
the host's clock are made, and `publish_interval_ms_`, the same rounded down to
milliseconds, whose multiples are the boundaries. `phases` is when in the interval a lidar may begin.
`OnPointPacket` and `OnImuPacket` are the SDK's callback, `TestQuit` to
`PublishPointCloud` the thread `RawDataProcess` with `CheckTimer`, and `RemoveObserver`,
`RequestExit`, `Join` the steps of `Uninit`. `points_clouds_` is the buffer of each
`LidarPubHandler`, `points_` the buffers a frame points into; `Collect` swaps the two
after clearing. Time is in ticks, `TicksPerMs` of them to a millisecond; unsigned
differences are taken modulo `TimeMod`. The model assumes, as the code does, that a
packet spans at most a millisecond, and that a clock every packet is stamped with was set
before the first of them (`ClockAssumption`), so that its time is never negative.

### CommandTable, MCCommandTable, CommandTableProofs

Every retry is a command of its own. `pc[c]` is where its caller is; `seq_num`,
`commands` and `due` are the number, the table and what has expired in it; `job[t]` is
what IO thread `t` has taken from the table and not yet called back, because the code
calls back after it released the lock. The host configuration is entered before it is
sent (`AddsFirst`), everything else after. `wire` and `answered` are the network and
the lidar, which may answer late, twice or never.

### LidarBringUp, MCLidarBringUp, LidarBringUpProofs

Two handlers' `devices_` (`found`, `configured`), the firmware query with its static
retry count (`retries`), the writes of the host configuration (`writing`), the
announcement (`is_callback`), then the driver's handshake under `config_mutex_` with
`set_bits` and `connect_state`. `caller[l]` is the IO thread that is inside
`LidarInfoChangeCallback`. A single command has one outcome here, Success or Timeout;
why it has one is the subject of `CommandTable`. `sendto` is assumed to succeed. That the
flag of the announcement is read and set in one step takes nothing away, because the
messages of one lidar are handled by one IO thread. That
`Other`, the settings sent without a bit of their own, is not empty is an assumption the
code meets: attitude, work mode and IMU are always sent
(`livox_lidar_callback.cpp:101-107`).

### UserConfig

The journey of one setting from file to lidar, with the casts as functions on integers;
it ends in a disagreement between code and text (section 5).

### VadGate

`push` and `_flush` of the gate. A frame is its position in the stream, and whether it
is speech is an input, so that TLC runs every pattern.

### RealtimeSession

The main thread (`main`), the session's thread (`session`) and on its loop sender and
receiver, with `_send_queue`, `_results`, `_errors` and `_pending_turns`. The service
reports events in the order of its protocol; connection and transcriptions fail at any
point. A result carries two numbers, the turn of its transcript and the turn of its
times, which the code pairs by order of arrival only. `poll_result` looks at the errors and
then at the results, each under the lock of its own queue (`node.py:225-230`): `PollRaises`
and `PollChecked` are the first look, `GetResult` and `GetEmpty` the second, and the
session's thread may handle any number of events in between.

### CmdVelBridge, TeleopProofs

`Command` is the voice with its cooldown, `OtherPublisher` anybody else on `/cmd_vel`,
`Deliver` the keep-last subscription, `Callback` and `BalanceStand` the callback before
and after its sleep. `TeleopProofs` extends the three modules between a voice and the
robot's legs, `VadGate`, `RealtimeSession` and `CmdVelBridge`; the last two give their
`Init`, `Next` and `Spec` a prefix for that.

### LaserMapping, MCLaserMapping, LaserMappingProofs

All callbacks run on the one thread of `rclcpp::spin`, so each is one action: the two
point-cloud callbacks, `imu_cbk`, and `timer_callback`, which is split by its outcome
into `TimerWaits` (`sync_packages` returns false), `FirstScan` and `NextScan`. A cloud
is the number of its scan with its header's time, its size and the offset of its last
point. Of the filter only the time for which its state holds is kept (`kf_time`): the
sum of the `dt` that `predict` is called with. Scans and messages may be lost and the
two topics arrive in any order against each other; a recording may start again. `holes`
remembers that scans were dropped by a jump back, that the time of the IMU jumped back, or
that a package had no IMU message: three situations the code handles badly (below), so
that the properties can say what holds without them.

### IkdTree, MCIkdTree, IkdTreeProofs

The tree is seen along one path of nodes, level 0 being `Root_Node`, each large enough to
be rebuilt by the other thread; everything else below a node is its bucket. Deletion
along the path is lazy as in the code (`tree_deleted`, `need_push_down`), and so is its
withdrawal. `mpc`, `todo` and `level` say where the main thread is in its recursion:
down through `Descend` without a lock, `Operate` and `Log` under `working_flag_mutex`
where the subtree is being rebuilt, up through `Ascent`, which may ask for a rebuild.
`rpc` is the rebuild thread, step by step as in `multi_thread_rebuild`. `reader` says
what each searching thread is doing. A search loads the pointer to a son and reads the
son's box (`calc_box_dist`, `ikd_Tree.cpp:1097-1098`) before it tests `Rebuild_Ptr` and counts
itself: `ReadBox` takes it there, state "son", and `TestRebuildPtr` on. `stale` is a ghost,
the readers that are inside a subtree that has been replaced, or read its box. If the
subtree was replaced meanwhile, the pointer is loaded again for the test, or the compiler
has kept the old one; then it passes the test, and the search goes on in the old
subtree without a lock ("bare"). `asked` is a ghost too: the points that the calls so far
should have left.

Abstractions: whether a node asks to be rebuilt, how far a search goes and which point is
nearest are free choices; a downsampling cell is too small to cover a node of the path; a
box that holds none of a node's points is outside its range; subtrees below the
threshold, which the main thread rebuilds in place, are inside buckets. Reads of
`Rebuild_Ptr` without a lock are atomic with the step they decide, those of one condition,
for null and then for the node, included.

`holes` names four gaps, each with the code line that opens it:

- "untested": the root is tested once for a deletion and the addition after it
  (`ikd_Tree.cpp:513`); section 5. In the same gap the request may be withdrawn
  (`:843`, `:1051`) while the rebuild thread works with it.
- "late log": `rebuild_flag` is cleared after the lock is released (`:351-352`), so that an
  operation on the next subtree may be logged for a rebuild that has ended. The code
  prints ERROR (`:246`) and replays it on the wrong subtree.
- "nothing copied": with no point left to copy (`:282`) the log is not looked at, and
  line 332 reads through a null pointer, into a variable that is not used.
- "mark withdrawn": after the swap the ancestors are updated from below (`:337-345`), which
  may take back a deletion still owed to a son. The model makes that update one step with the
  swap; what falls between the two is in the same gap.

## 3. The runs

Twelve runs: ten that pass and two that exhibit a disagreement. Every one ends in three
minutes or so on two workers. `CHECK_DEADLOCK FALSE` stands where the system
really may stop: all commands sent, the clock of the model at its bound, the node
gone, all calls made.

| Run | Instance | What it shows | Why the bound is enough |
|---|---|---|---|
| `lidar_ring` | 2 slots, indices modulo 8, 3 packets | slot exclusion, whole packets, refinement of `BoundedFifo` | full, empty and wrapped rings with both threads at every step; two slots are the least with a neighbour, three packets tell old contents from new |
| `driver` | both streams, 1 lidar, queues of 1, ROS 2, a transfer format with a publisher and one without | wake-ups neither lost nor piled up; queues drained, those of points if the format has a publisher; a requested shutdown completes, also of a thread that spins on a format without one, unless a thread is blocked in `Wait`, and one signal frees it | all orders of the storing and polling threads of both streams against the destructor; what two lidars add, a packet for one already passed in the round, is covered by the theorems of section 6, which hold for any number of lidars |
| `command_table` | 3 commands, one entered first; 2 IO threads; numbers 1..3 | one outcome, the right one, and it comes | all numbers in use and the counter wrapped; two threads race to expire and to acknowledge |
| `bring_up` | 2 lidars, one in loader mode with two settings, attitude and IMU, 1 retry, 2 writes under way | announced and configured once, Sampling only when confirmed, streams and keeps its attitude and work mode through lost answers | the lidars share the retry count and the lock; two writes are needed for a second announcement |
| `vad_gate` | 2/3/4/7/4 frames to start, end, keep, at most, before; all streams of 14 | utterances whole and disjoint, closed by silence or length, no speech lost | two utterances cut at their maximal length fit in the stream |
| `pub_handler` | 1 synchronised lidar, losses anywhere: interval of 3 ms in 2 ticks each, a clock 1 tick behind the host's, 21 ticks; 4 ms in 1 tick each, begun at 1, 13 ticks; 3 2/3 ms in 3 ticks each, 23 ticks, and without loss 37 ticks. 2 lidars with and without synchronised time, interval of 2 ticks, clocks to 3 | no point lost or doubled whatever the flag does; every boundary yields a frame unless a packet next to it was lost, and an uneven interval skips at most one more; `Uninit` returns | every phase of the lidar to the interval, an interval long enough for the points to begin after the milliseconds next to a boundary, and one that the code rounds; the flag changes between arrival and processing of each packet, with frames cut by both rules |
| `realtime_session` | 3 turns, 2 frames waiting, 1 reported error, 2 drains | transcripts are acted upon in order and, but for at most the last one before an error ends the loop, with their own times; losses are noticed; closing ends the session | a failed turn with one before and one after it, and every event between the two looks of `poll_result` |
| `cmd_vel_bridge` | 5 Twists of every kind, depth 2, cooldown 2, sleep 3, 5 ticks | balance follows stand-up; the newest Twist is never the one lost | the queue overflows during the sleep |
| `user_config_blind_spot` | every documented value of every setting | violation: section 5 | all values |
| `fast_lio_sync` | recordings of 3 to 4 scans, one played twice, one with IMU clocks 40 ahead or behind; scans of 1 and 6 points, IMU messages every 2 or 3 units, a scan every 2 | time integrated once, clouds once and under their own time, no scan waiting for good | IMU messages before, at and after a scan's end, several to a scan and none, the jump back with and without waiting scans; 5 scans in all |
| `ikd_rebuild` | a path of 3 nodes with a point in each, 2 of them there from the start, 2 boxes, 1 cell, 1 searching thread, 3 calls | the map holds what was asked outside the four gaps; only a search that has not tested yet, or takes no lock, is in freed memory; calls and rebuilds end | a rebuild of the root, of an inner node and of the last one, each against every operation above, at and below it; three calls make a mark, push it down and withdraw it |
| `ikd_missed_operation` | the same path, one call | violation: section 5 | the shortest case |

Bounds of the models, all named in the constants: `MaxImu` (a `std::list` in the code),
`MaxWrite`, `MaxTime`, `MaxQueue`, `MaxTwist`, `MaxTurn`, `MaxAudio`, `MaxError`,
`StreamLength`, `MaxCalls`, `MaxScans`. Others, such as `Capacity`, `MaxSeq`, `MaxRetry`, `Depth`,
`MaxDrain`, are constants of the code made small.

What two of the properties rest on is worth knowing when the code is changed:

- A packet of a lidar that ends in the boundary millisecond cuts the frame, so the next
  frame may start up to a millisecond late and be shorter than the interval. The
  tolerance of one millisecond in `SetPointCloudConfig` makes the next boundary count
  all the same; without it every other boundary passes without a frame, which is what
  the mutant of `SpanBounded` shows. That holds for intervals of whole milliseconds. The
  tolerance is made from the interval as it was given and the boundaries from the rounded
  one, so that otherwise a frame that begins at its boundary may be too short at the next;
  it then takes in a second period and no more (`Skipped`; section 5). A packet lost just after a boundary has the same
  effect in the code as it is, and `SpanBounded` allows for it: the bound grows by an
  interval for each loss next to a boundary since the one before the first point that
  waits. Counting only from that point on, as the property did at first, is wrong for
  intervals of more than 3 ms: losses just after the boundary make the frame begin late,
  the next boundary finds a span below the tolerance, and the span of the frame cut at the
  boundary after it is accounted for only by losses older than its first point.
- A failed transcription leaves its turn in `_pending_turns`, so later transcripts get the
  times of the turn before. The failure also queues an error, and `poll_result` raises
  errors before it looks at the results; but it looks twice, and if the failure and a
  completion come between the looks, that one transcript is handed out with the wrong
  times. `TranscriptOfItsTurn` says that there is at most this one, that it is the last one
  acted upon, and that an error is waiting or has been raised (section 5).
- A package without IMU messages makes `Process` return at once
  (`IMU_Processing.hpp:344`); `feats_undistort` is then still the cloud before, which is
  matched and added to the map once more. When the lidar's time jumps back, the waiting
  scans are dropped but not their times nor the scan already taken
  (`laserMapping.cpp:289`, `:317-321`), and from then on scans go with times of others.
  `EachCloudOnce` and `OwnTime` hold only as long as neither has happened. When the time of
  the IMU jumps back (`:369-373`) and a scan of the old time is still waiting, its package
  may consist of messages that are all older than the end of the scan before; `UndistortPcl`
  then skips every one of them (`IMU_Processing.hpp:241`) and goes on from the last message
  instead of the last scan. The attempt to prove `PropagatedOverScan` found this; since
  then the property asks for a message after the end of the scan before.

## 4. Fairness

Liveness is checked under weak fairness of what the code's scheduling guarantees: a
thread that can take a step takes one. Beyond that:

- `CommandTable`: strong fairness of `CommandsHandle`, because every pass of an IO loop
  checks its timer whatever acknowledgements arrive between
  (`multiple_io_base.cpp:30-41`); time passes. The network is given no fairness:
  commands get their Timeout also if it loses everything.
- `LidarBringUp`: a lidar that is present answers probes and its answers keep getting
  through (strong fairness of `Probed`, `UpdateLidarSucceeds`, `SettingDone` and, for
  what the driver retries, `OtherDone`). Detection repeats every second for ever, and
  settings are retried for ever; without answers nothing could be promised.
- `RealtimeSession`: the microphone delivers frames (`Main` covers `NextFrame`), `start`
  has a deadline of its own, and a connection that is being closed is closed. The
  service is given none: it need not ever answer.
- `DriverPipeline`, `PubHandler`: threads only. No lidar has to send, nobody has to ask
  for a shutdown, and `PubHandler`'s thread is never notified by `Uninit`; its wait ends
  by its limit of 500 ms.
- `IkdTree`: the three kinds of threads run; nobody has to call. Waiting on a mutex or on
  the counter is the guard of the step, so a cycle of waiting would show as a violation of
  `Settles`.
- `LaserMapping`: the timer fires. Sensors need not send.

## 5. What the code does and the text does not say

Two disagreements are exhibited by a run that must find the violation.

- The driver reads `blind_spot_set` with a cast to `int8_t`
  (*L*`/parse_cfg_file/parse_livox_lidar_cfg.cpp:88`), while the driver's `README.md:247`
  says "Range from 50 cm to 200 cm": from 128 cm on the value turns negative and, widened
  to `uint32_t`, reaches the lidar as a huge number. `user_config_blind_spot` finds 128.
- The rebuild thread of the ikd-Tree is to "Rebuild and update missed operations"
  (*F*`/include/ikd-Tree/ikd_Tree.cpp:279`). `Add_Points` with downsampling tests once
  (line 513) whether the root is being rebuilt, then deletes the cell and adds the point.
  The deletion, on its way back, may itself ask for that rebuild; the addition then takes
  no lock and is not logged, and if the copy was taken in between, the rebuilt tree lacks
  the point. `ikd_missed_operation` finds it in one call.

Three more are stated as definitions that the code does not keep. Each passing run below
checks what does hold in its place; with the definition as one more `INVARIANT` of that
run's configuration, TLC shows the sequence.

- `DiscardedUnread` (`ikd_rebuild`). The rebuild thread locks the searches out before it
  frees the old subtree ("Delete discarded tree nodes", `ikd_Tree.cpp:353`). A search reads
  the box of a son (`:1097-1098`, `:1691-1708`) before it tests `Rebuild_Ptr` (`:1103`) and
  counts itself, so that nothing keeps the rebuild thread from freeing the son between the
  load of the pointer and the reads of its range: a use after free, shown in 16 states.
  `LockedReadsSafe` says which reads are exposed to it and that no others are.
- `FramePerInterval` (`pub_handler`). With `publish_freq` (the driver's `README.md:134`,
  "Set the frequency of point cloud publish, Floating-point data type") the interval is
  rounded down to milliseconds for the boundaries and not for the tolerance
  (`pub_handler.cpp:66-68`). With synchronised time and nothing lost, the boundary after a
  frame that began at its own may pass without a frame, which then spans two periods. With
  packets of 0.48 ms that happens at 7, 13 and 17 Hz; the frequencies the text recommends
  are not affected. `SpanBounded` says that no second boundary is passed over.
- `LatencyOfItsTurn` (`realtime_session`). With Azure, `stt_latency_ms` is the time from the
  stop of a turn to its transcript (`README.md:293` of the repository). A transcription that
  fails and one that is completed between the two looks of `poll_result` (`node.py:226`)
  give a transcript the time of the turn that failed, and it is logged and acted upon before
  the error is raised. `TranscriptOfItsTurn` says that it happens to no second one.

## 6. What is proved

For every value of the constants that satisfies the named assumptions.

`LidarDataQueueProofs` (assumption `QueueAssumption`: the size divides the index range).
The inductive invariant `RingInv` says that slots between the indices are whole, that a
thread past its test of the indices still finds the test true, because only the other
thread can change it and only in its favour, and that what a thread has written or
copied so far is what it started from. The type invariant alone is not inductive: that
`QueueUsedSize` stays within `Size` after `PushIndex` needs the remembered test. Index
arithmetic modulo `IdxMod` rests on the lemmas about remainders at its beginning.

- `RingTypeCorrect`, `SlotExclusion`, `WholePackets`: `TypeOK`, `NoSlotConflict`, `NoTornPacket`.
- `RingImplementsFifo`: `ImplementsFifo`, the refinement, step by step: `PushIndex` is
  `Accept`, `QueuePopUpdate` is `Deliver`, the copying in between stutters.

`DriverPipelineProofs` (`PipelineAssumption`). `PipelineInv` adds to the types, for each
stream, that `Signal` is only entered with the count at 0, and `Covered`: a queue with
packets is skipped, or a signal is pending, or the storing thread has yet to test the
semaphore, or the polling thread has not passed it yet. A step of one stream leaves the
invariant of the other alone (`OneStream`).

- `PipelineTypeCorrect`, `AtMostOneSignal`, `NoLostWakeup`: `TypeOK`, `SemaphoreBound`,
  `NoStrandedPacket`, for any number of lidars, any queue size and any transfer format.

`CommandTableProofs` (`CommandAssumption`: no more commands than numbers). `TableInv`
says of each command that it sits in the table at most under its own number, that it is
in at most one thread's hands, and that it is open until then. `NumberInv` says that the
numbers drawn are 2, 3, ... and, last, 1, so that two commands never share one; it
counts the commands that have drawn. `AnswerInv` ties Success to an answer. Each layer
uses the one before.

- `TableTypeCorrect`, `TableOneOutcome`: from `TableInv` alone.
- `TableNoOverwrite`: `NoOverwrite`, with `NumberInv`. It needs the assumption: with more commands in
  flight than numbers, the code does overwrite.
- `TableSuccessIsAnswered`, `TableAckFindsCommand`: with `AnswerInv`.

`LidarBringUpProofs` (`BringUpAssumption`). `Handshake` says of each lidar: the bit of a
setting is set exactly while its command is sent or expired and not yet acknowledged
(`BitsRight`); while `config_mutex_` is held for the lidar, each of its settings is still
to be sent or has its bit (`Sending`); nothing of it is touched before it is announced, and
once its callback is over, all its settings have been sent (`CalledFirst`).
`SamplingMeansConfirmed` alone is not inductive: a receiving thread calls the lidar Sampling
when no bit is left, and that means confirmed only because the thread that sends sets all bits
before it gives up the lock the receiver needs. That a step for one lidar leaves the
others alone is one lemma (`LeftAlone`).

- `BringUpTypes`, `SamplingIsConfirmed`, `LidarsAnnouncedOnce`: `TypeOK`,
  `SamplingMeansConfirmed`, `AnnouncedOnce`, for any lidars, any settings, retries and
  writes under way.

`PubHandlerProofs` (`PubHandlerAssumption`). `Buffers` gives the types of the points and
packets, and says that a packet being checked left points with its lidar and that a frame
has points of each of its lidars. `InOrder` says that the points of a lidar in the frame, in
its handler and in the packets of the queue, one after the other, are those after the
last one published up to the last one received. The part of the queue is a concatenation
of any number of sequences; `FlattenAppend` and `FlattenHead` say what a packet more at the
end or one less at the front makes of it, by induction over the partial concatenations.

`SpanBounded` needs more, because what waits is bounded only by the frames that were cut
before. `SpanInv` holds with synchronised time. The packets of a lidar, lost or not, end on
a grid of ticks (`OnGrid`); each that ends in the millisecond of a boundary or the next and
is newer than the points taken from the queue was lost or waits in the queue
(`Accounted`, `QueueOK`, `CloudOK`); and each since the last frame at which a new one was
due, or next to a boundary before the new frame began, was lost, unless it is the one being
checked (`MissedOK`). As a packet spans at most a millisecond, one ends in every
millisecond (`EndsInMillisecond`). So a boundary that passes while the points span enough
for a frame has lost a packet (`PassedMeansLost`). If the interval is a whole number of milliseconds
and the frame began in the boundary's own millisecond, or where the next begins, the next
boundary is such a one; if it began later, a packet next to its own boundary was lost
(`LateMeansLost`), because the last frame ended at a boundary too. If it is no whole number,
the next boundary may find the frame too short, but every one after it is such a one, since
the tolerance is less than a period: that is the one period `Skipped` adds. A span beyond the
bound would therefore take one loss more than there are, which the pigeonhole principle of
`FiniteSetTheorems` excludes (`SpanFollows`). The proof takes `ClockAssumption` and that time
does not reach `TimeMod`.

- `HandlerTypes`, `PointsAreKept`: `TypeOK`, `EveryPointOnce`, for any lidars, packets,
  intervals and losses.
- `SpanStaysBounded`: `SpanBounded`, for any lidars, packets, phases and losses and any interval
  of at least a millisecond, whole milliseconds or not.

`IkdTreeProofs` (`IkdAssumption`). `SearchInv` says that the counter is the number of
counted searches exactly, or -1 while the rebuild thread has them locked out; that a
search that was not counted has seen no rebuild, and none can be asked for while the main
thread waits for the searches; and that once the searches are let in again, the stale readers are
the range search without a lock, those that read a son's box, and those that went on
with a pointer loaded for that. None of them was counted, and none got where it is by a
test that saw the rebuild. `LockedReadsSafe` alone says nothing about the counter and is not inductive.


`MapAsAsked` needs much more, because it speaks only of the time between two calls and of the
tree as one flatten would find it. `Live` says which points are found below a node by a
search that pushes down what it meets; the lemmas about it say what each operator on the
tree makes of `Live`, and that `Flattened` is `Live` (`FlattenedIsLive`). `Types` is the
type invariant, strengthened by what the operations need: a call has at most two
operations, and the subtree being built starts at `Rebuild_Ptr` while it is replayed on.
`MapOK` has these parts:

- `TreeOK`: points are in the buckets they belong to, only a deletion is owed, a node marked
  as deleted has nothing below it, except on the path the main thread is on, whose nodes
  wait for their `Update` and owe nothing.
- `ContentOK`: what is `Live` at the root is what was asked, with the operation at hand done
  above `level` (`Partly`), done, or all of them done, by where the main thread is.
- `RebuildOK`: what waits in the log, applied in order to what is `Live` in the new
  subtree, gives what is `Live` in the old one (`Replays`); the operation taken out and the
  one applied to the old subtree but not yet logged are counted in. `LogOK` and `AddsBelow` say
  that all of them belong to that subtree, and `FreshOK` is `TreeOK` of the new one.
- `InsideOK`: while an operation is on its way out of a subtree that is being rebuilt,
  nothing is logged or replayed for it, and the new subtree owes nothing, which is what the
  nodes on the way out need if the swap overtakes the operation.
- `LocksOK`: who holds `working_flag_mutex`, from where to where. `Drain` keeps it when the
  log is empty, so that the subtrees agree at the swap: without it `RebuildOK` says nothing there.

The inductive invariant is `SearchInv /\ Types /\ (holes = {} => MapOK)`: a gap once named
stays named (`HolesStay`), and a step that names none keeps `MapOK` (`NextKeepsMap`, one lemma
per action). Two parts of it show how narrow the code's margin is: the copy pushes down
all marks, so that a main thread on its way up inside the subtree cannot owe any; and the
`Update` of the ancestors after the swap is harmless only where no ancestor owes a mark,
which is the gap "mark withdrawn".

- `SearchesAreCounted`: `SearchInv`; `SearchesAreSafe`: `LockedReadsSafe`; `IkdTypes`:
  `TypeOK`; `MapHoldsWhatWasAsked`: `MapAsAsked`, for any depth, points, boxes, cells, number of
  calls and of searching threads.

`LaserMappingProofs` (`LaserMappingAssumption`). `TypeInv` bounds what the buffers, the
package and the filter hold. `PairOK` says that as long as no scan was dropped, the two
lidar buffers are of the same length and hold, place by place, a scan and its own time,
and that the package does too; the buffers are filled and emptied by different callbacks,
so `OwnTime` alone is not inductive. `OrderOK` and `MapOK` say that the scans' numbers grow
from the package over the buffer to the recording, and from the map on unless a package had
no message. `TimeOK` says that the messages that wait are in order and, as long as the
clock of the IMU has not jumped back, none is older than the end of the last scan. Over it lie lemmas about
one package: `Propagated` shows that the `dt` of its messages add up to the time from the
end of the last scan to the end of this one, because each is a difference of
consecutive times but for the clipped ones at either end (`SumOfDifferences`).
Sums over a sequence are a recursive function; `PartialSums` goes by induction in the form
of a set of naturals with a least element outside (`Induction`).

- `Types`, `ScanHasItsOwnTime`, `MapHasEachCloudOnce`, `FilterGoesOverScan`: `TypeOK`, `OwnTime`,
  `EachCloudOnce`, `PropagatedOverScan`, for any recording, clocks, sizes and steps.

`TeleopProofs`, the gate (`VadAssumption`: the order of the constants of `node.py`). `GateInv` says
that the open piece of the stream, `_buffer` in an utterance and `_prefix` outside, is
unbroken, ends with the newest frame and begins after the last utterance; that the frame
before the current run of speech is silent or was kept; and that an utterance holds the
frames that opened the gate and the silence since, which is why `_flush` never finds one
too short. No speech is dropped because any `StartFrames` frames that are all speech
reach back to that frame.

- `GateTypeOK`, `UtterancesAreUnbroken`, `SpeechIsKept`, `UtterancesEndInSilence`:
  `TypeOK`, `UnbrokenAndDisjoint`, `NoSpeechDropped`, `EndsInSilence`, for streams of any
  length.

`TeleopProofs`, the session (`SessionAssumption`). `SessionInv` says that the pending turns are
those whose transcription is to come and that results carry the times of their own turn
while no error is queued and the main thread is in its loop (`Paired`). A failed
transcription breaks the pairing and queues an error; an error is taken out only by a
thread that leaves the loop for good, which is what makes it inductive. So a wrong pair is
handed out only past the first look of `poll_result`; then an error is queued, the main
thread is about to look for one again (`Raising`) and leaves (`GaveUp`), and no result
follows (`HandledOK`).

- `SessionTypes`, `TranscriptsPaired`: `SessionTypeOK`, `TranscriptOfItsTurn`, for any number of
  turns, frames and errors: order always, and at most the last transcript with the times
  of another turn.

`TeleopProofs`, the bridge (`BridgeAssumption`). `BridgeInv` says that the Twists that wait are the
newest ones without a gap, that every request is for an older one and none is for an
older one than the request before, and that whoever sleeps does so for the last request.

- `StandsAreBalanced`, `NewestTwistPrevails`: `BalanceFollowsStand`, `NewestPrevails`, for any
  depth of the subscription, length of the sleep and number of Twists.

Left to TLC: everything about liveness (the prover does not handle fairness and
`ENABLED`), and what the runs of section 5 exhibit, `UserConfig` with it.

## 7. Plan

Done, in this order: the ring with its abstract specification and its proofs, because
every point passes it; the pipeline around it; the command table, on which every
conversation with a lidar rests; the bring-up above it; then frame assembly, settings,
and the voice and velocity nodes; then FAST_LIO's synchronisation and the rebuild thread
of its map.

Next, models:

1. `DeviceManager`: start, stop and restart of the SDK with its IO loops. The detection
   thread is started before `is_stop_detection_` is cleared (`device_manager.cpp:174`),
   and `Destory` closes sockets whose delegates the loops may still hold
   (`device_manager.cpp:840`). Observers of the data handler belong to it.
2. `Upgrader`: the firmware state machine with its retries; then the transfer of logs.
3. The viewer mode of the bring-up, with the index cache.

Composition: `DeviceManager` with the fairness `CommandTable` takes for granted; the frame
assembly with the ring (a frame is what `PushLidarData` is called with); `LaserMapping`
with `IkdTree` (what `Register` adds is what `Add_Points` is called with).

Next, proofs: every safety invariant and step property that the passing runs check is
proved; what comes next is proofs about the models above as they are written.

## 8. Not covered

- Memory ordering: plain and volatile variables shared by threads are modelled as if
  steps took effect in program order.
- The containers that several threads use without a lock (`devices_` in
  `general_command_handler.cpp`, the index map of the driver) are modelled as if every
  access were atomic.
- A failing `sendto` in the bring-up: the callbacks then get a null response
  (`livox_lidar_callback.cpp:151`); `CommandTable` has the failure, `LidarBringUp` not.
- Whether the IMU of a lidar is switched on after a lost answer: the branch that would
  retry is unreachable (`livox_lidar_callback.cpp:300`), and the model follows it, so
  `LidarStreams` does not claim it.
- In the ikd-Tree: the log's ring of a million operations, which is never tested for being
  full (`ikd_Tree.h:216`), the cache of deleted points, calls that FAST_LIO does not make,
  and the end of the rebuild thread.
- `last_lidar_end_time_` of `ImuProcess` is never initialised (`IMU_Processing.hpp:78`): the
  model starts it with any value, and no property speaks of the first propagation.
- Contents of points, filters, formats, wording.
