----------------------------- MODULE PubHandler -----------------------------
(***************************************************************************)
(* How livox_ros_driver2 assembles the SDK's packets into frames            *)
(* (comm/pub_handler.cpp).  An SDK thread appends raw packets to a queue    *)
(* and keeps, in one flag for all lidars, whether the last packet of any of *)
(* them carried synchronised time.  A thread of the handler takes packets   *)
(* from the queue, adds their points to those of their lidar and, as the    *)
(* flag says at that moment, publishes this lidar when its time is at a     *)
(* multiple of the interval, or all lidars when the host's clock says an    *)
(* interval has passed.                                                     *)
(*                                                                          *)
(* Time is counted in ticks, TicksPerMs of them to a millisecond.  A packet *)
(* has one point per tick.  The network may lose packets.                   *)
(***************************************************************************)
EXTENDS Integers, Sequences, SequencesExt, FiniteSets

CONSTANTS Setups,  \* the lidars, their packets, the interval and the network
          TimeMod, \* 2^64
          MaxQueue \* bound of the model on raw_packet_queue_

\* A packet takes less than a millisecond on every supported lidar: the code
\* relies on one ending in every millisecond.
ASSUME PubHandlerAssumption ==
  /\ \A s \in Setups :
       /\ IsFiniteSet(s.lidars) /\ s.lidars # {}
       /\ s.timeTypes \subseteq BOOLEAN     \* TRUE: with synchronised time
       /\ s.ticksPerMs \in Nat \ {0}        \* kRatioOfMsToNs
       /\ s.packetTicks \in 1 .. s.ticksPerMs
       /\ s.interval \in Nat               \* publish_interval_, 1 / publish_freq
       /\ s.interval >= s.ticksPerMs        \* that the node limits to 100 Hz
       /\ s.phases \subseteq 0 .. s.offset + s.interval - 1
       /\ s.phases # {}                     \* when a lidar may send its first packet
       /\ s.offset \in Nat                  \* of a synchronised clock, behind the host's
       /\ s.lossy \in BOOLEAN
       /\ s.maxTime \in Nat                 \* bound of the model on the host's clock
       /\ TimeMod > s.maxTime + s.packetTicks
  /\ TimeMod \in Nat
  /\ MaxQueue \in Nat \ {0}

\* A clock that every packet is stamped with was set before the first of them.
ASSUME ClockAssumption ==
  \A s \in Setups : s.timeTypes = {TRUE} => \A x \in s.phases : x >= s.offset

VARIABLES
  setup,               \* the setup at work
  now,                 \* the host's clock
  next,                \* next[l]: when lidar l sends its next packet
  number,              \* number[l]: points of lidar l received so far
  lost,                \* lost[l]: milliseconds next to a boundary that lost a packet
  listening,           \* lidar_listen_id_ > 0
  is_timestamp_sync_,
  raw_packet_queue_,
  is_quit_,
  main,                \* where Uninit is
  pc,                  \* where RawDataProcess is
  id,                  \* the lidar of the packet it has taken
  points_clouds_,      \* of each LidarPubHandler
  points_,             \* the buffers that frames point into
  frame_,              \* base_time of the lidars in the frame
  last_pub_time_,      \* -1 until it is first set
  published            \* published[l]: the last point of l handed over

sdk == <<setup, now, next, number, lost>>
shared == <<listening, is_timestamp_sync_, raw_packet_queue_, is_quit_, main>>
assembly == <<points_clouds_, points_, frame_, last_pub_time_, published>>
vars == <<sdk, shared, pc, id, assembly>>

Lidar == setup.lidars
TicksPerMs == setup.ticksPerMs
PacketTicks == setup.packetTicks

\* SetPointCloudConfig.  The milliseconds are rounded down, the tolerance is not.
publish_interval_ == setup.interval
publish_interval_ms_ == publish_interval_ \div TicksPerMs

\* A faulty tolerance: the deviation of a millisecond is forgotten.
ToleranceStrict == publish_interval_

Tolerance == publish_interval_ - TicksPerMs

NoFrame == [l \in {} |-> 0]

Init ==
  /\ setup \in Setups
  /\ now = 0
  /\ next \in [Lidar -> setup.phases]
  /\ number = [l \in Lidar |-> 0]
  /\ lost = [l \in Lidar |-> {}]
  /\ listening = TRUE
  /\ is_timestamp_sync_ = FALSE
  /\ raw_packet_queue_ = <<>>
  /\ is_quit_ = FALSE
  /\ main = "running"
  /\ pc = "quit?"
  /\ id = CHOOSE l \in Lidar : TRUE
  /\ points_clouds_ = [l \in Lidar |-> <<>>]
  /\ points_ = [l \in Lidar |-> <<>>]
  /\ frame_ = NoFrame
  /\ last_pub_time_ = -1
  /\ published = [l \in Lidar |-> 0]

-----------------------------------------------------------------------------
(* The lidars and the SDK thread. *)

\* A packet arrives, or is lost, before the next tick.
Tick ==
  /\ now < setup.maxTime
  /\ \A l \in Lidar : listening => next[l] + PacketTicks > now
  /\ now' = now + 1
  /\ UNCHANGED <<setup, next, number, lost, shared, pc, id, assembly>>

\* GetEthPacketTimestamp: the lidar's time if it is synchronised, otherwise
\* the host's.
TimeStamp(l, sync) ==
  IF sync THEN (next[l] - setup.offset + TimeMod) % TimeMod ELSE now

\* OnLivoxLidarPointCloudCallback, for a packet of points.
OnPointPacket(l, sync) ==
  /\ listening
  /\ next[l] + PacketTicks <= now
  /\ Len(raw_packet_queue_) < MaxQueue
  /\ is_timestamp_sync_' = sync
  /\ raw_packet_queue_' =
       Append(raw_packet_queue_,
              [handle |-> l,
               points |-> [i \in 1 .. PacketTicks |->
                             [n |-> number[l] + i,
                              offset_time |-> (TimeStamp(l, sync) + i - 1) % TimeMod]]])
  /\ number' = [number EXCEPT ![l] = @ + PacketTicks]
  /\ next' = [next EXCEPT ![l] = @ + PacketTicks]
  /\ UNCHANGED <<setup, now, lost, listening, is_quit_, main, pc, id, assembly>>

\* An IMU packet goes straight to its callback, and sets the flag as well.
OnImuPacket(sync) ==
  /\ listening
  /\ is_timestamp_sync_' = sync
  /\ UNCHANGED <<sdk, listening, raw_packet_queue_, is_quit_, main, pc, id, assembly>>

Millisecond(time) == time \div TicksPerMs
AtBoundary(time) == Millisecond(time) % publish_interval_ms_ = 0

LosePacket(l) ==
  LET last == (TimeStamp(l, TRUE) + PacketTicks - 1) % TimeMod
  IN /\ setup.lossy /\ listening
     /\ next[l] + PacketTicks <= now
     /\ next' = [next EXCEPT ![l] = @ + PacketTicks]
     /\ lost' = IF Millisecond(last) % publish_interval_ms_ \in {0, 1}
                THEN [lost EXCEPT ![l] = @ \cup {Millisecond(last)}] ELSE lost
     /\ UNCHANGED <<setup, now, number, shared, pc, id, assembly>>

-----------------------------------------------------------------------------
(* The thread of the handler: RawDataProcess. *)

TestQuit ==
  /\ pc = "quit?"
  /\ pc' = IF is_quit_ THEN "done" ELSE "pop"
  /\ UNCHANGED <<sdk, shared, id, assembly>>

\* The queue is found empty, and the lock given up for at most 500 ms.
WaitFor ==
  /\ pc = "pop"
  /\ raw_packet_queue_ = <<>>
  /\ pc' = "wait"
  /\ UNCHANGED <<sdk, shared, id, assembly>>

\* A faulty Wake, without the time limit.
WakeNotified ==
  /\ pc = "wait"
  /\ raw_packet_queue_ # <<>>
  /\ pc' = "pop"
  /\ UNCHANGED <<sdk, shared, id, assembly>>

\* Notified or timed out: with the queue still empty, the loop starts anew.
Wake ==
  /\ pc = "wait"
  /\ pc' = IF raw_packet_queue_ = <<>> THEN "quit?" ELSE "pop"
  /\ UNCHANGED <<sdk, shared, id, assembly>>

\* The packet is taken under the lock; its points go to its lidar's handler.
Pop ==
  /\ pc = "pop"
  /\ raw_packet_queue_ # <<>>
  /\ LET packet == Head(raw_packet_queue_)
     IN /\ id' = packet.handle
        /\ points_clouds_' = [points_clouds_ EXCEPT ![packet.handle] = @ \o packet.points]
  /\ raw_packet_queue_' = Tail(raw_packet_queue_)
  /\ pc' = "check"
  /\ UNCHANGED <<sdk, listening, is_timestamp_sync_, is_quit_, main,
                 points_, frame_, last_pub_time_, published>>

GetRecentTimeStamp(l) ==
  IF points_clouds_[l] = <<>> THEN 0 ELSE Last(points_clouds_[l]).offset_time
GetLidarBaseTime(l) ==
  IF points_clouds_[l] = <<>> THEN 0 ELSE Head(points_clouds_[l]).offset_time

\* recent - base, of unsigned type
Span(l) == (GetRecentTimeStamp(l) - GetLidarBaseTime(l) + TimeMod) % TimeMod

Due(l) ==
  /\ Millisecond(GetRecentTimeStamp(l)) # 0
  /\ AtBoundary(GetRecentTimeStamp(l))
  /\ Span(l) >= Tolerance

\* A faulty Collect: the buffer is swapped, with the points of the last frame
\* still in it.
CollectUncleared(ls) ==
  /\ points_' = [l \in Lidar |-> IF l \in ls THEN points_clouds_[l] ELSE points_[l]]
  /\ points_clouds_' = [l \in Lidar |-> IF l \in ls THEN points_[l] ELSE points_clouds_[l]]
  /\ frame_' = [l \in ls |-> GetLidarBaseTime(l)]

\* The buffer of every lidar in ls is cleared and swapped with its points.
Collect(ls) ==
  /\ points_' = [l \in Lidar |-> IF l \in ls THEN points_clouds_[l] ELSE points_[l]]
  /\ points_clouds_' = [l \in Lidar |-> IF l \in ls THEN <<>> ELSE points_clouds_[l]]
  /\ frame_' = [l \in ls |-> GetLidarBaseTime(l)]

\* CheckTimer with time synchronisation: this lidar alone.
CheckSync ==
  /\ pc = "check"
  /\ is_timestamp_sync_
  /\ IF Due(id) THEN Collect({id}) /\ pc' = "publish"
                ELSE UNCHANGED <<points_, points_clouds_, frame_>> /\ pc' = "quit?"
  /\ UNCHANGED <<sdk, shared, id, last_pub_time_, published>>

\* CheckTimer without: the first time, it only takes the time.
FirstCheck ==
  /\ pc = "check"
  /\ ~is_timestamp_sync_
  /\ last_pub_time_ = -1
  /\ last_pub_time_' = now
  /\ pc' = "quit?"
  /\ UNCHANGED <<sdk, shared, id, points_clouds_, points_, frame_, published>>

WithPoints == {l \in Lidar : points_clouds_[l] # <<>>}

CheckClock ==
  /\ pc = "check"
  /\ ~is_timestamp_sync_
  /\ last_pub_time_ # -1
  /\ IF now - last_pub_time_ >= publish_interval_
     THEN /\ last_pub_time_' = last_pub_time_ + publish_interval_
          /\ Collect(WithPoints)
          /\ pc' = "publish"
     ELSE UNCHANGED <<last_pub_time_, points_, points_clouds_, frame_>> /\ pc' = "quit?"
  /\ UNCHANGED <<sdk, shared, id, published>>

\* A faulty PublishPointCloud, after which lidar_num is not reset.
PublishWithoutReset ==
  /\ pc = "publish"
  /\ published' = [l \in Lidar |-> IF l \in DOMAIN frame_ THEN Last(points_[l]).n
                                                          ELSE published[l]]
  /\ pc' = "quit?"
  /\ UNCHANGED <<sdk, shared, id, points_clouds_, points_, frame_, last_pub_time_>>

\* points_callback_ copies the frame into the queues; lidar_num is reset.
PublishPointCloud ==
  /\ pc = "publish"
  /\ published' = [l \in Lidar |-> IF l \in DOMAIN frame_ THEN Last(points_[l]).n
                                                          ELSE published[l]]
  /\ frame_' = NoFrame
  /\ pc' = "quit?"
  /\ UNCHANGED <<sdk, shared, id, points_clouds_, points_, last_pub_time_>>

-----------------------------------------------------------------------------
(* Uninit *)

RemoveObserver ==
  /\ main = "running"
  /\ listening' = FALSE
  /\ main' = "removed"
  /\ UNCHANGED <<sdk, is_timestamp_sync_, raw_packet_queue_, is_quit_, pc, id, assembly>>

RequestExit ==
  /\ main = "removed"
  /\ is_quit_' = TRUE
  /\ main' = "join"
  /\ UNCHANGED <<sdk, listening, is_timestamp_sync_, raw_packet_queue_, pc, id, assembly>>

Join ==
  /\ main = "join"
  /\ pc = "done"
  /\ main' = "joined"
  /\ UNCHANGED <<sdk, listening, is_timestamp_sync_, raw_packet_queue_, is_quit_,
                 pc, id, assembly>>

-----------------------------------------------------------------------------
RawDataProcess == \/ TestQuit
                  \/ WaitFor
                  \/ Wake
                  \/ Pop
                  \/ CheckSync
                  \/ FirstCheck
                  \/ CheckClock
                  \/ PublishPointCloud

Next == \/ Tick
        \/ \E sync \in setup.timeTypes : \/ \E l \in Lidar : OnPointPacket(l, sync)
                                   \/ OnImuPacket(sync)
        \/ \E l \in Lidar : LosePacket(l)
        \/ RawDataProcess
        \/ RemoveObserver
        \/ RequestExit
        \/ Join

\* Threads are scheduled and a wait ends in time; nothing makes a lidar send
\* or the program end.
Fairness == WF_vars(RawDataProcess) /\ WF_vars(RequestExit \/ Join)

Spec == Init /\ [][Next]_vars
FairSpec == Spec /\ Fairness

-----------------------------------------------------------------------------
(* The variables stay in their types; a frame is being filled only until it  *)
(* is handed over.                                                           *)
TypeOK ==
  /\ setup \in Setups
  /\ now \in 0 .. setup.maxTime
  /\ next \in [Lidar -> Nat]
  /\ number \in [Lidar -> Nat]
  /\ lost \in [Lidar -> SUBSET Nat]
  /\ {listening, is_timestamp_sync_, is_quit_} \subseteq BOOLEAN
  /\ Len(raw_packet_queue_) <= MaxQueue
  /\ main \in {"running", "removed", "join", "joined"}
  /\ pc \in {"quit?", "pop", "wait", "check", "publish", "done"}
  /\ id \in Lidar
  /\ DOMAIN frame_ \subseteq Lidar
  /\ pc # "publish" => frame_ = NoFrame
  /\ last_pub_time_ \in -1 .. now
  /\ published \in [Lidar -> Nat]

Numbers(ps) == [i \in DOMAIN ps |-> ps[i].n]
Consecutive(first, k) == [i \in 1 .. k |-> first + i]

\* The points of l received and not yet handed over, oldest first.
InFrame(l) == IF l \in DOMAIN frame_ THEN points_[l] ELSE <<>>
Queued(l) ==
  FlattenSeq([i \in DOMAIN raw_packet_queue_ |->
                IF raw_packet_queue_[i].handle = l THEN raw_packet_queue_[i].points
                                                   ELSE <<>>])
Waiting(l) == InFrame(l) \o points_clouds_[l] \o Queued(l)

(* Every point received is handed over once and in order, or still waits:    *)
(* none is lost, doubled or reordered by the swapping of buffers, by frames  *)
(* that leave a lidar out, or by time synchronisation coming and going.      *)
EveryPointOnce ==
  \A l \in Lidar :
    Numbers(Waiting(l)) = Consecutive(published[l], number[l] - published[l])

\* The losses near the points of l: since the boundary before the first of them.
LostNear(l) ==
  LET first == Millisecond(GetLidarBaseTime(l))
  IN {ms \in lost[l] : /\ ms >= first - (first % publish_interval_ms_)
                       /\ ms <= Millisecond(GetRecentTimeStamp(l))}

\* The ticks between two boundaries, fewer than the interval if that is not a
\* whole number of milliseconds.
Period == publish_interval_ms_ * TicksPerMs

\* A frame that began close to a boundary may then be too short at the next one.
Skipped == IF publish_interval_ = Period THEN 0 ELSE 1

(* With synchronised time, once the first frame of a lidar is out, every      *)
(* boundary yields a frame unless a packet was lost next to it; an interval   *)
(* that is not a whole number of milliseconds skips at most one more: the     *)
(* points that wait never span more than one or two periods and a             *)
(* millisecond, and a period more for every such loss.                        *)
SpanBounded ==
  setup.timeTypes = {TRUE} =>
    \A l \in Lidar : points_clouds_[l] # <<>> /\ published[l] > 0 =>
      Span(l) < (1 + Skipped + Cardinality(LostNear(l))) * Period + TicksPerMs

(* README: publish_freq sets the frequency of point cloud publish.  With       *)
(* synchronised time and no packet lost, a frame is then out before its points *)
(* span an interval and the tolerated millisecond.  The code does not keep this. *)
FramePerInterval ==
  setup.timeTypes = {TRUE} /\ ~setup.lossy =>
    \A l \in Lidar : points_clouds_[l] # <<>> /\ published[l] > 0 =>
      Span(l) < publish_interval_ + TicksPerMs

(* Uninit returns, although nobody notifies the waiting thread.              *)
UninitReturns == (main = "join") ~> (main = "joined")
=============================================================================
