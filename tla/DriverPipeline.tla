--------------------------- MODULE DriverPipeline ---------------------------
(***************************************************************************)
(* How packets get from the SDK's threads to the ROS topics in              *)
(* livox_ros_driver2, and how the driver node shuts down.                   *)
(*                                                                          *)
(* For each stream, "pcd" (point clouds) and "imu", one thread stores       *)
(* packets into per-lidar queues (lds.cpp) and one polling thread publishes *)
(* them (lddc.cpp, livox_ros_driver2.cpp).  A counting semaphore            *)
(* (comm/semaphore.cpp) is signalled only if its count, read without its    *)
(* lock, is not positive, so that the two threads race on the count.  The   *)
(* destructor of the node (driver_node.cpp) asks both polling threads to    *)
(* stop and joins them.  A lidar is served once the last acknowledgement of *)
(* its configuration has made it Sampling.                                  *)
(*                                                                          *)
(* A queue is represented by the number of its packets: its contents and    *)
(* order are the subject of LidarDataQueue.                                 *)
(***************************************************************************)
EXTENDS Naturals

CONSTANTS Stream,    \* the streams that are polled: a subset of AllStreams
          NLidar,    \* lidar_count_; lidars are polled in index order
          Capacity,  \* size of a point-cloud queue
          MaxImu,    \* bound of the model on an IMU queue, a std::list
          Format,    \* the values of the parameter xfer_format
          ROS2       \* the node is built with BUILDING_ROS2

AllStreams == {"pcd", "imu"}

\* The parameter is an int that nothing validates.
AllFormats == {"pointcloud2", "custom", "pcl", "other"}

ASSUME PipelineAssumption ==
  /\ Stream \subseteq AllStreams
  /\ NLidar \in Nat \ {0}
  /\ Capacity \in Nat \ {0}
  /\ MaxImu \in Nat \ {0}
  /\ Format \subseteq AllFormats
  /\ ROS2 \in BOOLEAN

Lidar == 0 .. NLidar - 1

VARIABLES
  used,          \* used[s][l]: packets waiting in the queue of lidar l
  count,         \* count[s]: Semaphore::count_
  connect_state, \* of each lidar: "off" or "sampling"
  transfer_format, \* Lddc::transfer_format_, set once from the parameter
  request_exit,  \* Lds::request_exit_
  exit_signal,   \* DriverNode::exit_signal_ has its value
  ppc,           \* ppc[s]: where the storing thread is in PushLidarData or
                 \*   StorageImuData
  target,        \* target[s]: the lidar it is storing for
  cpc,           \* cpc[s]: where the polling thread is
  index,         \* index[s]: the lidar it is at in its round
  skipped,       \* skipped[s]: the lidars it last passed over as not Sampling
  main           \* where the destructor of the node is

storing == <<ppc, target>>
polling == <<cpc, index, skipped>>
leaving == <<request_exit, exit_signal, main>>
vars == <<used, count, connect_state, transfer_format, storing, polling, leaving>>

QueueBound(s) == IF s = "pcd" THEN Capacity ELSE MaxImu

Init ==
  /\ used = [s \in Stream |-> [l \in Lidar |-> 0]]
  /\ count = [s \in Stream |-> 0]
  /\ connect_state = [l \in Lidar |-> "off"]
  /\ transfer_format \in Format
  /\ request_exit = FALSE
  /\ exit_signal = FALSE
  /\ ppc = [s \in Stream |-> "idle"]
  /\ target = [s \in Stream |-> 0]
  /\ cpc = [s \in Stream |-> "exit?"]
  /\ index = [s \in Stream |-> 0]
  /\ skipped = [s \in Stream |-> {}]
  /\ main = "running"

-----------------------------------------------------------------------------
(* The storing thread of stream s. *)

\* StoragePointData and StorageImuData call for one lidar after another, in
\* any order; the thread does nothing to the queues in between.
Store(s, l) ==
  /\ ppc[s] = "idle"
  /\ target' = [target EXCEPT ![s] = l]
  /\ ppc' = [ppc EXCEPT ![s] = IF s = "pcd" THEN "full?" ELSE "push"]
  /\ UNCHANGED <<used, count, connect_state, transfer_format, polling, leaving>>

\* A faulty TestFull, off by one.
TestFullLate(s) ==
  /\ ppc[s] = "full?"
  /\ ppc' = [ppc EXCEPT ![s] = IF used[s][target[s]] > Capacity
                               THEN "count?" ELSE "push"]
  /\ UNCHANGED <<used, count, connect_state, transfer_format, target, polling, leaving>>

\* A full point-cloud queue drops the packet but still asks for a signal.
TestFull(s) ==
  /\ ppc[s] = "full?"
  /\ ppc' = [ppc EXCEPT ![s] = IF used[s][target[s]] >= Capacity
                               THEN "count?" ELSE "push"]
  /\ UNCHANGED <<used, count, connect_state, transfer_format, target, polling, leaving>>

Push(s) ==
  /\ ppc[s] = "push"
  /\ s = "imu" => used[s][target[s]] < MaxImu
  /\ used' = [used EXCEPT ![s][target[s]] = @ + 1]
  /\ ppc' = [ppc EXCEPT ![s] = "empty?"]
  /\ UNCHANGED <<count, connect_state, transfer_format, target, polling, leaving>>

TestEmpty(s) ==
  /\ ppc[s] = "empty?"
  /\ ppc' = [ppc EXCEPT ![s] = IF used[s][target[s]] = 0 THEN "idle" ELSE "count?"]
  /\ UNCHANGED <<used, count, connect_state, transfer_format, target, polling, leaving>>

\* A faulty TestCount, which signals for every packet.
TestNothing(s) ==
  /\ ppc[s] = "count?"
  /\ ppc' = [ppc EXCEPT ![s] = "signal"]
  /\ UNCHANGED <<used, count, connect_state, transfer_format, target, polling, leaving>>

TestCount(s) ==
  /\ ppc[s] = "count?"
  /\ ppc' = [ppc EXCEPT ![s] = IF count[s] > 0 THEN "idle" ELSE "signal"]
  /\ UNCHANGED <<used, count, connect_state, transfer_format, target, polling, leaving>>

Signal(s) ==
  /\ ppc[s] = "signal"
  /\ count' = [count EXCEPT ![s] = @ + 1]
  /\ ppc' = [ppc EXCEPT ![s] = "idle"]
  /\ UNCHANGED <<used, connect_state, transfer_format, target, polling, leaving>>

-----------------------------------------------------------------------------
(* The polling thread of stream s: DistributePointCloudData or               *)
(* DistributeImuData, called in a loop.                                      *)

Goto(s, pc) == cpc' = [cpc EXCEPT ![s] = pc]

TestRequestExit(s) ==
  /\ cpc[s] = "exit?"
  /\ Goto(s, IF request_exit THEN "future?" ELSE "wait")
  /\ UNCHANGED <<used, count, connect_state, transfer_format, storing, index, skipped, leaving>>

\* Semaphore::Wait, then the start of a round over the lidars.
Wait(s) ==
  /\ cpc[s] = "wait"
  /\ count[s] > 0
  /\ count' = [count EXCEPT ![s] = @ - 1]
  /\ index' = [index EXCEPT ![s] = 0]
  /\ Goto(s, "lidar")
  /\ UNCHANGED <<used, connect_state, transfer_format, storing, skipped, leaving>>

\* A lidar whose configuration is not acknowledged keeps its packets.
SkipLidar(s) ==
  /\ cpc[s] = "lidar"
  /\ index[s] < NLidar
  /\ connect_state[index[s]] # "sampling"
  /\ index' = [index EXCEPT ![s] = @ + 1]
  /\ skipped' = [skipped EXCEPT ![s] = @ \cup {index[s]}]
  /\ UNCHANGED <<used, count, connect_state, transfer_format, storing, cpc, leaving>>

VisitLidar(s) ==
  /\ cpc[s] = "lidar"
  /\ index[s] < NLidar
  /\ connect_state[index[s]] = "sampling"
  /\ skipped' = [skipped EXCEPT ![s] = @ \ {index[s]}]
  /\ Goto(s, "outer")
  /\ UNCHANGED <<used, count, connect_state, transfer_format, storing, index, leaving>>

\* The outer loop of PollingLidar...Data ends.
NextLidar(s) ==
  /\ cpc[s] = "outer"
  /\ request_exit \/ used[s][index[s]] = 0
  /\ index' = [index EXCEPT ![s] = @ + 1]
  /\ Goto(s, "lidar")
  /\ UNCHANGED <<used, count, connect_state, transfer_format, storing, skipped, leaving>>

\* Whether the publisher of the transfer format takes packets out of the
\* queue.  PublishPclMsg returns at once under ROS 2, and for a format that
\* no branch tests no publisher is called.
Published == \/ transfer_format \in {"pointcloud2", "custom"}
             \/ transfer_format = "pcl" /\ ~ROS2

\* The outer loop goes on: the publisher of the format is called, if it has
\* one.
EnterPublish(s) ==
  /\ s = "pcd"
  /\ cpc[s] = "outer"
  /\ ~request_exit
  /\ used[s][index[s]] > 0
  /\ Goto(s, "inner")
  /\ UNCHANGED <<used, count, connect_state, transfer_format, storing, index, skipped, leaving>>

\* Publishers loop themselves, without looking at request_exit.
PublishPoints(s) ==
  /\ cpc[s] = "inner"
  /\ Published
  /\ used[s][index[s]] > 0
  /\ used' = [used EXCEPT ![s][index[s]] = @ - 1]
  /\ UNCHANGED <<count, connect_state, transfer_format, storing, polling, leaving>>

LeavePublish(s) ==
  /\ cpc[s] = "inner"
  /\ Published
  /\ used[s][index[s]] = 0
  /\ Goto(s, "outer")
  /\ UNCHANGED <<used, count, connect_state, transfer_format, storing, index, skipped, leaving>>

\* Nothing is popped, so that the outer loop spins until the node is asked
\* to stop.
PublishNothing(s) ==
  /\ cpc[s] = "inner"
  /\ ~Published
  /\ Goto(s, "outer")
  /\ UNCHANGED <<used, count, connect_state, transfer_format, storing, index, skipped, leaving>>

PublishImuData(s) ==
  /\ s = "imu"
  /\ cpc[s] = "outer"
  /\ ~request_exit
  /\ used[s][index[s]] > 0
  /\ used' = [used EXCEPT ![s][index[s]] = @ - 1]
  /\ UNCHANGED <<count, connect_state, transfer_format, storing, polling, leaving>>

\* A faulty FinishRound, which takes every signal received during the round
\* as served by it.
FinishRoundResets(s) ==
  /\ cpc[s] = "lidar"
  /\ index[s] = NLidar
  /\ count' = [count EXCEPT ![s] = 0]
  /\ Goto(s, "future?")
  /\ UNCHANGED <<used, connect_state, transfer_format, storing, index, skipped, leaving>>

FinishRound(s) ==
  /\ cpc[s] = "lidar"
  /\ index[s] = NLidar
  /\ Goto(s, "future?")
  /\ UNCHANGED <<used, count, connect_state, transfer_format, storing, index, skipped, leaving>>

\* PointCloudDataPollThread and ImuDataPollThread: future_.wait_for(0)
TestFuture(s) ==
  /\ cpc[s] = "future?"
  /\ Goto(s, IF exit_signal THEN "done" ELSE "exit?")
  /\ UNCHANGED <<used, count, connect_state, transfer_format, storing, index, skipped, leaving>>

-----------------------------------------------------------------------------
\* The acknowledgement that clears the last of the lidar's set_bits.
StartSampling(l) ==
  /\ connect_state[l] = "off"
  /\ connect_state' = [connect_state EXCEPT ![l] = "sampling"]
  /\ UNCHANGED <<used, count, transfer_format, storing, polling, leaving>>

(* ~DriverNode *)

\* A faulty destructor, without exit_signal_.set_value().
RequestExitOnly ==
  /\ main = "running"
  /\ request_exit' = TRUE
  /\ main' = "join"
  /\ UNCHANGED <<used, count, connect_state, transfer_format, storing, polling, exit_signal>>

RequestExit ==
  /\ main = "running"
  /\ request_exit' = TRUE
  /\ main' = "set_value"
  /\ UNCHANGED <<used, count, connect_state, transfer_format, storing, polling, exit_signal>>

SetExitSignal ==
  /\ main = "set_value"
  /\ exit_signal' = TRUE
  /\ main' = "join"
  /\ UNCHANGED <<used, count, connect_state, transfer_format, storing, polling, request_exit>>

\* Both threads are joined, one after the other.
Join ==
  /\ main = "join"
  /\ \A s \in Stream : cpc[s] = "done"
  /\ main' = "joined"
  /\ UNCHANGED <<used, count, connect_state, transfer_format, storing, polling, request_exit, exit_signal>>

-----------------------------------------------------------------------------
StoringStep(s) == TestFull(s) \/ Push(s) \/ TestEmpty(s) \/ TestCount(s) \/ Signal(s)

PollingStep(s) == \/ TestRequestExit(s)
                  \/ Wait(s)
                  \/ SkipLidar(s)
                  \/ VisitLidar(s)
                  \/ NextLidar(s)
                  \/ EnterPublish(s)
                  \/ PublishPoints(s)
                  \/ LeavePublish(s)
                  \/ PublishNothing(s)
                  \/ PublishImuData(s)
                  \/ FinishRound(s)
                  \/ TestFuture(s)

Next == \/ \E s \in Stream : \/ \E l \in Lidar : Store(s, l)
                             \/ StoringStep(s)
                             \/ PollingStep(s)
        \/ \E l \in Lidar : StartSampling(l)
        \/ RequestExit
        \/ SetExitSignal
        \/ Join

\* Every thread that can move is scheduled.  Nothing makes a lidar send, a
\* lidar answer, or the node shut down.
Fairness == /\ \A s \in Stream : WF_vars(StoringStep(s)) /\ WF_vars(PollingStep(s))
            /\ WF_vars(SetExitSignal \/ Join)

Spec == Init /\ [][Next]_vars
FairSpec == Spec /\ Fairness

-----------------------------------------------------------------------------
(* The variables stay in their types, and a queue within its bound.         *)
TypeOK ==
  /\ used \in [Stream -> [Lidar -> Nat]]
  /\ \A s \in Stream, l \in Lidar : used[s][l] <= QueueBound(s)
  /\ count \in [Stream -> Nat]
  /\ connect_state \in [Lidar -> {"off", "sampling"}]
  /\ transfer_format \in Format
  /\ request_exit \in BOOLEAN
  /\ exit_signal \in BOOLEAN
  /\ ppc \in [Stream -> {"idle", "full?", "push", "empty?", "count?", "signal"}]
  /\ target \in [Stream -> Lidar]
  /\ cpc \in [Stream -> {"exit?", "wait", "lidar", "outer", "inner", "future?", "done"}]
  /\ index \in [Stream -> 0 .. NLidar]
  /\ skipped \in [Stream -> SUBSET Lidar]
  /\ main \in {"running", "set_value", "join", "joined"}

(* The unlocked read of the count before Signal never lets wake-ups pile    *)
(* up: at most one is outstanding.                                          *)
SemaphoreBound == \A s \in Stream : count[s] <= 1

Blocked(s) == cpc[s] = "wait" /\ count[s] = 0

(* No lost wake-up: when the polling thread is blocked and the storing      *)
(* thread has finished, the only packets left belong to lidars that were    *)
(* not yet Sampling when the thread last passed them.                       *)
NoStrandedPacket ==
  \A s \in Stream :
    Blocked(s) /\ ppc[s] = "idle" /\ ~request_exit =>
      \A l \in Lidar : used[s][l] > 0 => l \in skipped[s]

Quiet == \A s \in Stream : ppc[s] = "idle"

(* When no more packets are stored, every queue the thread is not skipping  *)
(* is emptied, unless the node is asked to stop.  The point-cloud queues    *)
(* are excepted when the transfer format has no publisher: the thread then  *)
(* spins on the first of them it visits.                                    *)
DrainedWhenQuiet ==
  <>[]Quiet =>
    \A s \in Stream, l \in Lidar :
      (used[s][l] > 0 /\ (s = "pcd" => Published))
        ~> (used[s][l] = 0 \/ l \in skipped[s] \/ request_exit)

(* When no more packets are stored, a requested shutdown either completes   *)
(* or is held up by a thread blocked on its semaphore, and by nothing else, *)
(* a thread that spins on a format without a publisher included.  One       *)
(* signal after the request is enough for a blocked thread to leave.        *)
ShutdownOrBlocked ==
  /\ <>[]Quiet => (request_exit ~> (main = "joined" \/ \E s \in Stream : Blocked(s)))
  /\ \A s \in Stream :
       (request_exit /\ cpc[s] = "wait" /\ count[s] > 0) ~> (cpc[s] = "done")
=============================================================================
