------------------------ MODULE DriverPipelineProofs ------------------------
(***************************************************************************)
(* For any number of lidars and any queue size: the semaphore of a stream   *)
(* never counts more than one, and no packet is stranded by a lost wake-up. *)
(***************************************************************************)
EXTENDS DriverPipeline, Integers, TLAPS

(* Somebody will still look at the queue of lidar l: it is empty, or was    *)
(* passed over; or a signal is pending; or the storing thread has yet to    *)
(* test the semaphore for it; or the polling thread has not passed it in    *)
(* its round; or the node is stopping.                                      *)
Covered(s, l) ==
  \/ used[s][l] = 0
  \/ l \in skipped[s]
  \/ count[s] > 0
  \/ target[s] = l /\ ppc[s] \in {"empty?", "count?", "signal"}
  \/ cpc[s] \in {"lidar", "outer", "inner"} /\ index[s] <= l
  \/ request_exit

StreamInv(s) ==
  /\ s = "pcd" /\ ppc[s] = "push" => used[s][target[s]] < Capacity
  /\ ppc[s] = "signal" => count[s] = 0
  /\ count[s] <= 1
  /\ cpc[s] \in {"outer", "inner"} => index[s] < NLidar
  /\ \A l \in Lidar : Covered(s, l)

PipelineInv == TypeOK /\ \A s \in Stream : StreamInv(s)

\* What a step of another stream's threads leaves alone.
Untouched(t) ==
  /\ used'[t] = used[t] /\ count'[t] = count[t]
  /\ ppc'[t] = ppc[t] /\ target'[t] = target[t]
  /\ cpc'[t] = cpc[t] /\ index'[t] = index[t] /\ skipped'[t] = skipped[t]

(* Nothing is queued in the initial state.                                  *)
LEMMA PipelineInit == Init => PipelineInv
<1> SUFFICES ASSUME Init PROVE PipelineInv
  OBVIOUS
<1> USE PipelineAssumption
<1>1. TypeOK
  <2>1. 0 \in Lidar /\ 0 \in 0 .. NLidar
    BY DEF Lidar
  <2>2. used \in [Stream -> [Lidar -> Nat]]
    BY DEF Init
  <2>3. \A s \in Stream, l \in Lidar : used[s][l] <= QueueBound(s)
    BY DEF Init, QueueBound
  <2>4. QED
    BY <2>1, <2>2, <2>3 DEF Init, TypeOK
<1>2. ASSUME NEW s \in Stream PROVE StreamInv(s)
  BY DEF Init, StreamInv, Covered, Lidar
<1>3. QED
  BY <1>1, <1>2 DEF PipelineInv

(* The invariant of a stream survives every step that does not touch it.    *)
LEMMA UntouchedStream ==
  ASSUME NEW t \in Stream, StreamInv(t), Untouched(t), request_exit => request_exit'
  PROVE  StreamInv(t)'
  BY DEF StreamInv, Covered, Untouched

(* So a step of stream s preserves the invariant if it preserves that of s. *)
LEMMA OneStream ==
  ASSUME PipelineInv, NEW s \in Stream, TypeOK', StreamInv(s)',
         \A t \in Stream \ {s} : Untouched(t), request_exit' = request_exit
  PROVE  PipelineInv'
<1>1. ASSUME NEW t \in Stream PROVE StreamInv(t)'
  <2>1. CASE t = s
    BY <2>1
  <2>2. CASE t # s
    BY <2>2, UntouchedStream DEF PipelineInv
  <2>3. QED
    BY <2>1, <2>2
<1>2. QED
  BY <1>1 DEF PipelineInv

(* Changing the length of one queue to n.                                   *)
LEMMA ResizeQueue ==
  ASSUME NEW u \in [Stream -> [Lidar -> Nat]],
         NEW s \in Stream, NEW k \in Lidar, NEW n \in Nat,
         NEW v, v = [u EXCEPT ![s][k] = n]
  PROVE  /\ v \in [Stream -> [Lidar -> Nat]]
         /\ v[s][k] = n
         /\ \A l \in Lidar \ {k} : v[s][l] = u[s][l]
         /\ \A t \in Stream \ {s} : v[t] = u[t]
<1>1. v[s] = [u[s] EXCEPT ![k] = n] /\ \A t \in Stream \ {s} : v[t] = u[t]
  OBVIOUS
<1>2. u[s] \in [Lidar -> Nat]
  OBVIOUS
<1>3. v[s] \in [Lidar -> Nat]
  BY <1>1, <1>2
<1>4. v \in [Stream -> [Lidar -> Nat]]
  <2>1. v = [t \in Stream |-> v[t]]
    OBVIOUS
  <2>2. \A t \in Stream : v[t] \in [Lidar -> Nat]
    BY <1>1, <1>3
  <2>3. QED
    BY <2>1, <2>2
<1>5. QED
  BY <1>1, <1>2, <1>4

(* The steps of the storing thread.                                         *)
LEMMA StoreKeeps ==
  ASSUME PipelineInv, NEW s \in Stream, NEW l \in Lidar, Store(s, l)
  PROVE  PipelineInv'
<1> USE PipelineAssumption DEF Lidar
<1>1. TypeOK'
  BY DEF Store, polling, leaving, PipelineInv, TypeOK, QueueBound
<1>2. StreamInv(s)'
  BY DEF Store, polling, leaving, PipelineInv, StreamInv, Covered, TypeOK
<1>3. \A t \in Stream \ {s} : Untouched(t)
  BY DEF Store, polling, leaving, PipelineInv, TypeOK, Untouched
<1>4. QED
  BY <1>1, <1>2, <1>3, OneStream DEF Store, leaving

LEMMA TestFullKeeps ==
  ASSUME PipelineInv, NEW s \in Stream, TestFull(s)
  PROVE  PipelineInv'
<1> USE PipelineAssumption DEF Lidar
<1>1. TypeOK'
  BY DEF TestFull, polling, leaving, PipelineInv, TypeOK, QueueBound
<1>2. StreamInv(s)'
  <2>1. used[s][target[s]] \in Nat /\ Capacity \in Nat
    BY DEF PipelineInv, TypeOK
  <2>2. s = "pcd" /\ ppc'[s] = "push" => used'[s][target'[s]] < Capacity
    BY <2>1 DEF TestFull, PipelineInv, TypeOK
  <2>3. ppc'[s] # "signal" /\ count'[s] <= 1
        /\ (cpc'[s] \in {"outer", "inner"} => index'[s] < NLidar)
    BY DEF TestFull, polling, PipelineInv, StreamInv, TypeOK
  <2>4. \A l \in Lidar : Covered(s, l)'
    BY DEF TestFull, polling, leaving, PipelineInv, StreamInv, Covered, TypeOK
  <2>5. QED
    BY <2>2, <2>3, <2>4 DEF StreamInv
<1>3. \A t \in Stream \ {s} : Untouched(t)
  BY DEF TestFull, polling, leaving, PipelineInv, TypeOK, Untouched
<1>4. QED
  BY <1>1, <1>2, <1>3, OneStream DEF TestFull, leaving

LEMMA PushKeeps ==
  ASSUME PipelineInv, NEW s \in Stream, Push(s)
  PROVE  PipelineInv'
<1> USE PipelineAssumption DEF Lidar
<1>1. TypeOK'
  <2> DEFINE k == target[s]
             n == used[s][k] + 1
  <2>1. k \in Lidar /\ n \in Nat /\ used \in [Stream -> [Lidar -> Nat]]
    BY DEF PipelineInv, TypeOK
  <2>2. used' = [used EXCEPT ![s][k] = n]
    BY DEF Push
  <2>3. n <= QueueBound(s)
    <3>1. s = "pcd" \/ s = "imu"
      BY DEF AllStreams
    <3>2. used[s][k] \in Nat
      BY <2>1
    <3>3. QED
      BY <3>1, <3>2 DEF Push, PipelineInv, StreamInv, QueueBound
  <2> HIDE DEF n
  <2>4. used' \in [Stream -> [Lidar -> Nat]]
    BY <2>1, <2>2, ResizeQueue
  <2>5. \A t \in Stream, l \in Lidar : used'[t][l] <= QueueBound(t)
    <3>1. used'[s][k] = n /\ (\A l \in Lidar \ {k} : used'[s][l] = used[s][l])
          /\ (\A t \in Stream \ {s} : used'[t] = used[t])
      BY <2>1, <2>2, ResizeQueue
    <3>2. QED
      BY <3>1, <2>3 DEF PipelineInv, TypeOK
  <2>6. QED
    BY <2>4, <2>5 DEF Push, polling, leaving, PipelineInv, TypeOK, QueueBound
<1>2. StreamInv(s)'
  BY DEF Push, polling, leaving, PipelineInv, StreamInv, Covered, TypeOK
<1>3. \A t \in Stream \ {s} : Untouched(t)
  BY DEF Push, polling, leaving, PipelineInv, TypeOK, Untouched
<1>4. QED
  BY <1>1, <1>2, <1>3, OneStream DEF Push, leaving

LEMMA TestEmptyKeeps ==
  ASSUME PipelineInv, NEW s \in Stream, TestEmpty(s)
  PROVE  PipelineInv'
<1> USE PipelineAssumption DEF Lidar
<1>1. TypeOK'
  BY DEF TestEmpty, polling, leaving, PipelineInv, TypeOK, QueueBound
<1>2. StreamInv(s)'
  BY DEF TestEmpty, polling, leaving, PipelineInv, StreamInv, Covered, TypeOK
<1>3. \A t \in Stream \ {s} : Untouched(t)
  BY DEF TestEmpty, polling, leaving, PipelineInv, TypeOK, Untouched
<1>4. QED
  BY <1>1, <1>2, <1>3, OneStream DEF TestEmpty, leaving

LEMMA TestCountKeeps ==
  ASSUME PipelineInv, NEW s \in Stream, TestCount(s)
  PROVE  PipelineInv'
<1> USE PipelineAssumption DEF Lidar
<1>1. TypeOK'
  BY DEF TestCount, polling, leaving, PipelineInv, TypeOK, QueueBound
<1>2. StreamInv(s)'
  BY DEF TestCount, polling, leaving, PipelineInv, StreamInv, Covered, TypeOK
<1>3. \A t \in Stream \ {s} : Untouched(t)
  BY DEF TestCount, polling, leaving, PipelineInv, TypeOK, Untouched
<1>4. QED
  BY <1>1, <1>2, <1>3, OneStream DEF TestCount, leaving

LEMMA SignalKeeps ==
  ASSUME PipelineInv, NEW s \in Stream, Signal(s)
  PROVE  PipelineInv'
<1> USE PipelineAssumption DEF Lidar
<1>1. TypeOK'
  <2>1. count' \in [Stream -> Nat]
    BY DEF Signal, PipelineInv, TypeOK
  <2>2. ppc' \in [Stream -> {"idle", "full?", "push", "empty?", "count?", "signal"}]
    BY DEF Signal, PipelineInv, TypeOK
  <2>3. QED
    BY <2>1, <2>2 DEF Signal, polling, leaving, PipelineInv, TypeOK, QueueBound
<1>2. StreamInv(s)'
  BY DEF Signal, polling, leaving, PipelineInv, StreamInv, Covered, TypeOK
<1>3. \A t \in Stream \ {s} : Untouched(t)
  BY DEF Signal, polling, leaving, PipelineInv, TypeOK, Untouched
<1>4. QED
  BY <1>1, <1>2, <1>3, OneStream DEF Signal, leaving

(* The steps of the polling thread.                                         *)
LEMMA TestRequestExitKeeps ==
  ASSUME PipelineInv, NEW s \in Stream, TestRequestExit(s)
  PROVE  PipelineInv'
<1> USE PipelineAssumption DEF Lidar
<1>1. TypeOK'
  BY DEF TestRequestExit, Goto, storing, leaving, PipelineInv, TypeOK, QueueBound
<1>2. StreamInv(s)'
  BY DEF TestRequestExit, Goto, storing, leaving, PipelineInv, StreamInv, Covered, TypeOK
<1>3. \A t \in Stream \ {s} : Untouched(t)
  BY DEF TestRequestExit, Goto, storing, leaving, PipelineInv, TypeOK, Untouched
<1>4. QED
  BY <1>1, <1>2, <1>3, OneStream DEF TestRequestExit, leaving

LEMMA WaitKeeps ==
  ASSUME PipelineInv, NEW s \in Stream, Wait(s)
  PROVE  PipelineInv'
<1> USE PipelineAssumption DEF Lidar
<1>1. TypeOK'
  <2>1. count[s] \in Nat /\ count[s] > 0 /\ 0 \in 0 .. NLidar
    BY DEF Wait, PipelineInv, TypeOK
  <2>2. count[s] - 1 \in Nat
    BY <2>1
  <2>3. count' \in [Stream -> Nat]
    BY <2>2 DEF Wait, PipelineInv, TypeOK
  <2>4. QED
    BY <2>1, <2>3 DEF Wait, Goto, storing, leaving, PipelineInv, TypeOK, QueueBound
<1>2. StreamInv(s)'
  BY DEF Wait, Goto, storing, leaving, PipelineInv, StreamInv, Covered, TypeOK
<1>3. \A t \in Stream \ {s} : Untouched(t)
  BY DEF Wait, Goto, storing, leaving, PipelineInv, TypeOK, Untouched
<1>4. QED
  BY <1>1, <1>2, <1>3, OneStream DEF Wait, leaving

LEMMA SkipLidarKeeps ==
  ASSUME PipelineInv, NEW s \in Stream, SkipLidar(s)
  PROVE  PipelineInv'
<1> USE PipelineAssumption DEF Lidar
<1>1. TypeOK'
  <2>1. index[s] \in 0 .. NLidar /\ index[s] < NLidar
    BY DEF SkipLidar, PipelineInv, TypeOK
  <2>2. index[s] + 1 \in 0 .. NLidar /\ index[s] \in Lidar
    BY <2>1
  <2>3. index' \in [Stream -> 0 .. NLidar]
    BY <2>2 DEF SkipLidar, PipelineInv, TypeOK
  <2>4. skipped' \in [Stream -> SUBSET Lidar]
    BY <2>2 DEF SkipLidar, PipelineInv, TypeOK
  <2>5. QED
    BY <2>3, <2>4 DEF SkipLidar, storing, leaving, PipelineInv, TypeOK, QueueBound
<1>2. StreamInv(s)'
  BY DEF SkipLidar, storing, leaving, PipelineInv, StreamInv, Covered, TypeOK
<1>3. \A t \in Stream \ {s} : Untouched(t)
  BY DEF SkipLidar, storing, leaving, PipelineInv, TypeOK, Untouched
<1>4. QED
  BY <1>1, <1>2, <1>3, OneStream DEF SkipLidar, leaving

LEMMA VisitLidarKeeps ==
  ASSUME PipelineInv, NEW s \in Stream, VisitLidar(s)
  PROVE  PipelineInv'
<1> USE PipelineAssumption DEF Lidar
<1>1. TypeOK'
  BY DEF VisitLidar, Goto, storing, leaving, PipelineInv, TypeOK, QueueBound
<1>2. StreamInv(s)'
  BY DEF VisitLidar, Goto, storing, leaving, PipelineInv, StreamInv, Covered, TypeOK
<1>3. \A t \in Stream \ {s} : Untouched(t)
  BY DEF VisitLidar, Goto, storing, leaving, PipelineInv, TypeOK, Untouched
<1>4. QED
  BY <1>1, <1>2, <1>3, OneStream DEF VisitLidar, leaving

LEMMA NextLidarKeeps ==
  ASSUME PipelineInv, NEW s \in Stream, NextLidar(s)
  PROVE  PipelineInv'
<1> USE PipelineAssumption DEF Lidar
<1>1. TypeOK'
  <2>1. index[s] \in 0 .. NLidar /\ index[s] < NLidar
    BY DEF NextLidar, PipelineInv, StreamInv, TypeOK
  <2>2. index[s] + 1 \in 0 .. NLidar
    BY <2>1
  <2>3. index' \in [Stream -> 0 .. NLidar]
    BY <2>2 DEF NextLidar, PipelineInv, TypeOK
  <2>4. cpc' \in [Stream -> {"exit?", "wait", "lidar", "outer", "inner", "future?", "done"}]
    BY DEF NextLidar, Goto, PipelineInv, TypeOK
  <2>5. QED
    BY <2>3, <2>4 DEF NextLidar, storing, leaving, PipelineInv, TypeOK, QueueBound
<1>2. StreamInv(s)'
  BY DEF NextLidar, Goto, storing, leaving, PipelineInv, StreamInv, Covered, TypeOK
<1>3. \A t \in Stream \ {s} : Untouched(t)
  BY DEF NextLidar, Goto, storing, leaving, PipelineInv, TypeOK, Untouched
<1>4. QED
  BY <1>1, <1>2, <1>3, OneStream DEF NextLidar, leaving

LEMMA EnterPublishKeeps ==
  ASSUME PipelineInv, NEW s \in Stream, EnterPublish(s)
  PROVE  PipelineInv'
<1> USE PipelineAssumption DEF Lidar
<1>1. TypeOK'
  BY DEF EnterPublish, Goto, storing, leaving, PipelineInv, TypeOK, QueueBound
<1>2. StreamInv(s)'
  BY DEF EnterPublish, Goto, storing, leaving, PipelineInv, StreamInv, Covered, TypeOK
<1>3. \A t \in Stream \ {s} : Untouched(t)
  BY DEF EnterPublish, Goto, storing, leaving, PipelineInv, TypeOK, Untouched
<1>4. QED
  BY <1>1, <1>2, <1>3, OneStream DEF EnterPublish, leaving

LEMMA PublishPointsKeeps ==
  ASSUME PipelineInv, NEW s \in Stream, PublishPoints(s)
  PROVE  PipelineInv'
<1> USE PipelineAssumption DEF Lidar
<1>1. TypeOK'
  <2> DEFINE k == index[s]
             n == used[s][k] - 1
  <2>1. k \in Lidar /\ n \in Nat /\ used \in [Stream -> [Lidar -> Nat]]
        /\ n <= used[s][k]
    <3>0. cpc[s] = "inner" /\ StreamInv(s) /\ TypeOK
      BY DEF PublishPoints, PipelineInv
    <3>1. k \in Lidar /\ used \in [Stream -> [Lidar -> Nat]]
      <4>1. cpc[s] \in {"outer", "inner"} => k < NLidar
        BY <3>0 DEF StreamInv
      <4>2. k \in 0 .. NLidar /\ used \in [Stream -> [Lidar -> Nat]]
        BY <3>0 DEF TypeOK
      <4>3. k < NLidar
        BY <3>0, <4>1
      <4>4. k \in Lidar
        BY <4>2, <4>3
      <4>5. QED
        BY <4>2, <4>4
    <3>2. used[s][k] \in Nat /\ used[s][k] > 0
      BY <3>1 DEF PublishPoints
    <3>3. PICK a \in Nat : a = used[s][k] /\ a > 0
      BY <3>2, Zenon
    <3>4. a - 1 \in Nat /\ a - 1 <= a
      BY <3>3
    <3>5. n = a - 1
      BY <3>3, Zenon
    <3>6. QED
      BY <3>1, <3>3, <3>4, <3>5, Zenon
  <2>2. used' = [used EXCEPT ![s][k] = n]
    BY DEF PublishPoints
  <2> HIDE DEF n
  <2>3. used' \in [Stream -> [Lidar -> Nat]]
    BY <2>1, <2>2, ResizeQueue
  <2>4. \A t \in Stream, l \in Lidar : used'[t][l] <= used[t][l]
    <3>1. used'[s][k] = n /\ (\A l \in Lidar \ {k} : used'[s][l] = used[s][l])
          /\ (\A t \in Stream \ {s} : used'[t] = used[t])
      BY <2>1, <2>2, ResizeQueue
    <3>2. TAKE t \in Stream, l \in Lidar
    <3>3. used[t][l] \in Nat /\ (t # s => used'[t][l] = used[t][l])
      BY <3>1, <2>1
    <3>4. CASE t = s
      <4>1. used'[s][l] <= used[s][l]
        BY <3>1, <3>3, <3>4, <2>1
      <4>2. QED
        BY <4>1, <3>4
    <3>5. QED
      BY <3>3, <3>4
  <2>5. \A t \in Stream, l \in Lidar : used'[t][l] <= QueueBound(t)
    <3>1. TAKE t \in Stream, l \in Lidar
    <3>2. used'[t][l] \in Nat /\ used[t][l] \in Nat /\ QueueBound(t) \in Nat
      BY <2>1, <2>3 DEF QueueBound
    <3>3. used'[t][l] <= used[t][l] /\ used[t][l] <= QueueBound(t)
      BY <2>4 DEF PipelineInv, TypeOK
    <3>4. QED
      BY <3>2, <3>3
  <2>6. QED
    BY <2>3, <2>5 DEF PublishPoints, storing, polling, leaving, PipelineInv, TypeOK, QueueBound
<1>2. StreamInv(s)'
  BY DEF PublishPoints, storing, polling, leaving, PipelineInv, StreamInv, Covered, TypeOK
<1>3. \A t \in Stream \ {s} : Untouched(t)
  BY DEF PublishPoints, storing, polling, leaving, PipelineInv, TypeOK, Untouched
<1>4. QED
  BY <1>1, <1>2, <1>3, OneStream DEF PublishPoints, leaving

LEMMA LeavePublishKeeps ==
  ASSUME PipelineInv, NEW s \in Stream, LeavePublish(s)
  PROVE  PipelineInv'
<1> USE PipelineAssumption DEF Lidar
<1>1. TypeOK'
  BY DEF LeavePublish, Goto, storing, leaving, PipelineInv, TypeOK, QueueBound
<1>2. StreamInv(s)'
  BY DEF LeavePublish, Goto, storing, leaving, PipelineInv, StreamInv, Covered, TypeOK
<1>3. \A t \in Stream \ {s} : Untouched(t)
  BY DEF LeavePublish, Goto, storing, leaving, PipelineInv, TypeOK, Untouched
<1>4. QED
  BY <1>1, <1>2, <1>3, OneStream DEF LeavePublish, leaving

LEMMA PublishNothingKeeps ==
  ASSUME PipelineInv, NEW s \in Stream, PublishNothing(s)
  PROVE  PipelineInv'
<1> USE PipelineAssumption DEF Lidar
<1>1. TypeOK'
  BY DEF PublishNothing, Goto, storing, leaving, PipelineInv, TypeOK, QueueBound
<1>2. StreamInv(s)'
  BY DEF PublishNothing, Goto, storing, leaving, PipelineInv, StreamInv, Covered, TypeOK
<1>3. \A t \in Stream \ {s} : Untouched(t)
  BY DEF PublishNothing, Goto, storing, leaving, PipelineInv, TypeOK, Untouched
<1>4. QED
  BY <1>1, <1>2, <1>3, OneStream DEF PublishNothing, leaving

LEMMA PublishImuDataKeeps ==
  ASSUME PipelineInv, NEW s \in Stream, PublishImuData(s)
  PROVE  PipelineInv'
<1> USE PipelineAssumption DEF Lidar
<1>1. TypeOK'
  <2> DEFINE k == index[s]
             n == used[s][k] - 1
  <2>1. k \in Lidar /\ n \in Nat /\ used \in [Stream -> [Lidar -> Nat]]
        /\ n <= used[s][k]
    <3>0. cpc[s] = "outer" /\ StreamInv(s) /\ TypeOK
      BY DEF PublishImuData, PipelineInv
    <3>1. k \in Lidar /\ used \in [Stream -> [Lidar -> Nat]]
      <4>1. cpc[s] \in {"outer", "inner"} => k < NLidar
        BY <3>0 DEF StreamInv
      <4>2. k \in 0 .. NLidar /\ used \in [Stream -> [Lidar -> Nat]]
        BY <3>0 DEF TypeOK
      <4>3. k < NLidar
        BY <3>0, <4>1
      <4>4. k \in Lidar
        BY <4>2, <4>3
      <4>5. QED
        BY <4>2, <4>4
    <3>2. used[s][k] \in Nat /\ used[s][k] > 0
      BY <3>1 DEF PublishImuData
    <3>3. PICK a \in Nat : a = used[s][k] /\ a > 0
      BY <3>2, Zenon
    <3>4. a - 1 \in Nat /\ a - 1 <= a
      BY <3>3
    <3>5. n = a - 1
      BY <3>3, Zenon
    <3>6. QED
      BY <3>1, <3>3, <3>4, <3>5, Zenon
  <2>2. used' = [used EXCEPT ![s][k] = n]
    BY DEF PublishImuData
  <2> HIDE DEF n
  <2>3. used' \in [Stream -> [Lidar -> Nat]]
    BY <2>1, <2>2, ResizeQueue
  <2>4. \A t \in Stream, l \in Lidar : used'[t][l] <= used[t][l]
    <3>1. used'[s][k] = n /\ (\A l \in Lidar \ {k} : used'[s][l] = used[s][l])
          /\ (\A t \in Stream \ {s} : used'[t] = used[t])
      BY <2>1, <2>2, ResizeQueue
    <3>2. TAKE t \in Stream, l \in Lidar
    <3>3. used[t][l] \in Nat /\ (t # s => used'[t][l] = used[t][l])
      BY <3>1, <2>1
    <3>4. CASE t = s
      <4>1. used'[s][l] <= used[s][l]
        BY <3>1, <3>3, <3>4, <2>1
      <4>2. QED
        BY <4>1, <3>4
    <3>5. QED
      BY <3>3, <3>4
  <2>5. \A t \in Stream, l \in Lidar : used'[t][l] <= QueueBound(t)
    <3>1. TAKE t \in Stream, l \in Lidar
    <3>2. used'[t][l] \in Nat /\ used[t][l] \in Nat /\ QueueBound(t) \in Nat
      BY <2>1, <2>3 DEF QueueBound
    <3>3. used'[t][l] <= used[t][l] /\ used[t][l] <= QueueBound(t)
      BY <2>4 DEF PipelineInv, TypeOK
    <3>4. QED
      BY <3>2, <3>3
  <2>6. QED
    BY <2>3, <2>5 DEF PublishImuData, storing, polling, leaving, PipelineInv, TypeOK, QueueBound
<1>2. StreamInv(s)'
  BY DEF PublishImuData, storing, polling, leaving, PipelineInv, StreamInv, Covered, TypeOK
<1>3. \A t \in Stream \ {s} : Untouched(t)
  BY DEF PublishImuData, storing, polling, leaving, PipelineInv, TypeOK, Untouched
<1>4. QED
  BY <1>1, <1>2, <1>3, OneStream DEF PublishImuData, leaving

LEMMA FinishRoundKeeps ==
  ASSUME PipelineInv, NEW s \in Stream, FinishRound(s)
  PROVE  PipelineInv'
<1> USE PipelineAssumption DEF Lidar
<1>1. TypeOK'
  BY DEF FinishRound, Goto, storing, leaving, PipelineInv, TypeOK, QueueBound
<1>2. StreamInv(s)'
  BY DEF FinishRound, Goto, storing, leaving, PipelineInv, StreamInv, Covered, TypeOK
<1>3. \A t \in Stream \ {s} : Untouched(t)
  BY DEF FinishRound, Goto, storing, leaving, PipelineInv, TypeOK, Untouched
<1>4. QED
  BY <1>1, <1>2, <1>3, OneStream DEF FinishRound, leaving

LEMMA TestFutureKeeps ==
  ASSUME PipelineInv, NEW s \in Stream, TestFuture(s)
  PROVE  PipelineInv'
<1> USE PipelineAssumption DEF Lidar
<1>1. TypeOK'
  BY DEF TestFuture, Goto, storing, leaving, PipelineInv, TypeOK, QueueBound
<1>2. StreamInv(s)'
  BY DEF TestFuture, Goto, storing, leaving, PipelineInv, StreamInv, Covered, TypeOK
<1>3. \A t \in Stream \ {s} : Untouched(t)
  BY DEF TestFuture, Goto, storing, leaving, PipelineInv, TypeOK, Untouched
<1>4. QED
  BY <1>1, <1>2, <1>3, OneStream DEF TestFuture, leaving

(* Every step preserves the invariant.                                      *)
LEMMA PipelineNext == PipelineInv /\ [Next]_vars => PipelineInv'
<1> SUFFICES ASSUME PipelineInv, [Next]_vars PROVE PipelineInv'
  OBVIOUS
<1>a. ASSUME TypeOK', \A t \in Stream : Untouched(t), request_exit => request_exit'
      PROVE  PipelineInv'
  BY <1>a, UntouchedStream DEF PipelineInv
<1>1. CASE UNCHANGED vars
  BY <1>1, <1>a DEF vars, storing, polling, leaving, PipelineInv, TypeOK, Untouched
<1>2. ASSUME NEW l \in Lidar, StartSampling(l) PROVE PipelineInv'
  BY <1>2, <1>a DEF StartSampling, storing, polling, leaving, PipelineInv, TypeOK, Untouched
<1>3. CASE RequestExit
  BY <1>3, <1>a DEF RequestExit, storing, polling, PipelineInv, TypeOK, Untouched
<1>4. CASE SetExitSignal
  BY <1>4, <1>a DEF SetExitSignal, storing, polling, PipelineInv, TypeOK, Untouched
<1>5. CASE Join
  BY <1>5, <1>a DEF Join, storing, polling, PipelineInv, TypeOK, Untouched
<1>6. ASSUME NEW s \in Stream, NEW l \in Lidar, Store(s, l) PROVE PipelineInv'
  BY <1>6, StoreKeeps
<1>7. ASSUME NEW s \in Stream, StoringStep(s) PROVE PipelineInv'
  BY <1>7, TestFullKeeps, PushKeeps, TestEmptyKeeps, TestCountKeeps, SignalKeeps
  DEF StoringStep
<1>8. ASSUME NEW s \in Stream, PollingStep(s) PROVE PipelineInv'
  BY <1>8, TestRequestExitKeeps, WaitKeeps, SkipLidarKeeps, VisitLidarKeeps,
     NextLidarKeeps, EnterPublishKeeps, PublishPointsKeeps, LeavePublishKeeps,
     PublishNothingKeeps, PublishImuDataKeeps, FinishRoundKeeps, TestFutureKeeps
  DEF PollingStep
<1>9. QED
  BY <1>1, <1>2, <1>3, <1>4, <1>5, <1>6, <1>7, <1>8 DEF Next

(* The invariant holds in every reachable state.                            *)
THEOREM PipelineInvariant == Spec => []PipelineInv
  BY PipelineInit, PipelineNext, PTL DEF Spec

(* The variables keep their types; no queue exceeds its bound.              *)
THEOREM PipelineTypeCorrect == Spec => []TypeOK
<1>1. PipelineInv => TypeOK
  BY DEF PipelineInv
<1>2. QED
  BY <1>1, PipelineInvariant, PTL

(* At most one wake-up is outstanding, although the count is read unlocked. *)
THEOREM AtMostOneSignal == Spec => []SemaphoreBound
<1>1. PipelineInv => SemaphoreBound
  BY DEF PipelineInv, StreamInv, SemaphoreBound
<1>2. QED
  BY <1>1, PipelineInvariant, PTL

(* A blocked polling thread has left behind only packets of lidars that     *)
(* were not Sampling when it passed them.                                   *)
THEOREM NoLostWakeup == Spec => []NoStrandedPacket
<1>1. PipelineInv => NoStrandedPacket
  BY DEF PipelineInv, StreamInv, Covered, TypeOK, NoStrandedPacket, Blocked
<1>2. QED
  BY <1>1, PipelineInvariant, PTL
=============================================================================
