---------------------------- MODULE CmdVelBridge ----------------------------
(***************************************************************************)
(* From a recognised phrase to requests to the robot: handle_asr_result of  *)
(* voice_teleop/node.py publishes a Twist on /cmd_vel unless the last one   *)
(* is too recent, and cmd_vel_control_updown.cpp turns Twists into sport    *)
(* requests in a callback that sleeps for three seconds after a stand-up    *)
(* while its subscription keeps the last Depth messages.  Other publishers  *)
(* on /cmd_vel, which may also ask to stand up or down, take turns with the *)
(* voice.                                                                   *)
(*                                                                          *)
(* A Twist is represented by what becomes of it and by its number in the    *)
(* order of publication.                                                    *)
(***************************************************************************)
EXTENDS Integers, Sequences, SequencesExt

CONSTANTS Cooldown, \* COOLDOWN_SEC
          Sleep,    \* the three seconds of the callback
          Depth,    \* history depth of the subscription: 10
          MaxTime,  \* bound of the model on the clock
          MaxTwist  \* bound of the model on the Twists published

ASSUME BridgeAssumption ==
  /\ {Cooldown, Sleep, MaxTime, MaxTwist} \subseteq Nat
  /\ Depth \in Nat \ {0}

VARIABLES
  now,
  last_action_ts, \* of the voice; long ago at first
  count,          \* Twists published by anybody
  queue,          \* Twists waiting in the subscription
  asleep,         \* the stand-up the callback sleeps for, or 0
  wake_ts,        \* when it may wake
  requests        \* requests sent

bridgeVars == <<now, last_action_ts, count, queue, asleep, wake_ts, requests>>

\* What a Twist asks for: linear.z of at least 0.1 up or down, or a move.
Kind == {"move", "up", "down"}
Api == {"Move", "StandUp", "StandDown", "BalanceStand"}

BridgeInit ==
  /\ now = 0
  /\ last_action_ts = -Cooldown
  /\ count = 0
  /\ queue = <<>>
  /\ asleep = 0
  /\ wake_ts = 0
  /\ requests = <<>>

Tick ==
  /\ now < MaxTime
  /\ now' = now + 1
  /\ UNCHANGED <<last_action_ts, count, queue, asleep, wake_ts, requests>>

\* A faulty subscription, which refuses what comes when it is full.
DeliverUnlessFull(kind) ==
  queue' = IF Len(queue) < Depth THEN Append(queue, [kind |-> kind, n |-> count + 1])
                                 ELSE queue

\* The middleware keeps the last Depth messages.
Deliver(kind) ==
  queue' = Append(IF Len(queue) < Depth THEN queue ELSE Tail(queue),
                  [kind |-> kind, n |-> count + 1])

Publish(kind) ==
  /\ count < MaxTwist
  /\ count' = count + 1
  /\ Deliver(kind)

\* handle_asr_result with a command; one that comes too early, or a phrase
\* without a command, changes nothing.
Command ==
  /\ now - last_action_ts >= Cooldown
  /\ Publish("move")
  /\ last_action_ts' = now
  /\ UNCHANGED <<now, asleep, wake_ts, requests>>

OtherPublisher ==
  /\ \E kind \in Kind : Publish(kind)
  /\ UNCHANGED <<now, last_action_ts, asleep, wake_ts, requests>>

Request(api, n) == requests' = Append(requests, [api |-> api, n |-> n])

\* A faulty callback, which leaves the sleep to a timer and returns.
CallbackWithTimer ==
  /\ queue # <<>>
  /\ queue' = Tail(queue)
  /\ CASE Head(queue).kind = "move" -> Request("Move", Head(queue).n)
       [] Head(queue).kind = "down" -> Request("StandDown", Head(queue).n)
       [] Head(queue).kind = "up"   -> Request("StandUp", Head(queue).n)
  /\ asleep' = IF Head(queue).kind = "up" THEN Head(queue).n ELSE asleep
  /\ wake_ts' = IF Head(queue).kind = "up" THEN now + Sleep ELSE wake_ts
  /\ UNCHANGED <<now, last_action_ts, count>>

\* cmdVelCallback, up to its sleep if there is one.
Callback ==
  /\ asleep = 0
  /\ queue # <<>>
  /\ queue' = Tail(queue)
  /\ CASE Head(queue).kind = "move" -> Request("Move", Head(queue).n)
       [] Head(queue).kind = "down" -> Request("StandDown", Head(queue).n)
       [] Head(queue).kind = "up"   -> Request("StandUp", Head(queue).n)
  /\ asleep' = IF Head(queue).kind = "up" THEN Head(queue).n ELSE 0
  /\ wake_ts' = IF Head(queue).kind = "up" THEN now + Sleep ELSE wake_ts
  /\ UNCHANGED <<now, last_action_ts, count>>

\* The sleep is over.
BalanceStand ==
  /\ asleep # 0
  /\ now >= wake_ts
  /\ Request("BalanceStand", asleep)
  /\ asleep' = 0
  /\ UNCHANGED <<now, last_action_ts, count, queue, wake_ts>>

BridgeNext == Tick \/ Command \/ OtherPublisher \/ Callback \/ BalanceStand

BridgeSpec == BridgeInit /\ [][BridgeNext]_bridgeVars

-----------------------------------------------------------------------------
(* A stand-up is followed by BalanceStand before anything else is asked of    *)
(* the robot, however many Twists pile up during the sleep.                  *)
BalanceFollowsStand ==
  \A i \in DOMAIN requests :
    requests[i].api = "StandUp" =>
      IF i < Len(requests)
      THEN requests[i + 1] = [api |-> "BalanceStand", n |-> requests[i].n]
      ELSE asleep = requests[i].n

(* The newest Twist is never the one that is lost, and the robot gets what   *)
(* it gets in the order of publication: when nothing waits, its last request *)
(* is that of the newest Twist, in particular of a stop.                     *)
NewestPrevails ==
  /\ \A i \in 1 .. Len(requests) - 1 : requests[i].n <= requests[i + 1].n
  /\ count > 0 => IF queue # <<>> THEN Last(queue).n = count
                                  ELSE requests # <<>> /\ Last(requests).n = count
=============================================================================
