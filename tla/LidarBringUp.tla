---------------------------- MODULE LidarBringUp ----------------------------
(***************************************************************************)
(* How a configured lidar is found, classified and configured until its     *)
(* points are published: discovery in Livox-SDK2 (device_manager.cpp,       *)
(* general_command_handler.cpp, mid360_command_handler.cpp), the start of   *)
(* the driver (lds_lidar.cpp) and its configuration handshake               *)
(* (call_back/livox_lidar_callback.cpp).                                    *)
(*                                                                          *)
(* A lidar answers a broadcast probe; the SDK asks it once for its firmware *)
(* type, and then writes the host configuration at every further answer     *)
(* until one write is acknowledged.  That acknowledgement, or the news that *)
(* the lidar is in loader mode, makes the SDK tell the driver, once, if the *)
(* driver has registered its callback by then.  The driver sends its        *)
(* settings; the lidar is Sampling once the last of them is acknowledged.   *)
(*                                                                          *)
(* Acknowledgements are handled by one IO thread, "cmd", probes by another, *)
(* "det".  What becomes of a single command is the subject of CommandTable: *)
(* here it has one outcome, Success or Timeout.  Every sendto succeeds.     *)
(***************************************************************************)
EXTENDS Naturals

CONSTANTS Lidar,    \* the lidars of the configuration file
          Loader,   \* those whose firmware is in loader mode
          Wanted,   \* Wanted[l]: those the configuration file sets for l
          Other,    \* the commands without a bit: "attitude", "work_mode", "imu"
          MaxRetry, \* 10: failures of the firmware query, over all lidars
          MaxWrite  \* bound of the model on the writes under way to one lidar

\* The settings that have a bit in set_bits, in the order they are sent.
Rank == [pcl_data_type |-> 1, pattern_mode |-> 2, blind_spot |-> 3, dual_emit |-> 4]
Setting == DOMAIN Rank

ASSUME BringUpAssumption ==
  /\ "free" \notin Lidar  \* what config_mutex is when no lidar's settings are being sent
  /\ Loader \subseteq Lidar
  /\ Wanted \in [Lidar -> SUBSET Setting]
  /\ Other \subseteq {"attitude", "work_mode", "imu"}
  /\ Other # {}          \* what every lidar is sent, whatever the file sets
  /\ MaxRetry \in Nat
  /\ MaxWrite \in Nat \ {0}

VARIABLES
  main,          \* where InitLivoxLidar is
  found,         \* devices_ of GeneralCommandHandler
  fw_type,       \* "unknown" until is_get_loader_mode; then "app" or "loader"
  querying,      \* lidars whose firmware query is under way
  retries,       \* the static count of QueryFwTypeCallback
  writing,       \* writing[l]: writes of the host configuration under way
  configured,    \* devices_ of Mid360CommandHandler; is_update_cfg
  is_callback,   \* lidars the SDK has announced
  caller,        \* caller[l]: the thread in LidarInfoChangeCallback for l
  config_mutex,  \* the lidar whose settings are being sent under the lock
  todo,          \* settings it has still to send
  set_bits,
  cmd,           \* cmd[l][k]: what became of command k of lidar l
  connect_state

discovery == <<found, fw_type, querying, retries>>
announcing == <<configured, is_callback>>
settings == <<config_mutex, todo, set_bits, cmd, connect_state>>
vars == <<main, discovery, writing, announcing, caller, settings>>

Key == Setting \cup Other

Init ==
  /\ main = "fill"
  /\ found = {}
  /\ fw_type = [l \in Lidar |-> "unknown"]
  /\ querying = {}
  /\ retries = 0
  /\ writing = [l \in Lidar |-> 0]
  /\ configured = {}
  /\ is_callback = {}
  /\ caller = [l \in Lidar |-> "none"]
  /\ config_mutex = "free"
  /\ todo = {}
  /\ set_bits = [l \in Lidar |-> {}]
  /\ cmd = [l \in Lidar |-> [k \in Key |-> "none"]]
  /\ connect_state = [l \in Lidar |-> "off"]

-----------------------------------------------------------------------------
(* InitLivoxLidar: the SDK, which was started first, already detects. *)

FillDevices ==
  /\ main = "fill"
  /\ main' = "register"
  /\ UNCHANGED <<discovery, writing, announcing, caller, settings>>

SetInfoChangeCallback ==
  /\ main = "register"
  /\ main' = "registered"
  /\ UNCHANGED <<discovery, writing, announcing, caller, settings>>

-----------------------------------------------------------------------------
(* Discovery, in the SDK. *)

\* A faulty LivoxLidarInfoChange, which does not set is_callback.
TestOnly(l, thread) ==
  /\ caller' = IF l \notin is_callback /\ main = "registered"
               THEN [caller EXCEPT ![l] = thread] ELSE caller
  /\ UNCHANGED is_callback

\* Only the first announcement of a lidar reaches the driver, and it is gone
\* if no callback is registered.
LivoxLidarInfoChange(l, thread) ==
  /\ is_callback' = is_callback \cup {l}
  /\ caller' = IF l \notin is_callback /\ main = "registered"
               THEN [caller EXCEPT ![l] = thread] ELSE caller

ThreadFree(thread) == \A l \in Lidar : caller[l] # thread

\* HandleDetectionData for a lidar that is not in devices_.
FirstDetection(l) ==
  /\ ThreadFree("det")
  /\ l \notin found
  /\ found' = found \cup {l}
  /\ querying' = querying \cup {l}
  /\ UNCHANGED <<main, fw_type, retries, writing, announcing, caller, settings>>

\* A faulty firmware query, which counts one failure too many.
QueryFwTypeFailsLate(l) ==
  /\ l \in querying
  /\ IF retries > MaxRetry + 1
     THEN /\ retries' = 0
          /\ querying' = querying \ {l}
          /\ fw_type' = [fw_type EXCEPT ![l] = "app"]
     ELSE /\ retries' = retries + 1
          /\ UNCHANGED <<querying, fw_type>>
  /\ UNCHANGED <<main, found, writing, announcing, caller, settings>>

\* QueryFwTypeCallback with no answer or a bad one: asked again, or taken for
\* an application after too many failures.
QueryFwTypeFails(l) ==
  /\ l \in querying
  /\ IF retries > MaxRetry
     THEN /\ retries' = 0
          /\ querying' = querying \ {l}
          /\ fw_type' = [fw_type EXCEPT ![l] = "app"]
     ELSE /\ retries' = retries + 1
          /\ UNCHANGED <<querying, fw_type>>
  /\ UNCHANGED <<main, found, writing, announcing, caller, settings>>

\* With too many failures counted, of any lidar, the answer is not looked at.
QueryFwTypeSucceeds(l) ==
  /\ ThreadFree("cmd")
  /\ l \in querying
  /\ retries' = 0
  /\ querying' = querying \ {l}
  /\ fw_type' = [fw_type EXCEPT ![l] =
                   IF retries <= MaxRetry /\ l \in Loader THEN "loader" ELSE "app"]
  /\ UNCHANGED <<main, found, writing, announcing, caller, settings>>

UpdateLidarCfg(l) ==
  /\ ThreadFree("det")
  /\ l \in found
  /\ fw_type[l] = "app"
  /\ l \notin configured
  /\ writing[l] < MaxWrite
  /\ writing' = [writing EXCEPT ![l] = @ + 1]
  /\ UNCHANGED <<main, discovery, announcing, caller, settings>>

\* UpdateLidarCallback: success
UpdateLidarSucceeds(l) ==
  /\ ThreadFree("cmd")
  /\ writing[l] > 0
  /\ writing' = [writing EXCEPT ![l] = @ - 1]
  /\ configured' = configured \cup {l}
  /\ LivoxLidarInfoChange(l, "cmd")
  /\ UNCHANGED <<main, discovery, settings>>

\* UpdateLidarCallback: Timeout, or rejected
UpdateLidarFails(l) ==
  /\ writing[l] > 0
  /\ writing' = [writing EXCEPT ![l] = @ - 1]
  /\ UNCHANGED <<main, discovery, announcing, caller, settings>>

\* A probe answered by a lidar in loader mode announces it without a write.
AnnounceLoader(l) ==
  /\ ThreadFree("det")
  /\ l \in found
  /\ fw_type[l] = "loader"
  /\ configured' = configured \cup {l}
  /\ LivoxLidarInfoChange(l, "det")
  /\ UNCHANGED <<main, discovery, writing, settings>>

-----------------------------------------------------------------------------
(* The driver's handshake. *)

\* LidarInfoChangeCallback takes config_mutex_ and keeps it until the last
\* setting is sent.
LockConfig(l) ==
  /\ caller[l] # "none"
  /\ config_mutex = "free"
  /\ config_mutex' = l
  /\ todo' = Wanted[l]
  /\ UNCHANGED <<main, discovery, writing, announcing, caller, set_bits, cmd, connect_state>>

SendSetting(l) ==
  /\ config_mutex = l
  /\ \E k \in todo :
       /\ \A j \in todo : Rank[k] <= Rank[j]
       /\ todo' = todo \ {k}
       /\ set_bits' = [set_bits EXCEPT ![l] = @ \cup {k}]
       /\ cmd' = [cmd EXCEPT ![l][k] = "sent"]
  /\ UNCHANGED <<main, discovery, writing, announcing, caller, config_mutex, connect_state>>

\* The lock is released; the install attitude, the work mode and the IMU follow.
UnlockConfig(l) ==
  /\ config_mutex = l
  /\ todo = {}
  /\ config_mutex' = "free"
  /\ caller' = [caller EXCEPT ![l] = "none"]
  /\ cmd' = [cmd EXCEPT ![l] = [k \in Key |-> IF k \in Other THEN "sent" ELSE cmd[l][k]]]
  /\ UNCHANGED <<main, discovery, writing, announcing, todo, set_bits, connect_state>>

\* A faulty acknowledgement, handled without the lock.
SettingDoneUnlocked(l, k) ==
  /\ ThreadFree("cmd")
  /\ cmd[l][k] = "sent"
  /\ cmd' = [cmd EXCEPT ![l][k] = "acked"]
  /\ set_bits' = [set_bits EXCEPT ![l] = @ \ {k}]
  /\ connect_state' = IF set_bits[l] \subseteq {k}
                      THEN [connect_state EXCEPT ![l] = "sampling"] ELSE connect_state
  /\ UNCHANGED <<main, discovery, writing, announcing, caller, config_mutex, todo>>

\* Set...Callback with status Success, whatever ret_code says.
SettingDone(l, k) ==
  /\ ThreadFree("cmd")
  /\ config_mutex = "free"
  /\ cmd[l][k] = "sent"
  /\ cmd' = [cmd EXCEPT ![l][k] = "acked"]
  /\ set_bits' = [set_bits EXCEPT ![l] = @ \ {k}]
  /\ connect_state' = IF set_bits[l] \subseteq {k}
                      THEN [connect_state EXCEPT ![l] = "sampling"] ELSE connect_state
  /\ UNCHANGED <<main, discovery, writing, announcing, caller, config_mutex, todo>>

OtherDone(l, k) ==
  /\ ThreadFree("cmd")
  /\ cmd[l][k] = "sent"
  /\ cmd' = [cmd EXCEPT ![l][k] = "acked"]
  /\ UNCHANGED <<main, discovery, writing, announcing, caller,
                 config_mutex, todo, set_bits, connect_state>>

\* The SDK gives the command up; a later acknowledgement is dropped.
Expire(l, k) ==
  /\ cmd[l][k] = "sent"
  /\ cmd' = [cmd EXCEPT ![l][k] = "expired"]
  /\ UNCHANGED <<main, discovery, writing, announcing, caller,
                 config_mutex, todo, set_bits, connect_state>>

\* A faulty callback, which treats Timeout as a failure.
TimeoutGivesUp(l, k) ==
  /\ cmd[l][k] = "expired"
  /\ cmd' = [cmd EXCEPT ![l][k] = "given_up"]
  /\ UNCHANGED <<main, discovery, writing, announcing, caller,
                 config_mutex, todo, set_bits, connect_state>>

\* The callback with status Timeout sends again; for the IMU it returns early,
\* for a timeout comes without a response.
Timeout(l, k) ==
  /\ cmd[l][k] = "expired"
  /\ cmd' = [cmd EXCEPT ![l][k] = IF k = "imu" THEN "given_up" ELSE "sent"]
  /\ UNCHANGED <<main, discovery, writing, announcing, caller,
                 config_mutex, todo, set_bits, connect_state>>

-----------------------------------------------------------------------------
Probed(l) == FirstDetection(l) \/ UpdateLidarCfg(l) \/ AnnounceLoader(l)
Queried(l) == QueryFwTypeFails(l) \/ QueryFwTypeSucceeds(l)
Configure(l) == LockConfig(l) \/ SendSetting(l) \/ UnlockConfig(l)

Next == \/ FillDevices
        \/ SetInfoChangeCallback
        \/ \E l \in Lidar :
             \/ Probed(l)
             \/ Queried(l)
             \/ UpdateLidarSucceeds(l)
             \/ UpdateLidarFails(l)
             \/ Configure(l)
             \/ \E k \in Setting : SettingDone(l, k)
             \/ \E k \in Other : OtherDone(l, k)
             \/ \E k \in Key : Expire(l, k) \/ Timeout(l, k)

\* Threads run, every query and write gets an outcome, a lidar that is present
\* answers probes, and answers keep getting through a lossy network.
Fairness ==
  /\ WF_vars(FillDevices \/ SetInfoChangeCallback)
  /\ \A l \in Lidar :
       /\ SF_vars(Probed(l))
       /\ WF_vars(Queried(l))
       /\ SF_vars(UpdateLidarSucceeds(l))
       /\ WF_vars(Configure(l))
       /\ \A k \in Wanted[l] : SF_vars(SettingDone(l, k))
       /\ \A k \in Other \ {"imu"} : SF_vars(OtherDone(l, k))
       /\ \A k \in Wanted[l] \cup Other : WF_vars(Timeout(l, k))

Spec == Init /\ [][Next]_vars
FairSpec == Spec /\ Fairness

-----------------------------------------------------------------------------
(* The variables stay in their types.                                       *)
TypeOK ==
  /\ main \in {"fill", "register", "registered"}
  /\ found \subseteq Lidar
  /\ fw_type \in [Lidar -> {"unknown", "app", "loader"}]
  /\ querying \subseteq found
  /\ retries \in 0 .. MaxRetry + 1
  /\ writing \in [Lidar -> 0 .. MaxWrite]
  /\ configured \subseteq Lidar
  /\ is_callback \subseteq configured
  /\ caller \in [Lidar -> {"none", "cmd", "det"}]
  /\ config_mutex \in Lidar \cup {"free"}
  /\ todo \subseteq Setting
  /\ set_bits \in [Lidar -> SUBSET Setting]
  /\ cmd \in [Lidar -> [Key -> {"none", "sent", "expired", "acked", "given_up"}]]
  /\ connect_state \in [Lidar -> {"off", "sampling"}]

(* A lidar is Sampling, and its points are published, only when all its      *)
(* settings are acknowledged, although the first acknowledgement may arrive  *)
(* while the later settings are still being sent by another thread.          *)
SamplingMeansConfirmed ==
  \A l \in Lidar : connect_state[l] = "sampling" =>
    \A k \in Wanted[l] : cmd[l][k] = "acked"

Told(l) == caller[l] # "none" \/ \E k \in Key : cmd[l][k] # "none"

Missed(l) == l \in is_callback /\ ~Told(l)

(* A lidar is announced once: the driver configures it once, however often   *)
(* it answers probes and however many writes of the host configuration are   *)
(* acknowledged, and the announcement is lost only while the driver has not  *)
(* yet registered its callback.                                              *)
AnnouncedOnce ==
  [][\A l \in Lidar :
       /\ caller'[l] # caller[l] /\ caller'[l] # "none" => ~Told(l)
       /\ Missed(l)' /\ ~Missed(l) => main # "registered"]_vars

(* A lidar for which the file sets something becomes Sampling through lost    *)
(* answers, and its install attitude and work mode get through, unless its   *)
(* announcement came before the driver had registered: nothing announces it  *)
(* again.  Only the IMU is not retried.                                      *)
LidarStreams ==
  \A l \in Lidar :
    /\ Wanted[l] # {} => <>(connect_state[l] = "sampling" \/ Missed(l))
    /\ \A k \in Other \ {"imu"} : <>(cmd[l][k] = "acked" \/ Missed(l))
=============================================================================
