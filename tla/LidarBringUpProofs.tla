------------------------- MODULE LidarBringUpProofs -------------------------
(***************************************************************************)
(* Proof, for any lidars, settings and bounds, that a lidar is Sampling     *)
(* only when all its settings are acknowledged, and that it is announced    *)
(* and configured once.                                                     *)
(*                                                                          *)
(* The inductive part (LidarInv) says of each lidar that nothing was sent   *)
(* to it before its announcement nor before its settings are being sent;    *)
(* that while they are, they are those still to send and those with a bit;  *)
(* and that a bit stands for a setting sent and not yet acknowledged.       *)
(***************************************************************************)
EXTENDS LidarBringUp, TLAPS

\* No command was ever sent to the lidar.
Untouched(l) == \A k \in Key : cmd[l][k] = "none"

\* A bit for each setting that is waiting for its acknowledgement.
BitsRight(l) ==
  \A k \in Setting : /\ k \in set_bits[l] <=> cmd[l][k] \in {"sent", "expired"}
                     /\ cmd[l][k] # "given_up"

\* While the lock is held, settings are either still to send or have their bit.
Sending(l) ==
  config_mutex = l =>
    /\ caller[l] # "none"
    /\ todo \cup set_bits[l] = Wanted[l]
    /\ \A k \in todo : cmd[l][k] = "none"

\* Nothing is sent before the callback's turn, and nothing but settings until its end.
CalledFirst(l) ==
  /\ l \notin is_callback => caller[l] = "none" /\ Untouched(l)
  /\ caller[l] # "none" => /\ \A k \in Other : cmd[l][k] = "none"
                           /\ config_mutex # l => Untouched(l)
  /\ caller[l] = "none" => Untouched(l) \/ \A k \in Wanted[l] : cmd[l][k] # "none"

Confirmed(l) ==
  connect_state[l] = "sampling" => \A k \in Wanted[l] : cmd[l][k] = "acked"

LidarInv(l) == BitsRight(l) /\ Sending(l) /\ CalledFirst(l) /\ Confirmed(l)

-----------------------------------------------------------------------------
LEMMA SettingsAre ==
  /\ Setting = {"pcl_data_type", "pattern_mode", "blind_spot", "dual_emit"}
  /\ Setting \cap Other = {} /\ "imu" \notin Setting
<1>1. Setting = {"pcl_data_type", "pattern_mode", "blind_spot", "dual_emit"}
  BY DEF Setting, Rank
<1>. QED
  BY <1>1, BringUpAssumption DEF BringUpAssumption

LEMMA Constants ==
  /\ Other # {} /\ "free" \notin Lidar
  /\ Wanted \in [Lidar -> SUBSET Setting]
  /\ MaxRetry \in Nat /\ MaxWrite \in Nat
  BY BringUpAssumption DEF BringUpAssumption

-----------------------------------------------------------------------------
(* The types. *)

DiscoveryTypes ==
  /\ main \in {"fill", "register", "registered"}
  /\ found \subseteq Lidar
  /\ fw_type \in [Lidar -> {"unknown", "app", "loader"}]
  /\ querying \subseteq found
  /\ retries \in 0 .. MaxRetry + 1
  /\ writing \in [Lidar -> 0 .. MaxWrite]
  /\ configured \subseteq Lidar
  /\ is_callback \subseteq configured
  /\ caller \in [Lidar -> {"none", "cmd", "det"}]

SettingTypes ==
  /\ config_mutex \in Lidar \cup {"free"}
  /\ todo \subseteq Setting
  /\ set_bits \in [Lidar -> SUBSET Setting]
  /\ cmd \in [Lidar -> [Key -> {"none", "sent", "expired", "acked", "given_up"}]]
  /\ connect_state \in [Lidar -> {"off", "sampling"}]

LEMMA TypesSplit == TypeOK <=> DiscoveryTypes /\ SettingTypes
  BY DEF TypeOK, DiscoveryTypes, SettingTypes

LEMMA InitTypes == Init => DiscoveryTypes /\ SettingTypes
<1>. SUFFICES ASSUME Init PROVE DiscoveryTypes /\ SettingTypes
  OBVIOUS
<1>1. DiscoveryTypes
  BY Constants DEF Init, DiscoveryTypes
<1>2. SettingTypes
  BY Constants DEF Init, SettingTypes
<1>. QED
  BY <1>1, <1>2

LEMMA DiscoveryKeeps ==
  ASSUME DiscoveryTypes, SettingTypes, NEW l \in Lidar,
         Probed(l) \/ Queried(l) \/ UpdateLidarSucceeds(l) \/ UpdateLidarFails(l)
  PROVE  DiscoveryTypes'
<1>. USE DEF DiscoveryTypes
<1>1. CASE FirstDetection(l)
  BY <1>1 DEF FirstDetection, announcing, settings
<1>2. CASE QueryFwTypeFails(l)
  BY <1>2, Constants DEF QueryFwTypeFails, announcing, settings
<1>3. CASE QueryFwTypeSucceeds(l)
  BY <1>3, Constants DEF QueryFwTypeSucceeds, announcing, settings
<1>4. CASE UpdateLidarCfg(l)
  BY <1>4, Constants DEF UpdateLidarCfg, discovery, announcing, settings
<1>5. CASE UpdateLidarSucceeds(l)
  BY <1>5, Constants DEF UpdateLidarSucceeds, LivoxLidarInfoChange, discovery, settings
<1>6. CASE UpdateLidarFails(l)
  BY <1>6, Constants DEF UpdateLidarFails, discovery, announcing, settings
<1>7. CASE AnnounceLoader(l)
  BY <1>7 DEF AnnounceLoader, LivoxLidarInfoChange, discovery, settings
<1>. QED
  BY <1>1, <1>2, <1>3, <1>4, <1>5, <1>6, <1>7 DEF Probed, Queried

\* None of them touches a lidar's settings.
LEMMA DiscoveryLeaves ==
  ASSUME NEW l \in Lidar,
         Probed(l) \/ Queried(l) \/ UpdateLidarSucceeds(l) \/ UpdateLidarFails(l)
  PROVE  UNCHANGED settings
BY DEF Probed, Queried, FirstDetection, QueryFwTypeFails, QueryFwTypeSucceeds,
       UpdateLidarCfg, UpdateLidarSucceeds, UpdateLidarFails, AnnounceLoader, settings

LEMMA ConfigureTypes ==
  ASSUME DiscoveryTypes, SettingTypes, NEW l \in Lidar, Configure(l)
  PROVE  DiscoveryTypes' /\ SettingTypes'
<1>1. CASE LockConfig(l)
  <2>1. Wanted[l] \subseteq Setting
    BY Constants
  <2>. QED
    BY <1>1, <2>1 DEF LockConfig, discovery, announcing, DiscoveryTypes, SettingTypes
<1>2. CASE SendSetting(l)
  <2>1. PICK k \in todo :
          /\ todo' = todo \ {k}
          /\ set_bits' = [set_bits EXCEPT ![l] = @ \cup {k}]
          /\ cmd' = [cmd EXCEPT ![l][k] = "sent"]
    BY <1>2 DEF SendSetting
  <2>2. k \in Setting /\ k \in Key
    BY DEF SettingTypes, Key
  <2>. QED
    BY <1>2, <2>1, <2>2
       DEF SendSetting, discovery, announcing, DiscoveryTypes, SettingTypes
<1>3. CASE UnlockConfig(l)
  BY <1>3 DEF UnlockConfig, discovery, announcing, DiscoveryTypes, SettingTypes
<1>. QED
  BY <1>1, <1>2, <1>3 DEF Configure

\* What the acknowledgements, the expiry and the callbacks for it do.
Answered(l) ==
  \/ \E k \in Setting : SettingDone(l, k)
  \/ \E k \in Other : OtherDone(l, k)
  \/ \E k \in Key : Expire(l, k) \/ Timeout(l, k)

LEMMA AnsweredTypes ==
  ASSUME DiscoveryTypes, SettingTypes, NEW l \in Lidar, Answered(l)
  PROVE  DiscoveryTypes' /\ SettingTypes'
<1>1. ASSUME NEW k \in Setting, SettingDone(l, k) PROVE DiscoveryTypes' /\ SettingTypes'
  <2>1. k \in Key
    BY DEF Key
  <2>. QED
    BY <1>1, <2>1 DEF SettingDone, discovery, announcing, DiscoveryTypes, SettingTypes
<1>2. ASSUME NEW k \in Other, OtherDone(l, k) PROVE DiscoveryTypes' /\ SettingTypes'
  BY <1>2 DEF OtherDone, discovery, announcing, DiscoveryTypes, SettingTypes
<1>3. ASSUME NEW k \in Key, Expire(l, k) \/ Timeout(l, k)
      PROVE  DiscoveryTypes' /\ SettingTypes'
  <2>1. PICK what \in {"sent", "expired", "given_up"} : cmd' = [cmd EXCEPT ![l][k] = what]
    BY <1>3 DEF Expire, Timeout
  <2>2. UNCHANGED <<main, found, fw_type, querying, retries, writing, configured,
                    is_callback, caller, config_mutex, todo, set_bits, connect_state>>
    BY <1>3 DEF Expire, Timeout, discovery, announcing
  <2>. QED
    BY <2>1, <2>2 DEF DiscoveryTypes, SettingTypes
<1>. QED
  BY <1>1, <1>2, <1>3 DEF Answered

LEMMA MainLeaves ==
  ASSUME FillDevices \/ SetInfoChangeCallback \/ UNCHANGED vars
  PROVE  UNCHANGED <<found, fw_type, querying, retries, writing, configured, is_callback,
                     caller, config_mutex, todo, set_bits, cmd, connect_state>>
BY DEF FillDevices, SetInfoChangeCallback, vars, discovery, announcing, settings

LEMMA TypesKeep ==
  ASSUME DiscoveryTypes, SettingTypes, [Next]_vars
  PROVE  DiscoveryTypes' /\ SettingTypes'
<1>1. CASE FillDevices \/ SetInfoChangeCallback \/ UNCHANGED vars
  <2>1. main' \in {"fill", "register", "registered"}
    BY <1>1 DEF FillDevices, SetInfoChangeCallback, vars, DiscoveryTypes
  <2>. QED
    BY <1>1, <2>1, MainLeaves DEF DiscoveryTypes, SettingTypes
<1>2. ASSUME NEW l \in Lidar,
             Probed(l) \/ Queried(l) \/ UpdateLidarSucceeds(l) \/ UpdateLidarFails(l)
      PROVE  DiscoveryTypes' /\ SettingTypes'
  <2>1. SettingTypes'
    BY <1>2, DiscoveryLeaves DEF settings, SettingTypes
  <2>. QED
    BY <1>2, <2>1, DiscoveryKeeps
<1>3. ASSUME NEW l \in Lidar, Configure(l) \/ Answered(l)
      PROVE  DiscoveryTypes' /\ SettingTypes'
  BY <1>3, ConfigureTypes, AnsweredTypes
<1>. QED
  BY <1>1, <1>2, <1>3 DEF Next, Answered

\* The variables stay in their types, and the counts of failures and of writes
\* within their bounds (LidarBringUp as a whole).
THEOREM BringUpTypes == Spec => []TypeOK
<1>. DEFINE Types == DiscoveryTypes /\ SettingTypes
<1>1. Init => Types
  BY InitTypes
<1>2. Types /\ [Next]_vars => Types'
  BY TypesKeep
<1>3. Types => TypeOK
  BY TypesSplit
<1>. HIDE DEF Types
<1>. QED
  BY <1>1, <1>2, <1>3, PTL DEF Spec

-----------------------------------------------------------------------------
(* The handshake. *)

\* A step leaves alone what the invariant says of m.
Leaves(m) ==
  /\ caller'[m] = caller[m] /\ cmd'[m] = cmd[m]
  /\ set_bits'[m] = set_bits[m] /\ connect_state'[m] = connect_state[m]
  /\ m \in is_callback' <=> m \in is_callback
  /\ config_mutex' = m <=> config_mutex = m
  /\ config_mutex = m => todo' = todo

LEMMA LeftAlone ==
  ASSUME NEW m \in Lidar, LidarInv(m), Leaves(m)
  PROVE  LidarInv(m)'
<1>. USE DEF Leaves
<1>1. BitsRight(m)'
  BY DEF LidarInv, BitsRight
<1>2. Sending(m)'
  BY DEF LidarInv, Sending
<1>3. CalledFirst(m)'
  BY DEF LidarInv, CalledFirst, Untouched
<1>4. Confirmed(m)'
  BY DEF LidarInv, Confirmed
<1>. QED
  BY <1>1, <1>2, <1>3, <1>4 DEF LidarInv

LEMMA InitHandshake == Init => \A l \in Lidar : LidarInv(l)
<1>. SUFFICES ASSUME Init, NEW l \in Lidar PROVE LidarInv(l)
  OBVIOUS
<1>1. Untouched(l) /\ caller[l] = "none" /\ config_mutex # l
  BY Constants DEF Init, Untouched
<1>2. BitsRight(l)
  BY DEF Init, BitsRight, Key
<1>3. Confirmed(l)
  BY DEF Init, Confirmed
<1>. QED
  BY <1>1, <1>2, <1>3 DEF LidarInv, Sending, CalledFirst

-----------------------------------------------------------------------------
(* The announcement. *)

LEMMA AnnouncementKeeps ==
  ASSUME DiscoveryTypes, NEW l \in Lidar, LidarInv(l),
         NEW thread \in {"cmd", "det"}, LivoxLidarInfoChange(l, thread),
         UNCHANGED settings
  PROVE  /\ \A m \in Lidar : m # l => Leaves(m)
         /\ LidarInv(l)'
<1>. USE DEF settings
<1>1. \A m \in Lidar : m # l => Leaves(m)
  BY DEF LivoxLidarInfoChange, Leaves, DiscoveryTypes
<1>0. BitsRight(l)' /\ Confirmed(l)'
  BY DEF LidarInv, BitsRight, Confirmed
<1>2. CASE caller' = caller
  <2>1. l \in is_callback'
    BY DEF LivoxLidarInfoChange
  <2>. QED
    BY <1>0, <1>1, <1>2, <2>1 DEF LidarInv, Sending, CalledFirst, Untouched
<1>3. CASE caller' # caller
  <2>1. l \notin is_callback /\ caller'[l] = thread /\ l \in is_callback'
    BY <1>3 DEF LivoxLidarInfoChange, DiscoveryTypes
  <2>2. caller[l] = "none" /\ Untouched(l) /\ config_mutex # l
    BY <2>1 DEF LidarInv, Sending, CalledFirst
  <2>3. Untouched(l)' /\ config_mutex' # l
    BY <2>2 DEF Untouched
  <2>4. CalledFirst(l)' /\ Sending(l)'
    BY <2>1, <2>3 DEF CalledFirst, Sending, Untouched, Key
  <2>. QED
    BY <1>0, <1>1, <2>4 DEF LidarInv
<1>. QED
  BY <1>1, <1>2, <1>3

LEMMA DiscoveryInv ==
  ASSUME DiscoveryTypes, \A m \in Lidar : LidarInv(m), NEW l \in Lidar,
         Probed(l) \/ Queried(l) \/ UpdateLidarSucceeds(l) \/ UpdateLidarFails(l)
  PROVE  \A m \in Lidar : LidarInv(m)'
<1>1. UNCHANGED settings
  BY DiscoveryLeaves
<1>2. ASSUME NEW thread \in {"cmd", "det"}, LivoxLidarInfoChange(l, thread)
      PROVE  \A m \in Lidar : LidarInv(m)'
  BY <1>1, <1>2, AnnouncementKeeps, LeftAlone
<1>3. CASE UpdateLidarSucceeds(l) \/ AnnounceLoader(l)
  BY <1>2, <1>3 DEF UpdateLidarSucceeds, AnnounceLoader
<1>4. CASE \/ FirstDetection(l) \/ Queried(l) \/ UpdateLidarCfg(l) \/ UpdateLidarFails(l)
  <2>1. UNCHANGED <<caller, is_callback>>
    BY <1>4 DEF Queried, FirstDetection, QueryFwTypeFails, QueryFwTypeSucceeds,
                UpdateLidarCfg, UpdateLidarFails, announcing
  <2>2. \A m \in Lidar : Leaves(m)
    BY <1>1, <2>1 DEF settings, Leaves
  <2>. QED
    BY <2>2, LeftAlone
<1>. QED
  BY <1>3, <1>4 DEF Probed

-----------------------------------------------------------------------------
(* The settings are sent. *)

LEMMA LockKeeps ==
  ASSUME SettingTypes, NEW l \in Lidar, LidarInv(l), LockConfig(l)
  PROVE  /\ \A m \in Lidar : m # l => Leaves(m)
         /\ LidarInv(l)'
<1>1. /\ caller[l] # "none" /\ config_mutex # l /\ config_mutex' = l
      /\ todo' = Wanted[l]
      /\ UNCHANGED <<is_callback, caller, set_bits, cmd, connect_state>>
  BY Constants DEF LockConfig, announcing
<1>2. \A m \in Lidar : m # l => Leaves(m)
  BY <1>1, Constants DEF Leaves, LockConfig
<1>3. Untouched(l)
  BY <1>1 DEF LidarInv, CalledFirst
<1>4. set_bits[l] = {} /\ Wanted[l] \subseteq Setting
  <2>1. set_bits[l] \subseteq Setting
    BY DEF SettingTypes
  <2>. QED
    BY <1>3, <2>1, Constants DEF LidarInv, BitsRight, Untouched, Key
<1>5. Sending(l)'
  BY <1>1, <1>3, <1>4 DEF Sending, Untouched, Key
<1>6. CalledFirst(l)'
  BY <1>1, <1>3 DEF LidarInv, CalledFirst, Untouched, Key
<1>. QED
  BY <1>1, <1>2, <1>5, <1>6 DEF LidarInv, BitsRight, Confirmed

LEMMA SendKeeps ==
  ASSUME SettingTypes, NEW l \in Lidar, LidarInv(l), SendSetting(l)
  PROVE  /\ \A m \in Lidar : m # l => Leaves(m)
         /\ LidarInv(l)'
<1>1. PICK k \in todo :
        /\ todo' = todo \ {k}
        /\ set_bits' = [set_bits EXCEPT ![l] = @ \cup {k}]
        /\ cmd' = [cmd EXCEPT ![l][k] = "sent"]
  BY DEF SendSetting
<1>2. /\ config_mutex = l
      /\ UNCHANGED <<is_callback, caller, config_mutex, connect_state>>
  BY DEF SendSetting, announcing
<1>3. k \in Setting /\ k \in Key /\ k \notin Other
  BY SettingsAre DEF SettingTypes, Key
<1>4. \A m \in Lidar : m # l => Leaves(m)
  BY <1>1, <1>2 DEF Leaves, SettingTypes
<1>5. /\ set_bits'[l] = set_bits[l] \cup {k}
      /\ cmd'[l][k] = "sent" /\ \A j \in Key \ {k} : cmd'[l][j] = cmd[l][j]
  BY <1>1, <1>3 DEF SettingTypes
<1>6. /\ caller[l] # "none" /\ todo \cup set_bits[l] = Wanted[l]
      /\ \A j \in todo : cmd[l][j] = "none"
  BY <1>2 DEF LidarInv, Sending
<1>7. BitsRight(l)'
  BY <1>3, <1>5 DEF LidarInv, BitsRight, Key
<1>8. Sending(l)'
  <2>1. todo' \cup set_bits'[l] = Wanted[l]
    BY <1>1, <1>5, <1>6
  <2>2. \A j \in todo' : cmd'[l][j] = "none"
    BY <1>1, <1>5, <1>6 DEF SettingTypes, Key
  <2>. QED
    BY <1>2, <1>6, <2>1, <2>2 DEF Sending
<1>9. CalledFirst(l)'
  <2>1. l \in is_callback /\ \A j \in Other : cmd'[l][j] = "none"
    BY <1>3, <1>5, <1>6 DEF LidarInv, CalledFirst, Key
  <2>. QED
    BY <1>2, <1>6, <2>1 DEF CalledFirst
<1>10. Confirmed(l)'
  BY <1>1, <1>2, <1>6 DEF LidarInv, Confirmed
<1>. QED
  BY <1>4, <1>7, <1>8, <1>9, <1>10 DEF LidarInv

LEMMA UnlockKeeps ==
  ASSUME DiscoveryTypes, SettingTypes, NEW l \in Lidar, LidarInv(l), UnlockConfig(l)
  PROVE  /\ \A m \in Lidar : m # l => Leaves(m)
         /\ LidarInv(l)'
<1>1. /\ config_mutex = l /\ todo = {} /\ config_mutex' = "free"
      /\ UNCHANGED <<is_callback, todo, set_bits, connect_state>>
  BY DEF UnlockConfig, announcing
<1>2. /\ caller'[l] = "none"
      /\ \A j \in Setting : cmd'[l][j] = cmd[l][j]
      /\ \A m \in Lidar : m # l => caller'[m] = caller[m] /\ cmd'[m] = cmd[m]
  <2>1. \A j \in Setting : j \in Key /\ j \notin Other
    BY SettingsAre DEF Key
  <2>. QED
    BY <2>1 DEF UnlockConfig, DiscoveryTypes, SettingTypes
<1>3. \A m \in Lidar : m # l => Leaves(m)
  BY <1>1, <1>2, Constants DEF Leaves
<1>4. Wanted[l] = set_bits[l] /\ caller[l] # "none"
  BY <1>1 DEF LidarInv, Sending
<1>5. \A j \in Wanted[l] : cmd'[l][j] # "none"
  <2>1. Wanted[l] \subseteq Setting
    BY Constants
  <2>. QED
    BY <1>2, <1>4, <2>1 DEF LidarInv, BitsRight
<1>6. l \in is_callback'
  BY <1>1, <1>4 DEF LidarInv, CalledFirst
<1>7. CalledFirst(l)' /\ Sending(l)'
  BY <1>1, <1>2, <1>5, <1>6, Constants DEF CalledFirst, Sending
<1>8. BitsRight(l)'
  BY <1>1, <1>2 DEF LidarInv, BitsRight
<1>9. Confirmed(l)'
  <2>1. Wanted[l] \subseteq Setting
    BY Constants
  <2>. QED
    BY <1>1, <1>2, <2>1 DEF LidarInv, Confirmed
<1>. QED
  BY <1>3, <1>7, <1>8, <1>9 DEF LidarInv

-----------------------------------------------------------------------------
(* The answers. *)

\* A command that was sent, or has expired, was sent after the announcement.
LEMMA SentAfterCall ==
  ASSUME NEW l \in Lidar, LidarInv(l), NEW k \in Key, cmd[l][k] # "none"
  PROVE  /\ l \in is_callback
         /\ caller[l] # "none" => k \notin Other /\ config_mutex = l
         /\ caller[l] = "none" => \A j \in Wanted[l] : cmd[l][j] # "none"
BY DEF LidarInv, CalledFirst, Untouched

LEMMA SettingDoneKeeps ==
  ASSUME SettingTypes, NEW l \in Lidar, LidarInv(l), NEW k \in Setting, SettingDone(l, k)
  PROVE  /\ \A m \in Lidar : m # l => Leaves(m)
         /\ LidarInv(l)'
<1>1. /\ config_mutex = "free" /\ cmd[l][k] = "sent"
      /\ cmd' = [cmd EXCEPT ![l][k] = "acked"]
      /\ set_bits' = [set_bits EXCEPT ![l] = @ \ {k}]
      /\ connect_state' = IF set_bits[l] \subseteq {k}
                          THEN [connect_state EXCEPT ![l] = "sampling"] ELSE connect_state
      /\ UNCHANGED <<is_callback, caller, config_mutex, todo>>
  BY DEF SettingDone, announcing
<1>2. k \in Key /\ config_mutex # l
  BY <1>1, Constants DEF Key
<1>3. \A m \in Lidar : m # l => Leaves(m)
  BY <1>1 DEF Leaves, SettingTypes
<1>4. /\ set_bits'[l] = set_bits[l] \ {k}
      /\ cmd'[l][k] = "acked" /\ \A j \in Key \ {k} : cmd'[l][j] = cmd[l][j]
  BY <1>1, <1>2 DEF SettingTypes
<1>5. /\ l \in is_callback /\ caller[l] = "none"
      /\ \A j \in Wanted[l] : cmd[l][j] # "none"
  BY <1>1, <1>2, SentAfterCall
<1>6. Wanted[l] \subseteq Setting
  BY Constants
<1>7. BitsRight(l)'
  BY <1>2, <1>4 DEF LidarInv, BitsRight, Key
<1>8. Sending(l)'
  BY <1>1, <1>2 DEF Sending
<1>9. \A j \in Wanted[l] : cmd'[l][j] # "none"
  BY <1>4, <1>5, <1>6 DEF Key
<1>10. CalledFirst(l)'
  BY <1>1, <1>5, <1>9 DEF CalledFirst
<1>11. Confirmed(l)'
  <2>1. CASE set_bits[l] \subseteq {k}
    <3>1. ASSUME NEW j \in Wanted[l], j # k PROVE cmd[l][j] = "acked"
      <4>1. j \notin set_bits[l] /\ j \in Setting /\ j \in Key /\ cmd[l][j] # "none"
        BY <1>5, <1>6, <2>1, <3>1 DEF Key
      <4>2. cmd[l][j] \notin {"sent", "expired"} /\ cmd[l][j] # "given_up"
        BY <4>1 DEF LidarInv, BitsRight
      <4>3. cmd[l][j] \in {"none", "sent", "expired", "acked", "given_up"}
        BY <4>1 DEF SettingTypes
      <4>. QED
        BY <4>1, <4>2, <4>3
    <3>. QED
      BY <1>4, <1>6, <3>1 DEF Confirmed, Key
  <2>2. CASE ~(set_bits[l] \subseteq {k})
    BY <1>1, <1>4, <1>6, <2>2 DEF LidarInv, Confirmed, Key
  <2>. QED
    BY <2>1, <2>2
<1>. QED
  BY <1>3, <1>7, <1>8, <1>10, <1>11 DEF LidarInv

\* Acknowledged without a bit, expired or sent again: none of it touches a bit.
LEMMA CommandKeeps ==
  ASSUME SettingTypes, NEW l \in Lidar, LidarInv(l), NEW k \in Key,
         (k \in Other /\ OtherDone(l, k)) \/ Expire(l, k) \/ Timeout(l, k)
  PROVE  /\ \A m \in Lidar : m # l => Leaves(m)
         /\ LidarInv(l)'
<1>1. PICK what \in {"sent", "expired", "acked", "given_up"} :
        /\ cmd' = [cmd EXCEPT ![l][k] = what]
        /\ k \in Setting => what \in {"sent", "expired"}
  BY SettingsAre DEF OtherDone, Expire, Timeout
<1>2. /\ cmd[l][k] \in {"sent", "expired"}
      /\ UNCHANGED <<is_callback, caller, config_mutex, todo, set_bits, connect_state>>
  BY DEF OtherDone, Expire, Timeout, announcing
<1>3. \A m \in Lidar : m # l => Leaves(m)
  BY <1>1, <1>2 DEF Leaves, SettingTypes
<1>4. cmd'[l][k] = what /\ \A j \in Key \ {k} : cmd'[l][j] = cmd[l][j]
  BY <1>1 DEF SettingTypes
<1>5. /\ l \in is_callback
      /\ caller[l] # "none" => k \notin Other /\ config_mutex = l
      /\ caller[l] = "none" => \A j \in Wanted[l] : cmd[l][j] # "none"
  BY <1>2, SentAfterCall
<1>6. Wanted[l] \subseteq Setting
  BY Constants
<1>7. BitsRight(l)'
  BY <1>1, <1>2, <1>4 DEF LidarInv, BitsRight, Key
<1>8. Sending(l)'
  <2>1. ASSUME NEW j \in todo, config_mutex = l PROVE cmd'[l][j] = "none"
    <3>1. cmd[l][j] = "none" /\ j \in Key
      BY <2>1 DEF LidarInv, Sending, SettingTypes, Key
    <3>. QED
      BY <1>2, <1>4, <3>1
  <2>. QED
    BY <1>2, <2>1 DEF LidarInv, Sending
<1>9. CalledFirst(l)'
  <2>1. \A j \in Wanted[l] : cmd[l][j] # "none" => cmd'[l][j] # "none"
    BY <1>4, <1>6 DEF Key
  <2>2. caller[l] # "none" => \A j \in Other : cmd'[l][j] = "none"
    BY <1>4, <1>5 DEF LidarInv, CalledFirst, Key
  <2>. QED
    BY <1>2, <1>5, <2>1, <2>2 DEF CalledFirst
<1>10. Confirmed(l)'
  BY <1>2, <1>4, <1>6 DEF LidarInv, Confirmed, Key
<1>. QED
  BY <1>3, <1>7, <1>8, <1>9, <1>10 DEF LidarInv

-----------------------------------------------------------------------------
Handshake == DiscoveryTypes /\ SettingTypes /\ \A l \in Lidar : LidarInv(l)

LEMMA HandshakeKeeps == ASSUME Handshake, [Next]_vars PROVE Handshake'
<1>. USE DEF Handshake
<1>1. DiscoveryTypes' /\ SettingTypes'
  BY TypesKeep
<1>2. CASE FillDevices \/ SetInfoChangeCallback \/ UNCHANGED vars
  <2>1. \A m \in Lidar : Leaves(m)
    BY <1>2, MainLeaves DEF Leaves
  <2>. QED
    BY <1>1, <2>1, LeftAlone
<1>3. ASSUME NEW l \in Lidar,
             Probed(l) \/ Queried(l) \/ UpdateLidarSucceeds(l) \/ UpdateLidarFails(l)
      PROVE  Handshake'
  BY <1>1, <1>3, DiscoveryInv
<1>4. ASSUME NEW l \in Lidar, Configure(l) \/ Answered(l) PROVE Handshake'
  <2>1. /\ \A m \in Lidar : m # l => Leaves(m)
        /\ LidarInv(l)'
    <3>1. CASE Configure(l)
      BY <3>1, LockKeeps, SendKeeps, UnlockKeeps DEF Configure
    <3>2. CASE Answered(l)
      BY <3>2, SettingDoneKeeps, CommandKeeps DEF Answered, Key
    <3>. QED
      BY <1>4, <3>1, <3>2
  <2>. QED
    BY <1>1, <2>1, LeftAlone
<1>. QED
  BY <1>2, <1>3, <1>4 DEF Next, Answered

\* A lidar is Sampling only when all that the file sets is acknowledged, though the
\* first acknowledgement may come while another thread still sends
\* (LidarInfoChangeCallback and the Set...Callbacks, under config_mutex_).
THEOREM SamplingIsConfirmed == Spec => []SamplingMeansConfirmed
<1>1. Init => Handshake
  BY InitTypes, InitHandshake DEF Handshake
<1>2. Handshake /\ [Next]_vars => Handshake'
  BY HandshakeKeeps
<1>3. Handshake => SamplingMeansConfirmed
  BY DEF Handshake, LidarInv, Confirmed, SamplingMeansConfirmed
<1>. QED
  BY <1>1, <1>2, <1>3, PTL DEF Spec

-----------------------------------------------------------------------------
(* The announcement is made once. *)

\* Only an announcement brings a thread into the driver's callback.
LEMMA OnlyOnce ==
  ASSUME Handshake, [Next]_vars, NEW l \in Lidar,
         caller'[l] # caller[l], caller'[l] # "none"
  PROVE  l \notin is_callback
<1>. USE DEF Handshake
<1>1. ASSUME NEW m \in Lidar, NEW thread \in {"cmd", "det"},
             LivoxLidarInfoChange(m, thread)
      PROVE  l \notin is_callback
  BY <1>1 DEF LivoxLidarInfoChange, DiscoveryTypes
<1>2. CASE FillDevices \/ SetInfoChangeCallback \/ UNCHANGED vars
  BY <1>2, MainLeaves
<1>3. ASSUME NEW m \in Lidar, Probed(m) \/ Queried(m)
      PROVE  l \notin is_callback
  BY <1>1, <1>3 DEF Probed, Queried, FirstDetection, UpdateLidarCfg, AnnounceLoader,
                    QueryFwTypeFails, QueryFwTypeSucceeds
<1>4. ASSUME NEW m \in Lidar, UpdateLidarSucceeds(m) \/ UpdateLidarFails(m)
      PROVE  l \notin is_callback
  BY <1>1, <1>4 DEF UpdateLidarSucceeds, UpdateLidarFails
<1>5. ASSUME NEW m \in Lidar, Configure(m) PROVE l \notin is_callback
  BY <1>5 DEF Configure, LockConfig, SendSetting, UnlockConfig, DiscoveryTypes
<1>6. ASSUME NEW m \in Lidar, Answered(m) PROVE l \notin is_callback
  BY <1>6 DEF Answered, SettingDone, OtherDone, Expire, Timeout
<1>. QED
  BY <1>2, <1>3, <1>4, <1>5, <1>6 DEF Next, Answered

\* What was sent stays sent, and a thread leaves the callback after sending.
LEMMA StaysTold ==
  ASSUME Handshake, [Next]_vars, NEW l \in Lidar, Told(l)
  PROVE  Told(l)'
<1>. USE DEF Handshake
<1>1. ASSUME Leaves(l) PROVE Told(l)'
  BY <1>1 DEF Leaves, Told
<1>2. CASE FillDevices \/ SetInfoChangeCallback \/ UNCHANGED vars
  BY <1>1, <1>2, MainLeaves DEF Leaves
<1>3. ASSUME NEW m \in Lidar,
             Probed(m) \/ Queried(m) \/ UpdateLidarSucceeds(m) \/ UpdateLidarFails(m)
      PROVE  Told(l)'
  <2>1. cmd' = cmd
    BY <1>3, DiscoveryLeaves DEF settings
  <2>2. caller[l] # "none" => caller'[l] # "none"
    <3>1. ASSUME NEW thread \in {"cmd", "det"}, LivoxLidarInfoChange(m, thread)
          PROVE  caller[l] # "none" => caller'[l] # "none"
      BY <3>1 DEF LivoxLidarInfoChange, DiscoveryTypes
    <3>2. CASE UpdateLidarSucceeds(m) \/ AnnounceLoader(m)
      BY <3>1, <3>2 DEF UpdateLidarSucceeds, AnnounceLoader
    <3>3. CASE FirstDetection(m) \/ Queried(m) \/ UpdateLidarCfg(m) \/ UpdateLidarFails(m)
      BY <3>3 DEF Queried, FirstDetection, QueryFwTypeFails, QueryFwTypeSucceeds,
                  UpdateLidarCfg, UpdateLidarFails
    <3>. QED
      BY <1>3, <3>2, <3>3 DEF Probed
  <2>. QED
    BY <2>1, <2>2 DEF Told
<1>4. ASSUME NEW m \in Lidar, LockConfig(m) PROVE Told(l)'
  BY <1>4 DEF LockConfig, Told
<1>5. ASSUME NEW m \in Lidar, UnlockConfig(m) PROVE Told(l)'
  <2>1. CASE m = l
    <3>1. PICK k \in Other : cmd'[l][k] = "sent"
      BY <1>5, <2>1, Constants DEF UnlockConfig, SettingTypes, Key
    <3>. QED
      BY <3>1 DEF Told, Key
  <2>2. CASE m # l
    BY <1>5, <2>2, UnlockKeeps, <1>1
  <2>. QED
    BY <2>1, <2>2
<1>6. ASSUME NEW m \in Lidar, NEW k \in Key,
             NEW what \in {"sent", "expired", "acked", "given_up"},
             cmd' = [cmd EXCEPT ![m][k] = what], caller' = caller
      PROVE  Told(l)'
  BY <1>6 DEF SettingTypes, Told
<1>7. ASSUME NEW m \in Lidar, SendSetting(m) PROVE Told(l)'
  BY <1>6, <1>7 DEF SendSetting, SettingTypes, Key
<1>8. ASSUME NEW m \in Lidar, Answered(m) PROVE Told(l)'
  BY <1>6, <1>8 DEF Answered, SettingDone, OtherDone, Expire, Timeout, Key
<1>. QED
  BY <1>2, <1>3, <1>4, <1>5, <1>7, <1>8 DEF Next, Configure, Answered

\* Only before the driver has registered can an announcement get lost.
LEMMA NoneMissed ==
  ASSUME Handshake, [Next]_vars, NEW l \in Lidar, ~Missed(l), Missed(l)'
  PROVE  main # "registered"
<1>. USE DEF Handshake
<1>1. ~Told(l) /\ ~Told(l)' /\ l \notin is_callback /\ l \in is_callback'
  BY StaysTold DEF Missed
<1>2. ~Leaves(l)
  BY <1>1 DEF Leaves
<1>3. ASSUME NEW m \in Lidar, NEW thread \in {"cmd", "det"},
             LivoxLidarInfoChange(m, thread)
      PROVE  main # "registered"
  <2>1. m = l /\ caller' [l] = "none"
    BY <1>1, <1>3 DEF LivoxLidarInfoChange, Told
  <2>. QED
    BY <1>1, <1>3, <2>1 DEF LivoxLidarInfoChange, DiscoveryTypes
<1>4. CASE FillDevices \/ SetInfoChangeCallback \/ UNCHANGED vars
  BY <1>1, <1>4, MainLeaves
<1>5. ASSUME NEW m \in Lidar, Probed(m) \/ Queried(m)
      PROVE  main # "registered"
  BY <1>1, <1>3, <1>5 DEF Probed, Queried, FirstDetection, UpdateLidarCfg, AnnounceLoader,
                         QueryFwTypeFails, QueryFwTypeSucceeds, announcing
<1>6. ASSUME NEW m \in Lidar, UpdateLidarSucceeds(m) \/ UpdateLidarFails(m)
      PROVE  main # "registered"
  BY <1>1, <1>3, <1>6 DEF UpdateLidarSucceeds, UpdateLidarFails, announcing
<1>7. ASSUME NEW m \in Lidar, Configure(m) \/ Answered(m) PROVE main # "registered"
  BY <1>1, <1>7 DEF Configure, LockConfig, SendSetting, UnlockConfig, Answered,
                    SettingDone, OtherDone, Expire, Timeout, announcing
<1>. QED
  BY <1>4, <1>5, <1>6, <1>7 DEF Next, Answered

\* The driver configures a lidar once, however often it answers probes and however
\* many writes to it are acknowledged, and misses it only before it has registered
\* (LivoxLidarInfoChange with is_callback, LidarInfoChangeCallback).
THEOREM LidarsAnnouncedOnce == Spec => AnnouncedOnce
<1>. DEFINE Once == \A l \in Lidar :
                      /\ caller'[l] # caller[l] /\ caller'[l] # "none" => ~Told(l)
                      /\ Missed(l)' /\ ~Missed(l) => main # "registered"
<1>1. Init => Handshake
  BY InitTypes, InitHandshake DEF Handshake
<1>2. Handshake /\ [Next]_vars => Handshake'
  BY HandshakeKeeps
<1>3. Handshake /\ [Next]_vars => [Once]_vars
  <2>. SUFFICES ASSUME Handshake, [Next]_vars, NEW l \in Lidar
                PROVE  /\ caller'[l] # caller[l] /\ caller'[l] # "none" => ~Told(l)
                       /\ Missed(l)' /\ ~Missed(l) => main # "registered"
    OBVIOUS
  <2>1. l \notin is_callback => ~Told(l)
    BY DEF Handshake, LidarInv, CalledFirst, Untouched, Told
  <2>. QED
    BY <2>1, OnlyOnce, NoneMissed
<1>. HIDE DEF Once
<1>4. Spec => [][Once]_vars
  BY <1>1, <1>2, <1>3, PTL DEF Spec
<1>. QED
  BY <1>4 DEF Once, AnnouncedOnce

=============================================================================
