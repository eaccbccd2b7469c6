----------------------------- MODULE UserConfig -----------------------------
(***************************************************************************)
(* What becomes of a lidar's entry in the configuration file: it is read    *)
(* into fields by an 8-bit cast, in which -1 stands for "absent"            *)
(* (parse_livox_lidar_cfg.cpp), and each setting that is present is sent to *)
(* the lidar and, after a timeout, sent again (livox_lidar_callback.cpp,    *)
(* command_impl.cpp).                                                       *)
(***************************************************************************)
EXTENDS Integers

CONSTANT Absent

\* The values the driver's documentation gives for each setting.
Documented == [pcl_data_type |-> 1 .. 3,
               pattern_mode  |-> 0 .. 2,
               blind_spot    |-> 50 .. 200,
               dual_emit     |-> 0 .. 1]

Setting == DOMAIN Documented

VARIABLES
  file,   \* file[k]: the value in the configuration file, or Absent
  config, \* config[k]: the field of UserLivoxLidarConfig
  wire,   \* wire[k]: the value in the last command sent, or Absent
  acked,  \* the settings that were acknowledged
  pc

vars == <<file, config, wire, acked, pc>>

\* static_cast<int8_t>, modulo 2^8
Int8(x) == IF x % 256 < 128 THEN x % 256 ELSE (x % 256) - 256
UInt8(x) == x % 256

\* ParseUserConfigs
ParsedField(k, value) ==
  IF value = Absent THEN -1
  ELSE IF k = "dual_emit" THEN Int8(UInt8(value)) ELSE Int8(value)

IsSet(k) == config[k] # -1

\* The enumerations are one byte, dual_emit is a bool, and blind_spot a
\* uint32_t, here the 32-bit two's complement number with the same bits: the
\* sign of the field is extended.
Encode(k) == CASE k = "blind_spot" -> config[k]
               [] k = "dual_emit"  -> IF config[k] = 0 THEN 0 ELSE 1
               [] OTHER            -> UInt8(config[k])

\* One setting at a time is followed: settings do not depend on each other.
Init ==
  /\ \E k \in Setting, v \in 0 .. 200 \cup {Absent} :
       /\ v = Absent \/ v \in Documented[k]
       /\ file = [j \in Setting |-> IF j = k THEN v ELSE Absent]
  /\ config = [k \in Setting |-> -1]
  /\ wire = [k \in Setting |-> Absent]
  /\ acked = {}
  /\ pc = "parse"

ParseUserConfigs ==
  /\ pc = "parse"
  /\ config' = [k \in Setting |-> ParsedField(k, file[k])]
  /\ pc' = "configure"
  /\ UNCHANGED <<file, wire, acked>>

LidarInfoChangeCallback ==
  /\ pc = "configure"
  /\ wire' = [k \in Setting |-> IF IsSet(k) THEN Encode(k) ELSE Absent]
  /\ pc' = "sent"
  /\ UNCHANGED <<file, config, acked>>

\* A callback with status Timeout encodes the field anew.
Resend(k) ==
  /\ pc = "sent"
  /\ wire[k] # Absent /\ k \notin acked
  /\ wire' = [wire EXCEPT ![k] = Encode(k)]
  /\ UNCHANGED <<file, config, acked, pc>>

Acknowledge(k) ==
  /\ pc = "sent"
  /\ wire[k] # Absent /\ k \notin acked
  /\ acked' = acked \cup {k}
  /\ UNCHANGED <<file, config, wire, pc>>

Next == \/ ParseUserConfigs
        \/ LidarInfoChangeCallback
        \/ \E k \in Setting : Resend(k) \/ Acknowledge(k)

Spec == Init /\ [][Next]_vars

-----------------------------------------------------------------------------
(* The documentation's "Range from 50 cm to 200 cm": every blind spot in the *)
(* range reaches the lidar.                                                  *)
BlindSpotReachesLidar ==
  pc = "sent" => wire["blind_spot"] = file["blind_spot"]
=============================================================================
