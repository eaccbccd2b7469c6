-------------------------- MODULE MCLidarDataQueue --------------------------
(***************************************************************************)
(* LidarDataQueue on two slots, with indices that wrap after four laps and  *)
(* three packets that can be told apart.                                    *)
(***************************************************************************)
EXTENDS LidarDataQueue
CONSTANTS p1, p2, p3

ThreePackets == {p1, p2, p3}
=============================================================================
