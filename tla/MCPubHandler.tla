---------------------------- MODULE MCPubHandler ----------------------------
(* Instances of PubHandler for TLC.                                         *)
EXTENDS PubHandler

\* One lidar with synchronised time on a lossy network, packets of a millisecond.
Synchronised == [lidars |-> {1}, timeTypes |-> {TRUE}, packetTicks |-> 2,
                 ticksPerMs |-> 2, interval |-> 6, phases |-> 1 .. 6,
                 offset |-> 1, lossy |-> TRUE, maxTime |-> 21]

\* The same with one point to a millisecond and time for losses to delay the start
\* of a frame past the boundary's next millisecond.
Delayed == [lidars |-> {1}, timeTypes |-> {TRUE}, packetTicks |-> 1,
            ticksPerMs |-> 1, interval |-> 4, phases |-> {1},
            offset |-> 0, lossy |-> TRUE, maxTime |-> 13]

\* An interval that is not a whole number of milliseconds, long enough for a boundary
\* to find too short a frame.
Uneven == [lidars |-> {1}, timeTypes |-> {TRUE}, packetTicks |-> 2,
           ticksPerMs |-> 3, interval |-> 11, phases |-> {2},
           offset |-> 0, lossy |-> TRUE, maxTime |-> 23]

\* The same without loss.
UnevenLossless == [Uneven EXCEPT !.phases = 0 .. 2, !.lossy = FALSE, !.maxTime = 37]

\* Two lidars whose time is now and then synchronised, with a clock behind the host's.
Mixed == [lidars |-> {1, 2}, timeTypes |-> {TRUE, FALSE}, packetTicks |-> 1,
          ticksPerMs |-> 1, interval |-> 2, phases |-> {0, 1},
          offset |-> 1, lossy |-> FALSE, maxTime |-> 3]

MCSetups == {Synchronised, Delayed, Uneven, UnevenLossless, Mixed}
=============================================================================
