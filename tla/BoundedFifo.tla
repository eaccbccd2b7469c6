----------------------------- MODULE BoundedFifo -----------------------------
(***************************************************************************)
(* What a point-cloud queue of the lidar driver promises its two users, the *)
(* thread that stores packets and the thread that publishes them: packets   *)
(* come out whole, once, in the order they went in, and a packet is refused *)
(* only while Capacity packets are waiting.                                 *)
(***************************************************************************)
EXTENDS Naturals, Sequences

CONSTANTS Item,     \* the packets that may be offered
          NoItem,   \* "no packet at hand"
          Capacity  \* how many packets may wait

VARIABLES chan,  \* the packets waiting, oldest first
          in,    \* the packet the storing thread is offering
          out    \* the packet the publishing thread is working on

vars == <<chan, in, out>>

Init == chan = <<>> /\ in = NoItem /\ out = NoItem

Offer(x) == /\ in = NoItem
            /\ in' = x
            /\ UNCHANGED <<chan, out>>

Accept == /\ in # NoItem
          /\ Len(chan) < Capacity
          /\ chan' = Append(chan, in)
          /\ in' = NoItem
          /\ UNCHANGED out

Refuse == /\ in # NoItem
          /\ Len(chan) = Capacity
          /\ in' = NoItem
          /\ UNCHANGED <<chan, out>>

Deliver == /\ out = NoItem
           /\ chan # <<>>
           /\ out' = Head(chan)
           /\ chan' = Tail(chan)
           /\ UNCHANGED in

Release == /\ out # NoItem
           /\ out' = NoItem
           /\ UNCHANGED <<chan, in>>

Next == \/ \E x \in Item : Offer(x)
        \/ Accept
        \/ Refuse
        \/ Deliver
        \/ Release

Spec == Init /\ [][Next]_vars
=============================================================================
