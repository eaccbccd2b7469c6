--------------------------- MODULE LidarDataQueue ---------------------------
(***************************************************************************)
(* The point-cloud queue of one lidar (livox_ros_driver2, comm/ldq.cpp): a  *)
(* ring of StoragePackets shared without a lock by one storing thread       *)
(* (Lds::PushLidarData) and one publishing thread (Lddc::Publish...).  The  *)
(* two indices are free-running unsigned counters that wrap at IdxMod, 2^32 *)
(* in the code; the slot of an index is index & mask.                       *)
(*                                                                          *)
(* A slot is filled and copied field by field, so a step of one thread may  *)
(* fall between two fields handled by the other.  Steps interleave in       *)
(* program order.                                                           *)
(***************************************************************************)
EXTENDS Integers, Sequences

CONSTANTS Packet,    \* the packets that may be stored
          NoPacket,  \* "no packet": the contents of a fresh slot
          Size,      \* slots of the ring, queue->size
          IdxMod     \* where rd_idx and wr_idx wrap

\* InitQueue rounds the size up to a power of two not above 2^31, hence a
\* proper divisor of 2^32.
ASSUME QueueAssumption ==
  /\ Size \in Nat \ {0}
  /\ IdxMod \in Nat
  /\ IdxMod > Size
  /\ IdxMod % Size = 0
  /\ NoPacket \notin Packet

VARIABLES allocated,  \* storage_packet # nullptr
          storage,    \* the slots
          rd_idx,     \* next index to read, written by the publishing thread
          wr_idx,     \* next index to write, written by the storing thread
          ppc,        \* where the storing thread is in PushLidarData
          arg,        \* the packet it was called with
          cpc,        \* where the publishing thread is in its while loop
          pkg         \* the copy it fills in QueuePrePop

producer == <<ppc, arg>>
consumer == <<cpc, pkg>>
vars == <<allocated, storage, rd_idx, wr_idx, ppc, arg, cpc, pkg>>

Slots == 0 .. Size - 1

StoragePacket == [base_time : Packet \cup {NoPacket},
                  points    : Packet \cup {NoPacket}]

Blank == [base_time |-> NoPacket, points |-> NoPacket]

\* index & mask, mask being size - 1 and size a power of two
Slot(index) == index % Size

QueueUsedSize == (wr_idx + IdxMod - rd_idx) % IdxMod
QueueIsEmpty  == rd_idx = wr_idx

\* A faulty QueueIsFull, used size > size: one packet too many.
QueueIsFullOffByOne == QueueUsedSize > Size
QueueIsFull == QueueUsedSize > Size - 1

-----------------------------------------------------------------------------
Init == /\ allocated = FALSE
        /\ storage = [s \in Slots |-> Blank]
        /\ rd_idx = 0
        /\ wr_idx = 0
        /\ ppc = "idle"
        /\ arg = NoPacket
        /\ cpc = "idle"
        /\ pkg = Blank

(* The storing thread. *)

\* A faulty PushLidarData, without the test of storage_packet for nullptr.
PushAlwaysInit(p) ==
  /\ ppc = "idle"
  /\ arg' = p
  /\ ppc' = "init"
  /\ UNCHANGED <<allocated, storage, rd_idx, wr_idx, consumer>>

PushLidarData(p) ==
  /\ ppc = "idle"
  /\ arg' = p
  /\ ppc' = IF allocated THEN "full?" ELSE "init"
  /\ UNCHANGED <<allocated, storage, rd_idx, wr_idx, consumer>>

InitQueue ==
  /\ ppc = "init"
  /\ allocated' = TRUE
  /\ rd_idx' = 0
  /\ wr_idx' = 0
  /\ ppc' = "full?"
  /\ UNCHANGED <<storage, arg, consumer>>

\* Lds::PushLidarData leaves the packet out when the queue is full.
RefusePacket ==
  /\ ppc = "full?"
  /\ QueueIsFull
  /\ ppc' = "idle"
  /\ arg' = NoPacket
  /\ UNCHANGED <<allocated, storage, rd_idx, wr_idx, consumer>>

AdmitPacket ==
  /\ ppc = "full?"
  /\ ~QueueIsFull
  /\ ppc' = "base_time"
  /\ UNCHANGED <<allocated, storage, rd_idx, wr_idx, arg, consumer>>

\* A faulty QueuePushAny, which does not copy the points before it moves the
\* index.
PushBaseTimeThenIndex ==
  /\ ppc = "base_time"
  /\ storage' = [storage EXCEPT ![Slot(wr_idx)].base_time = arg]
  /\ ppc' = "index"
  /\ UNCHANGED <<allocated, rd_idx, wr_idx, arg, consumer>>

PushBaseTime ==
  /\ ppc = "base_time"
  /\ storage' = [storage EXCEPT ![Slot(wr_idx)].base_time = arg]
  /\ ppc' = "points"
  /\ UNCHANGED <<allocated, rd_idx, wr_idx, arg, consumer>>

PushPoints ==
  /\ ppc = "points"
  /\ storage' = [storage EXCEPT ![Slot(wr_idx)].points = arg]
  /\ ppc' = "index"
  /\ UNCHANGED <<allocated, rd_idx, wr_idx, arg, consumer>>

PushIndex ==
  /\ ppc = "index"
  /\ wr_idx' = (wr_idx + 1) % IdxMod
  /\ ppc' = "idle"
  /\ arg' = NoPacket
  /\ UNCHANGED <<allocated, storage, rd_idx, consumer>>

(* The publishing thread. *)

QueuePrePop ==
  /\ cpc = "idle"
  /\ allocated
  /\ ~QueueIsEmpty
  /\ cpc' = "base_time"
  /\ UNCHANGED <<allocated, storage, rd_idx, wr_idx, producer, pkg>>

CopyBaseTime ==
  /\ cpc = "base_time"
  /\ pkg' = [pkg EXCEPT !.base_time = storage[Slot(rd_idx)].base_time]
  /\ cpc' = "points"
  /\ UNCHANGED <<allocated, storage, rd_idx, wr_idx, producer>>

CopyPoints ==
  /\ cpc = "points"
  /\ pkg' = [pkg EXCEPT !.points = storage[Slot(rd_idx)].points]
  /\ cpc' = "update"
  /\ UNCHANGED <<allocated, storage, rd_idx, wr_idx, producer>>

QueuePopUpdate ==
  /\ cpc = "update"
  /\ rd_idx' = (rd_idx + 1) % IdxMod
  /\ cpc' = "publish"
  /\ UNCHANGED <<allocated, storage, wr_idx, producer, pkg>>

\* The copy is turned into a message, handed to the publisher and destroyed.
PublishPacket ==
  /\ cpc = "publish"
  /\ cpc' = "idle"
  /\ pkg' = Blank
  /\ UNCHANGED <<allocated, storage, rd_idx, wr_idx, producer>>

Producer == \/ \E p \in Packet : PushLidarData(p)
            \/ InitQueue
            \/ RefusePacket
            \/ AdmitPacket
            \/ PushBaseTime
            \/ PushPoints
            \/ PushIndex

Consumer == \/ QueuePrePop
            \/ CopyBaseTime
            \/ CopyPoints
            \/ QueuePopUpdate
            \/ PublishPacket

Next == Producer \/ Consumer

Spec == Init /\ [][Next]_vars

-----------------------------------------------------------------------------
(* The variables stay in their types; the queue never counts more packets   *)
(* than it has slots.                                                       *)
TypeOK ==
  /\ allocated \in BOOLEAN
  /\ storage \in [Slots -> StoragePacket]
  /\ rd_idx \in 0 .. IdxMod - 1
  /\ wr_idx \in 0 .. IdxMod - 1
  /\ ppc \in {"idle", "init", "full?", "base_time", "points", "index"}
  /\ arg \in Packet \cup {NoPacket}
  /\ cpc \in {"idle", "base_time", "points", "update", "publish"}
  /\ pkg \in StoragePacket
  /\ QueueUsedSize <= Size

(* The storing thread never writes the slot the publishing thread is        *)
(* copying: QueuePushAny and QueuePrePop touch a slot without a lock, and   *)
(* memcpy of a vector that is being resized would read freed memory.        *)
NoSlotConflict ==
  ~ /\ ppc \in {"base_time", "points"}
    /\ cpc \in {"base_time", "points"}
    /\ Slot(wr_idx) = Slot(rd_idx)

(* A packet handed to the publisher is one stored packet, never the time    *)
(* base of one and the points of another, nor a fresh slot.                 *)
NoTornPacket ==
  cpc = "publish" => /\ pkg.base_time = pkg.points
                     /\ pkg.points \in Packet

\* The packets waiting, oldest first.
Contents == [i \in 1 .. QueueUsedSize |-> storage[Slot(rd_idx + (i - 1))].points]

\* The packet popped and not yet published.
Popped == IF cpc = "publish" THEN pkg.points ELSE NoPacket

Fifo == INSTANCE BoundedFifo
          WITH Item <- Packet, NoItem <- NoPacket, Capacity <- Size,
               chan <- Contents, in <- arg, out <- Popped

(* The ring is a bounded FIFO: no packet is lost once accepted, duplicated  *)
(* or reordered, across any wrap of the indices, and PushLidarData refuses  *)
(* a packet only when all slots are taken.                                  *)
ImplementsFifo == Fifo!Spec
=============================================================================
