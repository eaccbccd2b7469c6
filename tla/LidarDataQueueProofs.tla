------------------------ MODULE LidarDataQueueProofs ------------------------
(***************************************************************************)
(* For every power-of-two size and every index width: the ring of           *)
(* LidarDataQueue keeps the two threads out of each other's slot, never     *)
(* delivers a torn packet, and implements BoundedFifo.                      *)
(***************************************************************************)
EXTENDS LidarDataQueue, SequenceTheorems, TLAPS

Idx == 0 .. IdxMod - 1

\* A slot whose packet is complete.
Whole(s) == /\ storage[s].base_time = storage[s].points
            /\ storage[s].points \in Packet

(* The inductive invariant: the waiting slots are whole, a thread past its  *)
(* test of the indices still finds the test true, and what it has written   *)
(* or copied so far is what it started from.                                *)
RingInv ==
  /\ TypeOK
  /\ ~allocated => rd_idx = 0 /\ wr_idx = 0 /\ cpc = "idle" /\ ppc \in {"idle", "init"}
  /\ ppc = "init" => ~allocated
  /\ IF ppc = "idle" THEN arg = NoPacket ELSE arg \in Packet
  /\ ppc \in {"base_time", "points", "index"} => QueueUsedSize < Size
  /\ \A i \in 0 .. QueueUsedSize - 1 : Whole(Slot(rd_idx + i))
  /\ ppc \in {"points", "index"} => storage[Slot(wr_idx)].base_time = arg
  /\ ppc = "index" => storage[Slot(wr_idx)].points = arg
  /\ cpc \in {"base_time", "points", "update"} => QueueUsedSize > 0
  /\ cpc \in {"points", "update"} => pkg.base_time = storage[Slot(rd_idx)].base_time
  /\ cpc = "update" => pkg.points = storage[Slot(rd_idx)].points
  /\ cpc = "publish" => pkg.base_time = pkg.points /\ pkg.points \in Packet

-----------------------------------------------------------------------------
(* Facts about the remainder by a modulus that is a parameter, which the     *)
(* SMT backend does not find by itself: the arithmetic of indices that wrap. *)

(* Euclidean division.                                                      *)
LEMMA DivMod ==
  ASSUME NEW a \in Nat, NEW m \in Nat \ {0}
  PROVE  /\ a % m \in 0 .. m - 1
         /\ a \div m \in Nat
         /\ a = m * (a \div m) + (a % m)
  BY SMT

(* A multiple of m strictly between -m and m is zero.                       *)
LEMMA SmallMultiple ==
  ASSUME NEW m \in Nat \ {0}, NEW q \in Int, m * q < m, -m < m * q
  PROVE  q = 0
<1>1. ~(q >= 1)
  BY SMT
<1>2. ~(q <= -1)
  BY SMT
<1>3. QED
  BY <1>1, <1>2

(* The remainder is the only number of 0 .. m - 1 that differs from a by a  *)
(* multiple of m.                                                           *)
LEMMA ModUnique ==
  ASSUME NEW m \in Nat \ {0}, NEW q \in Int, NEW r \in 0 .. m - 1,
         NEW a \in Nat, a = m * q + r
  PROVE  a % m = r
<1> DEFINE q2 == a \div m
           r2 == a % m
<1>1. q2 \in Nat /\ r2 \in 0 .. m - 1 /\ a = m * q2 + r2
  BY DivMod
<1> HIDE DEF q2, r2
<1>2. m * (q - q2) = r2 - r
  BY <1>1
<1>3. q - q2 = 0
  BY <1>1, <1>2, SmallMultiple
<1>4. QED
  BY <1>1, <1>2, <1>3 DEF r2

(* A number below the modulus is its own remainder.                         *)
LEMMA ModSmall ==
  ASSUME NEW m \in Nat \ {0}, NEW a \in 0 .. m - 1
  PROVE  a % m = a
  BY ModUnique, a = m * 0 + a

(* Between one and two moduli, the remainder is the excess.                 *)
LEMMA ModOneLap ==
  ASSUME NEW m \in Nat \ {0}, NEW a \in m .. 2 * m - 1
  PROVE  a % m = a - m
<1>1. a = m * 1 + (a - m) /\ a - m \in 0 .. m - 1 /\ a \in Nat
  OBVIOUS
<1>2. QED
  BY <1>1, ModUnique

(* Adding a multiple of m does not change the remainder by m.               *)
LEMMA ModAddMultiple ==
  ASSUME NEW m \in Nat \ {0}, NEW M \in Nat, M % m = 0, NEW x \in Nat
  PROVE  (x + M) % m = x % m
<1>0. M \div m \in Nat /\ M = m * (M \div m) + (M % m)
  BY DivMod
<1>1. PICK k \in Nat : M = m * k
  BY <1>0
<1>2. PICK q \in Nat, r \in 0 .. m - 1 : x = m * q + r /\ x % m = r
  BY DivMod
<1>3. x + M = m * (q + k) + r
  BY <1>1, <1>2
<1>4. QED
  BY <1>1, <1>2, <1>3, ModUnique

(* m consecutive numbers have m different remainders.                       *)
LEMMA ModWindow ==
  ASSUME NEW m \in Nat \ {0}, NEW x \in Nat,
         NEW i \in 0 .. m - 1, NEW j \in 0 .. m - 1,
         (x + i) % m = (x + j) % m
  PROVE  i = j
<1>0. x + i \in Nat /\ x + j \in Nat
  OBVIOUS
<1>1. PICK q \in Nat, r \in 0 .. m - 1 : x + i = m * q + r /\ (x + i) % m = r
  BY <1>0, DivMod
<1>2. PICK q2 \in Nat, r2 \in 0 .. m - 1 : x + j = m * q2 + r2 /\ (x + j) % m = r2
  BY <1>0, DivMod
<1>3. i - j = m * (q - q2)
  BY <1>1, <1>2
<1>4. q - q2 = 0
  BY <1>3, SmallMultiple
<1>5. QED
  BY <1>3, <1>4

-----------------------------------------------------------------------------
(* The used size is the distance from the reading index to the writing one. *)
LEMMA Distance ==
  ASSUME NEW r \in Idx, NEW w \in Idx
  PROVE  (w + IdxMod - r) % IdxMod = IF w >= r THEN w - r ELSE w + IdxMod - r
<1> USE QueueAssumption DEF Idx
<1> DEFINE d == w + IdxMod - r
<1>1. CASE w >= r
  <2>1. d \in IdxMod .. 2 * IdxMod - 1
    BY <1>1
  <2>2. d % IdxMod = d - IdxMod
    BY <2>1, ModOneLap
  <2>3. QED
    BY <1>1, <2>2
<1>2. CASE ~(w >= r)
  <2>1. d \in 0 .. IdxMod - 1
    BY <1>2
  <2>2. d % IdxMod = d
    BY <2>1, ModSmall
  <2>3. QED
    BY <1>2, <2>1, <2>2
<1>3. QED
  BY <1>1, <1>2

LEMMA UsedSize ==
  ASSUME rd_idx \in Idx, wr_idx \in Idx
  PROVE  /\ QueueUsedSize \in Idx
         /\ QueueUsedSize = IF wr_idx >= rd_idx THEN wr_idx - rd_idx
                                                ELSE wr_idx + IdxMod - rd_idx
  BY Distance, QueueAssumption DEF QueueUsedSize, Idx

(* An index moves by one and stays an index.                                *)
LEMMA NextIndex ==
  ASSUME NEW x \in Idx
  PROVE  (x + 1) % IdxMod = IF x = IdxMod - 1 THEN 0 ELSE x + 1
<1> USE QueueAssumption DEF Idx
<1>1. CASE x = IdxMod - 1
  BY <1>1, ModOneLap
<1>2. CASE x # IdxMod - 1
  BY <1>2, ModSmall
<1>3. QED
  BY <1>1, <1>2

(* A push adds one to the used size, below a full ring; a pop takes one off. *)
LEMMA UsedAfterPush ==
  ASSUME NEW r \in Idx, NEW w \in Idx, (w + IdxMod - r) % IdxMod < Size
  PROVE  (((w + 1) % IdxMod) + IdxMod - r) % IdxMod = ((w + IdxMod - r) % IdxMod) + 1
<1> DEFINE w2 == (w + 1) % IdxMod
<1> DEFINE d == (w + IdxMod - r) % IdxMod
           d2 == (w2 + IdxMod - r) % IdxMod
<1>1. w2 \in Idx /\ w2 = IF w = IdxMod - 1 THEN 0 ELSE w + 1
  BY NextIndex, QueueAssumption DEF Idx
<1> HIDE DEF w2
<1>2. d2 = IF w2 >= r THEN w2 - r ELSE w2 + IdxMod - r
  BY <1>1, Distance
<1>3. d = IF w >= r THEN w - r ELSE w + IdxMod - r
  BY Distance
<1>4. d < Size
  OBVIOUS
<1> HIDE DEF d, d2
<1>5. d2 = d + 1
  BY <1>1, <1>2, <1>3, <1>4, QueueAssumption DEF Idx
<1>6. QED
  BY <1>5 DEF d, d2, w2

LEMMA UsedAfterPop ==
  ASSUME NEW r \in Idx, NEW w \in Idx, (w + IdxMod - r) % IdxMod > 0
  PROVE  (w + IdxMod - ((r + 1) % IdxMod)) % IdxMod = ((w + IdxMod - r) % IdxMod) - 1
<1> DEFINE r2 == (r + 1) % IdxMod
<1> DEFINE d == (w + IdxMod - r) % IdxMod
           d2 == (w + IdxMod - r2) % IdxMod
<1>1. r2 \in Idx /\ r2 = IF r = IdxMod - 1 THEN 0 ELSE r + 1
  BY NextIndex, QueueAssumption DEF Idx
<1> HIDE DEF r2
<1>2. d2 = IF w >= r2 THEN w - r2 ELSE w + IdxMod - r2
  BY <1>1, Distance
<1>3. d = IF w >= r THEN w - r ELSE w + IdxMod - r
  BY Distance
<1>4. d > 0
  OBVIOUS
<1> HIDE DEF d, d2
<1>5. d2 = d - 1
  BY <1>1, <1>2, <1>3, <1>4, QueueAssumption DEF Idx
<1>6. QED
  BY <1>5 DEF d, d2, r2

(* Slots are in range, and an index and the index one lap on share a slot.  *)
LEMMA SlotOfIndex ==
  ASSUME NEW x \in Nat
  PROVE  Slot(x) \in Slots /\ Slot(x + IdxMod) = Slot(x)
  BY QueueAssumption, DivMod, ModAddMultiple DEF Slot, Slots

(* The next packet is written Used slots after the one read next.           *)
LEMMA SlotOfWrite ==
  ASSUME rd_idx \in Idx, wr_idx \in Idx
  PROVE  Slot(wr_idx) = Slot(rd_idx + QueueUsedSize)
<1>1. CASE wr_idx >= rd_idx
  BY <1>1, UsedSize, QueueAssumption DEF Idx
<1>2. CASE ~(wr_idx >= rd_idx)
  <2>1. rd_idx + QueueUsedSize = wr_idx + IdxMod
    BY <1>2, UsedSize, QueueAssumption DEF Idx
  <2>2. wr_idx \in Nat
    BY QueueAssumption DEF Idx
  <2>3. QED
    BY <2>1, <2>2, SlotOfIndex
<1>3. QED
  BY <1>1, <1>2

(* Moving the reading index renumbers the waiting slots by one.             *)
LEMMA SlotAfterPop ==
  ASSUME NEW x \in Idx, NEW i \in Nat
  PROVE  Slot(((x + 1) % IdxMod) + i) = Slot(x + (i + 1))
<1> USE QueueAssumption DEF Idx
<1>1. CASE x = IdxMod - 1
  <2>1. (x + 1) % IdxMod = 0
    BY <1>1, NextIndex
  <2>2. x + (i + 1) = i + IdxMod
    BY <1>1
  <2>3. QED
    BY <2>1, <2>2, SlotOfIndex
<1>2. CASE x # IdxMod - 1
  <2>1. (x + 1) % IdxMod = x + 1
    BY <1>2, NextIndex
  <2>2. (x + 1) + i = x + (i + 1)
    OBVIOUS
  <2>3. QED
    BY <2>1, <2>2
<1>3. QED
  BY <1>1, <1>2

(* Fewer than Size indices apart, two indices have different slots.         *)
LEMMA SlotsApart ==
  ASSUME NEW x \in Nat, NEW i \in 0 .. Size - 1, NEW j \in 0 .. Size - 1, i # j
  PROVE  Slot(x + i) # Slot(x + j)
  BY QueueAssumption, ModWindow DEF Slot

-----------------------------------------------------------------------------
(* The ring starts empty.                                                   *)
LEMMA RingInvInit == Init => RingInv
<1> SUFFICES ASSUME Init PROVE RingInv
  OBVIOUS
<1>1. rd_idx \in Idx /\ wr_idx \in Idx
  BY QueueAssumption DEF Init, Idx
<1>2. QueueUsedSize = 0
  BY <1>1, UsedSize DEF Init
<1>3. Blank \in StoragePacket
  BY DEF Blank, StoragePacket
<1>4. TypeOK
  <2>1. storage \in [Slots -> StoragePacket] /\ pkg \in StoragePacket
    BY <1>3 DEF Init
  <2>2. QueueUsedSize <= Size
    BY <1>2, QueueAssumption
  <2>3. arg \in Packet \cup {NoPacket}
    BY DEF Init
  <2>4. QED
    BY <1>1, <2>1, <2>2, <2>3 DEF Init, TypeOK, Idx
<1>5. QED
  BY <1>2, <1>4 DEF Init, RingInv

(* Every step preserves the invariant.  The delicate ones write a slot,     *)
(* which must not be a waiting one, and move an index.                      *)
LEMMA RingInvNext == RingInv /\ [Next]_vars => RingInv'
<1> SUFFICES ASSUME RingInv, [Next]_vars PROVE RingInv'
  OBVIOUS
<1> DEFINE rdSlot == Slot(rd_idx)
           wrSlot == Slot(wr_idx)
<1>a. /\ TypeOK
      /\ rd_idx \in Idx /\ wr_idx \in Idx
      /\ QueueUsedSize \in 0 .. Size
  BY UsedSize, QueueAssumption DEF RingInv, TypeOK, Idx
<1>b. rdSlot \in Slots /\ wrSlot \in Slots
  BY <1>a, SlotOfIndex, QueueAssumption DEF Idx
<1>1. CASE UNCHANGED vars
  BY <1>1 DEF vars, RingInv, TypeOK, Whole, QueueUsedSize, Slot
<1>2. ASSUME NEW p \in Packet, PushLidarData(p) PROVE RingInv'
  BY <1>2, QueueAssumption
  DEF PushLidarData, consumer, RingInv, TypeOK, Whole, QueueUsedSize, Slot
<1>3. CASE InitQueue
  <2>1. rd_idx = 0 /\ wr_idx = 0 /\ rd_idx' = 0 /\ wr_idx' = 0
    BY <1>3 DEF InitQueue, RingInv
  <2>2. QED
    BY <1>3, <2>1
    DEF InitQueue, consumer, RingInv, TypeOK, Whole, QueueUsedSize, Slot
<1>4. CASE RefusePacket
  BY <1>4 DEF RefusePacket, consumer, RingInv, TypeOK, Whole, QueueUsedSize, Slot
<1>5. CASE AdmitPacket
  <2>1. QueueUsedSize < Size
    BY <1>5, <1>a, QueueAssumption DEF AdmitPacket, QueueIsFull
  <2>2. QueueUsedSize' < Size
    BY <1>5, <2>1 DEF AdmitPacket, QueueUsedSize
  <2>3. QED
    BY <1>5, <2>2 DEF AdmitPacket, consumer, RingInv, TypeOK, Whole, QueueUsedSize, Slot
<1>6. ASSUME QueueUsedSize < Size
      PROVE  \A i \in 0 .. QueueUsedSize - 1 : Slot(rd_idx + i) # wrSlot
  <2>1. wrSlot = Slot(rd_idx + QueueUsedSize)
    BY <1>a, SlotOfWrite
  <2>2. rd_idx \in Nat /\ QueueUsedSize \in 0 .. Size - 1
    BY <1>6, <1>a, QueueAssumption DEF Idx
  <2> TAKE i \in 0 .. QueueUsedSize - 1
  <2>3. i \in 0 .. Size - 1 /\ i # QueueUsedSize
    BY <2>2, QueueAssumption
  <2>4. Slot(rd_idx + i) # Slot(rd_idx + QueueUsedSize)
    BY <2>2, <2>3, SlotsApart
  <2>5. QED
    BY <2>1, <2>4
<1>7. CASE PushBaseTime
  <2>1. QueueUsedSize < Size /\ QueueUsedSize' = QueueUsedSize
    BY <1>7 DEF PushBaseTime, RingInv, QueueUsedSize
  <2>2. storage' \in [Slots -> StoragePacket]
    BY <1>7, <1>a, <1>b DEF PushBaseTime, TypeOK, StoragePacket
  <2>3. \A t \in Slots \ {wrSlot} : storage'[t] = storage[t]
    BY <1>7, <1>a, <1>b DEF PushBaseTime, TypeOK
  <2>4. storage'[wrSlot].base_time = arg
    BY <1>7, <1>a, <1>b DEF PushBaseTime, TypeOK, StoragePacket
  <2>5. \A i \in 0 .. QueueUsedSize - 1 :
          Slot(rd_idx + i) \in Slots /\ storage'[Slot(rd_idx + i)] = storage[Slot(rd_idx + i)]
    BY <1>6, <1>a, <2>1, <2>3, SlotOfIndex, QueueAssumption DEF Idx
  <2>6. (\A i \in 0 .. QueueUsedSize - 1 : Whole(Slot(rd_idx + i)))'
    <3>1. \A i \in 0 .. QueueUsedSize - 1 : Whole(Slot(rd_idx + i))'
      BY <1>7, <2>5 DEF PushBaseTime, RingInv, Whole, Slot
    <3>2. QED
      BY <2>1, <3>1
  <2>7. QueueUsedSize > 0 => storage'[rdSlot] = storage[rdSlot]
    BY <2>5, <1>a, QueueAssumption DEF Idx
  <2>8. QED
    BY <1>7, <2>1, <2>2, <2>4, <2>6, <2>7
    DEF PushBaseTime, consumer, RingInv, TypeOK, Slot
<1>8. CASE PushPoints
  <2>1. QueueUsedSize < Size /\ QueueUsedSize' = QueueUsedSize
    BY <1>8 DEF PushPoints, RingInv, QueueUsedSize
  <2>2. storage' \in [Slots -> StoragePacket]
    BY <1>8, <1>a, <1>b DEF PushPoints, TypeOK, StoragePacket
  <2>3. \A t \in Slots \ {wrSlot} : storage'[t] = storage[t]
    BY <1>8, <1>a, <1>b DEF PushPoints, TypeOK
  <2>4. storage'[wrSlot].points = arg /\ storage'[wrSlot].base_time = arg
    BY <1>8, <1>a, <1>b DEF PushPoints, RingInv, TypeOK, StoragePacket
  <2>5. \A i \in 0 .. QueueUsedSize - 1 :
          Slot(rd_idx + i) \in Slots /\ storage'[Slot(rd_idx + i)] = storage[Slot(rd_idx + i)]
    BY <1>6, <1>a, <2>1, <2>3, SlotOfIndex, QueueAssumption DEF Idx
  <2>6. (\A i \in 0 .. QueueUsedSize - 1 : Whole(Slot(rd_idx + i)))'
    BY <1>8, <2>1, <2>5 DEF PushPoints, RingInv, Whole, Slot
  <2>7. QueueUsedSize > 0 => storage'[rdSlot] = storage[rdSlot]
    BY <2>5, <1>a, QueueAssumption DEF Idx
  <2>8. QED
    BY <1>8, <2>1, <2>2, <2>4, <2>6, <2>7
    DEF PushPoints, consumer, RingInv, TypeOK, Slot
<1>9. CASE PushIndex
  <2>1. QueueUsedSize < Size /\ wr_idx' \in Idx
    BY <1>9, <1>a, NextIndex, QueueAssumption DEF PushIndex, RingInv, Idx
  <2>2. QueueUsedSize' = QueueUsedSize + 1
    BY <1>9, <1>a, <2>1, UsedAfterPush DEF PushIndex, QueueUsedSize
  <2>3. wrSlot = Slot(rd_idx + QueueUsedSize)
    BY <1>a, SlotOfWrite
  <2>4. Whole(wrSlot)
    BY <1>9 DEF PushIndex, RingInv, Whole
  <2>5. \A i \in 0 .. QueueUsedSize : Whole(Slot(rd_idx + i))
    BY <1>a, <2>3, <2>4 DEF RingInv
  <2>6. (\A i \in 0 .. QueueUsedSize - 1 : Whole(Slot(rd_idx + i)))'
    BY <1>9, <1>a, <2>2, <2>5 DEF PushIndex, Whole, Slot
  <2>7. QueueUsedSize' <= Size /\ QueueUsedSize' > 0
    BY <2>1, <2>2, <1>a, QueueAssumption
  <2>8. QED
    BY <1>9, <2>1, <2>6, <2>7
    DEF PushIndex, consumer, RingInv, TypeOK, Slot, Idx
<1>10. CASE QueuePrePop
  <2>1. QueueUsedSize > 0
    BY <1>10, <1>a, UsedSize, QueueAssumption DEF QueuePrePop, QueueIsEmpty, Idx
  <2>2. QueueUsedSize' > 0
    BY <1>10, <2>1 DEF QueuePrePop, QueueUsedSize
  <2>3. QED
    BY <1>10, <2>2 DEF QueuePrePop, producer, RingInv, TypeOK, Whole, QueueUsedSize, Slot
<1>11. CASE CopyBaseTime
  <2>1. pkg' \in StoragePacket /\ pkg'.base_time = storage[rdSlot].base_time
    BY <1>11, <1>a, <1>b DEF CopyBaseTime, TypeOK, StoragePacket
  <2>2. QED
    BY <1>11, <2>1
    DEF CopyBaseTime, producer, RingInv, TypeOK, Whole, QueueUsedSize, Slot
<1>12. CASE CopyPoints
  <2>1. /\ pkg' \in StoragePacket
        /\ pkg'.points = storage[rdSlot].points
        /\ pkg'.base_time = pkg.base_time
    BY <1>12, <1>a, <1>b DEF CopyPoints, TypeOK, StoragePacket
  <2>2. QED
    BY <1>12, <2>1
    DEF CopyPoints, producer, RingInv, TypeOK, Whole, QueueUsedSize, Slot
<1>13. CASE QueuePopUpdate
  <2>1. QueueUsedSize > 0 /\ rd_idx' \in Idx
    BY <1>13, <1>a, NextIndex, QueueAssumption DEF QueuePopUpdate, RingInv, Idx
  <2>2. QueueUsedSize' = QueueUsedSize - 1
    BY <1>13, <1>a, <2>1, UsedAfterPop DEF QueuePopUpdate, QueueUsedSize
  <2>3. \A i \in 0 .. QueueUsedSize - 2 : Slot(rd_idx' + i) = Slot(rd_idx + (i + 1))
    BY <1>13, <1>a, SlotAfterPop DEF QueuePopUpdate
  <2>4. \A i \in 0 .. QueueUsedSize - 2 : Whole(Slot(rd_idx + (i + 1)))
    BY <1>a DEF RingInv
  <2>5. (\A i \in 0 .. QueueUsedSize - 1 : Whole(Slot(rd_idx + i)))'
    BY <1>13, <1>a, <2>2, <2>3, <2>4 DEF QueuePopUpdate, Whole, Slot
  <2>6. Whole(rdSlot)
    BY <1>a, <2>1, QueueAssumption DEF RingInv, Idx
  <2>7. pkg'.base_time = pkg'.points /\ pkg'.points \in Packet
    BY <1>13, <2>6 DEF QueuePopUpdate, RingInv, Whole
  <2>8. allocated
    BY <1>13 DEF QueuePopUpdate, RingInv
  <2>9. QueueUsedSize' <= Size
        /\ (ppc \in {"base_time", "points", "index"} => QueueUsedSize' < Size)
    BY <1>a, <2>2, QueueAssumption DEF RingInv
  <2>10. QED
    BY <1>13, <2>1, <2>5, <2>7, <2>8, <2>9
    DEF QueuePopUpdate, producer, RingInv, TypeOK, Slot, Idx
<1>14. CASE PublishPacket
  <2>1. pkg' \in StoragePacket
    BY <1>14 DEF PublishPacket, Blank, StoragePacket
  <2>2. QED
    BY <1>14, <2>1 DEF PublishPacket, producer, RingInv, TypeOK, Whole, QueueUsedSize, Slot
<1>15. QED
  BY <1>1, <1>2, <1>3, <1>4, <1>5, <1>7, <1>8, <1>9, <1>10, <1>11, <1>12, <1>13, <1>14
  DEF Next, Producer, Consumer
(* The invariant holds in every reachable state.                            *)
THEOREM RingInvariant == Spec => []RingInv
  BY RingInvInit, RingInvNext, PTL DEF Spec

(* For every ring size and index width: the variables keep their types and  *)
(* no more packets wait than there are slots.                               *)
THEOREM RingTypeCorrect == Spec => []TypeOK
<1>1. RingInv => TypeOK
  BY DEF RingInv
<1>2. QED
  BY <1>1, RingInvariant, PTL

(* PushLidarData and the publishing loop never touch the same slot at once. *)
THEOREM SlotExclusion == Spec => []NoSlotConflict
<1>1. RingInv => NoSlotConflict
  <2> SUFFICES ASSUME RingInv,
                      ppc \in {"base_time", "points"},
                      cpc \in {"base_time", "points"}
               PROVE  Slot(wr_idx) # Slot(rd_idx)
    BY DEF NoSlotConflict
  <2>1. rd_idx \in Idx /\ wr_idx \in Idx /\ rd_idx \in Nat
    BY QueueAssumption DEF RingInv, TypeOK, Idx
  <2>2. QueueUsedSize \in 1 .. Size - 1
    BY <2>1, UsedSize, QueueAssumption DEF RingInv, Idx
  <2> DEFINE u == QueueUsedSize
  <2>a. u \in 0 .. Size - 1 /\ 0 \in 0 .. Size - 1 /\ u # 0
    BY <2>2, QueueAssumption
  <2>3. Slot(rd_idx + u) # Slot(rd_idx + 0)
    <3> HIDE DEF u
    <3> QED
      BY <2>1, <2>a, SlotsApart
  <2>4. rd_idx + 0 = rd_idx
    BY <2>1
  <2>5. Slot(rd_idx + QueueUsedSize) # Slot(rd_idx)
    BY <2>3, <2>4
  <2>6. Slot(wr_idx) = Slot(rd_idx + QueueUsedSize)
    BY <2>1, SlotOfWrite
  <2>7. QED
    BY <2>5, <2>6
<1>2. QED
  BY <1>1, RingInvariant, PTL

(* A published packet is a stored packet, time base and points alike.       *)
THEOREM WholePackets == Spec => []NoTornPacket
<1>1. RingInv => NoTornPacket
  BY DEF RingInv, NoTornPacket
<1>2. QED
  BY <1>1, RingInvariant, PTL

-----------------------------------------------------------------------------
(* Intervals from 1 with the same members have the same end.                *)
LEMMA SameInterval ==
  ASSUME NEW m \in Nat, NEW n \in Nat, 1 .. m = 1 .. n
  PROVE  m = n
<1>1. ~(m > n)
  <2> SUFFICES ASSUME m > n PROVE FALSE
    OBVIOUS
  <2>1. m \in 1 .. m /\ m \notin 1 .. n
    OBVIOUS
  <2>2. QED
    BY <2>1
<1>2. ~(n > m)
  <2> SUFFICES ASSUME n > m PROVE FALSE
    OBVIOUS
  <2>1. n \in 1 .. n /\ n \notin 1 .. m
    OBVIOUS
  <2>2. QED
    BY <2>1
<1>3. QED
  BY <1>1, <1>2

(* A function on 1 .. n is a sequence of length n.                          *)
LEMMA FunctionIsSeq ==
  ASSUME NEW S, NEW n \in Nat, NEW f \in [1 .. n -> S]
  PROVE  f \in Seq(S) /\ Len(f) = n
<1>1. f \in Seq(S)
  BY SeqDef
<1>2. DOMAIN f = 1 .. Len(f) /\ DOMAIN f = 1 .. n /\ Len(f) \in Nat
  BY <1>1, LenProperties
<1>3. QED
  BY <1>1, <1>2, SameInterval

(* Contents is a sequence of packets, as long as the used size.             *)
LEMMA ContentsSeq ==
  ASSUME RingInv
  PROVE  /\ Contents \in Seq(Packet)
         /\ Len(Contents) = QueueUsedSize
         /\ \A i \in 1 .. QueueUsedSize :
              Contents[i] = storage[Slot(rd_idx + (i - 1))].points
<1>1. QueueUsedSize \in Nat
  BY UsedSize, QueueAssumption DEF RingInv, TypeOK, Idx
<1>2. \A i \in 1 .. QueueUsedSize : storage[Slot(rd_idx + (i - 1))].points \in Packet
  <2> TAKE i \in 1 .. QueueUsedSize
  <2>1. i - 1 \in 0 .. QueueUsedSize - 1
    BY <1>1
  <2>2. QED
    BY <2>1 DEF RingInv, Whole
<1>3. Contents \in [1 .. QueueUsedSize -> Packet]
  BY <1>2 DEF Contents
<1>4. QED
  BY <1>1, <1>3, FunctionIsSeq DEF Contents

(* The ring starts as an empty FIFO.                                        *)
LEMMA FifoInit == Init => Fifo!Init
<1> SUFFICES ASSUME Init PROVE Fifo!Init
  OBVIOUS
<1>1. RingInv
  BY RingInvInit
<1>2. QueueUsedSize = 0
  BY UsedSize, QueueAssumption DEF Init, Idx
<1>3. Contents = <<>>
  BY <1>1, <1>2, ContentsSeq, EmptySeq
<1>4. QED
  BY <1>3 DEF Init, Fifo!Init, Popped

(* A step that leaves the indices and the waiting slots alone leaves the    *)
(* contents alone.                                                          *)
LEMMA ContentsKept ==
  ASSUME RingInv, RingInv', rd_idx' = rd_idx, wr_idx' = wr_idx,
         \A i \in 0 .. QueueUsedSize - 1 :
           storage'[Slot(rd_idx + i)] = storage[Slot(rd_idx + i)]
  PROVE  Contents' = Contents
<1>1. QueueUsedSize' = QueueUsedSize /\ QueueUsedSize \in Nat
  BY UsedSize, QueueAssumption DEF QueueUsedSize, RingInv, TypeOK, Idx
<1>2. \A i \in 1 .. QueueUsedSize :
        storage'[Slot(rd_idx + (i - 1))].points = storage[Slot(rd_idx + (i - 1))].points
  <2> TAKE i \in 1 .. QueueUsedSize
  <2>1. i - 1 \in 0 .. QueueUsedSize - 1
    BY <1>1
  <2>2. QED
    BY <2>1
<1>3. QED
  BY <1>1, <1>2 DEF Contents, Slot

(* Advancing the writing index appends the packet on offer.                 *)
LEMMA ContentsAfterPush ==
  ASSUME RingInv, RingInv', PushIndex
  PROVE  QueueUsedSize < Size /\ Contents' = Append(Contents, arg)
<1> DEFINE u == QueueUsedSize
<1>1. rd_idx \in Idx /\ wr_idx \in Idx /\ u \in Nat /\ u < Size
  BY UsedSize, QueueAssumption DEF RingInv, TypeOK, Idx, PushIndex
<1>2. QueueUsedSize' = u + 1
  BY <1>1, UsedAfterPush DEF PushIndex, QueueUsedSize
<1>3. Slot(wr_idx) = Slot(rd_idx + u)
  BY <1>1, SlotOfWrite
<1>4. storage[Slot(rd_idx + u)].points = arg
  BY <1>3 DEF PushIndex, RingInv
<1>5. /\ Contents \in Seq(Packet)
      /\ Len(Contents) = u
      /\ \A i \in 1 .. u : Contents[i] = storage[Slot(rd_idx + (i - 1))].points
  BY ContentsSeq
<1>6. arg \in Packet
  BY DEF PushIndex, RingInv
<1>7. Contents' = [i \in 1 .. u + 1 |-> storage[Slot(rd_idx + (i - 1))].points]
  BY <1>2 DEF Contents, PushIndex, Slot
<1> HIDE DEF u
<1>8. \A i \in 1 .. u + 1 :
        storage[Slot(rd_idx + (i - 1))].points = IF i = u + 1 THEN arg ELSE Contents[i]
  <2> TAKE i \in 1 .. u + 1
  <2>1. CASE i = u + 1
    BY <2>1, <1>1, <1>4
  <2>2. CASE i # u + 1
    <3>1. i \in 1 .. u
      BY <2>2, <1>1
    <3>2. QED
      BY <2>2, <3>1, <1>5
  <2>3. QED
    BY <2>1, <2>2
<1>9. Contents' = [i \in 1 .. u + 1 |-> IF i = u + 1 THEN arg ELSE Contents[i]]
  BY <1>7, <1>8
<1>10. \A i \in 1 .. u + 1 : (IF i = u + 1 THEN arg ELSE Contents[i]) \in Packet
  <2> TAKE i \in 1 .. u + 1
  <2>1. i # u + 1 => i \in 1 .. u
    BY <1>1
  <2>2. QED
    BY <2>1, <1>5, <1>6, ElementOfSeq
<1>11. u + 1 \in Nat /\ Contents' \in [1 .. u + 1 -> Packet]
  BY <1>1, <1>9, <1>10
<1>12. Contents' \in Seq(Packet) /\ Len(Contents') = u + 1
  BY <1>11, FunctionIsSeq
<1>13. /\ Append(Contents, arg) \in Seq(Packet)
       /\ Len(Append(Contents, arg)) = u + 1
       /\ \A i \in 1 .. u : Append(Contents, arg)[i] = Contents[i]
       /\ Append(Contents, arg)[u + 1] = arg
  BY <1>1, <1>5, <1>6, AppendProperties
<1>14. \A i \in 1 .. u + 1 : Contents'[i] = Append(Contents, arg)[i]
  BY <1>1, <1>9, <1>13
<1>15. Contents' = Append(Contents, arg)
  BY <1>12, <1>13, <1>14, SeqEqual
<1>16. QED
  BY <1>1, <1>15 DEF u

(* Advancing the reading index takes off the oldest packet, the copied one. *)
LEMMA ContentsAfterPop ==
  ASSUME RingInv, RingInv', QueuePopUpdate
  PROVE  /\ Contents # <<>>
         /\ pkg.points = Head(Contents)
         /\ Contents' = Tail(Contents)
<1> DEFINE u == QueueUsedSize
<1>1. rd_idx \in Idx /\ wr_idx \in Idx /\ rd_idx + 0 = rd_idx /\ u \in Nat \ {0}
  BY UsedSize, QueueAssumption DEF RingInv, TypeOK, Idx, QueuePopUpdate
<1>2. QueueUsedSize' = u - 1
  BY <1>1, UsedAfterPop DEF QueuePopUpdate, QueueUsedSize
<1>3. /\ Contents \in Seq(Packet)
      /\ Len(Contents) = u
      /\ \A i \in 1 .. u : Contents[i] = storage[Slot(rd_idx + (i - 1))].points
  BY ContentsSeq
<1>4. /\ Contents' = [i \in 1 .. u - 1 |-> Contents[i + 1]]
      /\ Contents' \in Seq(Packet)
      /\ Len(Contents') = u - 1
  <2>1. Contents' = [i \in 1 .. u - 1 |-> storage[Slot(rd_idx' + (i - 1))].points]
    BY <1>2 DEF Contents, QueuePopUpdate, Slot
  <2>2. \A i \in 1 .. u - 1 : storage[Slot(rd_idx' + (i - 1))].points = Contents[i + 1]
    <3> TAKE i \in 1 .. u - 1
    <3>1. i - 1 \in Nat /\ (i - 1) + 1 = i /\ i + 1 \in 1 .. u /\ (i + 1) - 1 = i
      BY <1>1
    <3>2. Slot(((rd_idx + 1) % IdxMod) + (i - 1)) = Slot(rd_idx + ((i - 1) + 1))
      BY <1>1, <3>1, SlotAfterPop
    <3>3. QED
      BY <1>3, <3>1, <3>2 DEF QueuePopUpdate
  <2>3. \A i \in 1 .. u - 1 : Contents[i + 1] \in Packet
    <3> TAKE i \in 1 .. u - 1
    <3>1. i + 1 \in 1 .. u
      BY <1>1
    <3> HIDE DEF u
    <3>2. QED
      BY <1>3, <3>1, ElementOfSeq
  <2>4. Contents' = [i \in 1 .. u - 1 |-> Contents[i + 1]]
    BY <2>1, <2>2
  <2>5. u - 1 \in Nat /\ Contents' \in [1 .. u - 1 -> Packet]
    BY <1>1, <2>3, <2>4
  <2>6. QED
    BY <2>4, <2>5, FunctionIsSeq
<1>5. Contents # <<>> /\ Head(Contents) = Contents[1]
  BY <1>1, <1>3, EmptySeq
<1>6. pkg.points = Contents[1]
  BY <1>1, <1>3 DEF QueuePopUpdate, RingInv
<1>7. Contents' = Tail(Contents)
  <2>1. /\ Tail(Contents) \in Seq(Packet)
        /\ Len(Tail(Contents)) = u - 1
        /\ \A i \in 1 .. u - 1 : Tail(Contents)[i] = Contents[i + 1]
    BY <1>3, <1>5, HeadTailProperties
  <2> HIDE DEF u
  <2>2. QED
    BY <1>4, <2>1, SeqEqual
<1>8. QED
  BY <1>5, <1>6, <1>7

(* Every step of the ring is a step of the FIFO or leaves it alone.         *)
LEMMA FifoStep == RingInv /\ RingInv' /\ [Next]_vars => [Fifo!Next]_(Fifo!vars)
<1> SUFFICES ASSUME RingInv, RingInv', [Next]_vars
             PROVE  Fifo!Next \/ UNCHANGED Fifo!vars
  OBVIOUS
<1> USE DEF Fifo!vars, Fifo!Next
<1>a. rd_idx \in Idx /\ wr_idx \in Idx /\ QueueUsedSize \in 0 .. Size
      /\ NoPacket \notin Packet
  BY UsedSize, QueueAssumption DEF RingInv, TypeOK, Idx
<1>b. ASSUME rd_idx' = rd_idx, wr_idx' = wr_idx, storage' = storage
      PROVE  Contents' = Contents
  BY <1>b, ContentsKept
<1>1. CASE UNCHANGED vars
  BY <1>1 DEF vars, Contents, QueueUsedSize, Slot, Popped
<1>2. ASSUME NEW p \in Packet, PushLidarData(p) PROVE Fifo!Next
  <2>1. arg = NoPacket /\ arg' = p /\ Popped' = Popped
    BY <1>2 DEF PushLidarData, consumer, RingInv, Popped
  <2>2. Contents' = Contents
    BY <1>2, <1>b DEF PushLidarData
  <2>3. Fifo!Offer(p)
    BY <2>1, <2>2 DEF Fifo!Offer
  <2>4. QED
    BY <2>3
<1>3. CASE InitQueue
  <2>1. rd_idx = 0 /\ wr_idx = 0
    BY <1>3 DEF InitQueue, RingInv
  <2>2. Contents' = Contents
    BY <1>3, <2>1, <1>b DEF InitQueue
  <2>3. QED
    BY <1>3, <2>2 DEF InitQueue, consumer, Popped
<1>4. CASE RefusePacket
  <2>1. Contents' = Contents
    BY <1>4, <1>b DEF RefusePacket
  <2>2. Len(Contents) = Size
    BY <1>4, <1>a, ContentsSeq, QueueAssumption DEF RefusePacket, QueueIsFull
  <2>3. arg # NoPacket /\ arg' = NoPacket /\ Popped' = Popped
    BY <1>4, <1>a DEF RefusePacket, consumer, RingInv, Popped
  <2>4. Fifo!Refuse
    BY <2>1, <2>2, <2>3 DEF Fifo!Refuse
  <2>5. QED
    BY <2>4
<1>5. CASE AdmitPacket
  <2>1. Contents' = Contents
    BY <1>5, <1>b DEF AdmitPacket
  <2>2. QED
    BY <1>5, <2>1 DEF AdmitPacket, consumer, Popped
<1>c. ASSUME QueueUsedSize < Size
      PROVE  \A i \in 0 .. QueueUsedSize - 1 :
               Slot(rd_idx + i) \in Slots /\ Slot(rd_idx + i) # Slot(wr_idx)
  <2>1. Slot(wr_idx) = Slot(rd_idx + QueueUsedSize)
    BY <1>a, SlotOfWrite
  <2>2. rd_idx \in Nat /\ QueueUsedSize \in 0 .. Size - 1
    BY <1>c, <1>a, QueueAssumption DEF Idx
  <2> TAKE i \in 0 .. QueueUsedSize - 1
  <2>3. i \in 0 .. Size - 1 /\ i # QueueUsedSize /\ rd_idx + i \in Nat
    BY <2>2, QueueAssumption
  <2>4. Slot(rd_idx + i) # Slot(rd_idx + QueueUsedSize)
    BY <2>2, <2>3, SlotsApart
  <2>5. QED
    BY <2>1, <2>3, <2>4, SlotOfIndex
<1>6. CASE PushBaseTime
  <2>1. QueueUsedSize < Size
    BY <1>6 DEF PushBaseTime, RingInv
  <2>2. \A i \in 0 .. QueueUsedSize - 1 :
          storage'[Slot(rd_idx + i)] = storage[Slot(rd_idx + i)]
    BY <1>6, <1>c, <2>1 DEF PushBaseTime, RingInv, TypeOK
  <2>3. Contents' = Contents
    BY <1>6, <2>2, ContentsKept DEF PushBaseTime
  <2>4. QED
    BY <1>6, <2>3 DEF PushBaseTime, consumer, Popped
<1>7. CASE PushPoints
  <2>1. QueueUsedSize < Size
    BY <1>7 DEF PushPoints, RingInv
  <2>2. \A i \in 0 .. QueueUsedSize - 1 :
          storage'[Slot(rd_idx + i)] = storage[Slot(rd_idx + i)]
    BY <1>7, <1>c, <2>1 DEF PushPoints, RingInv, TypeOK
  <2>3. Contents' = Contents
    BY <1>7, <2>2, ContentsKept DEF PushPoints
  <2>4. QED
    BY <1>7, <2>3 DEF PushPoints, consumer, Popped
<1>8. CASE PushIndex
  <2>1. QueueUsedSize < Size /\ Contents' = Append(Contents, arg)
    BY <1>8, ContentsAfterPush
  <2>2. Len(Contents) = QueueUsedSize
    BY ContentsSeq
  <2>3. arg # NoPacket /\ arg' = NoPacket /\ Popped' = Popped
    BY <1>8, <1>a DEF PushIndex, consumer, RingInv, Popped
  <2>4. Fifo!Accept
    BY <2>1, <2>2, <2>3 DEF Fifo!Accept
  <2>5. QED
    BY <2>4
<1>9. CASE QueuePrePop
  <2>1. Contents' = Contents
    BY <1>9, <1>b DEF QueuePrePop
  <2>2. QED
    BY <1>9, <2>1 DEF QueuePrePop, producer, Popped
<1>10. CASE CopyBaseTime
  <2>1. Contents' = Contents
    BY <1>10, <1>b DEF CopyBaseTime
  <2>2. QED
    BY <1>10, <2>1 DEF CopyBaseTime, producer, Popped
<1>11. CASE CopyPoints
  <2>1. Contents' = Contents
    BY <1>11, <1>b DEF CopyPoints
  <2>2. QED
    BY <1>11, <2>1 DEF CopyPoints, producer, Popped
<1>12. CASE QueuePopUpdate
  <2>1. /\ Contents # <<>>
        /\ pkg.points = Head(Contents)
        /\ Contents' = Tail(Contents)
    BY <1>12, ContentsAfterPop
  <2>2. Popped = NoPacket /\ Popped' = pkg.points /\ arg' = arg
    BY <1>12 DEF QueuePopUpdate, producer, Popped
  <2>3. Fifo!Deliver
    BY <2>1, <2>2 DEF Fifo!Deliver
  <2>4. QED
    BY <2>3
<1>13. CASE PublishPacket
  <2>1. Contents' = Contents
    BY <1>13, <1>b DEF PublishPacket
  <2>2. Popped # NoPacket /\ Popped' = NoPacket /\ arg' = arg
    BY <1>13, <1>a DEF PublishPacket, producer, RingInv, Popped
  <2>3. Fifo!Release
    BY <2>1, <2>2 DEF Fifo!Release
  <2>4. QED
    BY <2>3
<1>14. QED
  BY <1>1, <1>2, <1>3, <1>4, <1>5, <1>6, <1>7, <1>8, <1>9, <1>10, <1>11, <1>12, <1>13
  DEF Next, Producer, Consumer

(* For every size and index width the ring implements the bounded FIFO: an  *)
(* accepted packet is delivered once, in order, and a packet is refused     *)
(* only by a full queue.                                                    *)
THEOREM RingImplementsFifo == Spec => ImplementsFifo
  BY FifoInit, FifoStep, RingInvariant, PTL DEF Spec, ImplementsFifo, Fifo!Spec
=============================================================================
