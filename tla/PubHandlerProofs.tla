-------------------------- MODULE PubHandlerProofs --------------------------
(***************************************************************************)
(* Proof, for any lidars, packets, interval and network, that every point   *)
(* received is handed over once and in order or still waits, of the types   *)
(* of the variables, and, with synchronised time, that every boundary       *)
(* yields a frame unless a packet next to it was lost.                      *)
(*                                                                          *)
(* The points of a lidar that wait are those in the frame, in its handler   *)
(* and in the packets of the queue, one after the other.  The queue's part  *)
(* is a concatenation of sequences, which the community module defines by   *)
(* recursion: FlattenAppend and FlattenHead say, by induction, how it grows *)
(* at one end and shrinks at the other.                                     *)
(*                                                                          *)
(* The packets of a lidar, lost or not, end on a grid of ticks.  Every      *)
(* packet that ends next to a boundary has been lost, waits in the queue,   *)
(* or went by the check for a frame (Accounted, MissedOK).  As a packet     *)
(* ends in every millisecond, a boundary that passes while the points span  *)
(* enough for a frame has lost one; so has, if the interval is a whole      *)
(* number of milliseconds, the boundary before them if they begin too late  *)
(* to be a frame at the next one (LateMeansLost).  If it is not, the first  *)
(* boundary may pass, and those after it count.  A span beyond the bound    *)
(* would need more such boundaries than there are losses.                   *)
(***************************************************************************)
EXTENDS PubHandler, FiniteSetTheorems, SequenceTheorems, WellFoundedInduction, TLAPS

-----------------------------------------------------------------------------
(* Concatenations of any number of sequences.                               *)

Less == {ss \in Nat \X Nat : ss[1] < ss[2]}

\* Induction over the natural numbers, for a set instead of a predicate.
LEMMA Induction ==
  ASSUME NEW S, 0 \in S, \A n \in Nat : n \in S => n + 1 \in S
  PROVE  Nat \subseteq S
<1>. SUFFICES ASSUME Nat \ S # {} PROVE FALSE
  OBVIOUS
<1>1. IsWellFoundedOn(Less, Nat)
  BY NatLessThanWellFounded DEF OpToRel, Less
<1>2. Nat \ S \subseteq Nat
  OBVIOUS
<1>3. PICK x \in Nat \ S : \A y \in Nat \ S : ~(<<y, x>> \in Less)
  BY <1>1, <1>2, WFMin
<1>4. x # 0 /\ x - 1 \in Nat /\ x - 1 < x /\ (x - 1) + 1 = x
  OBVIOUS
<1>5. <<x - 1, x>> \in Less
  BY <1>4 DEF Less
<1>. QED
  BY <1>3, <1>4, <1>5

\* What FlattenSeq iterates over the first m sequences.
IsFlat(w, seqs, m) ==
  w = [i \in 1 .. m |-> IF i = 1 THEN seqs[i] ELSE w[i - 1] \o seqs[i]]

LEMMA FlatExists ==
  ASSUME NEW seqs
  PROVE  \A m \in Nat : \E w : IsFlat(w, seqs, m)
<1>. DEFINE M == {m \in Nat : \E w : IsFlat(w, seqs, m)}
<1>1. 0 \in M
  <2>1. IsFlat([i \in 1 .. 0 |-> <<>>], seqs, 0)
    BY DEF IsFlat
  <2>. QED
    BY <2>1
<1>2. ASSUME NEW m \in Nat, m \in M PROVE m + 1 \in M
  <2>1. PICK w : IsFlat(w, seqs, m)
    BY <1>2
  <2>. DEFINE v == [i \in 1 .. m + 1 |->
                      IF i = 1 THEN seqs[i] ELSE w[i - 1] \o seqs[i]]
  <2>2. \A i \in 1 .. m : v[i] = w[i]
    <3>. TAKE i \in 1 .. m
    <3>1. i \in 1 .. m + 1
      OBVIOUS
    <3>2. w[i] = IF i = 1 THEN seqs[i] ELSE w[i - 1] \o seqs[i]
      BY <2>1 DEF IsFlat
    <3>. QED
      BY <3>1, <3>2
  <2>3. \A i \in 1 .. m + 1 : i # 1 => i - 1 \in 1 .. m
    OBVIOUS
  <2>4. v = [i \in 1 .. m + 1 |-> IF i = 1 THEN seqs[i] ELSE v[i - 1] \o seqs[i]]
    BY <2>2, <2>3
  <2>5. IsFlat(v, seqs, m + 1)
    <3>. HIDE DEF v
    <3>. QED
      BY <2>4 DEF IsFlat
  <2>. QED
    BY <2>5
<1>. HIDE DEF M
<1>3. Nat \subseteq M
  BY <1>1, <1>2, Induction
<1>. QED
  BY <1>3 DEF M

\* P is the sequence of the partial concatenations of seqs.
Partial(P, seqs, S) ==
  /\ P \in [0 .. Len(seqs) -> Seq(S)]
  /\ P[0] = <<>>
  /\ \A i \in 1 .. Len(seqs) : P[i] = P[i - 1] \o seqs[i]

LEMMA FlattenIsLast ==
  ASSUME NEW S, NEW seqs \in Seq(Seq(S))
  PROVE  \E P : Partial(P, seqs, S) /\ FlattenSeq(seqs) = P[Len(seqs)]
<1>1. Len(seqs) \in Nat /\ <<>> \in Seq(S)
  BY LenProperties, EmptySeq
<1>2. \A i \in 1 .. Len(seqs) : seqs[i] \in Seq(S)
  BY ElementOfSeq
<1>. DEFINE n == Len(seqs)
            w == CHOOSE f : IsFlat(f, seqs, n)
            P == [i \in 0 .. n |-> IF i = 0 THEN <<>> ELSE w[i]]
<1>3. IsFlat(w, seqs, n)
  BY <1>1, FlatExists
<1>4. n # 0 => FlattenSeq(seqs) = w[n]
  BY DEF FlattenSeq, IsFlat
<1>5. n = 0 => FlattenSeq(seqs) = <<>>
  <2>1. n = 0 => seqs = <<>>
    BY EmptySeq
  <2>. QED
    BY <2>1 DEF FlattenSeq
<1>. HIDE DEF w
<1>6. \A i \in 1 .. n : w[i] = IF i = 1 THEN seqs[i] ELSE w[i - 1] \o seqs[i]
  BY <1>3 DEF IsFlat
<1>7. P[0] = <<>> /\ \A i \in 1 .. n : P[i] = w[i]
  BY <1>1
<1>8. \A i \in 1 .. n : P[i] = P[i - 1] \o seqs[i]
  <2>. TAKE i \in 1 .. n
  <2>1. CASE i = 1
    <3>1. P[i] = seqs[i] /\ P[i - 1] = <<>>
      BY <1>6, <1>7, <2>1
    <3>. QED
      BY <1>2, <3>1, ConcatEmptySeq
  <2>2. CASE i # 1
    <3>1. i - 1 \in 1 .. n
      BY <1>1, <2>2
    <3>. QED
      BY <1>6, <1>7, <2>2, <3>1
  <2>. QED
    BY <2>1, <2>2
<1>. DEFINE M == {i \in Nat : i <= n => P[i] \in Seq(S)}
<1>9. 0 \in M
  BY <1>1, <1>7
<1>10. ASSUME NEW i \in Nat, i \in M PROVE i + 1 \in M
  <2>. SUFFICES ASSUME i + 1 <= n PROVE P[i + 1] \in Seq(S)
    OBVIOUS
  <2>. HIDE DEF P
  <2>1. i + 1 \in 1 .. n /\ (i + 1) - 1 = i /\ P[i] \in Seq(S)
    BY <1>1, <1>10
  <2>2. P[i + 1] = P[i] \o seqs[i + 1]
    BY <1>8, <2>1
  <2>. QED
    BY <1>2, <2>1, <2>2, ConcatProperties
<1>. HIDE DEF P
<1>11. Nat \subseteq M
  <2>. HIDE DEF M
  <2>. QED
    BY <1>9, <1>10, Induction
<1>12. P \in [0 .. n -> Seq(S)]
  <2>1. \A i \in 0 .. n : i \in Nat /\ i <= n
    BY <1>1
  <2>2. \A i \in 0 .. n : P[i] \in Seq(S)
    BY <1>11, <2>1
  <2>3. P = [i \in 0 .. n |-> P[i]]
    BY DEF P
  <2>. QED
    BY <2>2, <2>3
<1>13. Partial(P, seqs, S)
  BY <1>7, <1>8, <1>12 DEF Partial
<1>14. FlattenSeq(seqs) = P[n]
  <2>1. CASE n = 0
    BY <1>5, <1>7, <2>1
  <2>2. CASE n # 0
    <3>1. n \in 1 .. n
      BY <1>1, <2>2
    <3>. QED
      BY <1>4, <1>7, <2>2, <3>1
  <2>. QED
    BY <2>1, <2>2
<1>. QED
  BY <1>13, <1>14

LEMMA FlattenAppend ==
  ASSUME NEW S, NEW seqs \in Seq(Seq(S)), NEW s \in Seq(S)
  PROVE  FlattenSeq(Append(seqs, s)) = FlattenSeq(seqs) \o s
<1>. DEFINE n == Len(seqs)
            longer == Append(seqs, s)
<1>1. /\ n \in Nat /\ longer \in Seq(Seq(S)) /\ Len(longer) = n + 1
      /\ \A i \in 1 .. n : longer[i] = seqs[i]
      /\ longer[n + 1] = s
  BY LenProperties, AppendProperties
<1>. HIDE DEF longer
<1>2. PICK P : Partial(P, seqs, S) /\ FlattenSeq(seqs) = P[n]
  BY FlattenIsLast
<1>3. PICK R : Partial(R, longer, S) /\ FlattenSeq(longer) = R[n + 1]
  BY <1>1, FlattenIsLast
<1>. DEFINE M == {i \in Nat : i <= n => R[i] = P[i]}
<1>4. 0 \in M
  BY <1>2, <1>3 DEF Partial
<1>5. ASSUME NEW i \in Nat, i \in M PROVE i + 1 \in M
  <2>. SUFFICES ASSUME i + 1 <= n PROVE R[i + 1] = P[i + 1]
    OBVIOUS
  <2>1. /\ i + 1 \in 1 .. n /\ i + 1 \in 1 .. n + 1 /\ (i + 1) - 1 = i
        /\ R[i] = P[i]
    BY <1>1, <1>5
  <2>2. R[i + 1] = R[i] \o longer[i + 1]
    BY <1>1, <1>3, <2>1 DEF Partial
  <2>3. P[i + 1] = P[i] \o seqs[i + 1]
    BY <1>2, <2>1 DEF Partial
  <2>. QED
    BY <1>1, <2>1, <2>2, <2>3
<1>. HIDE DEF M
<1>6. n \in M
  BY <1>1, <1>4, <1>5, Induction
<1>7. R[n] = P[n]
  BY <1>1, <1>6 DEF M
<1>8. R[n + 1] = R[n] \o longer[n + 1]
  <2>1. n + 1 \in 1 .. n + 1 /\ (n + 1) - 1 = n
    BY <1>1
  <2>. QED
    BY <1>1, <1>3, <2>1 DEF Partial
<1>. QED
  BY <1>1, <1>2, <1>3, <1>7, <1>8 DEF longer

LEMMA FlattenHead ==
  ASSUME NEW S, NEW seqs \in Seq(Seq(S)), seqs # <<>>
  PROVE  FlattenSeq(seqs) = Head(seqs) \o FlattenSeq(Tail(seqs))
<1>. DEFINE n == Len(seqs)
            rest == Tail(seqs)
            first == Head(seqs)
<1>1. /\ n \in Nat \ {0} /\ rest \in Seq(Seq(S)) /\ Len(rest) = n - 1
      /\ \A i \in 1 .. n - 1 : rest[i] = seqs[i + 1]
      /\ first \in Seq(S) /\ first = seqs[1]
  BY EmptySeq, HeadTailProperties
<1>2. \A i \in 1 .. n - 1 : rest[i] \in Seq(S)
  BY <1>1, ElementOfSeq
<1>. HIDE DEF rest, first
<1>3. PICK P : Partial(P, seqs, S) /\ FlattenSeq(seqs) = P[n]
  BY FlattenIsLast
<1>4. PICK R : Partial(R, rest, S) /\ FlattenSeq(rest) = R[n - 1]
  BY <1>1, FlattenIsLast
<1>. DEFINE M == {i \in Nat : i <= n - 1 => P[i + 1] = first \o R[i]}
<1>5. 0 \in M
  <2>1. 1 \in 1 .. n /\ 1 - 1 = 0
    BY <1>1
  <2>2. P[1] = P[0] \o seqs[1] /\ P[0] = <<>> /\ R[0] = <<>>
    BY <1>3, <1>4, <2>1 DEF Partial
  <2>3. P[1] = first \o R[0]
    BY <1>1, <2>2, ConcatEmptySeq
  <2>. QED
    BY <2>3
<1>6. ASSUME NEW i \in Nat, i \in M PROVE i + 1 \in M
  <2>. SUFFICES ASSUME i + 1 <= n - 1 PROVE P[(i + 1) + 1] = first \o R[i + 1]
    OBVIOUS
  <2>1. /\ i + 1 \in 1 .. n - 1 /\ (i + 1) - 1 = i /\ i \in 0 .. n - 1
        /\ i + 2 \in 1 .. n /\ (i + 2) - 1 = i + 1 /\ (i + 1) + 1 = i + 2
        /\ i <= n - 1
    BY <1>1
  <2>2. P[i + 1] = first \o R[i]
    BY <1>6, <2>1
  <2>. HIDE DEF M
  <2>3. P[i + 2] = P[i + 1] \o seqs[i + 2]
    BY <1>3, <2>1 DEF Partial
  <2>4. R[i + 1] = R[i] \o rest[i + 1] /\ R[i] \in Seq(S)
    BY <1>1, <1>4, <2>1 DEF Partial
  <2>5. rest[i + 1] = seqs[i + 2] /\ rest[i + 1] \in Seq(S)
    BY <1>1, <1>2, <2>1
  <2>6. (first \o R[i]) \o rest[i + 1] = first \o (R[i] \o rest[i + 1])
    <3>1. first \in Seq(S) /\ R[i] \in Seq(S) /\ rest[i + 1] \in Seq(S)
      BY <1>1, <2>4, <2>5
    <3>2. \A s, t, u \in Seq(S) : (s \o t) \o u = s \o (t \o u)
      BY ONLY ConcatAssociative
    <3>. QED
      BY ONLY <3>1, <3>2
  <2>. QED
    BY <2>1, <2>2, <2>3, <2>4, <2>5, <2>6
<1>. HIDE DEF M
<1>7. Nat \subseteq M
  BY <1>5, <1>6, Induction
<1>8. n - 1 \in Nat /\ n - 1 <= n - 1 /\ (n - 1) + 1 = n
  BY <1>1
<1>9. P[(n - 1) + 1] = first \o R[n - 1]
  <2>1. n - 1 \in M
    BY <1>7, <1>8
  <2>. QED
    BY <1>8, <2>1 DEF M
<1>. QED
  BY <1>3, <1>4, <1>8, <1>9 DEF first, rest

\* What an empty concatenation and any other are made of.
LEMMA FlattenType ==
  ASSUME NEW S, NEW seqs \in Seq(Seq(S))
  PROVE  FlattenSeq(seqs) \in Seq(S)
<1>1. PICK P : Partial(P, seqs, S) /\ FlattenSeq(seqs) = P[Len(seqs)]
  BY FlattenIsLast
<1>2. Len(seqs) \in 0 .. Len(seqs)
  BY LenProperties
<1>. QED
  BY <1>1, <1>2 DEF Partial


-----------------------------------------------------------------------------
(* The types of the buffers.                                                *)

Point == [n : Nat, offset_time : Int]
Packet == [handle : Lidar, points : Seq(Point) \ {<<>>}]

\* A packet being checked left its points with its lidar, and a frame has
\* points of each of its lidars.
Buffers ==
  /\ raw_packet_queue_ \in Seq(Packet)
  /\ points_clouds_ \in [Lidar -> Seq(Point)]
  /\ points_ \in [Lidar -> Seq(Point)]
  /\ pc = "check" => points_clouds_[id] # <<>>
  /\ \A l \in DOMAIN frame_ : points_[l] # <<>>

LEMMA SetupFacts ==
  ASSUME setup \in Setups
  PROVE  /\ TicksPerMs \in Nat \ {0} /\ PacketTicks \in Nat \ {0}
         /\ publish_interval_ \in Nat /\ publish_interval_ >= TicksPerMs
         /\ setup.maxTime \in Nat /\ setup.offset \in Nat
         /\ setup.phases \subseteq Nat
         /\ setup.timeTypes \subseteq BOOLEAN
         /\ Lidar # {}
         /\ TimeMod \in Nat \ {0}
<1>1. /\ TicksPerMs \in Nat \ {0} /\ PacketTicks \in 1 .. TicksPerMs
      /\ publish_interval_ \in Nat /\ publish_interval_ >= TicksPerMs
      /\ setup.maxTime \in Nat /\ setup.offset \in Nat
      /\ setup.timeTypes \subseteq BOOLEAN
      /\ Lidar # {}
  BY PubHandlerAssumption DEF TicksPerMs, PacketTicks, Lidar, publish_interval_
<1>2. TimeMod \in Nat /\ TimeMod > setup.maxTime + PacketTicks
  BY PubHandlerAssumption DEF PacketTicks
<1>3. setup.phases \subseteq 0 .. setup.offset + setup.interval - 1
  BY PubHandlerAssumption
<1>. QED
  BY <1>1, <1>2, <1>3

\* The quotient and the remainder of division are whole numbers.
LEMMA DivisionTypes ==
  ASSUME NEW a \in Int, NEW b \in Nat \ {0}
  PROVE  a % b \in Nat /\ a \div b \in Int /\ (a \in Nat => a \div b \in Nat)
  OBVIOUS

LEMMA InitTypes == Init => TypeOK /\ Buffers
<1>. SUFFICES ASSUME Init PROVE TypeOK /\ Buffers
  OBVIOUS
<1>. USE SetupFacts DEF Init
<1>1. id \in Lidar
  OBVIOUS
<1>2. DOMAIN frame_ = {}
  BY DEF NoFrame
<1>3. raw_packet_queue_ \in Seq(Packet) /\ <<>> \in Seq(Point)
      /\ Len(raw_packet_queue_) = 0
  BY EmptySeq
<1>4. TypeOK
  <2>1. next \in [Lidar -> Nat]
    BY SetupFacts
  <2>2. number \in [Lidar -> Nat] /\ published \in [Lidar -> Nat]
    OBVIOUS
  <2>3. lost \in [Lidar -> SUBSET Nat]
    OBVIOUS
  <2>4. now \in 0 .. setup.maxTime /\ last_pub_time_ \in -1 .. now
    BY SetupFacts
  <2>5. DOMAIN frame_ \subseteq Lidar /\ frame_ = NoFrame
    BY <1>2
  <2>6. Len(raw_packet_queue_) <= MaxQueue
    BY <1>3, PubHandlerAssumption
  <2>. QED
    BY <1>1, <2>1, <2>2, <2>3, <2>4, <2>5, <2>6 DEF TypeOK
<1>5. Buffers
  BY <1>2, <1>3 DEF Buffers
<1>. QED
  BY <1>4, <1>5

LEMMA PointType ==
  ASSUME NEW a \in Nat, NEW b \in Int
  PROVE  [n |-> a, offset_time |-> b] \in Point
BY DEF Point

\* The points that arrive in a packet.
NewPoints(l, sync) ==
  [i \in 1 .. PacketTicks |->
     [n |-> number[l] + i,
      offset_time |-> (TimeStamp(l, sync) + i - 1) % TimeMod]]

LEMMA TimeStampType ==
  ASSUME TypeOK, NEW l \in Lidar, NEW sync
  PROVE  TimeStamp(l, sync) \in Int
<1>1. /\ TimeMod \in Nat \ {0} /\ setup.offset \in Nat /\ next[l] \in Nat /\ now \in Int
  BY SetupFacts DEF TypeOK
<1>2. next[l] - setup.offset + TimeMod \in Int
  BY <1>1
<1>3. (next[l] - setup.offset + TimeMod) % TimeMod \in Nat
  BY <1>1, <1>2, DivisionTypes
<1>. QED
  BY <1>1, <1>3 DEF TimeStamp

LEMMA NewPointsType ==
  ASSUME TypeOK, NEW l \in Lidar, NEW sync \in BOOLEAN
  PROVE  /\ NewPoints(l, sync) \in Seq(Point)
         /\ Len(NewPoints(l, sync)) = PacketTicks
         /\ \A i \in 1 .. PacketTicks : NewPoints(l, sync)[i].n = number[l] + i
         /\ NewPoints(l, sync) # <<>>
<1>1. /\ PacketTicks \in Nat \ {0} /\ TimeMod \in Nat \ {0} /\ setup.offset \in Nat
      /\ number[l] \in Nat /\ next[l] \in Nat /\ now \in Int
  BY SetupFacts DEF TypeOK
<1>2. TimeStamp(l, sync) \in Int
  BY TimeStampType
<1>. DEFINE T == TimeStamp(l, sync)
            ps == NewPoints(l, sync)
<1>. HIDE DEF T
<1>3. \A i \in 1 .. PacketTicks :
        number[l] + i \in Nat /\ (T + i - 1) % TimeMod \in Int
  BY <1>1, <1>2, DivisionTypes DEF T
<1>4. \A i \in 1 .. PacketTicks :
        ps[i] = [n |-> number[l] + i, offset_time |-> (T + i - 1) % TimeMod]
  BY DEF NewPoints, T
<1>. HIDE DEF ps
<1>5. \A i \in 1 .. PacketTicks : ps[i] \in Point /\ ps[i].n = number[l] + i
  <2>. TAKE i \in 1 .. PacketTicks
  <2>1. ps[i] = [n |-> number[l] + i, offset_time |-> (T + i - 1) % TimeMod]
    BY <1>4
  <2>2. number[l] + i \in Nat /\ (T + i - 1) % TimeMod \in Int
    BY <1>3
  <2>3. ps[i].n = number[l] + i
    BY <2>1
  <2>4. ps[i] \in Point
    BY <2>1, <2>2, PointType
  <2>. QED
    BY <2>3, <2>4
<1>6. ps \in [1 .. PacketTicks -> Point]
  BY <1>5 DEF NewPoints, ps
<1>7. ps \in Seq(Point) /\ Len(ps) = PacketTicks
  BY <1>1, <1>6
<1>. QED
  BY <1>1, <1>5, <1>7, EmptySeq DEF ps

\* The setup, and what is derived from it, never changes.
LEMMA SetupStays ==
  ASSUME TypeOK, [Next]_vars
  PROVE  /\ setup' = setup /\ Lidar' = Lidar /\ Packet' = Packet
         /\ setup' \in Setups
<1>1. setup' = setup
  BY DEF Next, RawDataProcess, vars, sdk, Tick, OnPointPacket, OnImuPacket,
         LosePacket, TestQuit, WaitFor, Wake, Pop, CheckSync, FirstCheck,
         CheckClock, PublishPointCloud, RemoveObserver, RequestExit, Join
<1>. QED
  BY <1>1 DEF Lidar, Packet, TypeOK

LEMMA OnPointPacketTypes ==
  ASSUME TypeOK, Buffers, NEW l \in Lidar, NEW sync \in BOOLEAN,
         OnPointPacket(l, sync)
  PROVE  /\ TypeOK' /\ Buffers'
         /\ raw_packet_queue_' = Append(raw_packet_queue_,
                                        [handle |-> l, points |-> NewPoints(l, sync)])
<1>1. raw_packet_queue_' = Append(raw_packet_queue_,
                                  [handle |-> l, points |-> NewPoints(l, sync)])
  BY DEF OnPointPacket, NewPoints
<1>2. /\ UNCHANGED <<setup, now, lost, listening, is_quit_, main, pc, id, assembly>>
      /\ is_timestamp_sync_' = sync
      /\ number' = [number EXCEPT ![l] = @ + PacketTicks]
      /\ next' = [next EXCEPT ![l] = @ + PacketTicks]
      /\ Len(raw_packet_queue_) < MaxQueue
  BY DEF OnPointPacket
<1>3. Lidar' = Lidar /\ Packet' = Packet
  BY <1>2 DEF Lidar, Packet
<1>. DEFINE packet == [handle |-> l, points |-> NewPoints(l, sync)]
<1>4. packet \in Packet
  BY NewPointsType DEF Packet
<1>. HIDE DEF packet
<1>5. raw_packet_queue_' = Append(raw_packet_queue_, packet)
  BY <1>1 DEF packet
<1>6. /\ raw_packet_queue_' \in Seq(Packet)
      /\ Len(raw_packet_queue_') = Len(raw_packet_queue_) + 1
  BY <1>4, <1>5, AppendProperties DEF Buffers
<1>7. Buffers'
  BY <1>2, <1>3, <1>6 DEF Buffers, assembly
<1>8. TypeOK'
  <2>1. number' \in [Lidar -> Nat] /\ next' \in [Lidar -> Nat]
    <3>1. PacketTicks \in Nat
      BY SetupFacts DEF TypeOK
    <3>. QED
      BY <1>2, <3>1 DEF TypeOK
  <2>2. Len(raw_packet_queue_') <= MaxQueue
    <3>1. Len(raw_packet_queue_) \in Nat /\ MaxQueue \in Nat
      BY LenProperties, PubHandlerAssumption DEF Buffers
    <3>. QED
      BY <1>2, <1>6, <3>1
  <2>3. {listening, is_timestamp_sync_, is_quit_}' \subseteq BOOLEAN
    BY <1>2, Zenon DEF TypeOK
  <2>. QED
    BY <1>2, <1>3, <2>1, <2>2, <2>3 DEF TypeOK, assembly
<1>. QED
  BY <1>1, <1>7, <1>8

LEMMA LosePacketTypes ==
  ASSUME TypeOK, Buffers, NEW l \in Lidar, LosePacket(l)
  PROVE  TypeOK' /\ Buffers'
<1>. DEFINE last == (TimeStamp(l, TRUE) + PacketTicks - 1) % TimeMod
<1>1. /\ PacketTicks \in Nat \ {0} /\ TicksPerMs \in Nat \ {0} /\ next[l] \in Nat
      /\ TimeMod \in Nat \ {0}
  BY SetupFacts DEF TypeOK
<1>2. last \in Nat
  <2>. DEFINE stamp == TimeStamp(l, TRUE)
  <2>1. stamp \in Int
    BY TimeStampType, Zenon
  <2>. HIDE DEF stamp
  <2>2. stamp + PacketTicks - 1 \in Int
    BY <1>1, <2>1
  <2>3. (stamp + PacketTicks - 1) % TimeMod \in Nat
    BY <1>1, <2>2, DivisionTypes
  <2>. QED
    BY <2>3 DEF stamp
<1>. HIDE DEF last
<1>3. Millisecond(last) \in Nat
  BY <1>1, <1>2, DivisionTypes DEF Millisecond
<1>4. /\ UNCHANGED <<setup, now, number, shared, pc, id, assembly>>
      /\ next' = [next EXCEPT ![l] = @ + PacketTicks]
      /\ \/ lost' = [lost EXCEPT ![l] = @ \cup {Millisecond(last)}]
         \/ lost' = lost
  BY DEF LosePacket, last
<1>5. next' \in [Lidar -> Nat] /\ lost' \in [Lidar -> SUBSET Nat]
  <2>1. next' \in [Lidar -> Nat]
    BY <1>1, <1>4 DEF TypeOK
  <2>2. CASE lost' = [lost EXCEPT ![l] = @ \cup {Millisecond(last)}]
    BY <1>3, <2>1, <2>2 DEF TypeOK
  <2>3. CASE lost' = lost
    BY <2>1, <2>3 DEF TypeOK
  <2>. QED
    BY <1>4, <2>2, <2>3
<1>6. Lidar' = Lidar /\ Packet' = Packet
  BY <1>4 DEF Lidar, Packet
<1>7. TypeOK'
  BY <1>4, <1>5, <1>6 DEF TypeOK, shared, assembly
<1>8. Buffers'
  BY <1>4, <1>6 DEF Buffers, shared, assembly
<1>. QED
  BY <1>7, <1>8

LEMMA PopTypes ==
  ASSUME TypeOK, Buffers, Pop
  PROVE  TypeOK' /\ Buffers'
<1>. DEFINE packet == Head(raw_packet_queue_)
<1>1. /\ packet \in Packet
      /\ raw_packet_queue_' \in Seq(Packet)
      /\ Len(raw_packet_queue_') = Len(raw_packet_queue_) - 1
  BY HeadTailProperties DEF Pop, Buffers
<1>2. /\ id' = packet.handle /\ pc' = "check"
      /\ points_clouds_' =
           [points_clouds_ EXCEPT ![packet.handle] = @ \o packet.points]
      /\ UNCHANGED <<sdk, listening, is_timestamp_sync_, is_quit_, main,
                     points_, frame_, last_pub_time_, published>>
      /\ pc = "pop"
  BY DEF Pop
<1>. HIDE DEF packet
<1>3. packet.handle \in Lidar /\ packet.points \in Seq(Point) /\ packet.points # <<>>
  BY <1>1 DEF Packet
<1>. DEFINE cloud == points_clouds_[packet.handle]
<1>4. /\ cloud \o packet.points \in Seq(Point)
      /\ cloud \o packet.points # <<>>
  BY <1>3, ConcatProperties, ConcatEqualIffEmpty DEF Buffers
<1>5. /\ points_clouds_' \in [Lidar -> Seq(Point)]
      /\ points_clouds_'[packet.handle] # <<>>
  BY <1>2, <1>3, <1>4 DEF Buffers
<1>6. Lidar' = Lidar /\ Packet' = Packet
  BY <1>2 DEF Lidar, Packet, sdk
<1>7. Buffers'
  BY <1>1, <1>2, <1>5, <1>6 DEF Buffers, sdk
<1>8. TypeOK'
  <2>1. Len(raw_packet_queue_') <= MaxQueue
    <3>1. Len(raw_packet_queue_) \in Nat /\ MaxQueue \in Nat
      BY LenProperties, PubHandlerAssumption DEF Buffers
    <3>. QED
      BY <1>1, <3>1 DEF TypeOK
  <2>. QED
    BY <1>2, <1>3, <1>6, <2>1 DEF TypeOK, sdk
<1>. QED
  BY <1>7, <1>8

\* What a frame is made of, for the lidars ls that have points.
LEMMA CollectTypes ==
  ASSUME TypeOK, Buffers, NEW ls \in SUBSET WithPoints, Collect(ls),
         setup' = setup
  PROVE  /\ points_clouds_' \in [Lidar' -> Seq(Point)]
         /\ points_' \in [Lidar' -> Seq(Point)]
         /\ DOMAIN frame_' = ls /\ ls \subseteq Lidar'
         /\ \A l \in DOMAIN frame_' : points_'[l] # <<>>
<1>1. Lidar' = Lidar /\ ls \subseteq Lidar
  BY DEF Lidar, WithPoints
<1>2. <<>> \in Seq(Point)
  BY EmptySeq
<1>. QED
  BY <1>1, <1>2 DEF Collect, WithPoints, Buffers

LEMMA CheckTypes ==
  ASSUME TypeOK, Buffers, CheckSync \/ CheckClock
  PROVE  TypeOK' /\ Buffers'
<1>1. UNCHANGED <<sdk, shared, id, published>> /\ pc = "check"
  BY DEF CheckSync, CheckClock
<1>2. setup' = setup /\ Lidar' = Lidar /\ Packet' = Packet
  BY <1>1 DEF sdk, Lidar, Packet
<1>3. {id} \subseteq WithPoints
  BY <1>1 DEF TypeOK, Buffers, WithPoints
<1>4. last_pub_time_' \in -1 .. now
  <2>1. CASE CheckSync
    BY <2>1 DEF CheckSync, TypeOK
  <2>2. CASE CheckClock
    <3>1. publish_interval_ \in Nat /\ setup.maxTime \in Nat
      BY SetupFacts DEF TypeOK
    <3>2. now \in Nat /\ last_pub_time_ \in -1 .. now
      BY <3>1 DEF TypeOK
    <3>3. \/ /\ now - last_pub_time_ >= publish_interval_
             /\ last_pub_time_' = last_pub_time_ + publish_interval_
          \/ last_pub_time_' = last_pub_time_
      BY <2>2 DEF CheckClock
    <3>. QED
      BY <3>1, <3>2, <3>3
  <2>. QED
    BY <2>1, <2>2
<1>5. CASE \E ls \in SUBSET WithPoints : Collect(ls) /\ pc' = "publish"
  <2>1. PICK ls \in SUBSET WithPoints : Collect(ls) /\ pc' = "publish"
    BY <1>5
  <2>2. /\ points_clouds_' \in [Lidar -> Seq(Point)]
        /\ points_' \in [Lidar -> Seq(Point)]
        /\ DOMAIN frame_' \subseteq Lidar
        /\ \A l \in DOMAIN frame_' : points_'[l] # <<>>
    BY <1>2, <2>1, CollectTypes
  <2>3. TypeOK'
    BY <1>1, <1>2, <1>4, <2>1, <2>2 DEF TypeOK, sdk, shared
  <2>4. Buffers'
    BY <1>1, <1>2, <2>1, <2>2 DEF Buffers, sdk, shared
  <2>. QED
    BY <2>3, <2>4
<1>6. CASE UNCHANGED <<points_, points_clouds_, frame_>> /\ pc' = "quit?"
  <2>1. TypeOK'
    BY <1>1, <1>2, <1>4, <1>6 DEF TypeOK, sdk, shared
  <2>2. Buffers'
    BY <1>1, <1>2, <1>6 DEF Buffers, sdk, shared
  <2>. QED
    BY <2>1, <2>2
<1>7. \/ \E ls \in SUBSET WithPoints : Collect(ls) /\ pc' = "publish"
      \/ UNCHANGED <<points_, points_clouds_, frame_>> /\ pc' = "quit?"
  BY <1>3 DEF CheckSync, CheckClock
<1>. QED
  BY <1>5, <1>6, <1>7

\* The last point of a frame is its newest.
LEMMA LastPoint ==
  ASSUME NEW ps \in Seq(Point), ps # <<>>
  PROVE  Len(ps) \in Nat \ {0} /\ Last(ps) = ps[Len(ps)] /\ Last(ps).n \in Nat
<1>1. Len(ps) \in Nat \ {0}
  BY EmptySeq, LenProperties
<1>2. ps[Len(ps)] \in Point
  BY <1>1, ElementOfSeq
<1>. QED
  BY <1>1, <1>2 DEF Last, Point

LEMMA PublishTypes ==
  ASSUME TypeOK, Buffers, PublishPointCloud
  PROVE  TypeOK' /\ Buffers'
<1>1. /\ UNCHANGED <<sdk, shared, id, points_clouds_, points_, last_pub_time_>>
      /\ frame_' = NoFrame /\ pc' = "quit?"
      /\ published' = [l \in Lidar |-> IF l \in DOMAIN frame_ THEN Last(points_[l]).n
                                                              ELSE published[l]]
  BY DEF PublishPointCloud
<1>2. Lidar' = Lidar /\ Packet' = Packet
  BY <1>1 DEF sdk, Lidar, Packet
<1>3. \A l \in DOMAIN frame_ : Last(points_[l]).n \in Nat
  BY LastPoint DEF Buffers, TypeOK
<1>4. published' \in [Lidar -> Nat]
  BY <1>1, <1>3 DEF TypeOK
<1>5. DOMAIN frame_' = {}
  BY <1>1 DEF NoFrame
<1>6. TypeOK'
  BY <1>1, <1>2, <1>4, <1>5 DEF TypeOK, sdk, shared
<1>7. Buffers'
  BY <1>1, <1>2, <1>5 DEF Buffers, sdk, shared
<1>. QED
  BY <1>6, <1>7

LEMMA TypesKeep ==
  ASSUME TypeOK, Buffers, [Next]_vars
  PROVE  TypeOK' /\ Buffers'
<1>1. /\ Lidar' = Lidar /\ Packet' = Packet /\ setup' = setup
      /\ setup.timeTypes \subseteq BOOLEAN /\ setup.maxTime \in Nat
  BY SetupStays, SetupFacts DEF TypeOK
<1>2. CASE Tick
  <2>1. now' \in 0 .. setup.maxTime /\ last_pub_time_ \in -1 .. now'
    BY <1>1, <1>2 DEF Tick, TypeOK
  <2>. QED
    BY <1>1, <1>2, <2>1 DEF Tick, TypeOK, Buffers, shared, assembly
<1>3. ASSUME NEW sync \in setup.timeTypes, NEW l \in Lidar, OnPointPacket(l, sync)
      PROVE  TypeOK' /\ Buffers'
  BY <1>1, <1>3, OnPointPacketTypes
<1>4. ASSUME NEW sync \in setup.timeTypes, OnImuPacket(sync)
      PROVE  TypeOK' /\ Buffers'
  BY <1>1, <1>4 DEF OnImuPacket, TypeOK, Buffers, sdk, assembly
<1>5. ASSUME NEW l \in Lidar, LosePacket(l)
      PROVE  TypeOK' /\ Buffers'
  BY <1>5, LosePacketTypes
<1>6. CASE TestQuit \/ WaitFor \/ Wake
  BY <1>1, <1>6 DEF TestQuit, WaitFor, Wake, TypeOK, Buffers, sdk, shared, assembly
<1>7. CASE Pop
  BY <1>7, PopTypes
<1>8. CASE CheckSync \/ CheckClock
  BY <1>8, CheckTypes
<1>9. CASE FirstCheck
  <2>1. last_pub_time_' \in -1 .. now
    BY <1>1, <1>9 DEF FirstCheck, TypeOK
  <2>. QED
    BY <1>1, <1>9, <2>1 DEF FirstCheck, TypeOK, Buffers, sdk, shared
<1>10. CASE PublishPointCloud
  BY <1>10, PublishTypes
<1>11. CASE RemoveObserver \/ RequestExit \/ Join
  BY <1>1, <1>11 DEF RemoveObserver, RequestExit, Join, TypeOK, Buffers, sdk, assembly
<1>12. CASE UNCHANGED vars
  BY <1>1, <1>12 DEF vars, TypeOK, Buffers, sdk, shared, assembly
<1>. QED
  BY <1>2, <1>3, <1>4, <1>5, <1>6, <1>7, <1>8, <1>9, <1>10, <1>11, <1>12
     DEF Next, RawDataProcess

\* The variables stay in their types, and a frame is filled only until it is
\* handed over.
THEOREM HandlerTypes == Spec => []TypeOK
<1>1. TypeOK /\ Buffers /\ [Next]_vars => (TypeOK /\ Buffers)'
  BY TypesKeep
<1>. QED
  BY InitTypes, <1>1, PTL DEF Spec

-----------------------------------------------------------------------------
(* The points that wait.                                                    *)

\* What lidar l has in each packet of the queue q.
Of(l, q) == [i \in DOMAIN q |-> IF q[i].handle = l THEN q[i].points ELSE <<>>]

\* The contribution of one packet.
Its(l, packet) == IF packet.handle = l THEN packet.points ELSE <<>>

LEMMA OfType ==
  ASSUME NEW l, NEW q \in Seq(Packet)
  PROVE  /\ Of(l, q) \in Seq(Seq(Point)) /\ Len(Of(l, q)) = Len(q)
         /\ \A i \in 1 .. Len(q) : Of(l, q)[i] = Its(l, q[i])
         /\ \A packet \in Packet : Its(l, packet) \in Seq(Point)
<1>1. \A packet \in Packet : Its(l, packet) \in Seq(Point)
  BY EmptySeq DEF Packet, Its
<1>2. Len(q) \in Nat /\ DOMAIN q = 1 .. Len(q)
  BY LenProperties
<1>3. \A i \in 1 .. Len(q) : q[i] \in Packet
  BY ElementOfSeq
<1>4. \A i \in 1 .. Len(q) : Of(l, q)[i] = Its(l, q[i])
  BY <1>2 DEF Of, Its
<1>5. Of(l, q) \in [1 .. Len(q) -> Seq(Point)]
  <2>1. \A i \in 1 .. Len(q) : Of(l, q)[i] \in Seq(Point)
    BY <1>1, <1>3, <1>4
  <2>2. Of(l, q) = [i \in 1 .. Len(q) |-> Of(l, q)[i]]
    BY <1>2 DEF Of
  <2>. QED
    BY <2>1, <2>2
<1>6. Of(l, q) \in Seq(Seq(Point)) /\ Len(Of(l, q)) = Len(q)
  <2>. DEFINE f == Of(l, q)
  <2>. HIDE DEF f
  <2>1. f \in [1 .. Len(q) -> Seq(Point)]
    BY <1>5 DEF f
  <2>2. f \in Seq(Seq(Point)) /\ Len(f) = Len(q)
    BY <1>2, <2>1
  <2>. QED
    BY <2>2 DEF f
<1>. QED
  BY <1>1, <1>4, <1>6

LEMMA OfAppend ==
  ASSUME NEW l, NEW q \in Seq(Packet), NEW packet \in Packet
  PROVE  Of(l, Append(q, packet)) = Append(Of(l, q), Its(l, packet))
<1>. DEFINE longer == Append(q, packet)
            left == Of(l, longer)
            right == Append(Of(l, q), Its(l, packet))
<1>1. /\ longer \in Seq(Packet) /\ Len(longer) = Len(q) + 1 /\ Len(q) \in Nat
      /\ \A i \in 1 .. Len(q) : longer[i] = q[i]
      /\ longer[Len(q) + 1] = packet
  BY AppendProperties, LenProperties
<1>. HIDE DEF longer
<1>2. /\ left \in Seq(Seq(Point)) /\ Len(left) = Len(q) + 1
      /\ \A i \in 1 .. Len(q) + 1 : left[i] = Its(l, longer[i])
  BY <1>1, OfType
<1>3. /\ Of(l, q) \in Seq(Seq(Point)) /\ Len(Of(l, q)) = Len(q)
      /\ \A i \in 1 .. Len(q) : Of(l, q)[i] = Its(l, q[i])
      /\ Its(l, packet) \in Seq(Point)
  BY OfType
<1>4. /\ right \in Seq(Seq(Point)) /\ Len(right) = Len(q) + 1
      /\ \A i \in 1 .. Len(q) : right[i] = Its(l, q[i])
      /\ right[Len(q) + 1] = Its(l, packet)
  BY <1>1, <1>3, AppendProperties
<1>. HIDE DEF left, right
<1>5. \A i \in 1 .. Len(q) + 1 : left[i] = right[i]
  <2>. TAKE i \in 1 .. Len(q) + 1
  <2>1. CASE i = Len(q) + 1
    BY <1>1, <1>2, <1>4, <2>1
  <2>2. CASE i # Len(q) + 1
    <3>1. i \in 1 .. Len(q)
      BY <1>1, <2>2
    <3>. QED
      BY <1>1, <1>2, <1>4, <3>1
  <2>. QED
    BY <2>1, <2>2
<1>6. left = right
  BY <1>2, <1>4, <1>5, SeqEqual
<1>. QED
  BY <1>6 DEF left, right, longer

LEMMA OfHeadTail ==
  ASSUME NEW l, NEW q \in Seq(Packet), q # <<>>
  PROVE  /\ Of(l, q) # <<>>
         /\ Head(Of(l, q)) = Its(l, Head(q))
         /\ Tail(Of(l, q)) = Of(l, Tail(q))
<1>1. /\ Len(q) \in Nat \ {0} /\ Tail(q) \in Seq(Packet) /\ Len(Tail(q)) = Len(q) - 1
      /\ Head(q) = q[1]
      /\ \A i \in 1 .. Len(q) - 1 : Tail(q)[i] = q[i + 1]
  BY EmptySeq, LenProperties, HeadTailProperties
<1>2. /\ Of(l, q) \in Seq(Seq(Point)) /\ Len(Of(l, q)) = Len(q)
      /\ \A i \in 1 .. Len(q) : Of(l, q)[i] = Its(l, q[i])
  BY OfType
<1>3. /\ Of(l, Tail(q)) \in Seq(Seq(Point)) /\ Len(Of(l, Tail(q))) = Len(q) - 1
      /\ \A i \in 1 .. Len(q) - 1 : Of(l, Tail(q))[i] = Its(l, Tail(q)[i])
  <2>. DEFINE shorter == Tail(q)
  <2>1. shorter \in Seq(Packet) /\ Len(shorter) = Len(q) - 1
    BY <1>1
  <2>. HIDE DEF shorter
  <2>2. /\ Of(l, shorter) \in Seq(Seq(Point)) /\ Len(Of(l, shorter)) = Len(shorter)
        /\ \A i \in 1 .. Len(shorter) : Of(l, shorter)[i] = Its(l, shorter[i])
    BY <2>1, OfType
  <2>. QED
    BY <2>1, <2>2 DEF shorter
<1>. DEFINE all == Of(l, q)
            rest == Of(l, Tail(q))
<1>. HIDE DEF all, rest
<1>4. all # <<>>
  BY <1>1, <1>2, EmptySeq DEF all
<1>5. /\ Head(all) = all[1]
      /\ Tail(all) \in Seq(Seq(Point)) /\ Len(Tail(all)) = Len(q) - 1
      /\ \A i \in 1 .. Len(q) - 1 : Tail(all)[i] = all[i + 1]
  BY <1>2, <1>4, HeadTailProperties DEF all
<1>6. \A i \in 1 .. Len(q) - 1 : Tail(all)[i] = rest[i]
  <2>. TAKE i \in 1 .. Len(q) - 1
  <2>1. i + 1 \in 1 .. Len(q)
    BY <1>1
  <2>2. all[i + 1] = Its(l, q[i + 1])
    BY <1>2, <2>1 DEF all
  <2>3. rest[i] = Its(l, q[i + 1])
    BY <1>1, <1>3 DEF rest
  <2>. QED
    BY <1>5, <2>2, <2>3
<1>7. Tail(all) = rest
  <2>1. rest \in Seq(Seq(Point)) /\ Len(rest) = Len(q) - 1
    BY <1>3 DEF rest
  <2>. QED
    BY <1>5, <1>6, <2>1, SeqEqual
<1>8. all[1] = Its(l, Head(q))
  <2>1. 1 \in 1 .. Len(q)
    BY <1>1
  <2>. QED
    BY <1>1, <1>2, <2>1 DEF all
<1>. QED
  BY <1>4, <1>5, <1>7, <1>8 DEF all, rest

\* ps are the points after number p, up to number n.
Onward(ps, p, n) ==
  /\ ps \in Seq(Point) /\ p \in Nat
  /\ n = p + Len(ps)
  /\ \A i \in 1 .. Len(ps) : ps[i].n = p + i

LEMMA OnwardAppend ==
  ASSUME NEW ps, NEW p, NEW n, Onward(ps, p, n),
         NEW more \in Seq(Point),
         \A i \in 1 .. Len(more) : more[i].n = n + i
  PROVE  Onward(ps \o more, p, n + Len(more))
<1>1. ps \in Seq(Point) /\ p \in Nat /\ n = p + Len(ps)
      /\ Len(ps) \in Nat /\ Len(more) \in Nat
  BY LenProperties DEF Onward
<1>2. /\ ps \o more \in Seq(Point) /\ Len(ps \o more) = Len(ps) + Len(more)
      /\ \A i \in 1 .. Len(ps) + Len(more) :
           (ps \o more)[i] = IF i <= Len(ps) THEN ps[i] ELSE more[i - Len(ps)]
  BY <1>1, ConcatProperties
<1>3. ASSUME NEW i \in 1 .. Len(ps) + Len(more)
      PROVE  (ps \o more)[i].n = p + i
  <2>1. CASE i <= Len(ps)
    <3>1. i \in 1 .. Len(ps)
      BY <1>1, <2>1
    <3>. QED
      BY <1>2, <2>1, <3>1 DEF Onward
  <2>2. CASE ~(i <= Len(ps))
    <3>1. i - Len(ps) \in 1 .. Len(more) /\ n + (i - Len(ps)) = p + i
      BY <1>1, <2>2
    <3>. QED
      BY <1>2, <2>2, <3>1
  <2>. QED
    BY <2>1, <2>2
<1>4. n + Len(more) = p + (Len(ps) + Len(more))
  BY <1>1
<1>. QED
  BY <1>1, <1>2, <1>3, <1>4 DEF Onward

LEMMA OnwardDrop ==
  ASSUME NEW first \in Seq(Point), NEW rest \in Seq(Point), NEW p, NEW n,
         Onward(first \o rest, p, n)
  PROVE  /\ Onward(rest, p + Len(first), n)
         /\ \A i \in 1 .. Len(first) : first[i].n = p + i
<1>. DEFINE both == first \o rest
<1>1. /\ Len(first) \in Nat /\ Len(rest) \in Nat
      /\ Len(both) = Len(first) + Len(rest)
      /\ \A i \in 1 .. Len(first) + Len(rest) :
           both[i] = IF i <= Len(first) THEN first[i] ELSE rest[i - Len(first)]
  BY ConcatProperties, LenProperties
<1>2. /\ p \in Nat /\ n = p + (Len(first) + Len(rest))
      /\ \A i \in 1 .. Len(first) + Len(rest) : both[i].n = p + i
  BY <1>1 DEF Onward
<1>. HIDE DEF both
<1>3. ASSUME NEW i \in 1 .. Len(rest) PROVE rest[i].n = (p + Len(first)) + i
  <2>1. /\ Len(first) + i \in 1 .. Len(first) + Len(rest)
        /\ ~(Len(first) + i <= Len(first))
        /\ (Len(first) + i) - Len(first) = i
        /\ p + (Len(first) + i) = (p + Len(first)) + i
    BY <1>1, <1>2
  <2>2. both[Len(first) + i] = rest[i]
    BY <1>1, <2>1
  <2>3. both[Len(first) + i].n = p + (Len(first) + i)
    BY <1>2, <2>1
  <2>. QED
    BY <2>1, <2>2, <2>3
<1>4. ASSUME NEW i \in 1 .. Len(first) PROVE first[i].n = p + i
  <2>1. i \in 1 .. Len(first) + Len(rest) /\ i <= Len(first)
    BY <1>1
  <2>. QED
    BY <1>1, <1>2, <2>1
<1>5. p + Len(first) \in Nat /\ n = (p + Len(first)) + Len(rest)
  BY <1>1, <1>2
<1>. QED
  BY <1>3, <1>4, <1>5 DEF Onward

-----------------------------------------------------------------------------
(* Every point once.                                                        *)

InOrder == \A l \in Lidar : Onward(Waiting(l), published[l], number[l])

PointInv == TypeOK /\ Buffers /\ InOrder

LEMMA QueuedIs ==
  ASSUME Buffers, NEW l
  PROVE  Queued(l) = FlattenSeq(Of(l, raw_packet_queue_)) /\ Queued(l) \in Seq(Point)
<1>1. Queued(l) = FlattenSeq(Of(l, raw_packet_queue_))
  BY DEF Queued, Of
<1>2. Of(l, raw_packet_queue_) \in Seq(Seq(Point))
  BY OfType DEF Buffers
<1>. QED
  BY <1>1, <1>2, FlattenType

LEMMA PartTypes ==
  ASSUME TypeOK, Buffers, NEW l \in Lidar
  PROVE  /\ InFrame(l) \in Seq(Point) /\ points_clouds_[l] \in Seq(Point)
         /\ Queued(l) \in Seq(Point)
         /\ published[l] \in Nat /\ number[l] \in Nat
<1>1. InFrame(l) \in Seq(Point) /\ points_clouds_[l] \in Seq(Point)
  BY EmptySeq DEF InFrame, Buffers
<1>. QED
  BY <1>1, QueuedIs DEF TypeOK

LEMMA InitInOrder == Init => InOrder
<1>. SUFFICES ASSUME Init, NEW l \in Lidar
              PROVE  Onward(Waiting(l), published[l], number[l])
  BY DEF InOrder
<1>1. Buffers
  BY InitTypes
<1>2. /\ raw_packet_queue_ = <<>> /\ points_clouds_[l] = <<>> /\ l \notin DOMAIN frame_
      /\ published[l] = 0 /\ number[l] = 0
  BY DEF Init, NoFrame
<1>3. Queued(l) = <<>>
  <2>1. Of(l, <<>>) \in Seq(Seq(Point)) /\ Len(Of(l, <<>>)) = 0
    BY <1>1, <1>2, OfType, EmptySeq DEF Buffers
  <2>2. Of(l, <<>>) = <<>>
    BY <2>1, EmptySeq
  <2>. QED
    BY <1>1, <1>2, <2>2, EmptySeq, QueuedIs DEF FlattenSeq
<1>4. <<>> \in Seq(Point) /\ Len(<<>>) = 0
  BY EmptySeq
<1>5. Waiting(l) = <<>>
  BY <1>2, <1>3, <1>4, ConcatEmptySeq DEF Waiting, InFrame
<1>. QED
  BY <1>2, <1>4, <1>5 DEF Onward

\* Steps that touch none of the places where points wait.
LEMMA Untouched ==
  ASSUME InOrder, UNCHANGED <<setup, number, published, raw_packet_queue_,
                              points_clouds_, points_, frame_>>
  PROVE  InOrder'
BY DEF InOrder, Waiting, InFrame, Queued, Lidar

LEMMA OnPointPacketInOrder ==
  ASSUME PointInv, NEW l \in Lidar, NEW sync \in BOOLEAN, OnPointPacket(l, sync)
  PROVE  InOrder'
<1>. USE DEF PointInv
<1>. DEFINE packet == [handle |-> l, points |-> NewPoints(l, sync)]
<1>1. raw_packet_queue_' = Append(raw_packet_queue_, packet) /\ Buffers'
  BY OnPointPacketTypes
<1>2. /\ UNCHANGED <<points_clouds_, points_, frame_, published, setup>>
      /\ number' = [number EXCEPT ![l] = @ + PacketTicks]
  BY DEF OnPointPacket, assembly
<1>3. /\ NewPoints(l, sync) \in Seq(Point) /\ NewPoints(l, sync) # <<>>
      /\ Len(NewPoints(l, sync)) = PacketTicks
      /\ \A i \in 1 .. PacketTicks : NewPoints(l, sync)[i].n = number[l] + i
  BY NewPointsType
<1>4. packet \in Packet /\ packet.handle = l /\ packet.points = NewPoints(l, sync)
  BY <1>3 DEF Packet
<1>. HIDE DEF packet
<1>. SUFFICES ASSUME NEW k \in Lidar
              PROVE  Onward(Waiting(k)', published[k], number'[k])
  BY <1>2 DEF InOrder, Lidar
<1>. DEFINE new == Its(k, packet)
<1>5. new \in Seq(Point)
  BY <1>4, <1>1, OfType DEF Buffers
<1>6. Queued(k)' = Queued(k) \o new
  <2>1. Queued(k)' = FlattenSeq(Of(k, raw_packet_queue_'))
    BY DEF Queued, Of
  <2>2. Of(k, raw_packet_queue_') = Append(Of(k, raw_packet_queue_), new)
    BY <1>1, <1>4, OfAppend DEF Buffers
  <2>3. Of(k, raw_packet_queue_) \in Seq(Seq(Point))
    BY OfType DEF Buffers
  <2>4. FlattenSeq(Append(Of(k, raw_packet_queue_), new))
          = FlattenSeq(Of(k, raw_packet_queue_)) \o new
    BY <1>5, <2>3, FlattenAppend
  <2>. QED
    BY <2>1, <2>2, <2>4, QueuedIs
<1>7. Waiting(k)' = Waiting(k) \o new
  <2>. DEFINE a == InFrame(k) \o points_clouds_[k]
  <2>1. a \in Seq(Point) /\ Queued(k) \in Seq(Point)
    BY PartTypes, ConcatProperties
  <2>2. Waiting(k) = a \o Queued(k) /\ Waiting(k)' = a \o (Queued(k)')
    BY <1>2 DEF Waiting, InFrame
  <2>. HIDE DEF a, new
  <2>3. (a \o Queued(k)) \o new = a \o (Queued(k) \o new)
    BY <1>5, <2>1, ConcatAssociative
  <2>. QED
    BY <1>6, <2>2, <2>3
<1>8. Onward(Waiting(k), published[k], number[k])
  BY DEF InOrder
<1>9. CASE k = l
  <2>1. new = NewPoints(l, sync)
    BY <1>4, <1>9 DEF Its
  <2>2. number'[k] = number[k] + Len(new)
    BY <1>2, <1>3, <1>9, <2>1 DEF TypeOK
  <2>3. \A i \in 1 .. Len(new) : new[i].n = number[k] + i
    BY <1>3, <1>9, <2>1
  <2>. HIDE DEF new
  <2>4. Onward(Waiting(k) \o new, published[k], number[k] + Len(new))
    BY <1>5, <1>8, <2>3, OnwardAppend
  <2>. QED
    BY <1>7, <2>2, <2>4
<1>10. CASE k # l
  <2>1. new = <<>>
    BY <1>4, <1>10 DEF Its
  <2>2. Waiting(k)' = Waiting(k)
    BY <1>7, <1>8, <2>1, ConcatEmptySeq DEF Onward
  <2>3. number'[k] = number[k]
    BY <1>2, <1>10 DEF TypeOK
  <2>. QED
    BY <1>8, <2>2, <2>3
<1>. QED
  BY <1>9, <1>10

LEMMA PopInOrder ==
  ASSUME PointInv, Pop
  PROVE  InOrder'
<1>. USE DEF PointInv
<1>. DEFINE packet == Head(raw_packet_queue_)
<1>1. /\ raw_packet_queue_ # <<>> /\ raw_packet_queue_' = Tail(raw_packet_queue_)
      /\ points_clouds_' = [points_clouds_ EXCEPT ![packet.handle] = @ \o packet.points]
      /\ UNCHANGED <<setup, number, published, points_, frame_>>
  BY DEF Pop, sdk
<1>2. packet \in Packet
  BY <1>1, HeadTailProperties DEF Buffers
<1>. SUFFICES ASSUME NEW k \in Lidar
              PROVE  Onward(Waiting(k)', published[k], number[k])
  BY <1>1 DEF InOrder, Lidar
<1>. DEFINE taken == Its(k, packet)
            rest == FlattenSeq(Of(k, Tail(raw_packet_queue_)))
<1>3. taken \in Seq(Point)
  BY <1>2, OfType DEF Buffers
<1>4. Queued(k)' = rest
  BY <1>1 DEF Queued, Of
<1>5. rest \in Seq(Point)
  <2>1. Tail(raw_packet_queue_) \in Seq(Packet)
    BY <1>1, HeadTailProperties DEF Buffers
  <2>2. Of(k, Tail(raw_packet_queue_)) \in Seq(Seq(Point))
    BY <2>1, OfType
  <2>. QED
    BY <2>2, FlattenType
<1>6. Queued(k) = taken \o rest
  <2>1. /\ Of(k, raw_packet_queue_) # <<>>
        /\ Head(Of(k, raw_packet_queue_)) = taken
        /\ Tail(Of(k, raw_packet_queue_)) = Of(k, Tail(raw_packet_queue_))
    BY <1>1, OfHeadTail DEF Buffers
  <2>2. Of(k, raw_packet_queue_) \in Seq(Seq(Point))
    BY OfType DEF Buffers
  <2>. QED
    BY <2>1, <2>2, FlattenHead, QueuedIs
<1>7. points_clouds_'[k] = points_clouds_[k] \o taken
  <2>1. CASE packet.handle = k
    BY <1>1, <2>1 DEF Buffers, Its
  <2>2. CASE packet.handle # k
    <3>1. taken = <<>>
      BY <2>2 DEF Its
    <3>. QED
      BY <1>1, <2>2, <3>1, ConcatEmptySeq, PartTypes DEF Buffers
  <2>. QED
    BY <2>1, <2>2
<1>8. Waiting(k)' = Waiting(k)
  <2>. DEFINE a == InFrame(k)
              c == points_clouds_[k]
  <2>1. a \in Seq(Point) /\ c \in Seq(Point)
    BY PartTypes
  <2>2. Waiting(k) = (a \o c) \o Queued(k)
    BY DEF Waiting
  <2>3. Waiting(k)' = (a \o (points_clouds_'[k])) \o (Queued(k)')
    BY <1>1 DEF Waiting, InFrame
  <2>4. Waiting(k)' = (a \o (c \o taken)) \o rest
    BY <1>4, <1>7, <2>3
  <2>. HIDE DEF a, c, taken, rest
  <2>5. a \o (c \o taken) = (a \o c) \o taken /\ a \o c \in Seq(Point)
    BY <1>3, <2>1, ConcatAssociative, ConcatProperties
  <2>. DEFINE ac == a \o c
  <2>6. (ac \o taken) \o rest = ac \o (taken \o rest)
    <3>1. ac \in Seq(Point)
      BY <2>5
    <3>. HIDE DEF ac
    <3>. QED
      BY <1>3, <1>5, <3>1, ConcatAssociative
  <2>. QED
    BY <1>6, <2>2, <2>4, <2>5, <2>6
<1>. QED
  BY <1>8 DEF InOrder

LEMMA CollectInOrder ==
  ASSUME PointInv, NEW ls \in SUBSET Lidar, Collect(ls), frame_ = NoFrame,
         UNCHANGED <<setup, number, published, raw_packet_queue_>>
  PROVE  InOrder'
<1>. USE DEF PointInv
<1>. SUFFICES ASSUME NEW k \in Lidar
              PROVE  Onward(Waiting(k)', published[k], number[k])
  BY DEF InOrder, Lidar
<1>1. InFrame(k) = <<>>
  BY DEF InFrame, NoFrame
<1>2. Queued(k)' = Queued(k)
  BY DEF Queued
<1>. DEFINE c == points_clouds_[k]
<1>3. c \in Seq(Point)
  BY PartTypes
<1>4. Waiting(k) = c \o Queued(k)
  BY <1>1, <1>3, ConcatEmptySeq DEF Waiting
<1>5. DOMAIN frame_' = ls
  BY DEF Collect
<1>6. CASE k \in ls
  <2>1. InFrame(k)' = c /\ points_clouds_'[k] = <<>>
    BY <1>5, <1>6 DEF InFrame, Collect
  <2>. QED
    BY <1>2, <1>3, <1>4, <2>1, ConcatEmptySeq DEF Waiting, InOrder
<1>7. CASE k \notin ls
  <2>1. InFrame(k)' = <<>> /\ points_clouds_'[k] = c
    BY <1>5, <1>7 DEF InFrame, Collect
  <2>. QED
    BY <1>2, <1>3, <1>4, <2>1, ConcatEmptySeq DEF Waiting, InOrder
<1>. QED
  BY <1>6, <1>7

LEMMA CheckInOrder ==
  ASSUME PointInv, CheckSync \/ CheckClock
  PROVE  InOrder'
<1>. USE DEF PointInv
<1>1. /\ UNCHANGED <<setup, number, published, raw_packet_queue_>>
      /\ frame_ = NoFrame /\ {id} \subseteq Lidar /\ WithPoints \subseteq Lidar
  BY DEF CheckSync, CheckClock, sdk, shared, TypeOK, WithPoints
<1>2. \/ \E ls \in SUBSET Lidar : Collect(ls)
      \/ UNCHANGED <<points_, points_clouds_, frame_>>
  BY <1>1 DEF CheckSync, CheckClock
<1>3. CASE \E ls \in SUBSET Lidar : Collect(ls)
  BY <1>1, <1>3, CollectInOrder
<1>4. CASE UNCHANGED <<points_, points_clouds_, frame_>>
  BY <1>1, <1>4, Untouched
<1>. QED
  BY <1>2, <1>3, <1>4

LEMMA PublishInOrder ==
  ASSUME PointInv, PublishPointCloud
  PROVE  InOrder'
<1>. USE DEF PointInv
<1>1. /\ UNCHANGED <<setup, number, raw_packet_queue_, points_clouds_, points_>>
      /\ frame_' = NoFrame
      /\ published' = [l \in Lidar |-> IF l \in DOMAIN frame_ THEN Last(points_[l]).n
                                                              ELSE published[l]]
  BY DEF PublishPointCloud, sdk, shared
<1>. SUFFICES ASSUME NEW k \in Lidar
              PROVE  Onward(Waiting(k)', published'[k], number[k])
  BY <1>1 DEF InOrder, Lidar
<1>2. /\ InFrame(k) \in Seq(Point) /\ points_clouds_[k] \in Seq(Point)
      /\ Queued(k) \in Seq(Point)
  BY PartTypes
<1>. DEFINE a == InFrame(k)
            rest == points_clouds_[k] \o Queued(k)
<1>3. rest \in Seq(Point)
  BY <1>2, ConcatProperties
<1>4. Waiting(k) = a \o rest
  <2>. DEFINE c == points_clouds_[k]
              q == Queued(k)
  <2>1. Waiting(k) = (a \o c) \o q
    BY DEF Waiting
  <2>2. a \in Seq(Point) /\ c \in Seq(Point) /\ q \in Seq(Point)
    BY <1>2
  <2>. HIDE DEF a, c, q
  <2>3. (a \o c) \o q = a \o (c \o q)
    BY <2>2, ConcatAssociative
  <2>. QED
    BY <2>1, <2>3 DEF c, q
<1>5. Waiting(k)' = rest
  <2>1. InFrame(k)' = <<>>
    BY <1>1 DEF InFrame, NoFrame
  <2>2. Queued(k)' = Queued(k)
    BY <1>1 DEF Queued
  <2>. QED
    BY <1>1, <1>2, <2>1, <2>2, ConcatEmptySeq DEF Waiting
<1>. HIDE DEF rest
<1>6. Onward(a \o rest, published[k], number[k])
  BY <1>4 DEF InOrder
<1>7. /\ Onward(rest, published[k] + Len(a), number[k])
      /\ \A i \in 1 .. Len(a) : a[i].n = published[k] + i
  BY <1>2, <1>3, <1>6, OnwardDrop
<1>8. published'[k] = published[k] + Len(a)
  <2>1. CASE k \in DOMAIN frame_
    <3>1. a = points_[k] /\ a # <<>>
      BY <2>1 DEF InFrame, Buffers
    <3>2. Len(a) \in 1 .. Len(a) /\ Last(a) = a[Len(a)]
      BY <1>2, <3>1, LastPoint
    <3>. QED
      BY <1>1, <1>7, <2>1, <3>1, <3>2
  <2>2. CASE k \notin DOMAIN frame_
    <3>1. Len(a) = 0 /\ published[k] \in Nat
      BY <2>2, EmptySeq DEF InFrame, TypeOK
    <3>. QED
      BY <1>1, <2>2, <3>1
  <2>. QED
    BY <2>1, <2>2
<1>. QED
  BY <1>5, <1>7, <1>8

LEMMA InOrderKeeps ==
  ASSUME PointInv, [Next]_vars
  PROVE  InOrder'
<1>. USE DEF PointInv
<1>1. setup.timeTypes \subseteq BOOLEAN
  BY SetupFacts DEF TypeOK
<1>2. ASSUME NEW sync \in setup.timeTypes, NEW l \in Lidar, OnPointPacket(l, sync)
      PROVE  InOrder'
  BY <1>1, <1>2, OnPointPacketInOrder
<1>3. CASE Pop
  BY <1>3, PopInOrder
<1>4. CASE CheckSync \/ CheckClock
  BY <1>4, CheckInOrder
<1>5. CASE PublishPointCloud
  BY <1>5, PublishInOrder
<1>6. ASSUME \/ Tick
             \/ \E sync \in setup.timeTypes : OnImuPacket(sync)
             \/ \E l \in Lidar : LosePacket(l)
             \/ TestQuit \/ WaitFor \/ Wake \/ FirstCheck
             \/ RemoveObserver \/ RequestExit \/ Join
             \/ UNCHANGED vars
      PROVE  InOrder'
  BY <1>6, Untouched
     DEF Tick, OnImuPacket, LosePacket, TestQuit, WaitFor, Wake, FirstCheck,
         RemoveObserver, RequestExit, Join, vars, sdk, shared, assembly
<1>. QED
  BY <1>2, <1>3, <1>4, <1>5, <1>6 DEF Next, RawDataProcess

\* Every point received is handed over once and in order, or still waits: the
\* swapping of buffers, frames that leave a lidar out and a flag that comes and
\* goes lose, double and reorder none.
THEOREM PointsAreKept == Spec => []EveryPointOnce
<1>1. Init => PointInv
  BY InitTypes, InitInOrder DEF PointInv
<1>2. PointInv /\ [Next]_vars => PointInv'
  BY TypesKeep, InOrderKeeps DEF PointInv
<1>3. PointInv => EveryPointOnce
  <2>. SUFFICES ASSUME PointInv, NEW l \in Lidar
                PROVE  Numbers(Waiting(l)) =
                         Consecutive(published[l], number[l] - published[l])
    BY DEF EveryPointOnce
  <2>. DEFINE ps == Waiting(l)
  <2>1. Onward(ps, published[l], number[l])
    BY DEF PointInv, InOrder
  <2>2. /\ DOMAIN ps = 1 .. Len(ps) /\ Len(ps) = number[l] - published[l]
        /\ \A i \in 1 .. Len(ps) : ps[i].n = published[l] + i
    BY <2>1, LenProperties DEF Onward
  <2>. HIDE DEF ps
  <2>3. Numbers(ps) = [i \in 1 .. Len(ps) |-> published[l] + i]
    BY <2>2 DEF Numbers
  <2>. QED
    BY <2>2, <2>3 DEF Consecutive, ps
<1>. QED
  BY <1>1, <1>2, <1>3, PTL DEF Spec

-----------------------------------------------------------------------------
(* Division by numbers that are parameters, which the SMT backend does not  *)
(* find by itself. *)

LEMMA Division ==
  ASSUME NEW a \in Nat, NEW m \in Nat \ {0}
  PROVE  /\ a % m \in 0 .. m - 1
         /\ a \div m \in Nat
         /\ a = m * (a \div m) + (a % m)
BY SMT

LEMMA SmallMultiple ==
  ASSUME NEW m \in Nat \ {0}, NEW q \in Int
  PROVE  /\ m * q < m => q <= 0
         /\ -m < m * q => q >= 0
<1>1. q >= 1 => m * q >= m
  BY SMT
<1>2. q <= -1 => m * q <= -m
  BY SMT
<1>. QED
  BY <1>1, <1>2

LEMMA MulMono ==
  ASSUME NEW a \in Int, NEW b \in Int, NEW w \in Nat, a <= b
  PROVE  a * w <= b * w
BY SMT

LEMMA DivisionIs ==
  ASSUME NEW a \in Nat, NEW m \in Nat \ {0}, NEW q \in Nat, NEW r \in 0 .. m - 1, a = m * q + r
  PROVE  a \div m = q /\ a % m = r
<1>. DEFINE p == a \div m
            s == a % m
<1>1. p \in Nat /\ s \in 0 .. m - 1 /\ a = m * p + s
  BY Division
<1>. HIDE DEF p, s
<1>2. m * (p - q) = r - s /\ m * (q - p) = s - r
  BY <1>1
<1>3. p - q <= 0 /\ q - p <= 0
  BY <1>1, <1>2, SmallMultiple
<1>4. p = q /\ s = r
  BY <1>1, <1>2, <1>3
<1>. QED
  BY <1>4 DEF p, s

\* The numbers with the same quotient.
LEMMA QuotientIs ==
  ASSUME NEW x \in Nat, NEW w \in Nat \ {0}, NEW k \in Nat, k * w <= x, x <= k * w + w - 1
  PROVE  x \div w = k
<1>1. x - k * w \in 0 .. w - 1 /\ x = w * k + (x - k * w)
  OBVIOUS
<1>. QED
  BY <1>1, DivisionIs

LEMMA QuotientBounds ==
  ASSUME NEW x \in Nat, NEW w \in Nat \ {0}
  PROVE  x \div w \in Nat /\ (x \div w) * w <= x /\ x <= (x \div w) * w + w - 1
<1>1. PICK q \in Nat, r \in 0 .. w - 1 : x \div w = q /\ x = w * q + r
  BY Division
<1>. QED
  BY <1>1

LEMMA MultipleRemainder ==
  ASSUME NEW k \in Nat, NEW w \in Nat \ {0}
  PROVE  (k * w) % w = 0 /\ (k * w + 1) % w \in {0, 1}
<1>1. k * w \in Nat /\ k * w = w * k + 0 /\ k * w + 1 = w * k + 1
  OBVIOUS
<1>2. (k * w) % w = 0
  BY <1>1, DivisionIs
<1>3. CASE w = 1
  <2>1. (k * w + 1) % w \in 0 .. w - 1
    BY <1>1, Division
  <2>. QED
    BY <1>2, <1>3, <2>1
<1>4. CASE w # 1
  <2>1. 1 \in 0 .. w - 1
    BY <1>4
  <2>. QED
    BY <1>1, <1>2, <2>1, DivisionIs
<1>. QED
  BY <1>3, <1>4

-----------------------------------------------------------------------------
(* The points that wait, with synchronised time. *)

\* The lidar's own time of its next packet.
Clock(l) == next[l] - setup.offset

\* The packets of a lidar, lost or not, end at the ticks of a grid.
OnGrid(l, x) == \E i \in Int : x + 1 + i * PacketTicks = Clock(l)

Start(packet) == Head(packet.points).offset_time
End(packet) == Last(packet.points).offset_time

Near(x) == Millisecond(x) % publish_interval_ms_ \in {0, 1}

\* The last point of the last frame, and the newest point taken from the queue.
Framed(l) == Last(points_[l]).offset_time
Reached(l) == points_clouds_[l] # <<>> \/ points_[l] # <<>>
Newest(l) == IF points_clouds_[l] # <<>> THEN GetRecentTimeStamp(l) ELSE Framed(l)

\* Every packet next to a boundary that was to end after y is lost or waits.
Accounted(l, y) ==
  \A x \in Nat : OnGrid(l, x) /\ y < x /\ x < Clock(l) /\ Near(x) =>
    \/ Millisecond(x) \in lost[l]
    \/ \E i \in DOMAIN raw_packet_queue_ :
         raw_packet_queue_[i].handle = l /\ End(raw_packet_queue_[i]) = x

ClocksOK ==
  /\ raw_packet_queue_ # <<>> \/ pc = "check" => is_timestamp_sync_
  /\ \A l \in Lidar : Clock(l) \in Nat /\ IsFiniteSet(lost[l])

PacketOK(packet) ==
  LET l == packet.handle
  IN  /\ Start(packet) \in Nat /\ End(packet) = Start(packet) + PacketTicks - 1
      /\ OnGrid(l, End(packet)) /\ End(packet) < Clock(l) /\ End(packet) < TimeMod
      /\ Reached(l) => Newest(l) < End(packet)
      /\ Accounted(l, End(packet))

QueueOK ==
  /\ \A i \in DOMAIN raw_packet_queue_ : PacketOK(raw_packet_queue_[i])
  /\ \A i, j \in DOMAIN raw_packet_queue_ :
       i < j /\ raw_packet_queue_[i].handle = raw_packet_queue_[j].handle =>
         End(raw_packet_queue_[i]) < End(raw_packet_queue_[j])

CloudOK ==
  \A l \in Lidar :
    /\ points_clouds_[l] # <<>> =>
         /\ GetLidarBaseTime(l) \in Nat /\ OnGrid(l, GetLidarBaseTime(l) - 1)
         /\ GetLidarBaseTime(l) <= GetRecentTimeStamp(l)
    /\ Reached(l) => /\ Newest(l) \in Nat /\ OnGrid(l, Newest(l))
                     /\ Newest(l) < TimeMod /\ Newest(l) < Clock(l)
                     /\ Accounted(l, Newest(l))
    /\ points_[l] # <<>> => Framed(l) \in Nat /\ OnGrid(l, Framed(l)) /\ AtBoundary(Framed(l))

\* A packet since the last frame at which a new frame was due, or next to a
\* boundary before the new frame began, was lost, unless it is being checked.
MissedOK ==
  \A l \in Lidar : points_clouds_[l] # <<>> /\ points_[l] # <<>> =>
    LET base == GetLidarBaseTime(l)
        recent == GetRecentTimeStamp(l)
    IN  /\ Framed(l) < base
        /\ \A x \in Nat : OnGrid(l, x) /\ Framed(l) < x /\ x < base /\ Near(x) =>
             Millisecond(x) \in lost[l]
        /\ \A x \in Nat :
             (/\ OnGrid(l, x) /\ base <= x /\ x <= recent
              /\ AtBoundary(x) /\ Millisecond(x) # 0 /\ x - base >= Tolerance
              /\ ~(pc = "check" /\ id = l /\ x = recent)) =>
             Millisecond(x) \in lost[l]

SpanInv == ClocksOK /\ QueueOK /\ CloudOK /\ MissedOK

-----------------------------------------------------------------------------
LEMMA TimeFacts ==
  ASSUME TypeOK
  PROVE  /\ TicksPerMs \in Nat \ {0} /\ PacketTicks \in Nat \ {0} /\ PacketTicks <= TicksPerMs
         /\ publish_interval_ms_ \in Nat \ {0} /\ Period \in Nat \ {0}
         /\ Period = publish_interval_ms_ * TicksPerMs
         /\ Period >= TicksPerMs
         /\ publish_interval_ \in Nat
         /\ Period <= publish_interval_ /\ publish_interval_ < Period + TicksPerMs
         /\ Tolerance = publish_interval_ - TicksPerMs
         /\ TimeMod \in Nat \ {0} /\ TimeMod > setup.maxTime + PacketTicks
<1>1. setup \in Setups
  BY DEF TypeOK
<1>2. /\ TicksPerMs \in Nat \ {0} /\ PacketTicks \in 1 .. TicksPerMs
      /\ publish_interval_ \in Nat /\ publish_interval_ >= TicksPerMs
      /\ TimeMod \in Nat \ {0} /\ TimeMod > setup.maxTime + PacketTicks
  BY <1>1, SetupFacts, PubHandlerAssumption DEF TicksPerMs, PacketTicks
<1>3. Period = publish_interval_ms_ * TicksPerMs
  BY DEF Period
<1>4. /\ publish_interval_ms_ \in Nat
      /\ Period <= publish_interval_ /\ publish_interval_ <= Period + TicksPerMs - 1
  BY <1>2, QuotientBounds DEF Period, publish_interval_ms_
<1>5. publish_interval_ms_ # 0
  BY <1>2, <1>3, <1>4
<1>6. Period \in Nat \ {0} /\ Period >= TicksPerMs
  BY <1>2, <1>3, <1>4, <1>5, SMT
<1>. QED
  BY <1>2, <1>3, <1>4, <1>5, <1>6 DEF Tolerance

(* The grid of a lidar's packets. *)

LEMMA GridStep ==
  ASSUME TypeOK, NEW l, NEW x \in Int, OnGrid(l, x)
  PROVE  OnGrid(l, x + PacketTicks)
<1>1. PICK i \in Int : x + 1 + i * PacketTicks = Clock(l)
  BY DEF OnGrid
<1>2. i - 1 \in Int /\ x + PacketTicks + 1 + (i - 1) * PacketTicks = x + 1 + i * PacketTicks
  BY <1>1, TimeFacts
<1>. QED
  BY <1>1, <1>2 DEF OnGrid

LEMMA GridGap ==
  ASSUME TypeOK, NEW l, NEW x \in Int, NEW y \in Int, OnGrid(l, x), OnGrid(l, y), x < y
  PROVE  x + PacketTicks <= y
<1>. DEFINE P == PacketTicks
<1>1. P \in Nat \ {0}
  BY TimeFacts
<1>2. PICK i \in Int, j \in Int : x + 1 + i * P = Clock(l) /\ y + 1 + j * P = Clock(l)
  BY DEF OnGrid
<1>. HIDE DEF P
<1>3. P * (i - j) = y - x
  BY <1>1, <1>2
<1>4. ~(i - j <= 0)
  <2>1. i - j <= 0 => P * (i - j) <= 0
    BY <1>1, SMT
  <2>. QED
    BY <1>3, <2>1
<1>5. P * (i - j) >= P
  BY <1>1, <1>4, SMT
<1>. QED
  BY <1>1, <1>3, <1>5 DEF P

\* In as many ticks as a packet spans, one ends.
LEMMA GridHit ==
  ASSUME TypeOK, NEW l, NEW e \in Int, OnGrid(l, e), NEW d \in Int, d >= e
  PROVE  \E x \in Int : OnGrid(l, x) /\ d <= x /\ x <= d + PacketTicks - 1
<1>. DEFINE P == PacketTicks
<1>1. P \in Nat \ {0}
  BY TimeFacts
<1>2. PICK i \in Int : e + 1 + i * P = Clock(l)
  BY DEF OnGrid
<1>. HIDE DEF P
<1>. DEFINE a == d - e + P - 1
<1>3. a \in Nat
  BY <1>1
<1>4. PICK q \in Nat, r \in 0 .. P - 1 : a = P * q + r
  <2>. HIDE DEF a
  <2>. QED
    BY <1>1, <1>3, Division
<1>5. d <= e + P * q /\ e + P * q <= d + P - 1 /\ e + P * q \in Int
  BY <1>1, <1>4
<1>6. OnGrid(l, e + P * q)
  <2>1. i - q \in Int /\ (e + P * q) + 1 + (i - q) * P = e + 1 + i * P
    BY <1>1, <1>2
  <2>. QED
    BY <1>2, <2>1 DEF OnGrid, P
<1>. QED
  BY <1>5, <1>6 DEF P

\* The ticks of a millisecond, and of a boundary.
LEMMA MillisecondIs ==
  ASSUME TypeOK, NEW x \in Nat, NEW k \in Nat,
         k * TicksPerMs <= x, x <= k * TicksPerMs + TicksPerMs - 1
  PROVE  Millisecond(x) = k
BY TimeFacts, QuotientIs DEF Millisecond

\* A packet ends in every millisecond that a lidar has lived through.
LEMMA EndsInMillisecond ==
  ASSUME TypeOK, NEW l, NEW e \in Nat, OnGrid(l, e), NEW k \in Nat, k * TicksPerMs >= e
  PROVE  \E x \in Nat : /\ OnGrid(l, x) /\ Millisecond(x) = k
                        /\ k * TicksPerMs <= x /\ x <= k * TicksPerMs + TicksPerMs - 1
<1>1. k * TicksPerMs \in Nat /\ PacketTicks \in Nat /\ TicksPerMs \in Nat /\ PacketTicks <= TicksPerMs
  BY TimeFacts, SMT
<1>2. PICK x \in Int : /\ OnGrid(l, x) /\ k * TicksPerMs <= x
                       /\ x <= k * TicksPerMs + PacketTicks - 1
  BY <1>1, GridHit
<1>3. x \in Nat /\ x <= k * TicksPerMs + TicksPerMs - 1
  BY <1>1, <1>2
<1>4. Millisecond(x) = k
  BY <1>2, <1>3, MillisecondIs
<1>. QED
  BY <1>2, <1>3, <1>4

\* A later tick is in a later millisecond, or in the same.
LEMMA MillisecondGrows ==
  ASSUME TypeOK, NEW k \in Nat, NEW x \in Nat, k * TicksPerMs <= x
  PROVE  Millisecond(x) \in Nat /\ k <= Millisecond(x)
<1>. DEFINE T == TicksPerMs
            q == Millisecond(x)
<1>1. T \in Nat \ {0}
  BY TimeFacts
<1>2. q \in Nat /\ x <= q * T + T - 1
  BY <1>1, QuotientBounds DEF Millisecond
<1>. HIDE DEF T, q
<1>3. ~(q + 1 <= k)
  <2>1. q + 1 <= k => (q + 1) * T <= k * T
    BY <1>1, <1>2, MulMono
  <2>2. (q + 1) * T = q * T + T
    BY <1>1, <1>2
  <2>3. k * T <= x /\ k * T \in Nat /\ q * T \in Nat
    BY <1>1, <1>2 DEF T
  <2>. QED
    BY <1>1, <1>2, <2>1, <2>2, <2>3
<1>. QED
  BY <1>2, <1>3 DEF q

\* The interval in which a frame began, and its ticks.
LEMMA IntervalOf ==
  ASSUME TypeOK, NEW x \in Nat
  PROVE  \E k \in Nat :
           /\ Millisecond(x) - (Millisecond(x) % publish_interval_ms_) = k * publish_interval_ms_
           /\ k * Period <= x /\ x <= k * Period + Period - 1
           /\ AtBoundary(x) => Millisecond(x) = k * publish_interval_ms_
<1>. DEFINE T == TicksPerMs
            I == publish_interval_ms_
            W == Period
            m == Millisecond(x)
            k == m \div I
            r == m % I
<1>1. T \in Nat \ {0} /\ I \in Nat \ {0} /\ W = I * T
  BY TimeFacts
<1>2. m \in Nat /\ m * T <= x /\ x <= m * T + T - 1
  BY <1>1, QuotientBounds DEF Millisecond
<1>3. AtBoundary(x) => r = 0
  BY DEF AtBoundary
<1>. HIDE DEF T, I, W, m
<1>4. k \in Nat /\ r \in 0 .. I - 1 /\ m = I * k + r
  BY <1>1, <1>2, Division
<1>. HIDE DEF k, r
<1>5. m - r = k * I
  BY <1>1, <1>2, <1>4
<1>6. k * W <= x
  <2>1. (k * I) * T <= m * T
    <3>1. k * I <= m /\ k * I \in Int
      BY <1>1, <1>4, <1>5
    <3>. QED
      BY <1>1, <1>2, <3>1, MulMono
  <2>2. (k * I) * T = k * W
    BY <1>1, <1>4
  <2>. QED
    BY <1>1, <1>2, <1>4, <2>1, <2>2
<1>7. x <= k * W + W - 1
  <2>1. (m + 1) * T <= ((k + 1) * I) * T
    <3>1. m + 1 <= (k + 1) * I /\ (k + 1) * I \in Int
      BY <1>1, <1>2, <1>4
    <3>. QED
      BY <1>1, <1>2, <3>1, MulMono
  <2>2. ((k + 1) * I) * T = k * W + W /\ (m + 1) * T = m * T + T
    BY <1>1, <1>2, <1>4
  <2>. QED
    BY <1>1, <1>2, <1>4, <2>1, <2>2
<1>8. AtBoundary(x) => m = k * I
  BY <1>1, <1>2, <1>3, <1>4, <1>5
<1>9. PICK j \in Nat : j = k
  BY <1>4
<1>10. m - r = j * I
  BY <1>5, <1>9
<1>11. j * W <= x /\ x <= j * W + W - 1
  BY <1>6, <1>7, <1>9
<1>12. AtBoundary(x) => m = j * I
  BY <1>8, <1>9
<1>13. /\ Millisecond(x) - (Millisecond(x) % publish_interval_ms_) = j * publish_interval_ms_
       /\ j * Period <= x /\ x <= j * Period + Period - 1
       /\ AtBoundary(x) => Millisecond(x) = j * publish_interval_ms_
  BY <1>10, <1>11, <1>12 DEF I, W, m, r
<1>. QED
  BY <1>13

\* A boundary's millisecond.
LEMMA BoundaryMillisecond ==
  ASSUME TypeOK, NEW k \in Nat
  PROVE  /\ k * publish_interval_ms_ \in Nat
         /\ (k * publish_interval_ms_) * TicksPerMs = k * Period
         /\ k * Period \in Nat
         /\ k # 0 => k * publish_interval_ms_ # 0
         /\ (k * publish_interval_ms_) % publish_interval_ms_ = 0
         /\ (k * publish_interval_ms_ + 1) % publish_interval_ms_ \in {0, 1}
<1>. DEFINE T == TicksPerMs
            I == publish_interval_ms_
<1>1. T \in Nat \ {0} /\ I \in Nat \ {0} /\ Period = I * T
  BY TimeFacts
<1>. HIDE DEF T, I
<1>2. k * I \in Nat /\ (k * I) * T = k * (I * T) /\ k * (I * T) \in Nat
  BY <1>1, SMT
<1>3. k # 0 => k * I # 0
  BY <1>1, SMT
<1>4. (k * I) % I = 0 /\ (k * I + 1) % I \in {0, 1}
  BY <1>1, MultipleRemainder
<1>. QED
  BY <1>1, <1>2, <1>3, <1>4 DEF T, I

\* The lidar whose points wait, as the lemmas below see it: B is the first tick
\* of its new frame, in interval k, R the last one, e the last one of the frame
\* before.
Frame(l, e, B, R, k) ==
  /\ e \in Nat /\ B \in Nat /\ R \in Nat /\ k \in Nat
  /\ e < B /\ B <= R
  /\ OnGrid(l, e) /\ OnGrid(l, B - 1) /\ AtBoundary(e)
  /\ k * Period <= B /\ B <= k * Period + Period - 1
  /\ \A x \in Nat : OnGrid(l, x) /\ e < x /\ x < B /\ Near(x) => Millisecond(x) \in lost[l]
  /\ \A x \in Nat : OnGrid(l, x) /\ B <= x /\ x < R /\ AtBoundary(x) /\ Millisecond(x) # 0
                    /\ x - B >= Tolerance => Millisecond(x) \in lost[l]

\* A boundary that passes without a frame, although the frame is long enough,
\* has lost a packet.
LEMMA PassedMeansLost ==
  ASSUME TypeOK, NEW l, NEW e, NEW B, NEW R, NEW k, Frame(l, e, B, R, k),
         NEW b \in Nat, b > k, b * Period + TicksPerMs <= R,
         b * Period - B >= Tolerance
  PROVE  /\ b * publish_interval_ms_ \in lost[l]
         /\ k * publish_interval_ms_ <= b * publish_interval_ms_
         /\ b * publish_interval_ms_ <= Millisecond(R)
<1>. DEFINE T == TicksPerMs
            W == Period
            m == b * publish_interval_ms_
<1>1. T \in Nat \ {0} /\ W \in Nat \ {0} /\ publish_interval_ms_ \in Nat
  BY TimeFacts
<1>2. /\ e \in Nat /\ B \in Nat /\ R \in Nat /\ k \in Nat /\ OnGrid(l, e)
      /\ e < B /\ B <= k * W + W - 1
  BY DEF Frame
<1>3. m \in Nat /\ m * T = b * W /\ b * W \in Nat /\ m # 0 /\ m % publish_interval_ms_ = 0
  BY <1>2, BoundaryMillisecond
<1>4. B < b * W
  <2>1. (k + 1) * W <= b * W
    BY <1>1, <1>2, MulMono
  <2>2. (k + 1) * W = k * W + W /\ k * W \in Nat
    BY <1>1, <1>2
  <2>. QED
    BY <1>1, <1>2, <1>3, <2>1, <2>2
<1>5. k * publish_interval_ms_ <= m
  BY <1>1, <1>2, MulMono
<1>. HIDE DEF m
<1>6. PICK x \in Nat : OnGrid(l, x) /\ Millisecond(x) = m /\ m * T <= x /\ x <= m * T + T - 1
  BY <1>2, <1>3, <1>4, EndsInMillisecond
<1>7. B <= x /\ x < R /\ x - B >= Tolerance
  BY <1>1, <1>2, <1>3, <1>4, <1>6, TimeFacts
<1>8. AtBoundary(x) /\ Millisecond(x) # 0
  BY <1>3, <1>6 DEF AtBoundary
<1>9. m \in lost[l]
  BY <1>6, <1>7, <1>8 DEF Frame
<1>10. m <= Millisecond(R)
  <2>1. m * T <= R
    BY <1>1, <1>2, <1>3
  <2>. QED
    BY <1>2, <1>3, <2>1, MillisecondGrows
<1>. QED
  BY <1>5, <1>9, <1>10 DEF m

\* So has a boundary next to which the frame should have begun and did not.
LEMMA LateMeansLost ==
  ASSUME TypeOK, NEW l, NEW e, NEW B, NEW R, NEW k, Frame(l, e, B, R, k),
         B > k * Period + TicksPerMs
  PROVE  \E m \in {k * publish_interval_ms_, k * publish_interval_ms_ + 1} :
           m \in lost[l] /\ m <= Millisecond(R)
<1>. DEFINE T == TicksPerMs
            W == Period
            I == publish_interval_ms_
            m == k * I
<1>1. T \in Nat \ {0} /\ W \in Nat \ {0} /\ I \in Nat \ {0} /\ W >= T
      /\ PacketTicks \in Nat \ {0} /\ PacketTicks <= T
  BY TimeFacts
<1>2. /\ e \in Nat /\ B \in Nat /\ R \in Nat /\ k \in Nat /\ OnGrid(l, e) /\ OnGrid(l, B - 1)
      /\ e < B /\ B <= R /\ B <= k * W + W - 1 /\ AtBoundary(e)
  BY DEF Frame
<1>3. m \in Nat /\ m * T = k * W /\ k * W \in Nat /\ m % I = 0 /\ (m + 1) % I \in {0, 1}
  BY <1>2, BoundaryMillisecond
<1>. SUFFICES ASSUME TRUE
              PROVE  \E x \in Nat : /\ OnGrid(l, x) /\ e < x /\ x < B
                                    /\ Millisecond(x) \in {m, m + 1}
  <2>. PICK x \in Nat : OnGrid(l, x) /\ e < x /\ x < B /\ Millisecond(x) \in {m, m + 1}
    OBVIOUS
  <2>1. Near(x)
    BY <1>3 DEF Near
  <2>2. Millisecond(x) \in lost[l]
    BY <2>1 DEF Frame
  <2>. DEFINE y == Millisecond(x)
  <2>3. y \in Nat /\ y * T <= x
    BY <1>1, QuotientBounds DEF Millisecond
  <2>. HIDE DEF y, m
  <2>4. y * T <= R
    BY <1>1, <1>2, <2>3
  <2>5. y <= Millisecond(R)
    BY <1>2, <2>3, <2>4, MillisecondGrows
  <2>. QED
    BY <2>2, <2>5 DEF m, y
<1>. HIDE DEF m
<1>4. CASE e <= m * T
  <2>1. PICK x \in Nat : OnGrid(l, x) /\ Millisecond(x) = m /\ m * T <= x /\ x <= m * T + T - 1
    BY <1>2, <1>3, <1>4, EndsInMillisecond
  <2>2. x < B
    BY <1>1, <1>2, <1>3, <2>1
  <2>3. CASE e < x
    BY <2>1, <2>2, <2>3
  <2>4. CASE ~(e < x)
    <3>1. e = m * T /\ x = e
      BY <1>1, <1>2, <1>3, <1>4, <2>1, <2>4
    <3>2. OnGrid(l, e + PacketTicks)
      BY <1>2, GridStep
    <3>3. e + PacketTicks < B /\ e + PacketTicks \in Nat
      BY <1>1, <1>2, <1>3, <3>1
    <3>4. Millisecond(e + PacketTicks) \in {m, m + 1}
      <4>1. CASE PacketTicks < T
        <5>1. m * T <= e + PacketTicks /\ e + PacketTicks <= m * T + T - 1
          BY <1>1, <1>3, <3>1, <4>1
        <5>. QED
          BY <1>3, <3>3, <5>1, MillisecondIs
      <4>2. CASE PacketTicks = T
        <5>1. (m + 1) * T = m * T + T /\ m + 1 \in Nat
          BY <1>1, <1>3
        <5>2. (m + 1) * T <= e + PacketTicks /\ e + PacketTicks <= (m + 1) * T + T - 1
          BY <1>1, <1>3, <3>1, <4>2, <5>1
        <5>. QED
          BY <3>3, <5>1, <5>2, MillisecondIs
      <4>. QED
        BY <1>1, <4>1, <4>2
    <3>. QED
      BY <1>1, <1>2, <3>2, <3>3, <3>4
  <2>. QED
    BY <2>3, <2>4
<1>5. CASE ~(e <= m * T)
  <2>1. e <= m * T + T - 1
    <3>1. PICK j \in Nat : /\ j * W <= e /\ e <= j * W + W - 1
                           /\ Millisecond(e) = j * I
      BY <1>2, IntervalOf
    <3>2. j = k
      <4>1. ~(j + 1 <= k)
        <5>1. j + 1 <= k => (j + 1) * W <= k * W
          BY <1>1, <1>2, MulMono
        <5>2. (j + 1) * W = j * W + W /\ j * W \in Nat
          BY <1>1
        <5>. QED
          BY <1>1, <1>2, <1>3, <1>5, <3>1, <5>1, <5>2
      <4>2. ~(k + 1 <= j)
        <5>1. k + 1 <= j => (k + 1) * W <= j * W
          BY <1>1, <1>2, MulMono
        <5>2. (k + 1) * W = k * W + W /\ j * W \in Nat
          BY <1>1, <1>2
        <5>. QED
          BY <1>1, <1>2, <1>3, <3>1, <5>1, <5>2
      <4>. QED
        BY <1>2, <4>1, <4>2
    <3>3. Millisecond(e) = m
      BY <3>1, <3>2 DEF m
    <3>4. e <= Millisecond(e) * T + T - 1
      BY <1>1, <1>2, QuotientBounds DEF Millisecond
    <3>. QED
      BY <3>3, <3>4
  <2>2. e < B - 1
    BY <1>1, <1>2, <1>3, <2>1
  <2>3. e + PacketTicks <= B - 1
    BY <1>2, <2>2, GridGap
  <2>4. OnGrid(l, e + PacketTicks) /\ e + PacketTicks \in Nat
    BY <1>1, <1>2, GridStep
  <2>5. Millisecond(e + PacketTicks) \in {m, m + 1}
    <3>1. (m + 1) * T = m * T + T /\ m + 1 \in Nat /\ m * T \in Nat
      BY <1>1, <1>3
    <3>2. m * T <= e + PacketTicks /\ e + PacketTicks <= (m + 1) * T + T - 1
      BY <1>1, <1>2, <1>5, <2>1, <3>1
    <3>3. CASE e + PacketTicks <= m * T + T - 1
      BY <1>3, <2>4, <3>2, <3>3, MillisecondIs
    <3>4. CASE ~(e + PacketTicks <= m * T + T - 1)
      <4>1. (m + 1) * T <= e + PacketTicks
        BY <1>1, <1>2, <3>1, <3>4
      <4>. QED
        BY <2>4, <3>1, <3>2, <4>1, MillisecondIs
    <3>. QED
      BY <3>3, <3>4
  <2>. QED
    BY <1>1, <1>2, <2>3, <2>4, <2>5
<1>. QED
  BY <1>4, <1>5

\* A span does not wrap.
LEMMA SpanIs ==
  ASSUME TypeOK, CloudOK, NEW l \in Lidar, points_clouds_[l] # <<>>
  PROVE  Span(l) = GetRecentTimeStamp(l) - GetLidarBaseTime(l)
<1>1. Reached(l) /\ Newest(l) = GetRecentTimeStamp(l)
  BY DEF Reached, Newest
<1>2. GetRecentTimeStamp(l) \in Nat /\ GetRecentTimeStamp(l) < TimeMod
  BY <1>1 DEF CloudOK
<1>3. GetLidarBaseTime(l) \in Nat /\ GetLidarBaseTime(l) <= GetRecentTimeStamp(l)
  BY DEF CloudOK
<1>4. TimeMod \in Nat \ {0}
  BY TimeFacts
<1>. PICK r \in 0 .. TimeMod - 1 : r = GetRecentTimeStamp(l) - GetLidarBaseTime(l)
  BY <1>2, <1>3, <1>4
<1>5. r + TimeMod \in Nat /\ r + TimeMod = TimeMod * 1 + r
  BY <1>4
<1>6. (r + TimeMod) % TimeMod = r
  BY <1>4, <1>5, DivisionIs
<1>. QED
  BY <1>6 DEF Span

\* The points that wait span less than an interval more than the losses explain:
\* were it otherwise, more boundaries would have passed than there are losses.
LEMMA SpanFollows ==
  ASSUME TypeOK, ClocksOK, CloudOK, MissedOK, NEW l \in Lidar,
         points_clouds_[l] # <<>>, points_[l] # <<>>
  PROVE  Span(l) < (1 + Skipped + Cardinality(LostNear(l))) * Period + TicksPerMs
<1>. DEFINE e == Framed(l)
            B == GetLidarBaseTime(l)
            R == GetRecentTimeStamp(l)
            T == TicksPerMs
            W == Period
            I == publish_interval_ms_
            S == LostNear(l)
            c == Cardinality(S)
            s == Skipped
<1>1. /\ T \in Nat \ {0} /\ W \in Nat \ {0} /\ I \in Nat \ {0} /\ W >= T
      /\ TimeMod \in Nat \ {0} /\ Tolerance \in Int /\ Tolerance < W
      /\ s \in {0, 1} /\ (s = 0 => Tolerance = W - T)
  BY TimeFacts DEF Skipped
<1>2. /\ B \in Nat /\ R \in Nat /\ e \in Nat /\ B <= R /\ R < TimeMod /\ e < B
      /\ OnGrid(l, B - 1) /\ OnGrid(l, e) /\ AtBoundary(e)
  <2>1. Reached(l) /\ Newest(l) = R
    BY DEF Reached, Newest
  <2>. QED
    BY <2>1 DEF CloudOK, MissedOK
<1>3. Span(l) = R - B
  BY SpanIs
<1>4. PICK k \in Nat : /\ Millisecond(B) - (Millisecond(B) % I) = k * I
                       /\ k * W <= B /\ B <= k * W + W - 1
  BY <1>2, IntervalOf
<1>5. Frame(l, e, B, R, k)
  <2>1. \A x \in Nat : OnGrid(l, x) /\ e < x /\ x < B /\ Near(x) => Millisecond(x) \in lost[l]
    BY DEF MissedOK
  <2>2. \A x \in Nat : OnGrid(l, x) /\ B <= x /\ x < R /\ AtBoundary(x) /\ Millisecond(x) # 0
                       /\ x - B >= Tolerance => Millisecond(x) \in lost[l]
    <3>. TAKE x \in Nat
    <3>1. x < R => x <= R /\ x # R
      BY <1>2
    <3>. HIDE DEF B, R, e
    <3>. QED
      BY <3>1 DEF MissedOK, B, R, e
  <2>. HIDE DEF B, R, e
  <2>. QED
    BY <1>2, <1>4, <2>1, <2>2 DEF Frame
<1>6. S = {ms \in lost[l] : ms >= k * I /\ ms <= Millisecond(R)}
  BY <1>4 DEF LostNear
<1>7. IsFiniteSet(S) /\ c \in Nat
  <2>1. S \subseteq lost[l] /\ IsFiniteSet(lost[l])
    BY DEF LostNear, ClocksOK
  <2>. HIDE DEF S
  <2>. QED
    BY <2>1, FS_Subset, FS_CardinalityType
<1>. HIDE DEF e, B, R, T, W, I, S, c, s
<1>. SUFFICES ASSUME R - B >= (1 + s + c) * W + T PROVE FALSE
  <2>1. (1 + s + c) * W + T \in Int
    BY <1>1, <1>7
  <2>2. ~(R - B >= (1 + s + c) * W + T) => R - B < (1 + s + c) * W + T
    BY <1>2, <2>1
  <2>. QED
    BY <1>3, <2>2 DEF c, s, S, W, T
<1>8. ASSUME NEW b \in Nat, b > k, b <= k + 1 + s + c, b * W - B >= Tolerance
      PROVE  b * I \in S
  <2>1. b * W <= (k + 1 + s + c) * W
    BY <1>1, <1>4, <1>7, <1>8, MulMono
  <2>2. (k + 1 + s + c) * W = k * W + (1 + s + c) * W /\ b * W \in Int /\ k * W \in Int
        /\ (1 + s + c) * W \in Int
    BY <1>1, <1>4, <1>7
  <2>3. b * W + T <= R
    BY <1>1, <1>2, <1>4, <2>1, <2>2
  <2>4. b * I \in lost[l] /\ k * I <= b * I /\ b * I <= Millisecond(R)
    BY <1>5, <1>8, <2>3, PassedMeansLost DEF W, T, I
  <2>5. b * I \in Nat /\ k * I \in Nat
    BY <1>1, <1>4
  <2>. QED
    BY <1>6, <2>4, <2>5
<1>9. PICK w \in S : w < (k + s + 2) * I /\ w \in Int
  <2>1. (k + 2) * I = k * I + 2 * I /\ (k + 1) * I = k * I + I /\ k * I \in Nat
        /\ (k + 1) * W = k * W + W /\ k * W \in Nat
        /\ (k + 2) * W = k * W + 2 * W /\ (k + 3) * I = k * I + 3 * I
    BY <1>1, <1>4
  <2>2. CASE s = 0 /\ B <= k * W + T
    <3>1. (k + 1) * W - B >= Tolerance
      BY <1>1, <1>2, <2>1, <2>2
    <3>2. (k + 1) * I \in S
      BY <1>4, <1>7, <1>8, <2>2, <3>1
    <3>. QED
      BY <1>1, <1>4, <2>1, <2>2, <3>2
  <2>3. CASE s = 0 /\ B > k * W + T
    <3>1. PICK m \in {k * I, k * I + 1} : m \in lost[l] /\ m <= Millisecond(R)
      BY <1>5, <2>3, LateMeansLost DEF W, T, I
    <3>2. m \in S
      BY <1>6, <2>1, <3>1
    <3>3. (k + s + 2) * I = k * I + 2 * I
      BY <1>4, <2>1, <2>3
    <3>4. k * I + 1 < k * I + 2 * I /\ m \in Int /\ m <= k * I + 1
      BY <1>1, <2>1, <3>1
    <3>5. m < (k + s + 2) * I
      BY <1>1, <2>1, <3>3, <3>4
    <3>. QED
      BY <3>2, <3>4, <3>5
  <2>4. CASE s = 1
    <3>1. (k + 2) * W - B >= Tolerance
      BY <1>1, <1>2, <1>4, <2>1
    <3>2. (k + 2) * I \in S
      BY <1>4, <1>7, <1>8, <2>4, <3>1
    <3>. QED
      BY <1>1, <1>4, <2>1, <2>4, <3>2
  <2>. QED
    BY <1>1, <1>2, <2>1, <2>2, <2>3, <2>4
<1>. DEFINE f == [j \in 1 .. c + 1 |-> IF j = 1 THEN w ELSE (k + s + j) * I]
<1>10. ASSUME NEW j \in 1 .. c + 1, j # 1
       PROVE  (k + s + j) * I \in S /\ (k + s + j) * I >= (k + s + 2) * I
  <2>1. /\ k + s + j \in Nat /\ k + s + j > k /\ k + s + j <= k + 1 + s + c
        /\ k + 2 <= k + s + j /\ k + s + 2 <= k + s + j /\ k + s + 2 \in Nat
    BY <1>1, <1>4, <1>7, <1>10
  <2>2. (k + 2) * W <= (k + s + j) * W /\ (k + s + 2) * I <= (k + s + j) * I
    BY <1>1, <1>4, <2>1, MulMono
  <2>3. (k + 2) * W = k * W + 2 * W /\ k * W \in Nat /\ (k + s + j) * W \in Int
    BY <1>1, <1>4, <2>1
  <2>4. (k + s + j) * W - B >= Tolerance
    BY <1>1, <1>2, <1>4, <2>2, <2>3
  <2>5. (k + s + j) * I \in S
    BY <1>8, <2>1, <2>4
  <2>6. (k + s + j) * I \in Int /\ (k + s + 2) * I \in Int
    BY <1>1, <1>4, <2>1
  <2>. QED
    BY <2>2, <2>5, <2>6
<1>11. f \in [1 .. c + 1 -> S]
  BY <1>9, <1>10
<1>12. PICK i, j \in 1 .. c + 1 : i # j /\ f[i] = f[j]
  <2>1. IsFiniteSet(1 .. c + 1) /\ Cardinality(1 .. c + 1) = c + 1
    BY <1>7, FS_Interval
  <2>2. Cardinality(S) < Cardinality(1 .. c + 1)
    BY <1>7, <2>1 DEF c
  <2>. HIDE DEF f
  <2>. QED
    BY <1>7, <1>11, <2>1, <2>2, FS_PigeonHole
<1>13. ASSUME NEW x \in 1 .. c + 1, NEW y \in 1 .. c + 1, x < y PROVE f[x] # f[y]
  <2>1. x \in Int /\ y \in Int /\ y # 1 /\ f[y] = (k + s + y) * I
    BY <1>7, <1>13
  <2>2. CASE x = 1
    <3>1. (k + s + y) * I >= (k + s + 2) * I /\ (k + s + 2) * I \in Int /\ (k + s + y) * I \in Int
      BY <1>1, <1>4, <1>10, <2>1
    <3>. QED
      BY <1>9, <2>1, <2>2, <3>1
  <2>3. CASE x # 1
    <3>1. f[x] = (k + s + x) * I
      BY <2>3
    <3>2. (k + s + x + 1) * I <= (k + s + y) * I
      BY <1>1, <1>4, <1>13, <2>1, MulMono
    <3>3. (k + s + x + 1) * I = (k + s + x) * I + I /\ (k + s + x) * I \in Int /\ (k + s + y) * I \in Int
      BY <1>1, <1>4, <2>1
    <3>. QED
      BY <1>1, <2>1, <3>1, <3>2, <3>3
  <2>. QED
    BY <2>2, <2>3
<1>14. i < j \/ j < i
  BY <1>12
<1>. QED
  BY <1>12, <1>13, <1>14

-----------------------------------------------------------------------------
(* The steps that leave the packets of the lidars alone. *)

LEMMA GridBack ==
  ASSUME TypeOK, NEW l, NEW x \in Int, OnGrid(l, x)
  PROVE  OnGrid(l, x - PacketTicks)
<1>1. PICK i \in Int : x + 1 + i * PacketTicks = Clock(l)
  BY DEF OnGrid
<1>2. i + 1 \in Int /\ (x - PacketTicks) + 1 + (i + 1) * PacketTicks = x + 1 + i * PacketTicks
  BY <1>1, TimeFacts
<1>. QED
  BY <1>1, <1>2 DEF OnGrid

\* What the lidars sent and what became of it.
sent == <<setup, next, lost, raw_packet_queue_>>

LEMMA SentStays ==
  ASSUME UNCHANGED <<setup, next>>, NEW l
  PROVE  /\ Clock(l)' = Clock(l)
         /\ \A x : OnGrid(l, x)' <=> OnGrid(l, x)
         /\ \A x : Near(x)' <=> Near(x)
         /\ \A x : Millisecond(x)' = Millisecond(x)
         /\ \A x : AtBoundary(x)' <=> AtBoundary(x)
         /\ Tolerance' = Tolerance
<1>1. /\ Clock(l)' = Clock(l) /\ PacketTicks' = PacketTicks /\ TicksPerMs' = TicksPerMs
      /\ setup' = setup
  BY DEF Clock, PacketTicks, TicksPerMs
<1>2. \A x : OnGrid(l, x)' <=> OnGrid(l, x)
  BY <1>1 DEF OnGrid
<1>3. \A x : Millisecond(x)' = Millisecond(x)
  BY <1>1 DEF Millisecond
<1>4. \A x : (Near(x)' <=> Near(x)) /\ (AtBoundary(x)' <=> AtBoundary(x))
  BY <1>1, <1>3 DEF Near, AtBoundary, publish_interval_ms_, publish_interval_
<1>5. Tolerance' = Tolerance
  BY <1>1 DEF Tolerance, publish_interval_
<1>. QED
  BY <1>1, <1>2, <1>3, <1>4, <1>5

LEMMA AccountedStays ==
  ASSUME UNCHANGED sent, NEW l, NEW y
  PROVE  Accounted(l, y)' <=> Accounted(l, y)
<1>1. UNCHANGED <<setup, next>> /\ lost' = lost /\ raw_packet_queue_' = raw_packet_queue_
  BY DEF sent
<1>2. \A p : End(p)' = End(p)
  BY DEF End
<1>. QED
  BY <1>1, <1>2, SentStays DEF Accounted

LEMMA QuietSpan ==
  ASSUME SpanInv, UNCHANGED <<sent, points_clouds_, points_>>,
         is_timestamp_sync_' = is_timestamp_sync_ \/ is_timestamp_sync_' = TRUE,
         UNCHANGED <<pc, id>> \/ (pc # "check" /\ pc' # "check")
  PROVE  SpanInv'
<1>. USE DEF SpanInv
<1>1. /\ UNCHANGED sent /\ UNCHANGED <<setup, next>> /\ lost' = lost
      /\ raw_packet_queue_' = raw_packet_queue_
      /\ points_clouds_' = points_clouds_ /\ points_' = points_ /\ Lidar' = Lidar
  BY DEF sent, Lidar
<1>2. ClocksOK'
  <2>1. \A l \in Lidar : Clock(l)' = Clock(l)
    BY <1>1, SentStays
  <2>. QED
    BY <1>1, <2>1 DEF ClocksOK
<1>3. /\ \A l : Newest(l)' = Newest(l)
      /\ \A l : Reached(l)' <=> Reached(l)
      /\ \A l : Framed(l)' = Framed(l)
      /\ \A l : GetLidarBaseTime(l)' = GetLidarBaseTime(l)
      /\ \A l : GetRecentTimeStamp(l)' = GetRecentTimeStamp(l)
      /\ \A p : Start(p)' = Start(p)
      /\ \A p : End(p)' = End(p)
  BY <1>1 DEF Newest, Reached, Framed, GetLidarBaseTime, GetRecentTimeStamp, Start, End
<1>4. /\ \A l : Clock(l)' = Clock(l)
      /\ \A l, x : OnGrid(l, x)' <=> OnGrid(l, x)
      /\ \A x : Near(x)' <=> Near(x)
      /\ \A x : Millisecond(x)' = Millisecond(x)
      /\ \A x : AtBoundary(x)' <=> AtBoundary(x)
      /\ Tolerance' = Tolerance /\ PacketTicks' = PacketTicks
  BY <1>1, SentStays DEF PacketTicks
<1>5. \A l, y : Accounted(l, y)' <=> Accounted(l, y)
  BY <1>1, AccountedStays
<1>6. QueueOK'
  BY <1>1, <1>3, <1>4, <1>5 DEF QueueOK, PacketOK
<1>7. CloudOK'
  BY <1>1, <1>3, <1>4, <1>5 DEF CloudOK
<1>8. MissedOK'
  BY <1>1, <1>3, <1>4 DEF MissedOK
<1>. QED
  BY <1>2, <1>6, <1>7, <1>8

-----------------------------------------------------------------------------
(* The steps that send a packet, which may be lost. *)

\* A packet of l went by: it waits at the end of the queue, or it is lost.
Sent(l) ==
  /\ UNCHANGED <<setup, points_clouds_, points_, pc, id>>
  /\ next' = [next EXCEPT ![l] = @ + PacketTicks]
  /\ lost' \in [Lidar -> SUBSET Nat] /\ \A k \in Lidar : lost[k] \subseteq lost'[k]
  /\ DOMAIN raw_packet_queue_ \subseteq DOMAIN raw_packet_queue_'
  /\ \A i \in DOMAIN raw_packet_queue_ : raw_packet_queue_'[i] = raw_packet_queue_[i]
  /\ LET end == Clock(l) + PacketTicks - 1
     IN  Near(end) => \/ Millisecond(end) \in lost'[l]
                      \/ \E i \in DOMAIN raw_packet_queue_' :
                           raw_packet_queue_'[i].handle = l /\ End(raw_packet_queue_'[i]) = end

LEMMA SentClock ==
  ASSUME TypeOK, NEW l \in Lidar, Sent(l)
  PROVE  /\ \A k \in Lidar : Clock(k)' = IF k = l THEN Clock(l) + PacketTicks ELSE Clock(k)
         /\ \A k \in Lidar, x \in Int : OnGrid(k, x)' <=> OnGrid(k, x)
         /\ \A x : Near(x)' <=> Near(x)
         /\ \A x : Millisecond(x)' = Millisecond(x)
         /\ \A x : AtBoundary(x)' <=> AtBoundary(x)
         /\ Tolerance' = Tolerance /\ PacketTicks' = PacketTicks
<1>1. /\ setup' = setup /\ PacketTicks' = PacketTicks /\ TicksPerMs' = TicksPerMs
      /\ Tolerance' = Tolerance
  BY DEF Sent, PacketTicks, TicksPerMs, Tolerance, publish_interval_
<1>2. /\ next \in [Lidar -> Nat] /\ setup.offset \in Nat /\ PacketTicks \in Nat
      /\ next' = [next EXCEPT ![l] = @ + PacketTicks]
  BY TimeFacts, SetupFacts DEF TypeOK, Sent
<1>3. \A x : Millisecond(x)' = Millisecond(x)
  BY <1>1 DEF Millisecond
<1>4. \A x : (Near(x)' <=> Near(x)) /\ (AtBoundary(x)' <=> AtBoundary(x))
  BY <1>1, <1>3 DEF Near, AtBoundary, publish_interval_ms_, publish_interval_
<1>5. ASSUME NEW k \in Lidar
      PROVE  Clock(k)' = IF k = l THEN Clock(l) + PacketTicks ELSE Clock(k)
  <2>1. Clock(k)' = next'[k] - setup.offset
    BY <1>1 DEF Clock
  <2>2. CASE k = l
    <3>1. next'[k] = next[l] + PacketTicks
      BY <1>2, <2>2
    <3>2. next[l] \in Nat
      BY <1>2
    <3>. QED
      BY <1>2, <2>1, <2>2, <3>1, <3>2 DEF Clock
  <2>3. CASE k # l
    BY <1>2, <2>1, <2>3 DEF Clock
  <2>. QED
    BY <2>2, <2>3
<1>6. ASSUME NEW k \in Lidar, NEW x \in Int
      PROVE  OnGrid(k, x)' <=> OnGrid(k, x)
  <2>. DEFINE P == PacketTicks
              c == Clock(k)
  <2>1. c \in Int /\ P \in Nat
    BY <1>2 DEF Clock
  <2>2. OnGrid(k, x)' <=> \E i \in Int : x + 1 + i * P = Clock(k)'
    BY <1>1 DEF OnGrid
  <2>3. CASE k # l
    BY <1>5, <2>2, <2>3 DEF OnGrid
  <2>4. CASE k = l
    <3>1. Clock(k)' = c + P
      BY <1>5, <2>4
    <3>. HIDE DEF c, P
    <3>2. ASSUME NEW i \in Int, x + 1 + i * P = c PROVE \E j \in Int : x + 1 + j * P = c + P
      <4>1. i + 1 \in Int /\ (i + 1) * P = i * P + P /\ i * P \in Int
        BY <2>1
      <4>2. x + 1 + (i + 1) * P = c + P
        <5>. PICK m \in Int : m = i * P
          BY <4>1
        <5>. PICK n \in Int : n = (i + 1) * P
          BY <2>1, <4>1
        <5>. QED
          BY <2>1, <3>2, <4>1
      <4>. QED
        BY <4>1, <4>2
    <3>3. ASSUME NEW i \in Int, x + 1 + i * P = c + P PROVE \E j \in Int : x + 1 + j * P = c
      <4>1. i - 1 \in Int /\ (i - 1) * P = i * P - P /\ i * P \in Int
        BY <2>1
      <4>2. x + 1 + (i - 1) * P = c
        <5>. PICK m \in Int : m = i * P
          BY <4>1
        <5>. PICK n \in Int : n = (i - 1) * P
          BY <2>1, <4>1
        <5>. QED
          BY <2>1, <3>3, <4>1
      <4>. QED
        BY <4>1, <4>2
    <3>4. OnGrid(k, x) <=> \E i \in Int : x + 1 + i * P = c
      BY DEF OnGrid, P, c
    <3>. QED
      BY <2>2, <3>1, <3>2, <3>3, <3>4
  <2>. QED
    BY <2>3, <2>4
<1>. QED
  BY <1>1, <1>3, <1>4, <1>5, <1>6

\* What was accounted for stays so, and the packet is.
LEMMA SentAccounted ==
  ASSUME TypeOK, ClocksOK, NEW l \in Lidar, Sent(l), NEW k \in Lidar, NEW y \in Int,
         Accounted(k, y)
  PROVE  Accounted(k, y)'
<1>1. Clock(k) \in Nat /\ PacketTicks \in Nat \ {0}
  BY TimeFacts DEF ClocksOK
<1>. SUFFICES ASSUME NEW x \in Nat, OnGrid(k, x)', y < x, x < Clock(k)', Near(x)'
              PROVE  \/ Millisecond(x)' \in lost'[k]
                     \/ \E i \in DOMAIN raw_packet_queue_' :
                          raw_packet_queue_'[i].handle = k /\ End(raw_packet_queue_'[i]) = x
  BY DEF Accounted
<1>2. OnGrid(k, x) /\ Near(x) /\ Millisecond(x)' = Millisecond(x)
  BY SentClock
<1>3. CASE x < Clock(k)
  <2>1. \/ Millisecond(x) \in lost[k]
        \/ \E i \in DOMAIN raw_packet_queue_ :
             raw_packet_queue_[i].handle = k /\ End(raw_packet_queue_[i]) = x
    BY <1>2, <1>3 DEF Accounted
  <2>. QED
    BY <1>2, <2>1 DEF Sent
<1>4. CASE ~(x < Clock(k))
  <2>. DEFINE c == Clock(k)
  <2>1. k = l /\ Clock(k)' = c + PacketTicks
    BY <1>4, SentClock
  <2>2. OnGrid(k, c - 1)
    <3>1. (c - 1) + 1 + 0 * PacketTicks = c
      BY <1>1
    <3>. QED
      BY <3>1 DEF OnGrid
  <2>3. c - 1 < x /\ c - 1 \in Int /\ x \in Int
    BY <1>1, <1>4
  <2>4. (c - 1) + PacketTicks <= x
    <3>. HIDE DEF c
    <3>. QED
      BY <1>2, <2>2, <2>3, GridGap
  <2>5. x = Clock(l) + PacketTicks - 1
    BY <1>1, <2>1, <2>4
  <2>. QED
    BY <1>2, <2>1, <2>5 DEF Sent
<1>. QED
  BY <1>3, <1>4

LEMMA SentCloud ==
  ASSUME TypeOK, ClocksOK, CloudOK, NEW l \in Lidar, Sent(l)
  PROVE  CloudOK'
<1>1. /\ points_clouds_' = points_clouds_ /\ points_' = points_ /\ Lidar' = Lidar
  BY DEF Sent, Lidar
<1>2. /\ \A k : Newest(k)' = Newest(k)
      /\ \A k : Reached(k)' <=> Reached(k)
      /\ \A k : Framed(k)' = Framed(k)
      /\ \A k : GetLidarBaseTime(k)' = GetLidarBaseTime(k)
      /\ \A k : GetRecentTimeStamp(k)' = GetRecentTimeStamp(k)
  BY <1>1 DEF Newest, Reached, Framed, GetLidarBaseTime, GetRecentTimeStamp
<1>3. /\ PacketTicks \in Nat
      /\ \A k \in Lidar : Clock(k) \in Nat
      /\ \A k \in Lidar : Clock(k)' = Clock(k) \/ Clock(k)' = Clock(k) + PacketTicks
  BY SentClock, TimeFacts DEF ClocksOK
<1>4. ASSUME NEW k \in Lidar, points_clouds_[k] # <<>>
      PROVE  /\ GetLidarBaseTime(k)' \in Nat
             /\ OnGrid(k, GetLidarBaseTime(k) - 1)'
             /\ GetLidarBaseTime(k)' <= GetRecentTimeStamp(k)'
  <2>. PICK y : y = GetLidarBaseTime(k)
    OBVIOUS
  <2>1. y \in Nat /\ OnGrid(k, y - 1) /\ y <= GetRecentTimeStamp(k)
    BY <1>4 DEF CloudOK
  <2>2. OnGrid(k, y - 1)'
    BY <2>1, SentClock
  <2>3. GetLidarBaseTime(k)' = y /\ GetRecentTimeStamp(k)' = GetRecentTimeStamp(k)
    BY <1>2
  <2>4. OnGrid(k, GetLidarBaseTime(k) - 1)'
    BY <2>2, <2>3 DEF OnGrid
  <2>. QED
    BY <2>1, <2>3, <2>4
<1>5. ASSUME NEW k \in Lidar, Reached(k)
      PROVE  /\ Newest(k)' \in Nat /\ OnGrid(k, Newest(k))'
             /\ Newest(k)' < TimeMod /\ Newest(k)' < Clock(k)'
             /\ Accounted(k, Newest(k))'
  <2>. PICK y : y = Newest(k)
    OBVIOUS
  <2>1. /\ y \in Nat /\ OnGrid(k, y) /\ y < TimeMod /\ y < Clock(k) /\ Accounted(k, y)
    BY <1>5 DEF CloudOK
  <2>2. OnGrid(k, y)' /\ Accounted(k, y)'
    BY <2>1, SentClock, SentAccounted
  <2>3. Newest(k)' = y
    BY <1>2
  <2>4. OnGrid(k, Newest(k))'
    BY <2>2, <2>3 DEF OnGrid
  <2>5. Accounted(k, Newest(k))'
    BY <2>2, <2>3 DEF Accounted
  <2>6. y < Clock(k)'
    BY <1>3, <2>1
  <2>. QED
    BY <2>1, <2>3, <2>4, <2>5, <2>6
<1>6. ASSUME NEW k \in Lidar, points_[k] # <<>>
      PROVE  Framed(k)' \in Nat /\ OnGrid(k, Framed(k))' /\ AtBoundary(Framed(k))'
  <2>. PICK y : y = Framed(k)
    OBVIOUS
  <2>1. y \in Nat /\ OnGrid(k, y) /\ AtBoundary(y)
    BY <1>6 DEF CloudOK
  <2>2. OnGrid(k, y)' /\ AtBoundary(y)'
    BY <2>1, SentClock
  <2>3. Framed(k)' = y
    BY <1>2
  <2>4. OnGrid(k, Framed(k))'
    BY <2>2, <2>3 DEF OnGrid
  <2>5. AtBoundary(Framed(k))'
    BY <2>2, <2>3 DEF AtBoundary, Millisecond
  <2>. QED
    BY <2>1, <2>3, <2>4, <2>5
<1>. QED
  BY <1>1, <1>2, <1>4, <1>5, <1>6 DEF CloudOK

LEMMA SentMissed ==
  ASSUME TypeOK, MissedOK, NEW l \in Lidar, Sent(l)
  PROVE  MissedOK'
<1>1. /\ points_clouds_' = points_clouds_ /\ points_' = points_ /\ Lidar' = Lidar
      /\ pc' = pc /\ id' = id
      /\ \A k \in Lidar : lost[k] \subseteq lost'[k]
  BY DEF Sent, Lidar
<1>2. /\ \A k : Framed(k)' = Framed(k)
      /\ \A k : GetLidarBaseTime(k)' = GetLidarBaseTime(k)
      /\ \A k : GetRecentTimeStamp(k)' = GetRecentTimeStamp(k)
  BY <1>1 DEF Framed, GetLidarBaseTime, GetRecentTimeStamp
<1>3. /\ \A k \in Lidar, x \in Nat : OnGrid(k, x)' <=> OnGrid(k, x)
      /\ \A x : Near(x)' <=> Near(x)
      /\ \A x : Millisecond(x)' = Millisecond(x)
      /\ \A x : AtBoundary(x)' <=> AtBoundary(x)
      /\ Tolerance' = Tolerance
  BY SentClock
<1>. QED
  BY <1>1, <1>2, <1>3 DEF MissedOK

LEMMA SentPacketOK ==
  ASSUME TypeOK, ClocksOK, NEW l \in Lidar, Sent(l), NEW packet, packet.handle \in Lidar,
         PacketOK(packet)
  PROVE  PacketOK(packet)'
<1>. DEFINE k == packet.handle
<1>1. /\ PacketTicks' = PacketTicks /\ PacketTicks \in Nat /\ Clock(k) \in Nat
      /\ Clock(k)' = Clock(k) \/ Clock(k)' = Clock(k) + PacketTicks
  BY SentClock, TimeFacts DEF ClocksOK
<1>2. Newest(k)' = Newest(k) /\ (Reached(k)' <=> Reached(k))
  BY DEF Sent, Newest, Reached, Framed, GetRecentTimeStamp
<1>. PICK y : y = End(packet)
  OBVIOUS
<1>3. /\ Start(packet) \in Nat /\ y = Start(packet) + PacketTicks - 1
      /\ OnGrid(k, y) /\ y < Clock(k) /\ y < TimeMod
      /\ Reached(k) => Newest(k) < y
      /\ Accounted(k, y)
  BY DEF PacketOK
<1>4. y \in Int
  BY <1>1, <1>3
<1>5. OnGrid(k, y)' /\ Accounted(k, y)'
  BY <1>3, <1>4, SentClock, SentAccounted
<1>6. y < Clock(k)'
  BY <1>1, <1>3, <1>4
<1>. QED
  BY <1>1, <1>2, <1>3, <1>5, <1>6 DEF PacketOK

\* The new packet.
IsNew(packet, l) ==
  /\ packet.handle = l
  /\ Start(packet) = Clock(l) /\ End(packet) = Clock(l) + PacketTicks - 1
  /\ End(packet) < TimeMod

LEMMA NewPacketOK ==
  ASSUME TypeOK, ClocksOK, CloudOK, NEW l \in Lidar, Sent(l), NEW packet, IsNew(packet, l)
  PROVE  PacketOK(packet)'
<1>1. /\ PacketTicks' = PacketTicks /\ PacketTicks \in Nat \ {0} /\ Clock(l) \in Nat
      /\ Clock(l)' = Clock(l) + PacketTicks
  BY SentClock, TimeFacts DEF ClocksOK
<1>2. Newest(l)' = Newest(l) /\ (Reached(l)' <=> Reached(l))
  BY DEF Sent, Newest, Reached, Framed, GetRecentTimeStamp
<1>. PICK y : y = End(packet)
  OBVIOUS
<1>3. /\ packet.handle = l /\ Start(packet) = Clock(l) /\ y = Clock(l) + PacketTicks - 1
      /\ y < TimeMod
  BY DEF IsNew
<1>4. y \in Nat /\ y + 1 = Clock(l)' /\ y < Clock(l)'
  BY <1>1, <1>3
<1>5. OnGrid(l, y)'
  <2>1. y + 1 + 0 * PacketTicks' = Clock(l)'
    BY <1>1, <1>4
  <2>. QED
    BY <2>1 DEF OnGrid
<1>6. Accounted(l, y)'
  <2>1. \A x \in Nat : ~(y < x /\ x < Clock(l)')
    BY <1>4
  <2>. QED
    BY <2>1 DEF Accounted
<1>7. Reached(l)' => Newest(l)' < y
  <2>1. Reached(l) => Newest(l) \in Nat /\ Newest(l) < Clock(l)
    BY DEF CloudOK
  <2>. QED
    BY <1>1, <1>2, <1>3, <2>1
<1>. QED
  BY <1>1, <1>3, <1>4, <1>5, <1>6, <1>7 DEF PacketOK

LEMMA SentQueue ==
  ASSUME TypeOK, ClocksOK, CloudOK, QueueOK, raw_packet_queue_ \in Seq(Packet),
         NEW l \in Lidar, Sent(l),
         \/ raw_packet_queue_' = raw_packet_queue_
         \/ \E packet \in Packet :
              IsNew(packet, l) /\ raw_packet_queue_' = Append(raw_packet_queue_, packet)
  PROVE  QueueOK'
<1>. DEFINE q == raw_packet_queue_
            n == Len(q)
<1>1. n \in Nat /\ DOMAIN q = 1 .. n
  BY LenProperties
<1>2. ASSUME NEW i \in 1 .. n
      PROVE  /\ q'[i] = q[i] /\ q[i].handle \in Lidar
             /\ PacketOK(q[i]) /\ PacketOK(q[i])'
  <2>1. q[i] \in Packet
    BY ElementOfSeq
  <2>2. q[i].handle \in Lidar
    BY <2>1 DEF Packet
  <2>3. q'[i] = q[i]
    BY <1>1 DEF Sent
  <2>. PICK p : p = q[i]
    OBVIOUS
  <2>4. PacketOK(p)
    BY <1>1 DEF QueueOK
  <2>5. PacketOK(p)'
    BY <2>2, <2>4, SentPacketOK
  <2>6. PacketOK(q[i])'
    BY <2>3, <2>5
  <2>. QED
    BY <2>2, <2>3, <2>4, <2>6
<1>3. \A i, j \in 1 .. n : i < j /\ q[i].handle = q[j].handle => End(q[i]) < End(q[j])
  BY <1>1 DEF QueueOK
<1>4. CASE q' = q
  BY <1>1, <1>2, <1>3, <1>4 DEF QueueOK
<1>5. ASSUME NEW packet \in Packet, IsNew(packet, l), q' = Append(q, packet)
      PROVE  QueueOK'
  <2>1. /\ DOMAIN q' = 1 .. n + 1 /\ q'[n + 1] = packet
    <3>1. q \in Seq(Packet)
      OBVIOUS
    <3>2. /\ Append(q, packet) \in Seq(Packet) /\ Len(Append(q, packet)) = n + 1
          /\ Append(q, packet)[n + 1] = packet
      BY <3>1, AppendProperties
    <3>3. DOMAIN Append(q, packet) = 1 .. n + 1
      BY <3>2, LenProperties
    <3>. QED
      BY <1>5, <3>2, <3>3
  <2>2. PacketOK(packet)'
    BY <1>5, NewPacketOK
  <2>3. ASSUME NEW i \in 1 .. n + 1 PROVE PacketOK(q[i])'
    <3>1. CASE i \in 1 .. n
      BY <1>2, <3>1
    <3>2. CASE i = n + 1
      BY <2>1, <2>2, <3>2
    <3>. QED
      BY <1>1, <3>1, <3>2
  <2>4. ASSUME NEW i \in 1 .. n + 1, NEW j \in 1 .. n + 1, i < j, q'[i].handle = q'[j].handle
        PROVE  End(q'[i]) < End(q'[j])
    <3>1. i \in 1 .. n
      BY <1>1, <2>4
    <3>2. CASE j \in 1 .. n
      BY <1>2, <1>3, <2>4, <3>1, <3>2
    <3>3. CASE j = n + 1
      <4>1. q[i].handle = l /\ q'[i] = q[i] /\ q'[j] = packet
        BY <1>2, <1>5, <2>1, <2>4, <3>1, <3>3 DEF IsNew
      <4>2. End(q[i]) < Clock(l) /\ End(q[i]) \in Int
        <5>. PICK p : p = q[i]
          OBVIOUS
        <5>1. PacketOK(p) /\ p.handle = l
          BY <1>2, <3>1, <4>1
        <5>2. Start(p) \in Nat /\ End(p) = Start(p) + PacketTicks - 1 /\ End(p) < Clock(l)
          BY <5>1 DEF PacketOK
        <5>3. End(p) \in Int
          BY <5>2, TimeFacts
        <5>. QED
          BY <5>2, <5>3
      <4>3. End(packet) = Clock(l) + PacketTicks - 1 /\ Clock(l) \in Nat
            /\ PacketTicks \in Nat \ {0}
        BY <1>5, TimeFacts DEF IsNew, ClocksOK
      <4>. QED
        BY <4>1, <4>2, <4>3
    <3>. QED
      BY <1>1, <3>2, <3>3
  <2>. HIDE DEF q, n
  <2>. QED
    BY <2>1, <2>3, <2>4 DEF QueueOK, q
<1>. QED
  BY <1>4, <1>5

\* The stamps of a packet that was to arrive by now do not wrap.
LEMMA StampIs ==
  ASSUME TypeOK, ClocksOK, NEW l \in Lidar, next[l] + PacketTicks <= now
  PROVE  /\ TimeStamp(l, TRUE) = Clock(l)
         /\ Clock(l) + PacketTicks - 1 < TimeMod
         /\ \A i \in 1 .. PacketTicks : (Clock(l) + i - 1) % TimeMod = Clock(l) + i - 1
<1>. DEFINE c == Clock(l)
            P == PacketTicks
            M == TimeMod
<1>1. c \in Nat /\ P \in Nat \ {0} /\ M \in Nat \ {0}
  BY TimeFacts DEF ClocksOK
<1>2. c + P <= M
  <2>1. /\ next[l] \in Nat /\ setup.offset \in Nat /\ setup.maxTime \in Nat
        /\ now \in 0 .. setup.maxTime /\ M > setup.maxTime + P
    BY SetupFacts, TimeFacts DEF TypeOK
  <2>. PICK n \in Nat : n = next[l]
    BY <2>1
  <2>. PICK o \in Nat : o = setup.offset
    BY <2>1
  <2>. PICK t \in Nat : t = setup.maxTime
    BY <2>1
  <2>2. c = n - o
    BY DEF Clock
  <2>3. n + P <= now /\ now \in 0 .. t /\ M > t + P
    BY <2>1
  <2>4. n + P <= t
    <3>. HIDE DEF c, P, M
    <3>. QED
      BY <1>1, <2>3
  <2>. HIDE DEF c, P, M
  <2>. QED
    BY <1>1, <2>2, <2>3, <2>4
<1>. HIDE DEF P, M
<1>3. (c + M) % M = c
  <2>. HIDE DEF c
  <2>1. c + M \in Nat /\ c + M = M * 1 + c /\ c \in 0 .. M - 1
    BY <1>1, <1>2
  <2>. QED
    BY <1>1, <2>1, DivisionIs
<1>4. TimeStamp(l, TRUE) = c
  <2>1. TimeStamp(l, TRUE) = (next[l] - setup.offset + TimeMod) % TimeMod
    BY Zenon DEF TimeStamp
  <2>. QED
    BY <1>3, <2>1 DEF Clock, M
<1>. HIDE DEF c
<1>5. ASSUME NEW i \in 1 .. P PROVE (c + i - 1) % M = c + i - 1
  <2>1. c + i - 1 \in Nat /\ c + i - 1 = M * 0 + (c + i - 1) /\ c + i - 1 \in 0 .. M - 1
    BY <1>1, <1>2
  <2>. QED
    BY <1>1, <2>1, DivisionIs
<1>6. c + P - 1 < M
  BY <1>1, <1>2
<1>. QED
  BY <1>4, <1>5, <1>6 DEF c, P, M

LEMMA SentSpan ==
  ASSUME TypeOK, SpanInv, raw_packet_queue_ \in Seq(Packet), NEW l \in Lidar, Sent(l),
         \A k \in Lidar : IsFiniteSet(lost'[k]),
         \/ /\ raw_packet_queue_' = raw_packet_queue_
            /\ is_timestamp_sync_' = is_timestamp_sync_
         \/ /\ is_timestamp_sync_' = TRUE
            /\ \E packet \in Packet :
                 IsNew(packet, l) /\ raw_packet_queue_' = Append(raw_packet_queue_, packet)
  PROVE  SpanInv'
<1>. USE DEF SpanInv
<1>1. QueueOK'
  BY SentQueue
<1>2. CloudOK' /\ MissedOK'
  BY SentCloud, SentMissed
<1>3. ClocksOK'
  <2>1. Lidar' = Lidar /\ pc' = pc
    BY DEF Sent, Lidar
  <2>2. \A k \in Lidar : Clock(k)' \in Nat
    <3>1. PacketTicks \in Nat /\ \A k \in Lidar : Clock(k) \in Nat
      BY TimeFacts DEF ClocksOK
    <3>2. \A k \in Lidar : Clock(k)' = Clock(k) \/ Clock(k)' = Clock(k) + PacketTicks
      BY SentClock
    <3>. QED
      BY <3>1, <3>2
  <2>3. raw_packet_queue_' # <<>> \/ pc' = "check" => is_timestamp_sync_'
    BY <2>1 DEF ClocksOK
  <2>. QED
    BY <2>1, <2>2, <2>3 DEF ClocksOK
<1>. QED
  BY <1>1, <1>2, <1>3

LEMMA OnPointPacketSpan ==
  ASSUME TypeOK, Buffers, SpanInv, NEW l \in Lidar, OnPointPacket(l, TRUE)
  PROVE  SpanInv'
<1>. DEFINE packet == [handle |-> l, points |-> NewPoints(l, TRUE)]
            ps == NewPoints(l, TRUE)
            c == Clock(l)
            q == raw_packet_queue_
<1>1. /\ UNCHANGED <<setup, lost, points_clouds_, points_, pc, id>>
      /\ next[l] + PacketTicks <= now
      /\ is_timestamp_sync_' = TRUE
      /\ next' = [next EXCEPT ![l] = @ + PacketTicks]
  BY DEF OnPointPacket, assembly
<1>2. q' = Append(q, packet)
  BY DEF OnPointPacket, NewPoints
<1>3. /\ ps \in Seq(Point) /\ Len(ps) = PacketTicks /\ ps # <<>>
      /\ PacketTicks \in Nat \ {0} /\ c \in Nat
  BY NewPointsType, TimeFacts DEF SpanInv, ClocksOK
<1>4. /\ TimeStamp(l, TRUE) = c
      /\ c + PacketTicks - 1 < TimeMod
      /\ \A i \in 1 .. PacketTicks : (c + i - 1) % TimeMod = c + i - 1
  BY <1>1, StampIs DEF SpanInv
<1>5. \A i \in 1 .. PacketTicks : ps[i].offset_time = c + i - 1
  <2>1. \A i \in 1 .. PacketTicks : ps[i].offset_time = (TimeStamp(l, TRUE) + i - 1) % TimeMod
    BY DEF NewPoints
  <2>. QED
    BY <1>4, <2>1
<1>. HIDE DEF ps
<1>6. Head(ps).offset_time = c /\ Last(ps).offset_time = c + PacketTicks - 1
  <2>1. Head(ps) = ps[1] /\ Last(ps) = ps[PacketTicks]
    BY <1>3 DEF Last
  <2>2. 1 \in 1 .. PacketTicks /\ PacketTicks \in 1 .. PacketTicks /\ c + 1 - 1 = c
    BY <1>3
  <2>. QED
    BY <1>5, <2>1, <2>2
<1>7. IsNew(packet, l)
  BY <1>4, <1>6 DEF IsNew, Start, End, ps
<1>8. packet \in Packet
  BY <1>3 DEF Packet, ps
<1>. HIDE DEF packet
<1>9. q \in Seq(Packet) /\ Len(q) \in Nat /\ DOMAIN q = 1 .. Len(q)
  BY LenProperties DEF Buffers
<1>10. /\ DOMAIN q' = 1 .. Len(q) + 1 /\ q'[Len(q) + 1] = packet
       /\ \A i \in 1 .. Len(q) : q'[i] = q[i]
  <2>1. /\ Append(q, packet) \in Seq(Packet) /\ Len(Append(q, packet)) = Len(q) + 1
        /\ Append(q, packet)[Len(q) + 1] = packet
        /\ \A i \in 1 .. Len(q) : Append(q, packet)[i] = q[i]
    BY <1>8, <1>9, AppendProperties
  <2>2. DOMAIN Append(q, packet) = 1 .. Len(q) + 1
    BY <2>1, LenProperties
  <2>. QED
    BY <1>2, <2>1, <2>2
<1>11. \E i \in DOMAIN q' : q'[i].handle = l /\ End(q'[i]) = c + PacketTicks - 1
  BY <1>7, <1>9, <1>10 DEF IsNew
<1>12. Sent(l)
  BY <1>1, <1>9, <1>10, <1>11 DEF Sent, TypeOK
<1>13. \A k \in Lidar : IsFiniteSet(lost'[k])
  BY <1>1 DEF SpanInv, ClocksOK
<1>. QED
  BY <1>1, <1>2, <1>7, <1>8, <1>9, <1>12, <1>13, SentSpan

LEMMA LosePacketSpan ==
  ASSUME TypeOK, Buffers, SpanInv, NEW l \in Lidar, LosePacket(l)
  PROVE  SpanInv'
<1>. DEFINE stamp == TimeStamp(l, TRUE)
            last == (stamp + PacketTicks - 1) % TimeMod
            m == Millisecond(last)
<1>1. /\ UNCHANGED <<setup, raw_packet_queue_, is_timestamp_sync_, points_clouds_, points_, pc, id>>
      /\ next[l] + PacketTicks <= now
      /\ next' = [next EXCEPT ![l] = @ + PacketTicks]
      /\ lost' = IF m % publish_interval_ms_ \in {0, 1}
                 THEN [lost EXCEPT ![l] = @ \cup {m}] ELSE lost
  BY DEF LosePacket, assembly, shared
<1>2. last = Clock(l) + PacketTicks - 1 /\ last \in Nat
  <2>1. PacketTicks \in 1 .. PacketTicks /\ PacketTicks \in Nat \ {0} /\ Clock(l) \in Nat
    BY TimeFacts DEF SpanInv, ClocksOK
  <2>2. stamp = Clock(l)
    BY <1>1, StampIs, Zenon DEF SpanInv
  <2>3. (Clock(l) + PacketTicks - 1) % TimeMod = Clock(l) + PacketTicks - 1
    BY <1>1, <2>1, StampIs DEF SpanInv
  <2>. HIDE DEF stamp
  <2>. QED
    BY <2>1, <2>2, <2>3
<1>. HIDE DEF last
<1>3. m \in Nat
  BY <1>2, TimeFacts, QuotientBounds DEF Millisecond
<1>4. Near(last) <=> m % publish_interval_ms_ \in {0, 1}
  BY DEF Near
<1>. HIDE DEF m
<1>5. lost \in [Lidar -> SUBSET Nat] /\ \A k \in Lidar : IsFiniteSet(lost[k])
  BY DEF TypeOK, SpanInv, ClocksOK
<1>6. \A k \in Lidar : lost'[k] = lost[k] \/ lost'[k] = lost[k] \cup {m}
  BY <1>1, <1>5
<1>7. lost' \in [Lidar -> SUBSET Nat] /\ \A k \in Lidar : lost[k] \subseteq lost'[k]
  BY <1>1, <1>3, <1>5
<1>8. \A k \in Lidar : IsFiniteSet(lost'[k])
  BY <1>5, <1>6, FS_AddElement
<1>9. Near(last) => m \in lost'[l]
  BY <1>1, <1>4, <1>5
<1>10. Sent(l)
  BY <1>1, <1>2, <1>7, <1>9 DEF Sent, m
<1>11. raw_packet_queue_ \in Seq(Packet)
  BY DEF Buffers
<1>. QED
  BY <1>1, <1>8, <1>10, <1>11, SentSpan

-----------------------------------------------------------------------------
(* The packet taken from the queue. *)

LEMMA ConcatEnds ==
  ASSUME NEW S, NEW a \in Seq(S), NEW b \in Seq(S), b # <<>>
  PROVE  /\ a \o b # <<>> /\ Last(a \o b) = Last(b)
         /\ a # <<>> => Head(a \o b) = Head(a)
         /\ a = <<>> => a \o b = b
<1>1. /\ Len(a) \in Nat /\ Len(b) \in Nat \ {0}
      /\ a \o b \in Seq(S) /\ Len(a \o b) = Len(a) + Len(b)
      /\ \A i \in 1 .. Len(a) + Len(b) :
           (a \o b)[i] = IF i <= Len(a) THEN a[i] ELSE b[i - Len(a)]
  BY EmptySeq, LenProperties, ConcatProperties
<1>. DEFINE c == a \o b
<1>2. c # <<>> /\ Len(c) \in 1 .. Len(a) + Len(b)
  BY <1>1, EmptySeq
<1>3. Last(c) = c[Len(c)] /\ Last(b) = b[Len(b)]
  BY DEF Last
<1>4. c[Len(c)] = b[Len(b)]
  <2>1. ~(Len(c) <= Len(a)) /\ Len(c) - Len(a) = Len(b)
    BY <1>1
  <2>. QED
    BY <1>1, <1>2, <2>1
<1>5. a # <<>> => Head(c) = Head(a)
  <2>. SUFFICES ASSUME a # <<>> PROVE Head(c) = Head(a)
    OBVIOUS
  <2>1. 1 <= Len(a) /\ 1 \in 1 .. Len(a) + Len(b)
    BY <1>1, EmptySeq
  <2>2. c[1] = a[1]
    BY <1>1, <2>1
  <2>3. Head(c) = c[1] /\ Head(a) = a[1]
    BY <1>1, <1>2, HeadTailProperties
  <2>. QED
    BY <2>2, <2>3
<1>6. a = <<>> => c = b
  BY ConcatEmptySeq
<1>. QED
  BY <1>2, <1>3, <1>4, <1>5, <1>6

\* h, of the lidar l, is taken from the queue.
Popped(h, l) ==
  /\ UNCHANGED <<setup, next, lost, points_, is_timestamp_sync_>>
  /\ h = Head(raw_packet_queue_) /\ l = h.handle /\ l \in Lidar
  /\ raw_packet_queue_ \in Seq(Packet) /\ raw_packet_queue_ # <<>>
  /\ raw_packet_queue_' = Tail(raw_packet_queue_)
  /\ pc = "pop" /\ pc' = "check" /\ id' = l
  /\ \A k \in Lidar : k # l => points_clouds_'[k] = points_clouds_[k]
  /\ points_clouds_'[l] # <<>>
  /\ GetRecentTimeStamp(l)' = End(h)
  /\ GetLidarBaseTime(l)' = IF points_clouds_[l] = <<>> THEN Start(h) ELSE GetLidarBaseTime(l)

LEMMA PopIs ==
  ASSUME TypeOK, Buffers, Pop
  PROVE  \E h, l : Popped(h, l)
<1>. PICK h : h = Head(raw_packet_queue_)
  OBVIOUS
<1>. PICK l : l = h.handle
  OBVIOUS
<1>. PICK ps : ps = h.points
  OBVIOUS
<1>. DEFINE c == points_clouds_[l]
<1>1. /\ raw_packet_queue_ \in Seq(Packet) /\ raw_packet_queue_ # <<>>
      /\ points_clouds_ \in [Lidar -> Seq(Point)]
      /\ h \in Packet
  BY HeadTailProperties DEF Pop, Buffers
<1>2. l \in Lidar /\ ps \in Seq(Point) /\ ps # <<>> /\ c \in Seq(Point)
  BY <1>1 DEF Packet, c
<1>3. /\ UNCHANGED <<setup, next, lost, points_, is_timestamp_sync_>>
      /\ raw_packet_queue_' = Tail(raw_packet_queue_)
      /\ pc = "pop" /\ pc' = "check" /\ id' = l
      /\ points_clouds_' = [points_clouds_ EXCEPT ![l] = @ \o ps]
  BY DEF Pop, sdk
<1>. HIDE DEF c
<1>4. points_clouds_'[l] = c \o ps /\ \A k \in Lidar : k # l => points_clouds_'[k] = points_clouds_[k]
  BY <1>1, <1>2, <1>3 DEF c
<1>5. /\ c \o ps # <<>> /\ Last(c \o ps) = Last(ps)
      /\ c # <<>> => Head(c \o ps) = Head(c)
      /\ c = <<>> => c \o ps = ps
  BY <1>2, ConcatEnds
<1>6. GetRecentTimeStamp(l)' = End(h)
  <2>1. GetRecentTimeStamp(l)' = Last(points_clouds_'[l]).offset_time
    BY <1>4, <1>5 DEF GetRecentTimeStamp
  <2>. QED
    BY <1>4, <1>5, <2>1 DEF End
<1>7. GetLidarBaseTime(l)' = IF c = <<>> THEN Start(h) ELSE GetLidarBaseTime(l)
  <2>1. GetLidarBaseTime(l)' = Head(points_clouds_'[l]).offset_time
    BY <1>4, <1>5 DEF GetLidarBaseTime
  <2>2. c # <<>> => GetLidarBaseTime(l) = Head(c).offset_time
    BY DEF GetLidarBaseTime, c
  <2>3. Start(h) = Head(ps).offset_time
    BY DEF Start
  <2>. QED
    BY <1>4, <1>5, <2>1, <2>2, <2>3
<1>8. Popped(h, l)
  BY <1>1, <1>2, <1>3, <1>4, <1>5, <1>6, <1>7 DEF Popped, c
<1>. QED
  BY <1>8

\* The queue before and after.
LEMMA PopQueue ==
  ASSUME QueueOK, NEW h, NEW l, Popped(h, l), NEW r, r = raw_packet_queue_'
  PROVE  /\ PacketOK(h)
         /\ \A i \in DOMAIN raw_packet_queue_ :
              \/ raw_packet_queue_[i] = h
              \/ \E j \in DOMAIN r : r[j] = raw_packet_queue_[i]
         /\ \A j \in DOMAIN r : /\ r[j].handle \in Lidar /\ PacketOK(r[j])
                                /\ r[j].handle = l => End(h) < End(r[j])
         /\ \A i, j \in DOMAIN r :
              i < j /\ r[i].handle = r[j].handle => End(r[i]) < End(r[j])
<1>. DEFINE q == raw_packet_queue_
            n == Len(q)
<1>1. /\ q \in Seq(Packet) /\ q # <<>> /\ h = Head(q) /\ l = h.handle /\ r = Tail(q)
  BY DEF Popped
<1>2. /\ n \in Nat \ {0} /\ DOMAIN q = 1 .. n /\ h = q[1]
      /\ r \in Seq(Packet) /\ Len(r) = n - 1
      /\ \A i \in 1 .. n - 1 : r[i] = q[i + 1]
  BY <1>1, EmptySeq, LenProperties, HeadTailProperties
<1>3. DOMAIN r = 1 .. n - 1
  BY <1>2, LenProperties
<1>4. /\ \A i \in 1 .. n : PacketOK(q[i])
      /\ \A i, j \in 1 .. n : i < j /\ q[i].handle = q[j].handle => End(q[i]) < End(q[j])
  BY <1>2 DEF QueueOK
<1>. HIDE DEF q, n
<1>5. PacketOK(h)
  <2>1. 1 \in 1 .. n
    BY <1>2
  <2>. QED
    BY <1>2, <1>4, <2>1
<1>6. ASSUME NEW i \in 1 .. n PROVE q[i] = h \/ \E j \in 1 .. n - 1 : r[j] = q[i]
  <2>1. CASE i = 1
    BY <1>2, <2>1
  <2>2. CASE i # 1
    <3>1. i - 1 \in 1 .. n - 1 /\ (i - 1) + 1 = i
      BY <1>2, <2>2
    <3>. QED
      BY <1>2, <3>1
  <2>. QED
    BY <2>1, <2>2
<1>7. ASSUME NEW j \in 1 .. n - 1
      PROVE  /\ r[j].handle \in Lidar /\ PacketOK(r[j])
             /\ r[j].handle = l => End(h) < End(r[j])
  <2>1. j + 1 \in 1 .. n /\ 1 \in 1 .. n /\ 1 < j + 1 /\ r[j] = q[j + 1]
    BY <1>2
  <2>2. r[j] \in Packet
    BY <1>2, ElementOfSeq
  <2>3. PacketOK(r[j])
    BY <1>4, <2>1
  <2>4. r[j].handle = l => End(h) < End(r[j])
    BY <1>1, <1>2, <1>4, <2>1
  <2>. QED
    BY <2>2, <2>3, <2>4 DEF Packet
<1>8. ASSUME NEW i \in 1 .. n - 1, NEW j \in 1 .. n - 1, i < j, r[i].handle = r[j].handle
      PROVE  End(r[i]) < End(r[j])
  <2>1. /\ i + 1 \in 1 .. n /\ j + 1 \in 1 .. n /\ i + 1 < j + 1
        /\ r[i] = q[i + 1] /\ r[j] = q[j + 1]
    BY <1>2, <1>8
  <2>. QED
    BY <1>4, <1>8, <2>1
<1>. QED
  BY <1>2, <1>3, <1>5, <1>6, <1>7, <1>8 DEF q

LEMMA PopAccounted ==
  ASSUME QueueOK, NEW h, NEW l, Popped(h, l), NEW k \in Lidar, NEW y \in Int,
         Accounted(k, y), k # l \/ End(h) <= y
  PROVE  Accounted(k, y)'
<1>1. UNCHANGED <<setup, next>> /\ lost' = lost /\ l = h.handle
  BY DEF Popped
<1>. PICK r : r = raw_packet_queue_'
  OBVIOUS
<1>. SUFFICES ASSUME NEW x \in Nat, OnGrid(k, x)', y < x, x < Clock(k)', Near(x)'
              PROVE  \/ Millisecond(x)' \in lost'[k]
                     \/ \E i \in DOMAIN r : r[i].handle = k /\ End(r[i]) = x
  BY DEF Accounted
<1>2. OnGrid(k, x) /\ Near(x) /\ Millisecond(x)' = Millisecond(x) /\ x < Clock(k)
  BY <1>1, SentStays
<1>3. \/ Millisecond(x) \in lost[k]
      \/ \E i \in DOMAIN raw_packet_queue_ :
           raw_packet_queue_[i].handle = k /\ End(raw_packet_queue_[i]) = x
  BY <1>2 DEF Accounted
<1>4. ASSUME NEW i \in DOMAIN raw_packet_queue_,
             raw_packet_queue_[i].handle = k, End(raw_packet_queue_[i]) = x
      PROVE  \E j \in DOMAIN r : r[j].handle = k /\ End(r[j]) = x
  <2>1. raw_packet_queue_[i] # h
    BY <1>1, <1>4
  <2>2. \E j \in DOMAIN r : r[j] = raw_packet_queue_[i]
    BY <2>1, PopQueue
  <2>. QED
    BY <1>4, <2>2
<1>. QED
  BY <1>1, <1>2, <1>3, <1>4

\* What l lost up to the packet taken.
LEMMA PopLost ==
  ASSUME ClocksOK, QueueOK, NEW h, NEW l, Popped(h, l), End(h) \in Int, NEW y \in Int, Accounted(l, y),
         NEW x \in Nat, OnGrid(l, x), y < x, x < End(h), Near(x)
  PROVE  Millisecond(x) \in lost[l]
<1>. PICK r : r = raw_packet_queue_'
  OBVIOUS
<1>. PICK e \in Int : e = End(h)
  OBVIOUS
<1>1. l = h.handle
  BY DEF Popped
<1>2. x < Clock(l)
  <2>1. PacketOK(h)
    BY PopQueue
  <2>2. e < Clock(l) /\ Clock(l) \in Int
    BY <1>1, <2>1 DEF PacketOK, ClocksOK, Popped
  <2>. QED
    BY <2>2
<1>3. ASSUME NEW i \in DOMAIN raw_packet_queue_,
             raw_packet_queue_[i].handle = l, End(raw_packet_queue_[i]) = x
      PROVE  FALSE
  <2>1. raw_packet_queue_[i] # h
    BY <1>3
  <2>2. PICK j \in DOMAIN r : r[j] = raw_packet_queue_[i]
    BY <2>1, PopQueue
  <2>3. e < x
    BY <1>3, <2>2, PopQueue
  <2>. QED
    BY <2>3
<1>. QED
  BY <1>2, <1>3 DEF Accounted

LEMMA PopNewest ==
  ASSUME NEW h, NEW l, Popped(h, l)
  PROVE  /\ Newest(l)' = End(h) /\ Reached(l)'
         /\ \A k \in Lidar : Framed(k)' = Framed(k)
         /\ \A k \in Lidar : k # l =>
              /\ Newest(k)' = Newest(k) /\ (Reached(k)' <=> Reached(k))
              /\ GetLidarBaseTime(k)' = GetLidarBaseTime(k)
              /\ GetRecentTimeStamp(k)' = GetRecentTimeStamp(k)
<1>1. /\ points_' = points_ /\ points_clouds_'[l] # <<>>
      /\ GetRecentTimeStamp(l)' = End(h)
      /\ \A k \in Lidar : k # l => points_clouds_'[k] = points_clouds_[k]
  BY DEF Popped
<1>2. Newest(l)' = End(h) /\ Reached(l)'
  BY <1>1 DEF Newest, Reached
<1>3. \A k \in Lidar : Framed(k)' = Framed(k)
  BY <1>1 DEF Framed
<1>4. ASSUME NEW k \in Lidar, k # l
      PROVE  /\ Newest(k)' = Newest(k) /\ (Reached(k)' <=> Reached(k))
             /\ GetLidarBaseTime(k)' = GetLidarBaseTime(k)
             /\ GetRecentTimeStamp(k)' = GetRecentTimeStamp(k)
  BY <1>1, <1>4 DEF Newest, Reached, Framed, GetLidarBaseTime, GetRecentTimeStamp
<1>. QED
  BY <1>2, <1>3, <1>4

\* The packet taken, by what the invariant says of it.
LEMMA PopHead ==
  ASSUME TypeOK, SpanInv, NEW h, NEW l, Popped(h, l)
  PROVE  /\ l \in Lidar /\ Start(h) \in Nat /\ End(h) \in Nat
         /\ End(h) = Start(h) + PacketTicks - 1 /\ PacketTicks \in Nat \ {0}
         /\ OnGrid(l, End(h)) /\ OnGrid(l, Start(h) - 1)
         /\ End(h) < Clock(l) /\ End(h) < TimeMod
         /\ Reached(l) => Newest(l) < End(h)
         /\ Accounted(l, End(h))
<1>1. PacketOK(h)
  <2>. PICK r : r = raw_packet_queue_'
    OBVIOUS
  <2>. QED
    BY PopQueue DEF SpanInv
<1>2. l = h.handle /\ l \in Lidar
  BY DEF Popped
<1>3. PacketTicks \in Nat \ {0}
  BY TimeFacts
<1>4. /\ Start(h) \in Nat /\ End(h) = Start(h) + PacketTicks - 1
      /\ OnGrid(l, End(h)) /\ End(h) < Clock(l) /\ End(h) < TimeMod
      /\ Reached(l) => Newest(l) < End(h)
      /\ Accounted(l, End(h))
  BY <1>1, <1>2 DEF PacketOK
<1>5. End(h) \in Nat /\ End(h) - PacketTicks = Start(h) - 1
  BY <1>3, <1>4
<1>6. OnGrid(l, End(h) - PacketTicks)
  <2>. PICK e \in Int : e = End(h)
    BY <1>5
  <2>1. OnGrid(l, e - PacketTicks)
    BY <1>4, GridBack
  <2>. QED
    BY <2>1
<1>. QED
  BY <1>2, <1>3, <1>4, <1>5, <1>6

LEMMA PopQueueOK ==
  ASSUME TypeOK, SpanInv, NEW h, NEW l, Popped(h, l)
  PROVE  QueueOK'
<1>. PICK r : r = raw_packet_queue_'
  OBVIOUS
<1>1. UNCHANGED <<setup, next>> /\ PacketTicks' = PacketTicks /\ PacketTicks \in Nat
  BY TimeFacts DEF Popped, PacketTicks
<1>2. /\ \A j \in DOMAIN r : /\ r[j].handle \in Lidar /\ PacketOK(r[j])
                             /\ r[j].handle = l => End(h) < End(r[j])
      /\ \A i, j \in DOMAIN r : i < j /\ r[i].handle = r[j].handle => End(r[i]) < End(r[j])
  BY PopQueue DEF SpanInv
<1>3. ASSUME NEW p, p.handle \in Lidar, PacketOK(p), p.handle = l => End(h) < End(p)
      PROVE  PacketOK(p)'
  <2>. PICK k \in Lidar : k = p.handle
    BY <1>3
  <2>. PICK y : y = End(p)
    OBVIOUS
  <2>1. /\ Start(p) \in Nat /\ y = Start(p) + PacketTicks - 1
        /\ OnGrid(k, y) /\ y < Clock(k) /\ y < TimeMod
        /\ Reached(k) => Newest(k) < y
        /\ Accounted(k, y)
    BY <1>3 DEF PacketOK
  <2>2. y \in Int
    BY <1>1, <2>1
  <2>3. OnGrid(k, y)' /\ Clock(k)' = Clock(k)
    BY <1>1, <2>1, SentStays
  <2>4. Accounted(k, y)'
    <3>1. k = l => End(h) <= y
      BY <1>3, <2>2, PopHead
    <3>. QED
      BY <2>1, <2>2, <3>1, PopAccounted DEF SpanInv
  <2>5. Reached(k)' => Newest(k)' < y
    BY <1>3, <2>1, PopNewest
  <2>. QED
    BY <1>1, <2>1, <2>3, <2>4, <2>5 DEF PacketOK
<1>4. \A j \in DOMAIN r : PacketOK(r[j])'
  BY <1>2, <1>3
<1>5. \A j \in DOMAIN raw_packet_queue_' : PacketOK(raw_packet_queue_[j])'
  <2>. TAKE j \in DOMAIN raw_packet_queue_'
  <2>. PICK p : p = raw_packet_queue_'[j]
    OBVIOUS
  <2>1. PacketOK(p)'
    BY <1>4
  <2>. QED
    BY <2>1 DEF PacketOK
<1>. QED
  BY <1>2, <1>5 DEF QueueOK

LEMMA PopCloud ==
  ASSUME TypeOK, SpanInv, NEW h, NEW l, Popped(h, l)
  PROVE  CloudOK'
<1>1. /\ UNCHANGED <<setup, next>> /\ points_' = points_ /\ Lidar' = Lidar
      /\ points_clouds_'[l] # <<>>
      /\ \A k \in Lidar : k # l => points_clouds_'[k] = points_clouds_[k]
      /\ GetRecentTimeStamp(l)' = End(h)
      /\ GetLidarBaseTime(l)' = IF points_clouds_[l] = <<>> THEN Start(h) ELSE GetLidarBaseTime(l)
  BY DEF Popped, Lidar
<1>2. ASSUME NEW k \in Lidar, points_clouds_'[k] # <<>>
      PROVE  /\ GetLidarBaseTime(k)' \in Nat
             /\ OnGrid(k, GetLidarBaseTime(k) - 1)'
             /\ GetLidarBaseTime(k)' <= GetRecentTimeStamp(k)'
  <2>. PICK y : y = GetLidarBaseTime(k)'
    OBVIOUS
  <2>1. y \in Nat /\ OnGrid(k, y - 1) /\ y <= GetRecentTimeStamp(k)'
    <3>1. CASE k # l
      <4>1. y = GetLidarBaseTime(k) /\ GetRecentTimeStamp(k)' = GetRecentTimeStamp(k)
        BY <3>1, PopNewest
      <4>. QED
        BY <1>1, <1>2, <3>1, <4>1 DEF SpanInv, CloudOK
    <3>2. CASE k = l /\ points_clouds_[l] = <<>>
      <4>1. y = Start(h)
        BY <1>1, <3>2
      <4>2. Start(h) <= End(h)
        BY PopHead
      <4>. QED
        BY <1>1, <3>2, <4>1, <4>2, PopHead
    <3>3. CASE k = l /\ points_clouds_[l] # <<>>
      <4>1. y = GetLidarBaseTime(l) /\ Reached(l) /\ Newest(l) = GetRecentTimeStamp(l)
        BY <1>1, <3>3 DEF Reached, Newest
      <4>2. /\ y \in Nat /\ OnGrid(l, y - 1) /\ y <= GetRecentTimeStamp(l)
            /\ GetRecentTimeStamp(l) \in Nat
        BY <3>3, <4>1 DEF SpanInv, CloudOK
      <4>3. GetRecentTimeStamp(l) < End(h) /\ End(h) \in Nat
        BY <4>1, PopHead
      <4>. QED
        BY <1>1, <3>3, <4>2, <4>3
    <3>. QED
      BY <3>1, <3>2, <3>3
  <2>2. OnGrid(k, y - 1)'
    BY <1>1, <2>1, SentStays
  <2>3. OnGrid(k, GetLidarBaseTime(k) - 1)'
    BY <2>2 DEF OnGrid
  <2>. QED
    BY <2>1, <2>3
<1>3. ASSUME NEW k \in Lidar, Reached(k)'
      PROVE  /\ Newest(k)' \in Nat /\ OnGrid(k, Newest(k))'
             /\ Newest(k)' < TimeMod /\ Newest(k)' < Clock(k)'
             /\ Accounted(k, Newest(k))'
  <2>. PICK y : y = Newest(k)'
    OBVIOUS
  <2>1. /\ y \in Nat /\ OnGrid(k, y) /\ y < TimeMod /\ y < Clock(k) /\ Accounted(k, y)
        /\ k # l \/ End(h) <= y
    <3>1. CASE k # l
      <4>1. y = Newest(k) /\ Reached(k)
        BY <1>3, <3>1, PopNewest
      <4>. QED
        BY <3>1, <4>1 DEF SpanInv, CloudOK
    <3>2. CASE k = l
      <4>1. y = End(h)
        BY <3>2, PopNewest
      <4>. QED
        BY <3>2, <4>1, PopHead
    <3>. QED
      BY <3>1, <3>2
  <2>2. OnGrid(k, y)' /\ Clock(k)' = Clock(k)
    BY <1>1, <2>1, SentStays
  <2>3. Accounted(k, y)'
    BY <2>1, PopAccounted DEF SpanInv
  <2>4. OnGrid(k, Newest(k))'
    BY <2>2 DEF OnGrid
  <2>5. Accounted(k, Newest(k))'
    BY <2>3 DEF Accounted
  <2>. QED
    BY <2>1, <2>2, <2>4, <2>5
<1>4. ASSUME NEW k \in Lidar, points_[k] # <<>>
      PROVE  Framed(k)' \in Nat /\ OnGrid(k, Framed(k))' /\ AtBoundary(Framed(k))'
  <2>. PICK y : y = Framed(k)
    OBVIOUS
  <2>1. y \in Nat /\ OnGrid(k, y) /\ AtBoundary(y)
    BY <1>4 DEF SpanInv, CloudOK
  <2>2. OnGrid(k, y)' /\ AtBoundary(y)'
    BY <1>1, <2>1, SentStays
  <2>3. Framed(k)' = y
    BY PopNewest
  <2>4. OnGrid(k, Framed(k))'
    BY <2>2, <2>3 DEF OnGrid
  <2>5. AtBoundary(Framed(k))'
    BY <2>2, <2>3 DEF AtBoundary, Millisecond
  <2>. QED
    BY <2>1, <2>3, <2>4, <2>5
<1>. QED
  BY <1>1, <1>2, <1>3, <1>4 DEF CloudOK

\* What MissedOK says of the lidar k.
Missed(k, framed, base, recent, checked) ==
  /\ framed < base
  /\ \A x \in Nat : OnGrid(k, x) /\ framed < x /\ x < base /\ Near(x) =>
       Millisecond(x) \in lost[k]
  /\ \A x \in Nat :
       (/\ OnGrid(k, x) /\ base <= x /\ x <= recent
        /\ AtBoundary(x) /\ Millisecond(x) # 0 /\ x - base >= Tolerance
        /\ ~(checked /\ x = recent)) =>
       Millisecond(x) \in lost[k]

LEMMA PopMissed ==
  ASSUME TypeOK, SpanInv, NEW h, NEW l, Popped(h, l)
  PROVE  MissedOK'
<1>1. /\ UNCHANGED <<setup, next>> /\ points_' = points_ /\ Lidar' = Lidar /\ lost' = lost
      /\ points_clouds_'[l] # <<>> /\ l \in Lidar
      /\ \A k \in Lidar : k # l => points_clouds_'[k] = points_clouds_[k]
      /\ GetRecentTimeStamp(l)' = End(h)
      /\ GetLidarBaseTime(l)' = IF points_clouds_[l] = <<>> THEN Start(h) ELSE GetLidarBaseTime(l)
      /\ pc = "pop" /\ pc' = "check" /\ id' = l
  BY DEF Popped, Lidar
<1>2. /\ \A k, x : OnGrid(k, x)' <=> OnGrid(k, x)
      /\ \A x : Near(x)' <=> Near(x)
      /\ \A x : Millisecond(x)' = Millisecond(x)
      /\ \A x : AtBoundary(x)' <=> AtBoundary(x)
      /\ Tolerance' = Tolerance
  BY <1>1, SentStays
<1>3. ASSUME NEW k \in Lidar, points_clouds_[k] # <<>>, points_[k] # <<>>
      PROVE  Missed(k, Framed(k), GetLidarBaseTime(k), GetRecentTimeStamp(k), FALSE)
  BY <1>1, <1>3 DEF SpanInv, MissedOK, Missed
<1>4. ASSUME points_[l] # <<>>
      PROVE  Missed(l, Framed(l), GetLidarBaseTime(l)', End(h), TRUE)
  <2>. PICK f : f = Framed(l)
    OBVIOUS
  <2>. PICK e : e = End(h)
    OBVIOUS
  <2>. PICK s : s = Start(h)
    OBVIOUS
  <2>. PICK P : P = PacketTicks
    OBVIOUS
  <2>1. /\ s \in Nat /\ e \in Nat /\ e = s + P - 1 /\ P \in Nat \ {0} /\ OnGrid(l, e)
        /\ Reached(l) /\ Newest(l) < e /\ Newest(l) \in Nat
        /\ Accounted(l, Newest(l)) /\ OnGrid(l, Newest(l))
        /\ f \in Nat
    <3>1. Reached(l)
      BY <1>4 DEF Reached
    <3>2. /\ Newest(l) \in Nat /\ Accounted(l, Newest(l)) /\ OnGrid(l, Newest(l)) /\ f \in Nat
      BY <1>1, <1>4, <3>1 DEF SpanInv, CloudOK
    <3>. QED
      BY <3>1, <3>2, PopHead
  <2>. PICK y \in Nat : y = Newest(l)
    BY <2>1
  <2>2. ASSUME NEW x \in Nat, OnGrid(l, x), y < x, x < e, Near(x)
        PROVE  Millisecond(x) \in lost[l]
    <3>1. Accounted(l, y) /\ y \in Int /\ End(h) \in Int /\ ClocksOK /\ QueueOK
      BY <2>1 DEF SpanInv
    <3>. QED
      BY <2>2, <3>1, PopLost
  <2>3. \A x \in Nat : AtBoundary(x) => Near(x)
    BY DEF AtBoundary, Near
  <2>4. CASE points_clouds_[l] = <<>>
    <3>1. y = f /\ GetLidarBaseTime(l)' = s
      BY <1>1, <2>4 DEF Newest
    <3>2. f < s
      <4>1. y + PacketTicks <= e
        BY <2>1, GridGap
      <4>. QED
        BY <2>1, <3>1, <4>1
    <3>3. \A x \in Nat : OnGrid(l, x) /\ f < x /\ x < s /\ Near(x) => Millisecond(x) \in lost[l]
      <4>1. \A x \in Nat : x < s => x < e
        BY <2>1
      <4>. QED
        BY <2>2, <3>1, <4>1
    <3>4. \A x \in Nat : OnGrid(l, x) /\ s <= x /\ x <= e => x = e
      <4>. SUFFICES ASSUME NEW x \in Nat, OnGrid(l, x), s <= x, x < e PROVE FALSE
        BY <2>1
      <4>1. x + PacketTicks <= e
        BY <2>1, GridGap
      <4>. QED
        BY <2>1, <4>1
    <3>. QED
      BY <3>1, <3>2, <3>3, <3>4 DEF Missed
  <2>5. CASE points_clouds_[l] # <<>>
    <3>. PICK b : b = GetLidarBaseTime(l)
      OBVIOUS
    <3>1. y = GetRecentTimeStamp(l) /\ GetLidarBaseTime(l)' = b
      BY <1>1, <2>5 DEF Newest
    <3>2. Missed(l, f, b, y, FALSE)
      BY <1>1, <1>3, <1>4, <2>5, <3>1
    <3>3. ASSUME NEW x \in Nat, OnGrid(l, x), b <= x, x <= e,
                 AtBoundary(x), Millisecond(x) # 0, x - b >= Tolerance, x # e
          PROVE  Millisecond(x) \in lost[l]
      <4>1. CASE x <= y
        BY <3>2, <3>3, <4>1 DEF Missed
      <4>2. CASE y < x
        <5>1. x < e
          BY <2>1, <3>3
        <5>. QED
          BY <2>2, <2>3, <3>3, <4>2, <5>1
      <4>. QED
        BY <4>1, <4>2
    <3>. QED
      BY <3>1, <3>2, <3>3 DEF Missed
  <2>. QED
    BY <2>4, <2>5
<1>5. ASSUME NEW k \in Lidar, points_clouds_'[k] # <<>>, points_[k] # <<>>
      PROVE  Missed(k, Framed(k)', GetLidarBaseTime(k)', GetRecentTimeStamp(k)', k = l)
  <2>1. Framed(k)' = Framed(k)
    BY PopNewest
  <2>2. CASE k = l
    BY <1>1, <1>4, <1>5, <2>1, <2>2 DEF Missed
  <2>3. CASE k # l
    <3>1. /\ GetLidarBaseTime(k)' = GetLidarBaseTime(k)
          /\ GetRecentTimeStamp(k)' = GetRecentTimeStamp(k)
          /\ points_clouds_[k] # <<>>
      BY <1>1, <1>5, <2>3, PopNewest
    <3>. QED
      BY <1>3, <1>5, <2>1, <2>3, <3>1 DEF Missed
  <2>. QED
    BY <2>2, <2>3
<1>. QED
  BY <1>1, <1>2, <1>5 DEF MissedOK, Missed

LEMMA PopSpan ==
  ASSUME TypeOK, Buffers, SpanInv, Pop
  PROVE  SpanInv'
<1>1. PICK h, l : Popped(h, l)
  BY PopIs
<1>2. QueueOK' /\ CloudOK' /\ MissedOK'
  BY <1>1, PopQueueOK, PopCloud, PopMissed
<1>3. ClocksOK'
  <2>1. /\ UNCHANGED <<setup, next, lost, is_timestamp_sync_>> /\ Lidar' = Lidar
        /\ raw_packet_queue_ # <<>>
    BY <1>1 DEF Popped, Lidar
  <2>2. \A l1 \in Lidar : Clock(l1)' = Clock(l1)
    BY <2>1, SentStays
  <2>. QED
    BY <2>1, <2>2 DEF SpanInv, ClocksOK
<1>. QED
  BY <1>2, <1>3 DEF SpanInv

-----------------------------------------------------------------------------
(* The check for a frame. *)

\* Unless it is due, the new points of the lidar at hand are no frame; if it is,
\* all its points are.
LEMMA CheckSyncIs ==
  ASSUME TypeOK, Buffers, CheckSync, NEW l, l = id
  PROVE  /\ UNCHANGED <<sent, setup, next, lost, raw_packet_queue_, is_timestamp_sync_>>
         /\ l \in Lidar /\ pc = "check" /\ pc' # "check"
         /\ points_clouds_[l] # <<>>
         /\ \A k \in Lidar : k # l => /\ points_clouds_'[k] = points_clouds_[k]
                                      /\ points_'[k] = points_[k]
         /\ \/ /\ ~Due(l) /\ points_clouds_'[l] = points_clouds_[l] /\ points_'[l] = points_[l]
            \/ /\ Due(l) /\ points_clouds_'[l] = <<>> /\ points_'[l] = points_clouds_[l]
<1>1. /\ UNCHANGED <<sdk, shared>> /\ pc = "check" /\ pc' # "check" /\ l \in Lidar
      /\ points_clouds_[l] # <<>>
  BY DEF CheckSync, TypeOK, Buffers
<1>2. CASE Due(l)
  <2>1. Collect({l})
    BY <1>2 DEF CheckSync
  <2>. QED
    BY <1>1, <1>2, <2>1 DEF Collect, sent, sdk, shared
<1>3. CASE ~Due(l)
  <2>1. UNCHANGED <<points_, points_clouds_>>
    BY <1>3 DEF CheckSync
  <2>. QED
    BY <1>1, <1>3, <2>1 DEF sent, sdk, shared
<1>. QED
  BY <1>2, <1>3

LEMMA CheckSyncNewest ==
  ASSUME TypeOK, Buffers, CheckSync
  PROVE  /\ \A k \in Lidar : Newest(k)' = Newest(k) /\ (Reached(k)' <=> Reached(k))
         /\ \A k \in Lidar : points_clouds_'[k] # <<>> =>
              /\ points_clouds_[k] # <<>> /\ points_'[k] = points_[k]
              /\ GetLidarBaseTime(k)' = GetLidarBaseTime(k)
              /\ GetRecentTimeStamp(k)' = GetRecentTimeStamp(k)
              /\ Framed(k)' = Framed(k)
              /\ k = id => ~Due(k)
         /\ \A k \in Lidar :
              \/ points_'[k] = points_[k] /\ Framed(k)' = Framed(k)
              \/ /\ points_clouds_[k] # <<>> /\ Framed(k)' = Newest(k)
                 /\ AtBoundary(Newest(k))
<1>. PICK l : l = id
  OBVIOUS
<1>1. /\ l \in Lidar /\ points_clouds_[l] # <<>>
      /\ \A k \in Lidar : k # l => /\ points_clouds_'[k] = points_clouds_[k]
                                   /\ points_'[k] = points_[k]
      /\ \/ /\ ~Due(l) /\ points_clouds_'[l] = points_clouds_[l] /\ points_'[l] = points_[l]
         \/ /\ Due(l) /\ points_clouds_'[l] = <<>> /\ points_'[l] = points_clouds_[l]
  BY CheckSyncIs
<1>2. ASSUME NEW k \in Lidar, points_clouds_'[k] = points_clouds_[k], points_'[k] = points_[k]
      PROVE  /\ Newest(k)' = Newest(k) /\ (Reached(k)' <=> Reached(k))
             /\ GetLidarBaseTime(k)' = GetLidarBaseTime(k)
             /\ GetRecentTimeStamp(k)' = GetRecentTimeStamp(k)
             /\ Framed(k)' = Framed(k)
  BY <1>2 DEF Newest, Reached, Framed, GetLidarBaseTime, GetRecentTimeStamp
<1>3. ASSUME Due(l), points_clouds_'[l] = <<>>, points_'[l] = points_clouds_[l]
      PROVE  /\ Newest(l)' = Newest(l) /\ (Reached(l)' <=> Reached(l))
             /\ Framed(l)' = Newest(l) /\ AtBoundary(Newest(l))
  <2>1. Newest(l) = GetRecentTimeStamp(l) /\ GetRecentTimeStamp(l) = Last(points_clouds_[l]).offset_time
    BY <1>1 DEF Newest, GetRecentTimeStamp
  <2>2. Framed(l)' = Newest(l)
    BY <1>3, <2>1 DEF Framed
  <2>3. Newest(l)' = Framed(l)'
    BY <1>3 DEF Newest
  <2>4. AtBoundary(Newest(l))
    BY <1>3, <2>1 DEF Due
  <2>5. Reached(l) /\ Reached(l)'
    BY <1>1, <1>3 DEF Reached
  <2>. QED
    BY <2>2, <2>3, <2>4, <2>5
<1>. QED
  BY <1>1, <1>2, <1>3

LEMMA CheckSyncSpan ==
  ASSUME TypeOK, Buffers, SpanInv, CheckSync
  PROVE  SpanInv'
<1>. PICK l : l = id
  OBVIOUS
<1>1. /\ UNCHANGED <<sent, setup, next, lost, raw_packet_queue_, is_timestamp_sync_>>
      /\ l \in Lidar /\ pc = "check" /\ pc' # "check"
      /\ points_clouds_[l] # <<>> /\ Lidar' = Lidar
  BY CheckSyncIs DEF Lidar
<1>2. /\ \A k : Clock(k)' = Clock(k)
      /\ \A k, x : OnGrid(k, x)' <=> OnGrid(k, x)
      /\ \A x : Near(x)' <=> Near(x)
      /\ \A x : Millisecond(x)' = Millisecond(x)
      /\ \A x : AtBoundary(x)' <=> AtBoundary(x)
      /\ Tolerance' = Tolerance /\ PacketTicks' = PacketTicks
      /\ \A k, y : Accounted(k, y)' <=> Accounted(k, y)
  BY <1>1, SentStays, AccountedStays DEF PacketTicks
<1>3. ClocksOK'
  BY <1>1, <1>2 DEF SpanInv, ClocksOK
<1>4. QueueOK'
  <2>1. \A i \in DOMAIN raw_packet_queue_ : raw_packet_queue_[i].handle \in Lidar
    <3>. TAKE i \in DOMAIN raw_packet_queue_
    <3>1. raw_packet_queue_[i] \in Packet
      BY LenProperties, ElementOfSeq DEF Buffers
    <3>. QED
      BY <3>1 DEF Packet
  <2>2. ASSUME NEW p, p.handle \in Lidar, PacketOK(p) PROVE PacketOK(p)'
    BY <1>2, <2>2, CheckSyncNewest DEF PacketOK
  <2>3. \A i \in DOMAIN raw_packet_queue_ : PacketOK(raw_packet_queue_[i])'
    <3>. TAKE i \in DOMAIN raw_packet_queue_
    <3>. PICK p : p = raw_packet_queue_[i]
      OBVIOUS
    <3>1. PacketOK(p)'
      BY <2>1, <2>2 DEF SpanInv, QueueOK
    <3>. QED
      BY <1>1, <3>1
  <2>. QED
    BY <1>1, <2>3 DEF SpanInv, QueueOK
<1>5. CloudOK'
  <2>1. ASSUME NEW k \in Lidar, points_clouds_'[k] # <<>>
        PROVE  /\ GetLidarBaseTime(k)' \in Nat
               /\ OnGrid(k, GetLidarBaseTime(k) - 1)'
               /\ GetLidarBaseTime(k)' <= GetRecentTimeStamp(k)'
    <3>. PICK y : y = GetLidarBaseTime(k)
      OBVIOUS
    <3>1. y \in Nat /\ OnGrid(k, y - 1)' /\ y <= GetRecentTimeStamp(k)
      BY <1>2, <2>1, CheckSyncNewest DEF SpanInv, CloudOK
    <3>2. GetLidarBaseTime(k)' = y /\ GetRecentTimeStamp(k)' = GetRecentTimeStamp(k)
      BY <2>1, CheckSyncNewest
    <3>3. OnGrid(k, GetLidarBaseTime(k) - 1)'
      BY <3>1, <3>2 DEF OnGrid
    <3>. QED
      BY <3>1, <3>2, <3>3
  <2>2. ASSUME NEW k \in Lidar, Reached(k)'
        PROVE  /\ Newest(k)' \in Nat /\ OnGrid(k, Newest(k))'
               /\ Newest(k)' < TimeMod /\ Newest(k)' < Clock(k)'
               /\ Accounted(k, Newest(k))'
    <3>. PICK y : y = Newest(k)
      OBVIOUS
    <3>1. y \in Nat /\ OnGrid(k, y)' /\ y < TimeMod /\ y < Clock(k)' /\ Accounted(k, y)'
      BY <1>2, <2>2, CheckSyncNewest DEF SpanInv, CloudOK
    <3>2. Newest(k)' = y
      BY CheckSyncNewest
    <3>3. OnGrid(k, Newest(k))' /\ Accounted(k, Newest(k))'
      BY <3>1, <3>2 DEF OnGrid, Accounted
    <3>. QED
      BY <3>1, <3>2, <3>3
  <2>3. ASSUME NEW k \in Lidar, points_'[k] # <<>>
        PROVE  Framed(k)' \in Nat /\ OnGrid(k, Framed(k))' /\ AtBoundary(Framed(k))'
    <3>. PICK y : y = Framed(k)'
      OBVIOUS
    <3>1. y \in Nat /\ OnGrid(k, y) /\ AtBoundary(y)
      <4>1. CASE points_'[k] = points_[k] /\ Framed(k)' = Framed(k)
        BY <2>3, <4>1 DEF SpanInv, CloudOK
      <4>2. CASE points_clouds_[k] # <<>> /\ Framed(k)' = Newest(k) /\ AtBoundary(Newest(k))
        <5>1. Reached(k)
          BY <4>2 DEF Reached
        <5>. QED
          BY <4>2, <5>1 DEF SpanInv, CloudOK
      <4>. QED
        BY <4>1, <4>2, CheckSyncNewest
    <3>2. OnGrid(k, y)' /\ AtBoundary(y)'
      BY <1>2, <3>1
    <3>3. OnGrid(k, Framed(k))'
      BY <3>2 DEF OnGrid
    <3>4. AtBoundary(Framed(k))'
      BY <3>2 DEF AtBoundary, Millisecond
    <3>. QED
      BY <3>1, <3>3, <3>4
  <2>. QED
    BY <1>1, <2>1, <2>2, <2>3 DEF CloudOK
<1>6. MissedOK'
  <2>1. ASSUME NEW k \in Lidar, points_clouds_'[k] # <<>>, points_'[k] # <<>>
        PROVE  Missed(k, Framed(k), GetLidarBaseTime(k), GetRecentTimeStamp(k), FALSE)
    <3>1. /\ points_clouds_[k] # <<>> /\ points_[k] # <<>>
          /\ k = l => ~Due(k)
      BY <2>1, CheckSyncNewest
    <3>2. Missed(k, Framed(k), GetLidarBaseTime(k), GetRecentTimeStamp(k), k = l)
      BY <1>1, <3>1 DEF SpanInv, MissedOK, Missed
    <3>. PICK B, R : B = GetLidarBaseTime(k) /\ R = GetRecentTimeStamp(k)
      OBVIOUS
    <3>3. ASSUME k = l
          PROVE  ~(AtBoundary(R) /\ Millisecond(R) # 0 /\ R - B >= Tolerance)
      <4>1. Span(k) = R - B
        BY <3>1, SpanIs DEF SpanInv
      <4>. QED
        BY <3>1, <3>3, <4>1 DEF Due
    <3>. QED
      BY <3>2, <3>3 DEF Missed
  <2>. QED
    BY <1>1, <1>2, <2>1, CheckSyncNewest DEF MissedOK, Missed
<1>. QED
  BY <1>3, <1>4, <1>5, <1>6 DEF SpanInv

-----------------------------------------------------------------------------
(* Every step. *)

\* A lidar with a frame out keeps its points where the frame was.
FramesOut == \A l \in Lidar : published[l] > 0 => points_[l] # <<>>

LEMMA FramesOutKeep ==
  ASSUME TypeOK, Buffers, FramesOut, [Next]_vars
  PROVE  FramesOut'
<1>1. Lidar' = Lidar
  BY SetupStays
<1>2. CASE UNCHANGED <<points_, published>>
  BY <1>1, <1>2 DEF FramesOut
<1>3. CASE PublishPointCloud
  <2>1. /\ points_' = points_
        /\ \A l \in Lidar : published'[l] = published[l] \/ l \in DOMAIN frame_
    BY <1>3 DEF PublishPointCloud
  <2>. QED
    BY <1>1, <2>1 DEF FramesOut, Buffers
<1>4. ASSUME NEW ls \in SUBSET WithPoints, Collect(ls), published' = published
      PROVE  FramesOut'
  <2>1. \A l \in Lidar : points_'[l] # <<>> \/ points_'[l] = points_[l]
    BY <1>4 DEF Collect, WithPoints
  <2>. QED
    BY <1>1, <1>4, <2>1 DEF FramesOut
<1>5. CASE CheckSync \/ CheckClock
  <2>1. {id} \subseteq WithPoints
    BY <1>5 DEF CheckSync, CheckClock, TypeOK, Buffers, WithPoints
  <2>2. \/ UNCHANGED <<points_, published>>
        \/ \E ls \in SUBSET WithPoints : Collect(ls) /\ published' = published
    BY <1>5, <2>1 DEF CheckSync, CheckClock
  <2>. QED
    BY <1>2, <1>4, <2>2
<1>6. CASE ~(PublishPointCloud \/ CheckSync \/ CheckClock)
  <2>1. UNCHANGED <<points_, published>>
    BY <1>6 DEF Next, RawDataProcess, Tick, OnPointPacket, OnImuPacket, LosePacket, TestQuit,
       WaitFor, Wake, Pop, FirstCheck, RemoveObserver, RequestExit, Join, vars, assembly
  <2>. QED
    BY <1>2, <2>1
<1>. QED
  BY <1>3, <1>5, <1>6

SyncInv == setup.timeTypes = {TRUE} => SpanInv

LEMMA InitSpan == Init => SyncInv /\ FramesOut
<1>. SUFFICES ASSUME Init PROVE SyncInv /\ FramesOut
  OBVIOUS
<1>1. FramesOut
  BY DEF Init, FramesOut
<1>. SUFFICES ASSUME setup.timeTypes = {TRUE} PROVE SpanInv
  BY <1>1 DEF SyncInv
<1>2. /\ raw_packet_queue_ = <<>> /\ pc # "check"
      /\ \A l \in Lidar : points_clouds_[l] = <<>> /\ points_[l] = <<>> /\ lost[l] = {}
  BY DEF Init
<1>3. ClocksOK
  <2>1. ASSUME NEW l \in Lidar PROVE Clock(l) \in Nat
    <3>1. setup \in Setups /\ next[l] \in setup.phases
      BY DEF Init
    <3>2. next[l] >= setup.offset /\ next[l] \in Nat /\ setup.offset \in Nat
      BY <3>1, ClockAssumption, SetupFacts
    <3>. QED
      BY <3>2 DEF Clock
  <2>. QED
    BY <1>2, <2>1, FS_EmptySet DEF ClocksOK
<1>4. QueueOK
  BY <1>2 DEF QueueOK
<1>5. CloudOK /\ MissedOK
  BY <1>2 DEF CloudOK, MissedOK, Reached
<1>. QED
  BY <1>3, <1>4, <1>5 DEF SpanInv

LEMMA SpanKeeps ==
  ASSUME TypeOK, Buffers, SyncInv, [Next]_vars
  PROVE  SyncInv'
<1>1. setup' = setup
  BY SetupStays
<1>. SUFFICES ASSUME setup.timeTypes = {TRUE}, SpanInv PROVE SpanInv'
  BY <1>1 DEF SyncInv
<1>2. ASSUME NEW sync \in setup.timeTypes, NEW l \in Lidar, OnPointPacket(l, sync)
      PROVE  SpanInv'
  <2>1. sync = TRUE
    OBVIOUS
  <2>2. OnPointPacket(l, TRUE)
    BY <1>2, <2>1, Zenon
  <2>. QED
    BY <2>2, OnPointPacketSpan
<1>3. ASSUME NEW l \in Lidar, LosePacket(l)
      PROVE  SpanInv'
  BY <1>3, LosePacketSpan
<1>4. CASE Pop
  BY <1>4, PopSpan
<1>5. CASE CheckSync
  BY <1>5, CheckSyncSpan
<1>6. CASE FirstCheck \/ CheckClock
  <2>1. pc = "check" /\ ~is_timestamp_sync_
    BY <1>6 DEF FirstCheck, CheckClock
  <2>. QED
    BY <2>1 DEF SpanInv, ClocksOK
<1>7. ASSUME NEW sync \in setup.timeTypes, OnImuPacket(sync)
      PROVE  SpanInv'
  <2>1. /\ UNCHANGED <<sent, points_clouds_, points_, pc, id>> /\ is_timestamp_sync_' = TRUE
    BY <1>7 DEF OnImuPacket, sent, sdk, assembly
  <2>. QED
    BY <2>1, QuietSpan
<1>8. CASE \/ Tick \/ RemoveObserver \/ RequestExit \/ Join \/ UNCHANGED vars
  <2>1. UNCHANGED <<sent, points_clouds_, points_, pc, id, is_timestamp_sync_>>
    BY <1>8 DEF Tick, RemoveObserver, RequestExit, Join, vars, sent, sdk, shared, assembly
  <2>. QED
    BY <2>1, QuietSpan
<1>9. CASE TestQuit \/ WaitFor \/ Wake \/ PublishPointCloud
  <2>1. /\ UNCHANGED <<sent, points_clouds_, points_, is_timestamp_sync_>>
        /\ pc # "check" /\ pc' # "check"
    BY <1>9 DEF TestQuit, WaitFor, Wake, PublishPointCloud, sent, sdk, shared, assembly
  <2>. QED
    BY <2>1, QuietSpan
<1>. QED
  BY <1>2, <1>3, <1>4, <1>5, <1>6, <1>7, <1>8, <1>9 DEF Next, RawDataProcess

\* With synchronised time, every boundary yields a frame unless a packet was lost
\* next to it, but for one that an interval of no whole number of milliseconds
\* skips: once the first frame of a lidar is out, the points that wait span no more
\* than this and the losses explain.
THEOREM SpanStaysBounded == Spec => []SpanBounded
<1>1. Init => TypeOK /\ Buffers /\ SyncInv /\ FramesOut
  BY InitTypes, InitSpan
<1>2. TypeOK /\ Buffers /\ SyncInv /\ FramesOut /\ [Next]_vars
        => (TypeOK /\ Buffers /\ SyncInv /\ FramesOut)'
  BY TypesKeep, SpanKeeps, FramesOutKeep
<1>3. TypeOK /\ Buffers /\ SyncInv /\ FramesOut => SpanBounded
  <2>. SUFFICES ASSUME TypeOK, SyncInv, FramesOut, setup.timeTypes = {TRUE},
                       NEW l \in Lidar, points_clouds_[l] # <<>>, published[l] > 0
                PROVE  Span(l) < (1 + Skipped + Cardinality(LostNear(l))) * Period + TicksPerMs
    BY DEF SpanBounded
  <2>1. points_[l] # <<>>
    BY DEF FramesOut
  <2>. QED
    BY <2>1, SpanFollows DEF SyncInv, SpanInv
<1>. QED
  BY <1>1, <1>2, <1>3, PTL DEF Spec
=============================================================================
