------------------------- MODULE LaserMappingProofs -------------------------
(***************************************************************************)
(* Proofs about FAST_LIO's node, for every configuration and whatever is    *)
(* sent, lost and late: the types of its variables (Types), the pairing of  *)
(* scans and times (ScanHasItsOwnTime), the clouds in the map               *)
(* (MapHasEachCloudOnce) and the time of the filter (FilterGoesOverScan).   *)
(*                                                                          *)
(* The inductive invariants, from which the properties follow:              *)
(*   TypeInv  the types, and that no scan is measured twice;                *)
(*   PairOK   the buffers of the scans and of their times run in step;      *)
(*   OrderOK  the scans wait in the order in which they came, and the one   *)
(*            in the package came before all that are behind the front;     *)
(*   MapOK    every scan in the map came before all that wait;              *)
(*   TimeOK   the IMU's messages wait in the order of their stamps, none    *)
(*            of them from before the end of the last scan.                 *)
(*                                                                          *)
(* The step of the filter is a sum over the messages of a package.  What a  *)
(* sum is follows from induction over its length, stated for sets in        *)
(* Induction; that the sum is the time from end to end follows from         *)
(* SumOfDifferences, once dt is read as a difference of clipped times.      *)
(***************************************************************************)
EXTENDS LaserMapping, SequenceTheorems, WellFoundedInduction, TLAPS

-----------------------------------------------------------------------------
(* Induction, and what follows from it about Max and about sums.            *)

Less == {ss \in Nat \X Nat : ss[1] < ss[2]}

\* Induction over the natural numbers, for a set instead of a predicate.
LEMMA Induction ==
  ASSUME NEW S, 0 \in S, \A n \in Nat : n \in S => n + 1 \in S
  PROVE  Nat \subseteq S
<1>. SUFFICES ASSUME Nat \ S # {} PROVE FALSE
  OBVIOUS
<1>1. IsWellFoundedOn(Less, Nat)
  BY NatLessThanWellFounded DEF OpToRel, Less
<1>2. Nat \ S \subseteq Nat
  OBVIOUS
<1>3. PICK x \in Nat \ S : \A y \in Nat \ S : ~(<<y, x>> \in Less)
  BY <1>1, <1>2, WFMin
<1>4. x # 0 /\ x - 1 \in Nat /\ x - 1 < x /\ (x - 1) + 1 = x
  OBVIOUS
<1>5. <<x - 1, x>> \in Less
  BY <1>4 DEF Less
<1>. QED
  BY <1>3, <1>4, <1>5

LEMMA MaxIs ==
  ASSUME NEW S \in SUBSET Int, NEW x \in S, \A y \in S : x >= y
  PROVE  Max(S) = x
<1>1. \A y \in S : (\A z \in S : y >= z) => y = x
  <2>. TAKE y \in S
  <2>1. y \in Int /\ x \in Int /\ x >= y
    OBVIOUS
  <2>. QED
    BY <2>1
<1>. QED
  BY <1>1 DEF Max

\* What FoldLeft iterates: a sum of s over each subset of 1 .. m.
IsSum(w, s, base, m) ==
  w = [t \in SUBSET (1 .. m) |->
         IF t = {} THEN base ELSE LET x == Max(t) IN w[t \ {x}] + s[x]]

LEMMA SumExists ==
  ASSUME NEW s, NEW base
  PROVE  \A m \in Nat : \E w : IsSum(w, s, base, m)
<1>. DEFINE M == {m \in Nat : \E w : IsSum(w, s, base, m)}
<1>1. 0 \in M
  <2>1. IsSum([t \in SUBSET (1 .. 0) |-> base], s, base, 0)
    BY DEF IsSum
  <2>. QED
    BY <2>1
<1>2. ASSUME NEW m \in Nat, m \in M PROVE m + 1 \in M
  <2>1. PICK w : IsSum(w, s, base, m)
    BY <1>2
  <2>. DEFINE v == [t \in SUBSET (1 .. m + 1) |->
                      IF m + 1 \in t THEN w[t \ {m + 1}] + s[m + 1] ELSE w[t]]
  <2>2. ASSUME NEW t \in SUBSET (1 .. m + 1), m + 1 \in t
        PROVE  Max(t) = m + 1 /\ v[t] = v[t \ {m + 1}] + s[m + 1]
    <3>1. \A y \in t : m + 1 >= y
      OBVIOUS
    <3>2. Max(t) = m + 1
      <4>1. t \in SUBSET Int
        OBVIOUS
      <4>. HIDE DEF v
      <4>. QED
        BY <2>2, <3>1, <4>1, MaxIs
    <3>3. t \ {m + 1} \in SUBSET (1 .. m + 1) /\ m + 1 \notin t \ {m + 1}
      OBVIOUS
    <3>. QED
      BY <2>2, <3>2, <3>3
  <2>3. ASSUME NEW t \in SUBSET (1 .. m + 1), m + 1 \notin t, t # {}
        PROVE  v[t] = v[t \ {Max(t)}] + s[Max(t)]
    <3>1. t \in SUBSET (1 .. m) /\ t \ {Max(t)} \in SUBSET (1 .. m)
      <4>1. \A y \in t : y \in 1 .. m
        <5>. TAKE y \in t
        <5>1. y \in 1 .. m + 1 /\ y # m + 1
          BY <2>3
        <5>. QED
          BY <5>1
      <4>. QED
        BY <4>1
    <3>2. t \ {Max(t)} \in SUBSET (1 .. m + 1) /\ m + 1 \notin t \ {Max(t)}
      BY <2>3
    <3>3. w[t] = w[t \ {Max(t)}] + s[Max(t)]
      BY <2>1, <2>3, <3>1 DEF IsSum
    <3>. QED
      BY <2>3, <3>2, <3>3
  <2>4. v[{}] = base
    <3>1. {} \in SUBSET (1 .. m + 1) /\ {} \in SUBSET (1 .. m) /\ m + 1 \notin {}
      OBVIOUS
    <3>2. w[{}] = base
      BY <2>1, <3>1 DEF IsSum
    <3>. QED
      BY <3>1, <3>2
  <2>5. \A t \in SUBSET (1 .. m + 1) :
          v[t] = IF t = {} THEN base ELSE LET x == Max(t) IN v[t \ {x}] + s[x]
    <3>. HIDE DEF v
    <3>. QED
      BY <2>2, <2>3, <2>4
  <2>6. IsSum(v, s, base, m + 1)
    <3>1. v = [t \in SUBSET (1 .. m + 1) |-> v[t]]
      OBVIOUS
    <3>. HIDE DEF v
    <3>. QED
      BY <2>5, <3>1 DEF IsSum
  <2>. QED
    BY <2>6
<1>. HIDE DEF M
<1>3. Nat \subseteq M
  BY <1>1, <1>2, Induction
<1>. QED
  BY <1>3 DEF M

LEMMA MaxExists ==
  ASSUME NEW m \in Nat, NEW S \in SUBSET (1 .. m), S # {}
  PROVE  Max(S) \in S /\ \A y \in S : Max(S) >= y
<1>. DEFINE M == {k \in Nat : \A T \in SUBSET (1 .. k) :
                     T # {} => \E x \in T : \A y \in T : x >= y}
<1>1. 0 \in M
  <2>1. \A T \in SUBSET (1 .. 0) : T = {}
    OBVIOUS
  <2>. QED
    BY <2>1
<1>2. ASSUME NEW k \in Nat, k \in M PROVE k + 1 \in M
  <2>. SUFFICES ASSUME NEW T \in SUBSET (1 .. k + 1), T # {}
                PROVE  \E x \in T : \A y \in T : x >= y
    OBVIOUS
  <2>1. CASE k + 1 \in T
    <3>1. \A y \in T : k + 1 >= y
      OBVIOUS
    <3>. QED
      BY <2>1, <3>1
  <2>2. CASE k + 1 \notin T
    <3>1. T \in SUBSET (1 .. k)
      <4>1. \A y \in T : y \in 1 .. k + 1 /\ y # k + 1
        BY <2>2
      <4>2. \A y \in 1 .. k + 1 : y # k + 1 => y \in 1 .. k
        OBVIOUS
      <4>. QED
        BY <4>1, <4>2
    <3>. QED
      BY <1>2, <3>1
  <2>. QED
    BY <2>1, <2>2
<1>. HIDE DEF M
<1>3. m \in M
  BY <1>1, <1>2, Induction
<1>4. PICK x \in S : \A y \in S : x >= y
  BY <1>3 DEF M
<1>5. S \in SUBSET Int
  OBVIOUS
<1>6. Max(S) = x
  BY <1>4, <1>5, MaxIs
<1>. QED
  BY <1>4, <1>6

\* A sum is the last of its partial sums.
LEMMA PartialSums ==
  ASSUME NEW s \in Seq(Int), NEW base \in Int
  PROVE  \E P \in [0 .. Len(s) -> Int] :
           /\ P[0] = base
           /\ \A i \in 1 .. Len(s) : P[i] = P[i - 1] + s[i]
           /\ FoldLeft(+, base, s) = P[Len(s)]
<1>1. Len(s) \in Nat /\ DOMAIN s = 1 .. Len(s)
  BY LenProperties
<1>. DEFINE iter == CHOOSE w : IsSum(w, s, base, Len(s))
<1>2. FoldLeft(+, base, s) = iter[1 .. Len(s)]
  BY <1>1 DEF FoldLeft, MapThenFoldSet, IsSum
<1>3. IsSum(iter, s, base, Len(s))
  BY <1>1, SumExists
<1>. HIDE DEF iter
<1>4. iter[1 .. 0] = base
  <2>1. 1 .. 0 = {} /\ {} \in SUBSET (1 .. Len(s))
    OBVIOUS
  <2>. QED
    BY <1>3, <2>1 DEF IsSum
<1>5. ASSUME NEW m \in Nat, m + 1 <= Len(s)
      PROVE  iter[1 .. m + 1] = iter[1 .. m] + s[m + 1]
  <2>1. 1 .. m + 1 \in SUBSET (1 .. Len(s)) /\ 1 .. m + 1 # {}
    <3>1. \A y \in 1 .. m + 1 : y \in 1 .. Len(s)
      BY <1>1, <1>5
    <3>2. 1 \in 1 .. m + 1
      OBVIOUS
    <3>. QED
      BY <3>1, <3>2
  <2>2. Max(1 .. m + 1) = m + 1
    <3>1. 1 .. m + 1 \in SUBSET Int /\ m + 1 \in 1 .. m + 1
      OBVIOUS
    <3>2. \A y \in 1 .. m + 1 : m + 1 >= y
      OBVIOUS
    <3>. QED
      BY <3>1, <3>2, MaxIs
  <2>3. (1 .. m + 1) \ {m + 1} = 1 .. m
    OBVIOUS
  <2>4. iter[1 .. m + 1] = LET x == Max(1 .. m + 1)
                           IN  iter[(1 .. m + 1) \ {x}] + s[x]
    BY <1>3, <2>1 DEF IsSum
  <2>. QED
    BY <2>2, <2>3, <2>4
<1>. DEFINE M == {m \in Nat : m <= Len(s) => iter[1 .. m] \in Int}
<1>6. 0 \in M
  BY <1>4
<1>7. ASSUME NEW m \in Nat, m \in M PROVE m + 1 \in M
  <2>. SUFFICES ASSUME m + 1 <= Len(s) PROVE iter[1 .. m + 1] \in Int
    OBVIOUS
  <2>1. iter[1 .. m] \in Int
    BY <1>1, <1>7
  <2>2. s[m + 1] \in Int
    <3>1. m + 1 \in 1 .. Len(s)
      BY <1>1
    <3>. QED
      BY <3>1, ElementOfSeq
  <2>. QED
    BY <1>5, <2>1, <2>2
<1>8. Nat \subseteq M
  <2>. HIDE DEF M
  <2>. QED
    BY <1>6, <1>7, Induction
<1>. DEFINE P == [i \in 0 .. Len(s) |-> iter[1 .. i]]
<1>9. P \in [0 .. Len(s) -> Int]
  <2>1. \A i \in 0 .. Len(s) : iter[1 .. i] \in Int
    BY <1>1, <1>8
  <2>. QED
    BY <2>1
<1>10. \A i \in 1 .. Len(s) : P[i] = P[i - 1] + s[i]
  <2>. TAKE i \in 1 .. Len(s)
  <2>1. /\ i - 1 \in Nat /\ (i - 1) + 1 = i /\ (i - 1) + 1 <= Len(s)
        /\ i \in 0 .. Len(s) /\ i - 1 \in 0 .. Len(s)
    BY <1>1
  <2>2. iter[1 .. (i - 1) + 1] = iter[1 .. i - 1] + s[(i - 1) + 1]
    BY <1>5, <2>1
  <2>. QED
    BY <2>1, <2>2
<1>11. P[0] = base /\ P[Len(s)] = FoldLeft(+, base, s)
  <2>1. 0 \in 0 .. Len(s) /\ Len(s) \in 0 .. Len(s)
    BY <1>1
  <2>2. P[0] = base /\ P[Len(s)] = iter[1 .. Len(s)]
    BY <1>4, <2>1
  <2>. HIDE DEF P
  <2>. QED
    BY <1>2, <2>2, Zenon
<1>. HIDE DEF P
<1>. QED
  BY <1>9, <1>10, <1>11, Zenon

LEMMA SumType ==
  ASSUME NEW s \in Seq(Int), NEW base \in Int
  PROVE  FoldLeft(+, base, s) \in Int
<1>. DEFINE sum == FoldLeft(+, base, s)
<1>1. PICK P \in [0 .. Len(s) -> Int] : sum = P[Len(s)]
  BY PartialSums
<1>2. Len(s) \in 0 .. Len(s)
  BY LenProperties
<1>. HIDE DEF sum
<1>3. sum \in Int
  BY <1>1, <1>2
<1>. QED
  BY <1>3 DEF sum

\* The sum of the differences of neighbours is that of the ends.
LEMMA SumOfDifferences ==
  ASSUME NEW s \in Seq(Int), NEW base \in Int, NEW g \in [0 .. Len(s) -> Int],
         \A i \in 1 .. Len(s) : s[i] = g[i] - g[i - 1]
  PROVE  FoldLeft(+, base, s) = base + g[Len(s)] - g[0]
<1>. DEFINE sum == FoldLeft(+, base, s)
<1>1. PICK P \in [0 .. Len(s) -> Int] :
        /\ P[0] = base
        /\ \A i \in 1 .. Len(s) : P[i] = P[i - 1] + s[i]
        /\ sum = P[Len(s)]
  BY PartialSums
<1>. HIDE DEF sum
<1>2. Len(s) \in Nat
  BY LenProperties
<1>. DEFINE M == {m \in Nat : m <= Len(s) => P[m] = base + g[m] - g[0]}
<1>3. 0 \in M
  <2>1. g[0] \in Int
    BY <1>2
  <2>. QED
    BY <1>1, <2>1
<1>4. ASSUME NEW m \in Nat, m \in M PROVE m + 1 \in M
  <2>. SUFFICES ASSUME m + 1 <= Len(s) PROVE P[m + 1] = base + g[m + 1] - g[0]
    OBVIOUS
  <2>1. m + 1 \in 1 .. Len(s) /\ (m + 1) - 1 = m
    BY <1>2
  <2>2. P[m + 1] = P[m] + s[m + 1] /\ s[m + 1] = g[m + 1] - g[m]
    BY <1>1, <2>1
  <2>3. P[m] = base + g[m] - g[0]
    BY <1>2, <1>4
  <2>4. g[m] \in Int /\ g[m + 1] \in Int /\ g[0] \in Int
    <3>1. m \in 0 .. Len(s) /\ m + 1 \in 0 .. Len(s) /\ 0 \in 0 .. Len(s)
      BY <1>2
    <3>. QED
      BY <3>1
  <2>. QED
    BY <2>2, <2>3, <2>4
<1>5. Len(s) \in M
  <2>. HIDE DEF M
  <2>. QED
    BY <1>2, <1>3, <1>4, Induction
<1>6. sum = base + g[Len(s)] - g[0]
  BY <1>1, <1>2, <1>5
<1>. QED
  BY <1>6 DEF sum

-----------------------------------------------------------------------------
(* Types.                                                                   *)

\* TypeOK, variable by variable.
Numbers ==
  /\ last_timestamp_lidar \in Int /\ last_timestamp_imu \in Int
  /\ timediff_lidar_wrt_imu \in Int /\ lidar_end_time \in Int
  /\ last_imu_ \in Int /\ last_lidar_end_time_ \in Int /\ kf_time \in Int

Flags ==
  /\ is_first_lidar \in BOOLEAN /\ timediff_set_flg \in BOOLEAN
  /\ lidar_pushed \in BOOLEAN /\ flg_first_scan \in BOOLEAN
  /\ imu_need_init_ \in BOOLEAN /\ undistorted \in BOOLEAN

Clouds ==
  /\ lidar_buffer \in Seq(Scan) /\ time_buffer \in Seq(Nat)
  /\ Len(time_buffer) >= Len(lidar_buffer)
  /\ lidar_pushed => lidar_buffer # <<>>

Others ==
  /\ imu_buffer \in Seq(Int)
  /\ scan_num \in ScanNumber /\ scantime \in Nat /\ init_iter_num \in Nat
  /\ meas.lidar \in Scan /\ feats_undistort \in Scan
  /\ in_map \in Seq(ScanNumber)
  /\ holes \subseteq {"scans dropped", "imu back", "no imu"}

\* With what the proofs need beyond TypeOK.  A scan is measured at most once: every
\* one that was measured has left the buffer, or is the one in the package.
TypeInv ==
  /\ Numbers /\ Flags /\ Clouds /\ Others
  /\ setup \in Setups /\ ahead \in Int
  /\ lidar_clock \in Nat /\ imu_clock \in Int /\ scans \in ScanNumber
  /\ meas \in [lidar : Scan, lidar_beg_time : Nat]
  /\ scan_num + Len(lidar_buffer) <= scans + (IF lidar_pushed THEN 1 ELSE 0)

LEMMA Constants ==
  /\ Start \in Nat /\ Period \in Nat /\ MAX_INI_COUNT \in Nat /\ MaxScans \in Nat
  /\ \A points \in Sizes : points \in Nat
  /\ \A span \in Spans : span \in Nat
  /\ \A step \in ImuSteps : step \in Nat
  /\ ImuAhead \subseteq Int /\ Garbage \subseteq Int
<1>1. /\ Start \in Nat /\ Period \in Nat /\ Sizes \subseteq Nat /\ Spans \subseteq 0 .. Period
      /\ MAX_INI_COUNT \in Nat /\ MaxScans \in Nat /\ ImuSteps \subseteq Nat \ {0}
      /\ ImuAhead \subseteq Int /\ Garbage \subseteq Int
  BY LaserMappingAssumption, Zenon DEF LaserMappingAssumption
<1>. QED
  BY <1>1

LEMMA ScanFields ==
  ASSUME NEW scan \in Scan
  PROVE  /\ scan.n \in ScanNumber /\ scan.n \in Nat
         /\ scan.beg \in Nat /\ scan.points \in Nat /\ scan.span \in Nat
<1>1. /\ scan.n \in ScanNumber /\ scan.beg \in Nat
      /\ scan.points \in Sizes \cup {0} /\ scan.span \in Spans \cup {0}
  BY DEF Scan
<1>. QED
  BY <1>1, Constants DEF ScanNumber

LEMMA ScanNumbers == \A k \in ScanNumber : k \in Nat /\ k <= MaxScans
BY Constants DEF ScanNumber

LEMMA InitTypes == Init => TypeInv
<1>. SUFFICES ASSUME Init PROVE TypeInv
  OBVIOUS
<1>1. NoScan \in Scan
  BY Constants DEF NoScan, Scan, ScanNumber
<1>2. /\ setup \in Setups /\ lidar_clock = Start /\ imu_clock = Start /\ scans = 0
      /\ lidar_buffer = <<>> /\ time_buffer = <<>> /\ imu_buffer = <<>>
      /\ is_first_lidar = TRUE /\ last_timestamp_lidar = 0 /\ last_timestamp_imu = -1
      /\ timediff_lidar_wrt_imu = 0 /\ timediff_set_flg = FALSE
      /\ lidar_pushed = FALSE /\ lidar_end_time = 0 /\ scan_num = 0 /\ scantime = 0
      /\ meas = [lidar |-> NoScan, lidar_beg_time |-> 0] /\ flg_first_scan = TRUE
      /\ imu_need_init_ = TRUE /\ init_iter_num = 1 /\ last_imu_ = 0
      /\ last_lidar_end_time_ \in Garbage /\ kf_time = 0 /\ undistorted = FALSE
      /\ feats_undistort = NoScan /\ in_map = <<>> /\ holes = {}
      /\ ahead \in IF setup.time_sync_en THEN ImuAhead ELSE {0}
  BY DEF Init
<1>3. last_lidar_end_time_ \in Int /\ ahead \in Int
  BY <1>2, Constants
<1>4. 0 \in ScanNumber
  BY Constants DEF ScanNumber
<1>5. Numbers
  BY <1>2, <1>3 DEF Numbers
<1>6. Flags
  BY <1>2 DEF Flags
<1>7. Clouds
  BY <1>2, EmptySeq DEF Clouds
<1>8. Others
  BY <1>1, <1>2, <1>4, EmptySeq DEF Others
<1>9. scan_num + Len(lidar_buffer) <= scans + (IF lidar_pushed THEN 1 ELSE 0)
  BY <1>2, EmptySeq
<1>10. meas \in [lidar : Scan, lidar_beg_time : Nat]
  BY <1>1, <1>2
<1>. QED
  BY <1>2, <1>3, <1>4, <1>5, <1>6, <1>7, <1>8, <1>9, <1>10, Constants DEF TypeInv

\* A callback appends a scan and its time.
LEMMA PushTypes ==
  ASSUME TypeInv, NEW points \in Sizes, NEW span \in Spans, scans < MaxScans,
         Push(Received(points, span)),
         UNCHANGED <<setup, ahead, imu_clock, imu_buffer, last_timestamp_imu, sync,
                     flg_first_scan, imuProcess, in_map>>,
         timediff_lidar_wrt_imu' \in Int, timediff_set_flg' \in BOOLEAN
  PROVE  TypeInv'
<1>. DEFINE scan == Received(points, span)
            beg == scan.beg
            kept == IF LoopsBack(beg) THEN <<>> ELSE lidar_buffer
<1>1. /\ points \in Nat /\ span \in Nat /\ Period \in Nat /\ MaxScans \in Nat
      /\ lidar_clock \in Nat /\ scans \in ScanNumber /\ scans \in Nat
  BY Constants DEF TypeInv, ScanNumber
<1>2. /\ lidar_buffer \in Seq(Scan) /\ time_buffer \in Seq(Nat)
      /\ Len(time_buffer) >= Len(lidar_buffer)
      /\ scan_num + Len(lidar_buffer) <= scans + (IF lidar_pushed THEN 1 ELSE 0)
      /\ scan_num \in Nat
  BY ScanNumbers DEF TypeInv, Clouds, Others
<1>3. scan \in Scan /\ beg \in Nat
  BY <1>1 DEF Received, Scan, ScanNumber
<1>4. /\ kept \in Seq(Scan) /\ Len(kept) \in Nat /\ Len(lidar_buffer) \in Nat
      /\ Len(kept) <= Len(lidar_buffer) /\ Len(time_buffer) \in Nat
  <2>1. <<>> \in Seq(Scan) /\ Len(<<>>) = 0
    BY EmptySeq
  <2>2. Len(lidar_buffer) \in Nat /\ Len(time_buffer) \in Nat
    BY <1>2, LenProperties
  <2>. QED
    BY <1>2, <2>1, <2>2
<1>5. lidar_buffer' = Append(kept, scan) /\ time_buffer' = Append(time_buffer, beg)
  BY DEF Push
<1>6. scans' = scans + 1 /\ lidar_clock' = lidar_clock + Period
  BY DEF Push
<1>7. is_first_lidar' = FALSE /\ last_timestamp_lidar' = beg
  BY DEF Push
<1>8. holes' \subseteq holes \cup {"scans dropped"}
  BY DEF Push
<1>. HIDE DEF scan, beg, kept
<1>9. /\ lidar_buffer' \in Seq(Scan) /\ lidar_buffer' # <<>>
      /\ Len(lidar_buffer') = Len(kept) + 1
      /\ time_buffer' \in Seq(Nat) /\ Len(time_buffer') = Len(time_buffer) + 1
  <2>1. /\ Append(kept, scan) \in Seq(Scan) /\ Append(kept, scan) # <<>>
        /\ Len(Append(kept, scan)) = Len(kept) + 1
    BY <1>3, <1>4, AppendProperties
  <2>2. /\ Append(time_buffer, beg) \in Seq(Nat)
        /\ Len(Append(time_buffer, beg)) = Len(time_buffer) + 1
    BY <1>2, <1>3, AppendProperties
  <2>. QED
    BY <1>5, <2>1, <2>2
<1>10. Len(time_buffer') >= Len(lidar_buffer')
  <2>1. Len(kept) + 1 <= Len(time_buffer) + 1
    BY <1>2, <1>4
  <2>. QED
    BY <1>9, <2>1
<1>11. lidar_clock' \in Nat /\ scans' \in ScanNumber
  BY <1>1, <1>6 DEF ScanNumber
<1>12. Numbers' /\ Flags' /\ Clouds' /\ Others'
  <2>1. Numbers /\ Flags /\ Clouds /\ Others
    BY DEF TypeInv
  <2>2. /\ UNCHANGED <<imu_buffer, last_timestamp_imu, flg_first_scan, in_map>>
        /\ UNCHANGED <<lidar_pushed, lidar_end_time, scan_num, scantime, meas>>
        /\ UNCHANGED <<imu_need_init_, init_iter_num, last_imu_, last_lidar_end_time_,
                       kf_time, undistorted, feats_undistort>>
    BY DEF sync, imuProcess
  <2>3. Numbers'
    <3>1. last_timestamp_lidar' \in Int
      BY <1>3, <1>7
    <3>. QED
      BY <2>1, <2>2, <3>1 DEF Numbers
  <2>4. Flags'
    BY <1>7, <2>1, <2>2 DEF Flags
  <2>5. Clouds'
    BY <1>9, <1>10 DEF Clouds
  <2>6. Others'
    BY <1>8, <2>1, <2>2 DEF Others
  <2>. QED
    BY <2>3, <2>4, <2>5, <2>6
<1>13. scan_num' + Len(lidar_buffer') <= scans' + (IF lidar_pushed' THEN 1 ELSE 0)
  <2>1. scan_num' = scan_num /\ lidar_pushed' = lidar_pushed
    BY DEF sync
  <2>2. scan_num + Len(lidar_buffer) <= scans + (IF lidar_pushed THEN 1 ELSE 0)
    BY <1>2
  <2>3. scan_num \in Int /\ scans \in Int /\ Len(kept) \in Int /\ Len(lidar_buffer) \in Int
    BY <1>1, <1>2, <1>4
  <2>4. scan_num + (Len(kept) + 1) <= (scans + 1) + (IF lidar_pushed THEN 1 ELSE 0)
    BY <1>4, <2>2, <2>3
  <2>. QED
    BY <1>9, <1>6, <2>1, <2>4
<1>. QED
  BY <1>11, <1>12, <1>13 DEF TypeInv, sync

\* A scan that is taken is measured, and goes into the package.
LEMMA TakeScanTypes ==
  ASSUME TypeInv, TakeScan
  PROVE  /\ lidar_buffer # <<>> /\ time_buffer # <<>> /\ imu_buffer # <<>>
         /\ meas' \in [lidar : Scan, lidar_beg_time : Nat]
         /\ lidar_end_time' \in Int /\ scan_num' \in Nat /\ scantime' \in Nat
         /\ scan_num' + Len(lidar_buffer) <= scans + 1
<1>1. /\ lidar_buffer # <<>> /\ imu_buffer # <<>> /\ lidar_buffer \in Seq(Scan)
      /\ time_buffer \in Seq(Nat) /\ Len(time_buffer) >= Len(lidar_buffer)
      /\ meas \in [lidar : Scan, lidar_beg_time : Nat]
      /\ lidar_end_time \in Int /\ scan_num \in Nat /\ scantime \in Nat
      /\ scan_num + Len(lidar_buffer) <= scans + (IF lidar_pushed THEN 1 ELSE 0)
      /\ scans \in Nat
  BY ScanNumbers DEF TakeScan, TypeInv, Numbers, Clouds, Others
<1>2. Len(lidar_buffer) \in Nat \ {0} /\ time_buffer # <<>>
  <2>1. Len(lidar_buffer) \in Nat \ {0}
    BY <1>1, EmptySeq
  <2>. QED
    BY <1>1, <2>1, EmptySeq
<1>3. CASE lidar_pushed
  <2>1. UNCHANGED <<lidar_end_time, scan_num, scantime, meas>>
    BY <1>3 DEF TakeScan
  <2>. QED
    BY <1>1, <1>2, <1>3, <2>1
<1>4. CASE ~lidar_pushed
  <2>. DEFINE scan == Head(lidar_buffer)
              beg == Head(time_buffer)
  <2>1. scan \in Scan /\ beg \in Nat
    BY <1>1, <1>2, HeadTailProperties
  <2>2. /\ lidar_end_time' = beg + (IF Measured(scan) THEN scan.span ELSE MeanScantime)
        /\ scan_num' = IF Measured(scan) THEN scan_num + 1 ELSE scan_num
        /\ scantime' = IF Measured(scan) THEN scantime + scan.span ELSE scantime
        /\ meas' = [meas EXCEPT !.lidar = scan, !.lidar_beg_time = beg]
    BY <1>4 DEF TakeScan, PushScan
  <2>. HIDE DEF scan, beg
  <2>3. scan.span \in Nat
    BY <2>1, ScanFields
  <2>4. MeanScantime \in Int
    BY <1>1 DEF MeanScantime
  <2>5. meas' = [lidar |-> scan, lidar_beg_time |-> beg]
    BY <1>1, <2>2
  <2>6. lidar_end_time' \in Int /\ scantime' \in Nat
    <3>. DEFINE spanned == scan.span
    <3>1. /\ lidar_end_time' = beg + (IF Measured(scan) THEN spanned ELSE MeanScantime)
          /\ scantime' = IF Measured(scan) THEN scantime + spanned ELSE scantime
          /\ spanned \in Nat
      BY <2>2, <2>3
    <3>. HIDE DEF spanned
    <3>. QED
      BY <1>1, <2>1, <2>4, <3>1
  <2>7. scan_num' \in Nat /\ scan_num' <= scan_num + 1
    BY <1>1, <2>2
  <2>8. scan_num' + Len(lidar_buffer) <= scans + 1
    BY <1>1, <1>2, <1>4, <2>7
  <2>. QED
    BY <1>1, <1>2, <2>1, <2>5, <2>6, <2>7, <2>8
<1>. QED
  BY <1>3, <1>4

\* The package is empty, or the front of the buffer: it ends with the first
\* message at the end of the scan, or with the last one before it.
LEMMA PackageIsFront ==
  ASSUME imu_buffer \in Seq(Int), imu_buffer # <<>>, NEW end \in Int
  PROVE  /\ Package(end) \in Seq(Int)
         /\ Package(end) # <<>> =>
              \E k \in 1 .. Len(imu_buffer) :
                /\ Len(Package(end)) = k
                /\ \A i \in 1 .. k : Package(end)[i] = imu_buffer[i]
                /\ imu_buffer[k] <= end
                /\ k < Len(imu_buffer) => imu_buffer[k] >= end \/ imu_buffer[k + 1] > end
<1>. DEFINE taken == {k \in DOMAIN imu_buffer :
                        /\ imu_buffer[k] <= end
                        /\ \A i \in 1 .. k - 1 : imu_buffer[i] < end}
<1>1. Len(imu_buffer) \in Nat \ {0} /\ DOMAIN imu_buffer = 1 .. Len(imu_buffer)
  BY EmptySeq, LenProperties
<1>2. \A i \in 1 .. Len(imu_buffer) : imu_buffer[i] \in Int
  BY ElementOfSeq
<1>3. Package(end) = IF Head(imu_buffer) < end THEN SubSeq(imu_buffer, 1, Max(taken)) ELSE <<>>
  BY DEF Package
<1>4. CASE ~(Head(imu_buffer) < end)
  BY <1>3, <1>4, EmptySeq
<1>5. CASE Head(imu_buffer) < end
  <2>1. Head(imu_buffer) = imu_buffer[1] /\ 1 \in 1 .. Len(imu_buffer)
    BY <1>1
  <2>2. 1 \in taken
    BY <1>1, <1>2, <1>5, <2>1
  <2>3. taken \in SUBSET (1 .. Len(imu_buffer)) /\ taken # {}
    BY <1>1, <2>2
  <2>. DEFINE k == Max(taken)
  <2>4. k \in taken /\ \A y \in taken : k >= y
    <3>. HIDE DEF taken
    <3>. QED
      BY <1>1, <2>3, MaxExists
  <2>. HIDE DEF k
  <2>5. k \in 1 .. Len(imu_buffer) /\ imu_buffer[k] <= end
    BY <1>1, <2>4
  <2>6. ASSUME k < Len(imu_buffer), imu_buffer[k] < end
        PROVE  imu_buffer[k + 1] > end
    <3>1. k + 1 \in 1 .. Len(imu_buffer) /\ (k + 1) - 1 = k /\ ~(k >= k + 1)
      BY <1>1, <2>5, <2>6
    <3>2. k + 1 \notin taken
      <4>. HIDE DEF taken
      <4>. QED
        BY <2>4, <3>1
    <3>3. \A i \in 1 .. (k + 1) - 1 : imu_buffer[i] < end
      <4>. TAKE i \in 1 .. (k + 1) - 1
      <4>1. i \in 1 .. k - 1 \/ i = k
        BY <2>5, <3>1
      <4>. QED
        BY <2>4, <2>6, <4>1
    <3>4. ~(imu_buffer[k + 1] <= end)
      BY <1>1, <3>1, <3>2, <3>3
    <3>. QED
      BY <1>2, <3>1, <3>4
  <2>7. k < Len(imu_buffer) => imu_buffer[k] >= end \/ imu_buffer[k + 1] > end
    BY <1>2, <2>5, <2>6
  <2>. DEFINE front == SubSeq(imu_buffer, 1, k)
  <2>8. /\ front \in Seq(Int) /\ Len(front) = k
        /\ \A i \in 1 .. k : front[i] = imu_buffer[i]
    <3>1. \A i \in 1 .. k : imu_buffer[i] \in Int
      BY <1>1, <1>2, <2>5
    <3>2. k \in Int /\ 1 <= k /\ (k - 1) + 1 = k
      BY <2>5
    <3>3. /\ front \in Seq(Int) /\ Len(front) = IF 1 <= k THEN (k - 1) + 1 ELSE 0
          /\ \A i \in 1 .. (k - 1) + 1 : front[i] = imu_buffer[(1 + i) - 1]
      BY <3>1, <3>2, SubSeqProperties
    <3>. HIDE DEF front
    <3>4. \A i \in 1 .. k : (1 + i) - 1 = i
      BY <3>2
    <3>. QED
      BY <3>2, <3>3, <3>4
  <2>9. Package(end) = front
    BY <1>3, <1>5 DEF k
  <2>. HIDE DEF front
  <2>. QED
    BY <2>5, <2>7, <2>8, <2>9
<1>. QED
  BY <1>4, <1>5

LEMMA dtType ==
  ASSUME NEW head \in Int, NEW tail \in Int, last_lidar_end_time_ \in Int
  PROVE  dt(head, tail) \in Int
BY DEF dt

LEMMA TypeInvType == TypeInv => TypeOK
<1>1. Numbers <=> {last_timestamp_lidar, last_timestamp_imu, timediff_lidar_wrt_imu,
                   lidar_end_time, last_imu_, last_lidar_end_time_, kf_time} \subseteq Int
  BY DEF Numbers
<1>2. Flags <=> {is_first_lidar, timediff_set_flg, lidar_pushed, flg_first_scan,
                 imu_need_init_, undistorted} \subseteq BOOLEAN
  BY Zenon DEF Flags
<1>. QED
  BY <1>1, <1>2, Zenon DEF TypeInv, TypeOK, Clouds, Others


\* The filter goes from message to message; the sum of its steps is a time.
LEMMA StepsType ==
  ASSUME NEW imu \in Seq(Int), last_imu_ \in Int, last_lidar_end_time_ \in Int
  PROVE  LET v_imu == <<last_imu_>> \o imu
         IN  /\ v_imu \in Seq(Int) /\ Len(v_imu) = Len(imu) + 1
             /\ v_imu[1] = last_imu_
             /\ \A i \in 1 .. Len(imu) : v_imu[i + 1] = imu[i]
             /\ [i \in 1 .. Len(imu) |-> dt(v_imu[i], v_imu[i + 1])] \in Seq(Int)
<1>. DEFINE v_imu == <<last_imu_>> \o imu
            first == <<last_imu_>>
<1>1. first \in Seq(Int) /\ Len(first) = 1 /\ first[1] = last_imu_
  OBVIOUS
<1>2. Len(imu) \in Nat
  BY LenProperties
<1>. HIDE DEF first
<1>3. /\ v_imu \in Seq(Int) /\ Len(v_imu) = 1 + Len(imu)
      /\ \A i \in 1 .. 1 + Len(imu) : v_imu[i] = IF i <= 1 THEN first[i] ELSE imu[i - 1]
  <2>1. /\ first \o imu \in Seq(Int) /\ Len(first \o imu) = Len(first) + Len(imu)
        /\ \A i \in 1 .. Len(first) + Len(imu) :
             (first \o imu)[i] = IF i <= Len(first) THEN first[i] ELSE imu[i - Len(first)]
    BY <1>1, ConcatProperties
  <2>2. v_imu = first \o imu
    BY DEF first
  <2>. QED
    BY <1>1, <2>1, <2>2
<1>. HIDE DEF v_imu
<1>4. v_imu[1] = last_imu_
  <2>1. 1 \in 1 .. 1 + Len(imu)
    BY <1>2
  <2>. QED
    BY <1>1, <1>3, <2>1
<1>5. \A i \in 1 .. Len(imu) : v_imu[i + 1] = imu[i]
  <2>. TAKE i \in 1 .. Len(imu)
  <2>1. i + 1 \in 1 .. 1 + Len(imu) /\ ~(i + 1 <= 1) /\ (i + 1) - 1 = i
    BY <1>2
  <2>. QED
    BY <1>3, <2>1
<1>6. \A i \in 1 .. Len(imu) : dt(v_imu[i], v_imu[i + 1]) \in Int
  <2>. TAKE i \in 1 .. Len(imu)
  <2>1. i \in 1 .. Len(v_imu) /\ i + 1 \in 1 .. Len(v_imu)
    BY <1>2, <1>3
  <2>2. v_imu[i] \in Int /\ v_imu[i + 1] \in Int
    BY <1>3, <2>1, ElementOfSeq
  <2>. QED
    BY <2>2, dtType
<1>. DEFINE steps == [i \in 1 .. Len(imu) |-> dt(v_imu[i], v_imu[i + 1])]
<1>7. steps \in [1 .. Len(imu) -> Int]
  BY <1>6
<1>8. steps \in Seq(Int)
  <2>. HIDE DEF steps
  <2>. QED
    BY <1>2, <1>7, SeqDef
<1>9. Len(v_imu) = Len(imu) + 1
  BY <1>2, <1>3
<1>. QED
  BY <1>3, <1>4, <1>5, <1>8, <1>9 DEF v_imu

LEMMA LastType ==
  ASSUME NEW s \in Seq(Int), s # <<>>
  PROVE  Last(s) \in Int
<1>1. Len(s) \in 1 .. Len(s)
  BY EmptySeq
<1>. QED
  BY <1>1, ElementOfSeq DEF Last

LEMMA ProcessTypes ==
  ASSUME TypeInv, NEW scan \in Scan, NEW imu \in Seq(Int), NEW end \in Int,
         Process(scan, imu, end)
  PROVE  /\ imu_need_init_' \in BOOLEAN /\ undistorted' \in BOOLEAN
         /\ init_iter_num' \in Nat /\ feats_undistort' \in Scan
         /\ last_imu_' \in Int /\ last_lidar_end_time_' \in Int /\ kf_time' \in Int
<1>1. /\ imu_need_init_ \in BOOLEAN /\ undistorted \in BOOLEAN
      /\ init_iter_num \in Nat /\ feats_undistort \in Scan
      /\ last_imu_ \in Int /\ last_lidar_end_time_ \in Int /\ kf_time \in Int
  BY DEF TypeInv, Numbers, Flags, Others
<1>2. CASE imu = <<>>
  BY <1>1, <1>2 DEF Process, imuProcess
<1>3. CASE imu # <<>> /\ imu_need_init_
  <2>1. IMU_init(imu)
    BY <1>3 DEF Process
  <2>2. Len(imu) \in Nat /\ Last(imu) \in Int
    BY <1>3, LenProperties, LastType
  <2>3. /\ last_imu_' = Last(imu) /\ kf_time' = Last(imu)
        /\ UNCHANGED <<last_lidar_end_time_, undistorted, feats_undistort>>
    BY <2>1 DEF IMU_init
  <2>4. init_iter_num' \in Nat
    <3>1. init_iter_num' = init_iter_num + Len(imu)
      BY <2>1 DEF IMU_init
    <3>. QED
      BY <1>1, <2>2, <3>1
  <2>5. imu_need_init_' \in BOOLEAN
    <3>1. imu_need_init_' = (init_iter_num' <= MAX_INI_COUNT)
      BY <2>1 DEF IMU_init
    <3>. DEFINE few == init_iter_num' <= MAX_INI_COUNT
    <3>2. few \in BOOLEAN
      OBVIOUS
    <3>. HIDE DEF few
    <3>3. imu_need_init_' = few
      BY <3>1 DEF few
    <3>. QED
      BY <3>2, <3>3, Zenon
  <2>. QED
    BY <1>1, <2>2, <2>3, <2>4, <2>5
<1>4. CASE imu # <<>> /\ ~imu_need_init_
  <2>. DEFINE v_imu == <<last_imu_>> \o imu
              steps == [i \in 1 .. Len(imu) |-> dt(v_imu[i], v_imu[i + 1])]
              sum == FoldLeft(+, kf_time, steps)
  <2>1. UndistortPcl(scan, imu, end)
    BY <1>4 DEF Process
  <2>2. /\ kf_time' = sum + Abs(end - Last(v_imu))
        /\ last_imu_' = Last(imu) /\ last_lidar_end_time_' = end /\ undistorted' = TRUE
        /\ feats_undistort' = scan /\ UNCHANGED <<imu_need_init_, init_iter_num>>
    BY <2>1 DEF UndistortPcl
  <2>3. v_imu \in Seq(Int) /\ v_imu # <<>> /\ steps \in Seq(Int)
    <3>1. v_imu \in Seq(Int) /\ Len(v_imu) = Len(imu) + 1 /\ steps \in Seq(Int)
      BY <1>1, StepsType
    <3>2. Len(imu) \in Nat
      BY LenProperties
    <3>. HIDE DEF v_imu, steps
    <3>. QED
      BY <3>1, <3>2, EmptySeq
  <2>. HIDE DEF v_imu, steps
  <2>4. sum \in Int
    BY <1>1, <2>3, SumType
  <2>5. Last(v_imu) \in Int /\ Last(imu) \in Int
    BY <1>4, <2>3, LastType
  <2>. HIDE DEF sum
  <2>6. kf_time' \in Int
    BY <2>2, <2>4, <2>5 DEF Abs
  <2>. QED
    BY <1>1, <2>2, <2>5, <2>6
<1>. QED
  BY <1>2, <1>3, <1>4

\* What sync_packages leaves alone.
Estimate ==
  /\ flg_first_scan \in BOOLEAN /\ imu_need_init_ \in BOOLEAN /\ undistorted \in BOOLEAN
  /\ init_iter_num \in Nat /\ feats_undistort \in Scan
  /\ last_imu_ \in Int /\ last_lidar_end_time_ \in Int /\ kf_time \in Int
  /\ in_map \in Seq(ScanNumber)
  /\ holes \subseteq {"scans dropped", "imu back", "no imu"}

\* The buffers give up their fronts.
LEMMA HandedTypes ==
  ASSUME TypeInv, Handed, Estimate'
  PROVE  TypeInv'
<1>1. /\ lidar_buffer # <<>> /\ time_buffer # <<>> /\ imu_buffer # <<>>
      /\ meas' \in [lidar : Scan, lidar_beg_time : Nat]
      /\ lidar_end_time' \in Int /\ scan_num' \in Nat /\ scantime' \in Nat
      /\ scan_num' + Len(lidar_buffer) <= scans + 1
  BY TakeScanTypes DEF Handed
<1>2. /\ lidar_buffer \in Seq(Scan) /\ time_buffer \in Seq(Nat) /\ imu_buffer \in Seq(Int)
      /\ Len(time_buffer) >= Len(lidar_buffer)
      /\ scans \in ScanNumber /\ scans \in Nat /\ scans <= MaxScans /\ MaxScans \in Nat
      /\ setup \in Setups /\ ahead \in Int /\ lidar_clock \in Nat /\ imu_clock \in Int
  BY ScanNumbers, Constants DEF TypeInv, Clouds, Others
<1>3. /\ UNCHANGED <<setup, ahead, lidar_clock, imu_clock, scans>>
      /\ UNCHANGED <<is_first_lidar, last_timestamp_lidar, last_timestamp_imu,
                     timediff_lidar_wrt_imu, timediff_set_flg>>
      /\ lidar_pushed' = FALSE
  BY DEF Handed, clocks, stamps
<1>4. /\ lidar_buffer' \in Seq(Scan) /\ Len(lidar_buffer') = Len(lidar_buffer) - 1
      /\ time_buffer' \in Seq(Nat) /\ Len(time_buffer') = Len(time_buffer) - 1
  <2>1. lidar_buffer' = Tail(lidar_buffer) /\ time_buffer' = Tail(time_buffer)
    BY DEF Handed
  <2>. QED
    BY <1>1, <1>2, <2>1, HeadTailProperties
<1>5. Len(lidar_buffer) \in Nat /\ Len(time_buffer) \in Nat
  BY <1>2, LenProperties
<1>6. imu_buffer' \in Seq(Int)
  <2>. DEFINE m == Len(Package(lidar_end_time')) + 1
              n == Len(imu_buffer)
  <2>1. imu_buffer' = SubSeq(imu_buffer, m, n)
    BY DEF Handed
  <2>2. m \in Int /\ 1 <= m /\ n \in Int
    <3>1. Package(lidar_end_time') \in Seq(Int)
      BY <1>1, <1>2, PackageIsFront
    <3>2. Len(Package(lidar_end_time')) \in Nat /\ Len(imu_buffer) \in Nat
      BY <1>2, <3>1, LenProperties
    <3>. QED
      BY <3>2
  <2>. HIDE DEF m
  <2>3. \A i \in m .. n : imu_buffer[i] \in Int
    <3>. TAKE i \in m .. n
    <3>1. i \in 1 .. Len(imu_buffer)
      BY <2>2
    <3>. QED
      BY <1>2, <3>1, ElementOfSeq
  <2>. HIDE DEF n
  <2>4. SubSeq(imu_buffer, m, n) \in Seq(Int)
    BY <2>2, <2>3, SubSeqProperties
  <2>. QED
    BY <2>1, <2>4
<1>7. Numbers'
  BY <1>1, <1>3 DEF TypeInv, Numbers, Estimate
<1>8. Flags'
  BY <1>3 DEF TypeInv, Flags, Estimate
<1>9. Clouds'
  <2>1. Len(time_buffer') >= Len(lidar_buffer')
    BY <1>2, <1>4, <1>5
  <2>. QED
    BY <1>3, <1>4, <2>1 DEF Clouds
<1>10. scan_num' + Len(lidar_buffer') <= scans /\ scan_num' \in ScanNumber
  <2>1. Len(lidar_buffer') \in Nat
    BY <1>4, LenProperties
  <2>2. scan_num' + Len(lidar_buffer') <= scans
    <3>1. scan_num' + Len(lidar_buffer) <= scans + 1 /\ scan_num' \in Nat /\ scans \in Nat
      BY <1>1, <1>2
    <3>2. Len(lidar_buffer') = Len(lidar_buffer) - 1
      BY <1>4
    <3>. QED
      BY <1>5, <3>1, <3>2
  <2>3. scan_num' \in Nat /\ scan_num' <= scans
    BY <1>1, <1>2, <2>1, <2>2
  <2>4. scan_num' \in 0 .. MaxScans
    BY <1>2, <2>3
  <2>. QED
    BY <2>2, <2>4 DEF ScanNumber
<1>11. Others'
  <2>1. meas'.lidar \in Scan
    BY <1>1
  <2>. QED
    BY <1>1, <1>6, <1>10, <2>1 DEF Others, Estimate
<1>12. scan_num' + Len(lidar_buffer') <= scans' + (IF lidar_pushed' THEN 1 ELSE 0)
  BY <1>2, <1>3, <1>10
<1>. QED
  BY <1>1, <1>2, <1>3, <1>7, <1>8, <1>9, <1>11, <1>12 DEF TypeInv

LEMMA NextTypes == TypeInv /\ [Next]_vars => TypeInv'
<1>. SUFFICES ASSUME TypeInv, [Next]_vars PROVE TypeInv'
  OBVIOUS
<1>1. CASE LoseScan
  <2>1. lidar_clock' \in Nat
    BY <1>1, Constants DEF LoseScan, TypeInv
  <2>. QED
    BY <1>1, <2>1 DEF LoseScan, TypeInv, Numbers, Flags, Clouds, Others, buffers, stamps,
                      sync, imuProcess
<1>2. CASE Restart
  <2>1. lidar_clock' \in Nat /\ imu_clock' \in Int
    BY <1>2, Constants DEF Restart
  <2>. QED
    BY <1>2, <2>1 DEF Restart, TypeInv, Numbers, Flags, Clouds, Others, buffers, stamps,
                      sync, imuProcess
<1>3. ASSUME NEW points \in Sizes, NEW span \in Spans, standard_pcl_cbk(points, span)
      PROVE  TypeInv'
  <2>1. timediff_lidar_wrt_imu' \in Int /\ timediff_set_flg' \in BOOLEAN
    BY <1>3, Zenon DEF standard_pcl_cbk, TypeInv, Numbers, Flags
  <2>2. /\ scans < MaxScans /\ Push(Received(points, span))
        /\ UNCHANGED <<setup, ahead, imu_clock, imu_buffer, last_timestamp_imu, sync,
                       flg_first_scan, imuProcess, in_map>>
    BY <1>3 DEF standard_pcl_cbk, NewScan
  <2>. QED
    BY <2>1, <2>2, PushTypes
<1>4. ASSUME NEW points \in Sizes, NEW span \in Spans, livox_pcl_cbk(points, span)
      PROVE  TypeInv'
  <2>1. timediff_lidar_wrt_imu' \in Int /\ timediff_set_flg' \in BOOLEAN
    <3>1. /\ timediff_lidar_wrt_imu \in Int /\ timediff_set_flg \in BOOLEAN
          /\ lidar_clock \in Int /\ Period \in Int /\ last_timestamp_imu \in Int
      BY Constants DEF TypeInv, Numbers, Flags
    <3>2. \/ /\ timediff_set_flg' = TRUE
             /\ timediff_lidar_wrt_imu' = lidar_clock + Period - last_timestamp_imu
          \/ UNCHANGED <<timediff_set_flg, timediff_lidar_wrt_imu>>
      BY <1>4 DEF livox_pcl_cbk
    <3>3. timediff_set_flg' \in BOOLEAN
      BY <3>1, <3>2
    <3>. DEFINE found == lidar_clock + Period - last_timestamp_imu
    <3>4. found \in Int
      BY <3>1
    <3>. HIDE DEF found
    <3>5. timediff_lidar_wrt_imu' = found \/ timediff_lidar_wrt_imu' = timediff_lidar_wrt_imu
      BY <3>2 DEF found
    <3>6. timediff_lidar_wrt_imu' \in Int
      BY <3>1, <3>4, <3>5
    <3>. QED
      BY <3>3, <3>6
  <2>2. /\ scans < MaxScans /\ Push(Received(points, span))
        /\ UNCHANGED <<setup, ahead, imu_clock, imu_buffer, last_timestamp_imu, sync,
                       flg_first_scan, imuProcess, in_map>>
    BY <1>4 DEF livox_pcl_cbk, NewScan
  <2>. QED
    BY <2>1, <2>2, PushTypes
<1>5. ASSUME NEW step \in ImuSteps, imu_cbk(step) PROVE TypeInv'
  <2>1. /\ imu_clock' \in Int /\ last_timestamp_imu' \in Int
        /\ \E kept \in {<<>>, imu_buffer} : imu_buffer' = Append(kept, last_timestamp_imu')
        /\ holes' \subseteq holes \cup {"imu back"}
    <3>1. imu_clock \in Int /\ ahead \in Int /\ timediff_lidar_wrt_imu \in Int /\ step \in Nat
      BY <1>5, Constants DEF TypeInv, Numbers
    <3>2. imu_clock' = imu_clock + step
      BY <1>5 DEF imu_cbk
    <3>3. last_timestamp_imu' \in {(imu_clock' + ahead) + timediff_lidar_wrt_imu,
                                   imu_clock' + ahead}
      BY <1>5 DEF imu_cbk
    <3>4. /\ \E kept \in {<<>>, imu_buffer} : imu_buffer' = Append(kept, last_timestamp_imu')
          /\ holes' \subseteq holes \cup {"imu back"}
      BY <1>5 DEF imu_cbk
    <3>5. imu_clock' \in Int
      BY <3>1, <3>2
    <3>6. last_timestamp_imu' \in Int
      BY <3>1, <3>3, <3>5
    <3>. QED
      BY <3>4, <3>5, <3>6, Zenon
  <2>2. imu_buffer' \in Seq(Int)
    <3>1. PICK kept \in {<<>>, imu_buffer} : imu_buffer' = Append(kept, last_timestamp_imu')
      BY <2>1
    <3>2. kept \in Seq(Int)
      BY EmptySeq DEF TypeInv, Others
    <3>. QED
      BY <2>1, <3>1, <3>2, AppendProperties
  <2>3. /\ UNCHANGED <<setup, ahead, lidar_clock, scans, lidar_buffer, time_buffer,
                       is_first_lidar, last_timestamp_lidar, timediff_lidar_wrt_imu,
                       timediff_set_flg, flg_first_scan, in_map>>
        /\ UNCHANGED <<lidar_pushed, lidar_end_time, scan_num, scantime, meas>>
        /\ UNCHANGED <<imu_need_init_, init_iter_num, last_imu_, last_lidar_end_time_,
                       kf_time, undistorted, feats_undistort>>
    BY <1>5 DEF imu_cbk, sync, imuProcess
  <2>. QED
    BY <2>1, <2>2, <2>3 DEF TypeInv, Numbers, Flags, Clouds, Others
<1>6. CASE TimerWaits
  <2>1. /\ lidar_buffer # <<>>
        /\ meas' \in [lidar : Scan, lidar_beg_time : Nat]
        /\ lidar_end_time' \in Int /\ scan_num' \in Nat /\ scantime' \in Nat
        /\ scan_num' + Len(lidar_buffer) <= scans + 1
    BY <1>6, TakeScanTypes DEF TimerWaits
  <2>2. /\ UNCHANGED <<setup, ahead, lidar_clock, imu_clock, scans>>
        /\ UNCHANGED <<lidar_buffer, time_buffer, imu_buffer>>
        /\ UNCHANGED <<is_first_lidar, last_timestamp_lidar, last_timestamp_imu,
                       timediff_lidar_wrt_imu, timediff_set_flg>>
        /\ UNCHANGED <<imu_need_init_, init_iter_num, last_imu_, last_lidar_end_time_,
                       kf_time, undistorted, feats_undistort>>
        /\ UNCHANGED <<flg_first_scan, in_map, holes>>
        /\ lidar_pushed' = TRUE
    BY <1>6 DEF TimerWaits, clocks, buffers, stamps, imuProcess
  <2>3. scan_num' \in ScanNumber
    <3>1. Len(lidar_buffer) \in Nat \ {0}
      BY <2>1, EmptySeq DEF TypeInv, Clouds
    <3>2. scans \in Nat /\ scans <= MaxScans /\ MaxScans \in Nat
      BY ScanNumbers, Constants DEF TypeInv
    <3>3. scan_num' <= scans
      BY <2>1, <3>1, <3>2
    <3>4. scan_num' \in 0 .. MaxScans
      BY <2>1, <3>2, <3>3
    <3>. QED
      BY <3>4 DEF ScanNumber
  <2>4. Numbers' /\ Flags' /\ Clouds'
    BY <2>1, <2>2 DEF TypeInv, Numbers, Flags, Clouds
  <2>5. Others'
    <3>1. meas'.lidar \in Scan
      BY <2>1
    <3>. QED
      BY <2>1, <2>2, <2>3, <3>1 DEF TypeInv, Others
  <2>6. scan_num' + Len(lidar_buffer') <= scans' + (IF lidar_pushed' THEN 1 ELSE 0)
    BY <2>1, <2>2
  <2>. QED
    BY <2>1, <2>2, <2>4, <2>5, <2>6 DEF TypeInv
<1>7. CASE FirstScan
  <2>1. Estimate'
    <3>1. flg_first_scan' = FALSE /\ UNCHANGED <<in_map, holes>>
          /\ UNCHANGED <<imu_need_init_, init_iter_num, last_imu_, last_lidar_end_time_,
                         kf_time, undistorted, feats_undistort>>
      BY <1>7 DEF FirstScan, imuProcess
    <3>. QED
      BY <3>1 DEF Estimate, TypeInv, Numbers, Flags, Others
  <2>. QED
    BY <1>7, <2>1, HandedTypes DEF FirstScan
<1>8. CASE NextScan
  <2>. DEFINE end == lidar_end_time'
              imu == Package(end)
              scan == meas'.lidar
  <2>1. /\ Handed /\ Process(scan, imu, end) /\ Register(feats_undistort')
        /\ flg_first_scan' = flg_first_scan
        /\ holes' \subseteq holes \cup {"no imu"}
    BY <1>8 DEF NextScan
  <2>2. imu \in Seq(Int) /\ scan \in Scan /\ end \in Int
    <3>1. /\ imu_buffer # <<>> /\ lidar_end_time' \in Int
          /\ meas' \in [lidar : Scan, lidar_beg_time : Nat]
      BY <2>1, TakeScanTypes DEF Handed
    <3>2. imu_buffer \in Seq(Int)
      BY DEF TypeInv, Others
    <3>. QED
      BY <3>1, <3>2, PackageIsFront
  <2>. HIDE DEF end, imu, scan
  <2>3. /\ imu_need_init_' \in BOOLEAN /\ undistorted' \in BOOLEAN
        /\ init_iter_num' \in Nat /\ feats_undistort' \in Scan
        /\ last_imu_' \in Int /\ last_lidar_end_time_' \in Int /\ kf_time' \in Int
    BY <2>1, <2>2, ProcessTypes
  <2>4. in_map' \in Seq(ScanNumber)
    <3>1. in_map \in Seq(ScanNumber) /\ feats_undistort'.n \in ScanNumber
      BY <2>3, ScanFields DEF TypeInv, Others
    <3>2. in_map' = in_map \/ in_map' = Append(in_map, feats_undistort'.n)
      BY <2>1 DEF Register
    <3>. QED
      BY <3>1, <3>2, AppendProperties
  <2>5. flg_first_scan' \in BOOLEAN /\ holes' \subseteq {"scans dropped", "imu back", "no imu"}
    BY <2>1 DEF TypeInv, Flags, Others
  <2>. QED
    BY <2>1, <2>3, <2>4, <2>5, HandedTypes DEF Estimate
<1>9. CASE UNCHANGED vars
  BY <1>9 DEF vars, TypeInv, Numbers, Flags, Clouds, Others, clocks, buffers, stamps,
              sync, imuProcess
<1>. QED
  BY <1>1, <1>2, <1>3, <1>4, <1>5, <1>6, <1>7, <1>8, <1>9 DEF Next, timer_callback

LEMMA TypesInductive == Spec => []TypeInv
<1>1. Init => TypeInv
  BY InitTypes
<1>2. TypeInv /\ [Next]_vars => TypeInv'
  BY NextTypes
<1>. QED
  BY <1>1, <1>2, PTL DEF Spec

\* Every variable keeps its type, there is a time for every scan that waits, and
\* a scan that is in the package is still in front of the buffer.
THEOREM Types == Spec => []TypeOK
BY TypesInductive, TypeInvType, PTL

-----------------------------------------------------------------------------
(* The time of a scan.                                                      *)

\* The times are those of the scans.
InStep(clouds, times) ==
  /\ Len(times) = Len(clouds)
  /\ \A i \in 1 .. Len(clouds) : times[i] = clouds[i].beg

PairOK ==
  "scans dropped" \notin holes =>
    /\ InStep(lidar_buffer, time_buffer)
    /\ meas.lidar_beg_time = meas.lidar.beg

LEMMA InStepAppend ==
  ASSUME NEW clouds \in Seq(Scan), NEW times \in Seq(Nat), NEW cloud \in Scan,
         InStep(clouds, times)
  PROVE  InStep(Append(clouds, cloud), Append(times, cloud.beg))
<1>1. cloud.beg \in Nat
  BY ScanFields
<1>2. /\ Len(Append(clouds, cloud)) = Len(clouds) + 1
      /\ \A i \in 1 .. Len(clouds) : Append(clouds, cloud)[i] = clouds[i]
      /\ Append(clouds, cloud)[Len(clouds) + 1] = cloud
  BY AppendProperties
<1>3. /\ Len(Append(times, cloud.beg)) = Len(times) + 1
      /\ \A i \in 1 .. Len(times) : Append(times, cloud.beg)[i] = times[i]
      /\ Append(times, cloud.beg)[Len(times) + 1] = cloud.beg
  BY <1>1, AppendProperties
<1>4. Len(clouds) \in Nat /\ Len(times) \in Nat
  BY LenProperties
<1>. QED
  BY <1>2, <1>3, <1>4 DEF InStep

LEMMA InStepTail ==
  ASSUME NEW clouds \in Seq(Scan), NEW times \in Seq(Nat), clouds # <<>>,
         InStep(clouds, times)
  PROVE  Head(times) = Head(clouds).beg /\ InStep(Tail(clouds), Tail(times))
<1>1. Len(clouds) \in Nat \ {0}
  BY EmptySeq
<1>2. times # <<>>
  BY <1>1, EmptySeq DEF InStep
<1>3. /\ Len(Tail(clouds)) = Len(clouds) - 1
      /\ \A i \in 1 .. Len(Tail(clouds)) : Tail(clouds)[i] = clouds[i + 1]
  BY HeadTailProperties
<1>4. /\ Len(Tail(times)) = Len(times) - 1
      /\ \A i \in 1 .. Len(Tail(times)) : Tail(times)[i] = times[i + 1]
  BY <1>2, HeadTailProperties
<1>5. times[1] = clouds[1].beg
  BY <1>1 DEF InStep
<1>6. Head(times) = times[1] /\ Head(clouds) = clouds[1]
  BY <1>2
<1>. QED
  BY <1>1, <1>3, <1>4, <1>5, <1>6 DEF InStep

LEMMA InitPairOK == Init => PairOK
<1>. SUFFICES ASSUME Init PROVE PairOK
  OBVIOUS
<1>1. lidar_buffer = <<>> /\ time_buffer = <<>>
      /\ meas = [lidar |-> NoScan, lidar_beg_time |-> 0]
  BY DEF Init
<1>2. InStep(lidar_buffer, time_buffer)
  BY <1>1 DEF InStep
<1>3. meas.lidar_beg_time = meas.lidar.beg
  BY <1>1 DEF NoScan
<1>. QED
  BY <1>2, <1>3 DEF PairOK

\* A callback appends a scan and its time; if it drops the scans before, that is
\* a hole, or there were none, and then no times either.
LEMMA PushKeepsPairs ==
  ASSUME TypeInv, PairOK, NEW points \in Sizes, NEW span \in Spans, scans < MaxScans,
         Push(Received(points, span)), meas' = meas
  PROVE  PairOK'
<1>. DEFINE scan == Received(points, span)
            kept == IF LoopsBack(scan.beg) THEN <<>> ELSE lidar_buffer
<1>1. /\ points \in Nat /\ span \in Nat /\ lidar_clock \in Nat /\ scans \in Nat
      /\ MaxScans \in Nat
  BY Constants, ScanNumbers DEF TypeInv
<1>2. lidar_buffer \in Seq(Scan) /\ time_buffer \in Seq(Nat)
  BY DEF TypeInv, Clouds
<1>3. scan \in Scan
  BY <1>1 DEF Received, Scan, ScanNumber
<1>4. lidar_buffer' = Append(kept, scan) /\ time_buffer' = Append(time_buffer, scan.beg)
  BY DEF Push
<1>5. "scans dropped" \notin holes' => kept = lidar_buffer /\ "scans dropped" \notin holes
  BY DEF Push
<1>. HIDE DEF scan, kept
<1>. SUFFICES ASSUME "scans dropped" \notin holes' PROVE PairOK'
  BY DEF PairOK
<1>6. kept = lidar_buffer /\ "scans dropped" \notin holes
  BY <1>5
<1>7. InStep(lidar_buffer, time_buffer) /\ meas.lidar_beg_time = meas.lidar.beg
  BY <1>6 DEF PairOK
<1>8. InStep(lidar_buffer', time_buffer')
  BY <1>2, <1>3, <1>4, <1>6, <1>7, InStepAppend
<1>. QED
  BY <1>7, <1>8 DEF PairOK

\* A scan that is taken goes into the package with the time in front.
LEMMA TakeScanKeepsPairs ==
  ASSUME TypeInv, PairOK, TakeScan
  PROVE  "scans dropped" \notin holes => meas'.lidar_beg_time = meas'.lidar.beg
<1>1. /\ lidar_buffer # <<>> /\ lidar_buffer \in Seq(Scan) /\ time_buffer \in Seq(Nat)
      /\ meas \in [lidar : Scan, lidar_beg_time : Nat]
  BY DEF TakeScan, TypeInv, Clouds
<1>2. "scans dropped" \notin holes => Head(time_buffer) = Head(lidar_buffer).beg
  BY <1>1, InStepTail DEF PairOK
<1>3. CASE lidar_pushed
  <2>1. meas' = meas
    BY <1>3 DEF TakeScan
  <2>. QED
    BY <2>1 DEF PairOK
<1>4. CASE ~lidar_pushed
  <2>1. meas' = [meas EXCEPT !.lidar = Head(lidar_buffer),
                             !.lidar_beg_time = Head(time_buffer)]
    BY <1>4 DEF TakeScan, PushScan
  <2>2. meas' = [lidar |-> Head(lidar_buffer), lidar_beg_time |-> Head(time_buffer)]
    BY <1>1, <2>1
  <2>. QED
    BY <1>2, <2>2
<1>. QED
  BY <1>3, <1>4

LEMMA HandedKeepsPairs ==
  ASSUME TypeInv, PairOK, Handed, holes \subseteq holes'
  PROVE  PairOK'
<1>1. "scans dropped" \notin holes => meas'.lidar_beg_time = meas'.lidar.beg
  BY TakeScanKeepsPairs DEF Handed
<1>2. lidar_buffer' = Tail(lidar_buffer) /\ time_buffer' = Tail(time_buffer)
  BY DEF Handed
<1>3. lidar_buffer # <<>> /\ lidar_buffer \in Seq(Scan) /\ time_buffer \in Seq(Nat)
  BY DEF Handed, TakeScan, TypeInv, Clouds
<1>. QED
  BY <1>1, <1>2, <1>3, InStepTail DEF PairOK

LEMMA NextKeepsPairs == TypeInv /\ PairOK /\ [Next]_vars => PairOK'
<1>. SUFFICES ASSUME TypeInv, PairOK, [Next]_vars PROVE PairOK'
  OBVIOUS
<1>1. ASSUME UNCHANGED <<buffers, sync, holes>> PROVE PairOK'
  BY <1>1 DEF PairOK, buffers, sync
<1>2. CASE LoseScan \/ Restart \/ UNCHANGED vars
  BY <1>1, <1>2 DEF LoseScan, Restart, vars
<1>3. ASSUME NEW points \in Sizes, NEW span \in Spans,
             standard_pcl_cbk(points, span) \/ livox_pcl_cbk(points, span)
      PROVE  PairOK'
  <2>1. Push(Received(points, span)) /\ meas' = meas /\ scans < MaxScans
    BY <1>3 DEF standard_pcl_cbk, livox_pcl_cbk, NewScan, sync
  <2>. QED
    BY <2>1, PushKeepsPairs
<1>4. ASSUME NEW step \in ImuSteps, imu_cbk(step) PROVE PairOK'
  <2>1. UNCHANGED <<lidar_buffer, time_buffer, meas>> /\ holes \subseteq holes'
    BY <1>4 DEF imu_cbk, sync
  <2>. QED
    BY <2>1 DEF PairOK
<1>5. CASE TimerWaits
  <2>1. TakeScan /\ UNCHANGED <<lidar_buffer, time_buffer, holes>>
    BY <1>5 DEF TimerWaits, buffers
  <2>. QED
    BY <2>1, TakeScanKeepsPairs DEF PairOK
<1>6. CASE FirstScan
  BY <1>6, HandedKeepsPairs DEF FirstScan
<1>7. CASE NextScan
  BY <1>7, HandedKeepsPairs DEF NextScan
<1>. QED
  BY <1>2, <1>3, <1>4, <1>5, <1>6, <1>7 DEF Next, timer_callback

\* Every scan that sync_packages hands on carries the time of its own header,
\* unless scans were dropped when the clocks jumped back (laserMapping.cpp:283,
\* :309, :381).
THEOREM ScanHasItsOwnTime == Spec => []OwnTime
<1>1. PairOK => OwnTime
  BY DEF PairOK, OwnTime
<1>. QED
  BY <1>1, InitPairOK, NextKeepsPairs, TypesInductive, PTL DEF Spec

-----------------------------------------------------------------------------
(* The clouds in the map.                                                   *)

\* The scans that wait came one after another, and before the next one.
InOrder(clouds, last) ==
  \A i \in 1 .. Len(clouds) :
    /\ clouds[i].n <= last
    /\ \A j \in 1 .. Len(clouds) : i < j => clouds[i].n < clouds[j].n

\* A scan in the package may have been dropped from the buffer, but what is in front
\* then came after it.
OrderOK ==
  /\ InOrder(lidar_buffer, scans)
  /\ lidar_pushed => meas.lidar.n <= lidar_buffer[1].n
  /\ imu_need_init_ => feats_undistort.points = 0

BeforeAll(mapped, clouds) ==
  \A k \in 1 .. Len(mapped) : \A i \in 1 .. Len(clouds) : mapped[k] < clouds[i].n

Before(mapped, n) == \A k \in 1 .. Len(mapped) : mapped[k] < n

\* Every scan so far came with IMU messages.
NoneMissing == "no imu" \notin holes

\* Every scan in the map was handed on before the ones that wait.
MapOK ==
  NoneMissing =>
    /\ IsInjective(in_map)
    /\ Before(in_map, scans + 1)
    /\ BeforeAll(in_map, lidar_buffer)
    /\ lidar_pushed => Before(in_map, meas.lidar.n)

LEMMA InOrderAppend ==
  ASSUME NEW clouds \in Seq(Scan), NEW last \in Nat, InOrder(clouds, last),
         NEW cloud \in Scan, cloud.n = last + 1
  PROVE  InOrder(Append(clouds, cloud), last + 1)
<1>. DEFINE longer == Append(clouds, cloud)
<1>1. /\ Len(longer) = Len(clouds) + 1 /\ Len(clouds) \in Nat
      /\ \A i \in 1 .. Len(clouds) : longer[i] = clouds[i]
      /\ longer[Len(clouds) + 1] = cloud
  BY AppendProperties, LenProperties
<1>. HIDE DEF longer
<1>2. \A i \in 1 .. Len(clouds) : clouds[i].n \in Nat
  BY ElementOfSeq, ScanFields
<1>3. SUFFICES ASSUME NEW i \in 1 .. Len(longer)
               PROVE  /\ longer[i].n <= last + 1
                      /\ \A j \in 1 .. Len(longer) : i < j => longer[i].n < longer[j].n
  BY DEF InOrder, longer
<1>4. CASE i = Len(clouds) + 1
  <2>1. longer[i].n = last + 1
    BY <1>1, <1>4
  <2>2. \A j \in 1 .. Len(longer) : ~(i < j)
    BY <1>1, <1>4
  <2>. QED
    BY <2>1, <2>2
<1>5. CASE i \in 1 .. Len(clouds)
  <2>1. longer[i].n = clouds[i].n /\ clouds[i].n <= last /\ clouds[i].n \in Nat
    BY <1>1, <1>2, <1>5 DEF InOrder
  <2>2. ASSUME NEW j \in 1 .. Len(longer), i < j PROVE longer[i].n < longer[j].n
    <3>1. CASE j = Len(clouds) + 1
      <4>1. longer[j].n = last + 1
        BY <1>1, <3>1
      <4>. QED
        BY <2>1, <4>1
    <3>2. CASE j \in 1 .. Len(clouds)
      BY <1>1, <1>5, <2>2, <3>2 DEF InOrder
    <3>. QED
      BY <1>1, <3>1, <3>2
  <2>. QED
    BY <2>1, <2>2
<1>. QED
  BY <1>1, <1>4, <1>5

LEMMA InOrderTail ==
  ASSUME NEW clouds \in Seq(Scan), clouds # <<>>, NEW last \in Nat, InOrder(clouds, last)
  PROVE  /\ InOrder(Tail(clouds), last)
         /\ \A i \in 1 .. Len(Tail(clouds)) : clouds[1].n < Tail(clouds)[i].n
<1>. DEFINE rest == Tail(clouds)
<1>1. /\ Len(rest) = Len(clouds) - 1 /\ Len(clouds) \in Nat \ {0}
      /\ \A i \in 1 .. Len(rest) : rest[i] = clouds[i + 1]
  BY HeadTailProperties, EmptySeq
<1>. HIDE DEF rest
<1>2. \A i \in 1 .. Len(rest) : i + 1 \in 1 .. Len(clouds) /\ 1 \in 1 .. Len(clouds) /\ 1 < i + 1
  BY <1>1
<1>3. InOrder(rest, last)
  <2>. SUFFICES ASSUME NEW i \in 1 .. Len(rest)
                PROVE  /\ rest[i].n <= last
                       /\ \A j \in 1 .. Len(rest) : i < j => rest[i].n < rest[j].n
    BY DEF InOrder
  <2>1. rest[i].n <= last
    BY <1>1, <1>2 DEF InOrder
  <2>2. ASSUME NEW j \in 1 .. Len(rest), i < j PROVE rest[i].n < rest[j].n
    <3>1. i + 1 < j + 1
      BY <2>2
    <3>. QED
      BY <1>1, <1>2, <3>1 DEF InOrder
  <2>. QED
    BY <2>1, <2>2
<1>4. \A i \in 1 .. Len(rest) : clouds[1].n < rest[i].n
  BY <1>1, <1>2 DEF InOrder
<1>. QED
  BY <1>3, <1>4 DEF rest

LEMMA InitMapOK == Init => OrderOK /\ MapOK
<1>. SUFFICES ASSUME Init PROVE OrderOK /\ MapOK
  OBVIOUS
<1>1. /\ lidar_buffer = <<>> /\ in_map = <<>> /\ lidar_pushed = FALSE /\ scans = 0
      /\ feats_undistort = NoScan
  BY DEF Init
<1>2. NoScan.points = 0
  BY DEF NoScan
<1>3. OrderOK
  BY <1>1, <1>2 DEF OrderOK, InOrder
<1>4. IsInjective(in_map) /\ Before(in_map, scans + 1) /\ BeforeAll(in_map, lidar_buffer)
  BY <1>1 DEF IsInjective, Before, BeforeAll
<1>. QED
  BY <1>1, <1>3, <1>4 DEF MapOK

LEMMA PushKeepsOrder ==
  ASSUME TypeInv, OrderOK, MapOK,
         NEW points \in Sizes, NEW span \in Spans, scans < MaxScans,
         Push(Received(points, span)), UNCHANGED <<sync, imuProcess, in_map>>
  PROVE  OrderOK' /\ MapOK'
<1>. DEFINE scan == Received(points, span)
            kept == IF LoopsBack(scan.beg) THEN <<>> ELSE lidar_buffer
<1>1. /\ points \in Nat /\ span \in Nat /\ lidar_clock \in Nat /\ scans \in Nat
      /\ MaxScans \in Nat
  BY Constants, ScanNumbers DEF TypeInv
<1>2. lidar_buffer \in Seq(Scan) /\ in_map \in Seq(ScanNumber) /\ meas.lidar \in Scan
      /\ (lidar_pushed => lidar_buffer # <<>>)
  BY DEF TypeInv, Clouds, Others
<1>3. scan \in Scan /\ scan.n = scans + 1
  BY <1>1 DEF Received, Scan, ScanNumber
<1>4. /\ lidar_buffer' = Append(kept, scan) /\ scans' = scans + 1
      /\ holes \subseteq holes'
  BY DEF Push
<1>5. /\ in_map' = in_map /\ lidar_pushed' = lidar_pushed /\ meas' = meas
      /\ feats_undistort' = feats_undistort /\ imu_need_init_' = imu_need_init_
  BY DEF sync, imuProcess
<1>6. kept \in Seq(Scan) /\ (kept = <<>> \/ kept = lidar_buffer)
  BY <1>2, EmptySeq
<1>. HIDE DEF scan, kept
<1>7. InOrder(kept, scans)
  BY <1>6 DEF OrderOK, InOrder
<1>8. InOrder(lidar_buffer', scans')
  BY <1>1, <1>3, <1>4, <1>6, <1>7, InOrderAppend
<1>9. /\ Len(lidar_buffer') = Len(kept) + 1 /\ Len(kept) \in Nat
      /\ \A i \in 1 .. Len(kept) : lidar_buffer'[i] = kept[i]
      /\ lidar_buffer'[Len(kept) + 1] = scan
  BY <1>3, <1>4, <1>6, AppendProperties, LenProperties
<1>10. ASSUME lidar_pushed PROVE meas.lidar.n <= lidar_buffer'[1].n
  <2>1. meas.lidar.n <= lidar_buffer[1].n /\ lidar_buffer # <<>>
    BY <1>2, <1>10 DEF OrderOK
  <2>2. Len(lidar_buffer) \in Nat \ {0} /\ 1 \in 1 .. Len(lidar_buffer)
    BY <1>2, <2>1, EmptySeq
  <2>3. lidar_buffer[1].n <= scans /\ lidar_buffer[1].n \in Nat /\ meas.lidar.n \in Nat
    BY <1>2, <2>2, ElementOfSeq, ScanFields DEF OrderOK, InOrder
  <2>4. CASE kept = <<>>
    <3>1. lidar_buffer'[1].n = scans + 1
      BY <1>3, <1>9, <2>4
    <3>. QED
      BY <1>1, <2>1, <2>3, <3>1
  <2>5. CASE kept = lidar_buffer
    BY <1>9, <2>1, <2>2, <2>5
  <2>. QED
    BY <1>6, <2>4, <2>5
<1>11. OrderOK'
  BY <1>5, <1>8, <1>10 DEF OrderOK
<1>12. MapOK'
  <2>. SUFFICES ASSUME NoneMissing' PROVE MapOK'
    BY DEF MapOK
  <2>1. /\ IsInjective(in_map) /\ Before(in_map, scans + 1) /\ BeforeAll(in_map, lidar_buffer)
        /\ lidar_pushed => Before(in_map, meas.lidar.n)
    BY <1>4 DEF MapOK, NoneMissing
  <2>2. \A k \in 1 .. Len(in_map) : in_map[k] \in Nat
    BY <1>2, ElementOfSeq, ScanNumbers
  <2>3. Before(in_map', scans' + 1)
    <3>. SUFFICES ASSUME NEW k \in 1 .. Len(in_map) PROVE in_map[k] < (scans + 1) + 1
      BY <1>4, <1>5 DEF Before
    <3>1. in_map[k] < scans + 1
      BY <2>1, Zenon DEF Before
    <3>. QED
      BY <1>1, <2>2, <3>1
  <2>4. BeforeAll(in_map', lidar_buffer')
    <3>. SUFFICES ASSUME NEW k \in 1 .. Len(in_map), NEW i \in 1 .. Len(lidar_buffer')
                  PROVE  in_map[k] < lidar_buffer'[i].n
      BY <1>5 DEF BeforeAll
    <3>1. CASE i = Len(kept) + 1
      BY <1>3, <1>9, <2>1, <3>1 DEF Before
    <3>2. CASE i \in 1 .. Len(kept)
      <4>1. kept = lidar_buffer
        BY <1>6, <3>2, EmptySeq
      <4>. QED
        BY <1>9, <2>1, <3>2, <4>1 DEF BeforeAll
    <3>3. i \in 1 .. Len(kept) + 1
      BY <1>9, Zenon
    <3>4. i \in 1 .. Len(kept) \/ i = Len(kept) + 1
      BY <1>9, <3>3
    <3>. QED
      BY <3>1, <3>2, <3>4, Zenon
  <2>. QED
    BY <1>5, <2>1, <2>3, <2>4 DEF MapOK
<1>. QED
  BY <1>11, <1>12

\* The scan in the package is not behind the front, nor in the map.
LEMMA TakeScanKeepsOrder ==
  ASSUME TypeInv, OrderOK, MapOK, TakeScan
  PROVE  /\ lidar_buffer # <<>>
         /\ meas'.lidar \in Scan
         /\ meas'.lidar.n <= lidar_buffer[1].n
         /\ NoneMissing => Before(in_map, meas'.lidar.n)
<1>1. /\ lidar_buffer # <<>> /\ lidar_buffer \in Seq(Scan)
      /\ meas \in [lidar : Scan, lidar_beg_time : Nat]
  BY DEF TakeScan, TypeInv, Clouds
<1>2. Len(lidar_buffer) \in Nat \ {0} /\ 1 \in 1 .. Len(lidar_buffer)
  BY <1>1, EmptySeq
<1>3. lidar_buffer[1] \in Scan
  BY <1>1, <1>2, ElementOfSeq
<1>4. CASE lidar_pushed
  <2>1. meas' = meas
    BY <1>4 DEF TakeScan
  <2>. QED
    BY <1>1, <1>4, <2>1 DEF OrderOK, MapOK
<1>5. CASE ~lidar_pushed
  <2>1. meas'.lidar = Head(lidar_buffer) /\ Head(lidar_buffer) = lidar_buffer[1]
    <3>1. meas' = [meas EXCEPT !.lidar = Head(lidar_buffer),
                               !.lidar_beg_time = Head(time_buffer)]
      BY <1>5 DEF TakeScan, PushScan
    <3>. QED
      BY <1>1, <3>1
  <2>2. lidar_buffer[1].n \in Nat
    BY <1>3, ScanFields
  <2>3. NoneMissing => Before(in_map, lidar_buffer[1].n)
    BY <1>2 DEF MapOK, BeforeAll, Before
  <2>4. meas'.lidar.n = lidar_buffer[1].n
    BY <2>1
  <2>5. meas'.lidar.n <= lidar_buffer[1].n
    <3>. DEFINE n == lidar_buffer[1].n
    <3>1. n <= n
      <4>. HIDE DEF n
      <4>1. n \in Nat
        BY <2>2 DEF n
      <4>. QED
        BY <4>1
    <3>. QED
      BY <2>4, <3>1, Zenon
  <2>. QED
    BY <1>1, <1>3, <2>1, <2>3, <2>4, <2>5, Zenon
<1>. QED
  BY <1>4, <1>5

\* When a scan is handed on, it goes into the map, or nothing does: without IMU
\* messages the cloud before it is still there, and that is a hole.
HandedOn ==
  /\ Handed
  /\ holes \subseteq holes'
  /\ imu_need_init_' => feats_undistort'.points = 0
  /\ \/ in_map' = in_map
     \/ "no imu" \in holes'
     \/ in_map' = Append(in_map, meas'.lidar.n)

LEMMA HandedKeepsOrder ==
  ASSUME TypeInv, OrderOK, MapOK, HandedOn
  PROVE  OrderOK' /\ MapOK'
<1>1. /\ lidar_buffer # <<>> /\ meas'.lidar \in Scan /\ meas'.lidar.n <= lidar_buffer[1].n
      /\ NoneMissing => Before(in_map, meas'.lidar.n)
  BY TakeScanKeepsOrder DEF HandedOn, Handed
<1>2. /\ lidar_buffer \in Seq(Scan) /\ in_map \in Seq(ScanNumber)
      /\ scans \in Nat
  BY ScanNumbers DEF TypeInv, Clouds, Others
<1>3. /\ lidar_buffer' = Tail(lidar_buffer) /\ lidar_pushed' = FALSE /\ scans' = scans
  BY DEF HandedOn, Handed, clocks
<1>4. /\ InOrder(lidar_buffer', scans)
      /\ \A i \in 1 .. Len(lidar_buffer') : lidar_buffer[1].n < lidar_buffer'[i].n
  BY <1>1, <1>2, <1>3, InOrderTail DEF OrderOK
<1>5. OrderOK'
  BY <1>3, <1>4 DEF OrderOK, HandedOn
<1>. DEFINE n == meas'.lidar.n
<1>6. /\ n \in Nat /\ n \in ScanNumber /\ n <= lidar_buffer[1].n
      /\ lidar_buffer[1].n \in Nat /\ lidar_buffer[1].n <= scans
      /\ \A i \in 1 .. Len(lidar_buffer') : lidar_buffer'[i].n \in Nat
      /\ \A k \in 1 .. Len(in_map) : in_map[k] \in Nat
  <2>1. 1 \in 1 .. Len(lidar_buffer)
    <3>1. lidar_buffer # <<>> /\ lidar_buffer \in Seq(Scan)
      BY <1>1, <1>2, Zenon
    <3>2. Len(lidar_buffer) \in Nat \ {0}
      BY <3>1, EmptySeq
    <3>. QED
      BY <3>2
  <2>2. lidar_buffer[1].n <= scans
    BY <2>1 DEF OrderOK, InOrder
  <2>3. lidar_buffer' \in Seq(Scan)
    BY <1>1, <1>2, <1>3, HeadTailProperties
  <2>. QED
    BY <1>1, <1>2, <2>1, <2>2, <2>3, ElementOfSeq, ScanFields, ScanNumbers
<1>. DEFINE front == lidar_buffer[1].n
<1>. HIDE DEF n
<1>7. /\ n <= front /\ front <= scans
      /\ \A i \in 1 .. Len(lidar_buffer') : front < lidar_buffer'[i].n
  BY <1>4, <1>6, Zenon
<1>8. n \in Nat /\ front \in Nat /\ scans \in Nat
  BY <1>2, <1>6, Zenon
<1>. HIDE DEF front
<1>9. MapOK'
  <2>. SUFFICES ASSUME NoneMissing' PROVE MapOK'
    BY DEF MapOK
  <2>1. /\ IsInjective(in_map) /\ Before(in_map, scans + 1)
        /\ BeforeAll(in_map, lidar_buffer) /\ Before(in_map, n)
    BY <1>1 DEF MapOK, NoneMissing, HandedOn, n
  <2>2. \A k \in 1 .. Len(in_map) :
          /\ in_map[k] < n /\ in_map[k] < scans + 1
          /\ \A i \in 1 .. Len(lidar_buffer') : in_map[k] < lidar_buffer'[i].n
    <3>. TAKE k \in 1 .. Len(in_map)
    <3>1. in_map[k] < n /\ in_map[k] < scans + 1
      BY <2>1 DEF Before
    <3>2. ASSUME NEW i \in 1 .. Len(lidar_buffer') PROVE in_map[k] < lidar_buffer'[i].n
      <4>. DEFINE next == lidar_buffer'[i].n
                  added == in_map[k]
      <4>1. front < next /\ next \in Nat /\ added \in Nat /\ added < n
        BY <1>6, <1>7, <3>1, Zenon
      <4>. HIDE DEF next, added
      <4>2. added < next
        BY <1>7, <1>8, <4>1
      <4>. QED
        BY <4>2 DEF added, next
    <3>. QED
      BY <3>1, <3>2
  <2>3. n < scans + 1 /\ \A i \in 1 .. Len(lidar_buffer') : n < lidar_buffer'[i].n
    <3>1. n < scans + 1
      BY <1>7, <1>8
    <3>2. ASSUME NEW i \in 1 .. Len(lidar_buffer') PROVE n < lidar_buffer'[i].n
      <4>. DEFINE next == lidar_buffer'[i].n
      <4>1. front < next /\ next \in Nat
        BY <1>6, <1>7, Zenon
      <4>. HIDE DEF next
      <4>2. n < next
        BY <1>7, <1>8, <4>1
      <4>. QED
        BY <4>2 DEF next
    <3>. QED
      BY <3>1, <3>2
  <2>4. CASE in_map' = in_map
    BY <1>3, <2>1, <2>2, <2>4 DEF MapOK, Before, BeforeAll
  <2>5. CASE in_map' = Append(in_map, n)
    <3>1. /\ Len(in_map') = Len(in_map) + 1 /\ Len(in_map) \in Nat
          /\ \A k \in 1 .. Len(in_map) : in_map'[k] = in_map[k]
          /\ in_map'[Len(in_map) + 1] = n
          /\ in_map' \in Seq(ScanNumber)
      <4>1. in_map \in Seq(ScanNumber) /\ n \in ScanNumber
        BY <1>2, <1>6, Zenon
      <4>. QED
        BY <2>5, <4>1, AppendProperties, LenProperties
    <3>2. \A k \in 1 .. Len(in_map') : k \in 1 .. Len(in_map) \/ k = Len(in_map) + 1
      BY <3>1
    <3>3. Before(in_map', scans + 1) /\ BeforeAll(in_map', lidar_buffer')
      BY <2>2, <2>3, <3>1, <3>2 DEF Before, BeforeAll
    <3>4. IsInjective(in_map')
      <4>1. DOMAIN in_map = 1 .. Len(in_map) /\ DOMAIN in_map' = 1 .. Len(in_map')
        BY <1>2, <3>1, LenProperties
      <4>2. \A k \in 1 .. Len(in_map) : in_map[k] # n
        <5>. TAKE k \in 1 .. Len(in_map)
        <5>1. in_map[k] < n /\ in_map[k] \in Nat
          BY <1>6, <2>2, Zenon
        <5>. QED
          BY <1>8, <5>1
      <4>3. \A a, b \in 1 .. Len(in_map) : in_map[a] = in_map[b] => a = b
        BY <2>1, <4>1 DEF IsInjective
      <4>4. ASSUME NEW a \in 1 .. Len(in_map'), NEW b \in 1 .. Len(in_map'),
                   in_map'[a] = in_map'[b]
            PROVE  a = b
        BY <3>1, <3>2, <4>2, <4>3, <4>4
      <4>. QED
        BY <4>1, <4>4 DEF IsInjective
    <3>. QED
      BY <1>3, <3>3, <3>4 DEF MapOK
  <2>. QED
    BY <2>4, <2>5 DEF n, NoneMissing, HandedOn
<1>. QED
  BY <1>5, <1>9

LEMMA NextKeepsOrder == TypeInv /\ OrderOK /\ MapOK /\ [Next]_vars => OrderOK' /\ MapOK'
<1>. SUFFICES ASSUME TypeInv, OrderOK, MapOK, [Next]_vars PROVE OrderOK' /\ MapOK'
  OBVIOUS
<1>1. ASSUME UNCHANGED <<scans, lidar_buffer, sync, imuProcess, in_map>>, holes \subseteq holes'
      PROVE  OrderOK' /\ MapOK'
  <2>1. UNCHANGED <<scans, lidar_buffer, lidar_pushed, meas, imu_need_init_, feats_undistort,
                    in_map>>
    BY <1>1 DEF sync, imuProcess
  <2>2. OrderOK'
    BY <2>1 DEF OrderOK
  <2>3. MapOK'
    BY <1>1, <2>1 DEF MapOK, NoneMissing
  <2>. QED
    BY <2>2, <2>3
<1>2. CASE LoseScan \/ Restart \/ UNCHANGED vars
  BY <1>1, <1>2 DEF LoseScan, Restart, vars, clocks, buffers
<1>3. ASSUME NEW points \in Sizes, NEW span \in Spans,
             standard_pcl_cbk(points, span) \/ livox_pcl_cbk(points, span)
      PROVE  OrderOK' /\ MapOK'
  <2>1. /\ Push(Received(points, span)) /\ scans < MaxScans
        /\ UNCHANGED <<sync, imuProcess, in_map>>
    BY <1>3 DEF standard_pcl_cbk, livox_pcl_cbk, NewScan
  <2>. QED
    BY <2>1, PushKeepsOrder
<1>4. ASSUME NEW step \in ImuSteps, imu_cbk(step) PROVE OrderOK' /\ MapOK'
  BY <1>1, <1>4 DEF imu_cbk
<1>5. CASE TimerWaits
  <2>1. /\ TakeScan /\ lidar_pushed' = TRUE
        /\ UNCHANGED <<scans, lidar_buffer, imu_need_init_, feats_undistort, in_map, holes>>
    BY <1>5 DEF TimerWaits, clocks, buffers, imuProcess
  <2>2. /\ meas'.lidar.n <= lidar_buffer[1].n
        /\ NoneMissing => Before(in_map, meas'.lidar.n)
    BY <2>1, TakeScanKeepsOrder
  <2>3. OrderOK'
    BY <2>1, <2>2 DEF OrderOK
  <2>4. MapOK'
    BY <2>1, <2>2 DEF MapOK, NoneMissing
  <2>. QED
    BY <2>3, <2>4
<1>6. CASE FirstScan
  <2>1. Handed /\ UNCHANGED <<imu_need_init_, feats_undistort, in_map, holes>>
    BY <1>6 DEF FirstScan, imuProcess
  <2>2. imu_need_init_' => feats_undistort'.points = 0
    BY <2>1 DEF OrderOK
  <2>. QED
    BY <2>1, <2>2, HandedKeepsOrder DEF HandedOn
<1>7. CASE NextScan
  <2>. DEFINE end == lidar_end_time'
              imu == Package(end)
              scan == meas'.lidar
  <2>1. /\ Handed /\ Process(scan, imu, end) /\ Register(feats_undistort')
        /\ holes' = IF imu = <<>> THEN holes \cup {"no imu"} ELSE holes
    BY <1>7 DEF NextScan
  <2>. HIDE DEF end, imu, scan
  <2>2. in_map' = in_map \/ in_map' = Append(in_map, feats_undistort'.n)
    BY <2>1 DEF Register
  <2>3. CASE imu = <<>>
    <3>1. UNCHANGED <<imu_need_init_, feats_undistort>> /\ "no imu" \in holes' /\ holes \subseteq holes'
      BY <2>1, <2>3 DEF Process, imuProcess
    <3>2. imu_need_init_' => feats_undistort'.points = 0
      BY <3>1 DEF OrderOK
    <3>. QED
      BY <2>1, <3>1, <3>2, HandedKeepsOrder DEF HandedOn
  <2>4. CASE imu # <<>> /\ imu_need_init_
    <3>1. UNCHANGED feats_undistort /\ holes' = holes
      BY <2>1, <2>4 DEF Process, IMU_init
    <3>2. feats_undistort.points = 0
      BY <2>4 DEF OrderOK
    <3>3. in_map' = in_map
      <4>1. feats_undistort'.points = 0
        BY <3>1, <3>2
      <4>2. ~(feats_undistort'.points > 5 \/ (feats_undistort'.points = 5 /\ in_map # <<>>))
        <5>. DEFINE points == feats_undistort'.points
        <5>1. points = 0
          BY <4>1
        <5>. HIDE DEF points
        <5>2. ~(points > 5 \/ (points = 5 /\ in_map # <<>>))
          BY <5>1
        <5>. QED
          BY <5>2 DEF points
      <4>. QED
        BY <2>1, <4>2, Zenon DEF Register
    <3>. QED
      BY <2>1, <3>1, <3>2, <3>3, HandedKeepsOrder DEF HandedOn
  <2>5. CASE imu # <<>> /\ ~imu_need_init_
    <3>1. feats_undistort' = scan /\ imu_need_init_' = imu_need_init_ /\ holes' = holes
      BY <2>1, <2>5 DEF Process, UndistortPcl
    <3>2. ~imu_need_init_'
      BY <2>5, <3>1
    <3>3. in_map' = in_map \/ in_map' = Append(in_map, meas'.lidar.n)
      BY <2>2, <3>1 DEF scan
    <3>. QED
      BY <2>1, <3>1, <3>2, <3>3, HandedKeepsOrder DEF HandedOn
  <2>. QED
    BY <2>3, <2>4, <2>5
<1>. QED
  BY <1>2, <1>3, <1>4, <1>5, <1>6, <1>7 DEF Next, timer_callback

\* Whatever is lost, late or played again, no scan's cloud goes into the map twice,
\* unless a scan was handed on without IMU messages (laserMapping.cpp:979, :1011, :481
\* and the early return at IMU_Processing.hpp:344).
THEOREM MapHasEachCloudOnce == Spec => []EachCloudOnce
<1>1. MapOK => EachCloudOnce
  BY DEF MapOK, NoneMissing, EachCloudOnce
<1>. QED
  BY <1>1, InitMapOK, NextKeepsOrder, TypesInductive, PTL DEF Spec

-----------------------------------------------------------------------------
(* The time of the filter.                                                  *)

Sorted(s) == \A i, j \in 1 .. Len(s) : i < j => s[i] <= s[j]
AllUpTo(s, t) == \A i \in 1 .. Len(s) : s[i] <= t
AllFrom(s, t) == \A i \in 1 .. Len(s) : s[i] >= t

\* The stamps of the IMU have only grown.
Forward == "imu back" \notin holes

\* The messages that wait are in the order of their stamps, and as long as these have
\* not jumped back, all of them are from the end of the last scan on.
TimeOK ==
  /\ Sorted(imu_buffer) /\ AllUpTo(imu_buffer, last_timestamp_imu)
  /\ undistorted => ~imu_need_init_ /\ last_imu_ <= last_lidar_end_time_
  /\ undistorted /\ Forward => /\ last_lidar_end_time_ <= last_timestamp_imu
                               /\ AllFrom(imu_buffer, last_lidar_end_time_)

\* A time, but not before the end of the last scan.
Clip(x) == IF x < last_lidar_end_time_ THEN last_lidar_end_time_ ELSE x

\* The case distinction of dt is the difference of two clipped times.
LEMMA dtIsClipped ==
  ASSUME NEW head \in Int, NEW tail \in Int, last_lidar_end_time_ \in Int,
         head <= tail \/ head <= last_lidar_end_time_
  PROVE  dt(head, tail) = Clip(tail) - Clip(head)
BY DEF dt, Clip

\* The steps of the filter add up to the time from the end of the last scan.
LEMMA Propagated ==
  ASSUME NEW imu \in Seq(Int), imu # <<>>, Sorted(imu), NEW scan, NEW end \in Int,
         last_imu_ \in Int, last_lidar_end_time_ \in Int, kf_time \in Int,
         last_imu_ <= last_lidar_end_time_, Last(imu) >= last_lidar_end_time_,
         Last(imu) <= end, UndistortPcl(scan, imu, end)
  PROVE  kf_time' - kf_time = end - last_lidar_end_time_
<1>. DEFINE v_imu == <<last_imu_>> \o imu
            steps == [i \in 1 .. Len(imu) |-> dt(v_imu[i], v_imu[i + 1])]
            sum == FoldLeft(+, kf_time, steps)
            n == Len(imu)
            clipped == [i \in 0 .. n |-> Clip(v_imu[i + 1])]
<1>1. kf_time' = sum + Abs(end - Last(v_imu))
  BY DEF UndistortPcl
<1>2. /\ v_imu \in Seq(Int) /\ Len(v_imu) = n + 1 /\ v_imu[1] = last_imu_
      /\ \A i \in 1 .. n : v_imu[i + 1] = imu[i]
      /\ steps \in Seq(Int)
  BY StepsType
<1>3. n \in Nat \ {0}
  BY EmptySeq
<1>4. Len(steps) = n /\ \A i \in 1 .. n : steps[i] = dt(v_imu[i], v_imu[i + 1])
  <2>1. DOMAIN steps = 1 .. n /\ DOMAIN steps = 1 .. Len(steps) /\ Len(steps) \in Nat
    BY <1>2, LenProperties
  <2>2. Len(steps) = n
    <3>. HIDE DEF steps, n
    <3>. QED
      BY <1>3, <2>1
  <2>. QED
    BY <2>2
<1>5. Last(imu) = imu[n]
  BY DEF Last
<1>. HIDE DEF v_imu, steps, n
<1>6. \A i \in 1 .. n + 1 : v_imu[i] \in Int
  BY <1>2, ElementOfSeq
<1>7. clipped \in [0 .. n -> Int]
  <2>. SUFFICES ASSUME NEW i \in 0 .. n PROVE Clip(v_imu[i + 1]) \in Int
    OBVIOUS
  <2>1. i + 1 \in 1 .. n + 1
    BY <1>3
  <2>2. v_imu[i + 1] \in Int
    BY <1>6, <2>1
  <2>. QED
    BY <2>2 DEF Clip
<1>8. \A i \in 1 .. n : steps[i] = clipped[i] - clipped[i - 1]
  <2>. SUFFICES ASSUME NEW i \in 1 .. n PROVE steps[i] = clipped[i] - clipped[i - 1]
    OBVIOUS
  <2>1. i \in 1 .. n + 1 /\ i + 1 \in 1 .. n + 1 /\ i \in 0 .. n /\ i - 1 \in 0 .. n
        /\ (i - 1) + 1 = i
    BY <1>3
  <2>2. v_imu[i] \in Int /\ v_imu[i + 1] \in Int
    BY <1>6, <2>1
  <2>3. v_imu[i] <= v_imu[i + 1] \/ v_imu[i] <= last_lidar_end_time_
    <3>1. CASE i = 1
      BY <1>2, <3>1
    <3>2. CASE i # 1
      <4>1. i - 1 \in 1 .. n /\ i - 1 < i
        BY <1>3, <3>2
      <4>2. imu[i - 1] <= imu[i]
        BY <4>1 DEF Sorted, n
      <4>3. v_imu[i] = imu[i - 1] /\ v_imu[i + 1] = imu[i]
        BY <1>2, <2>1, <4>1
      <4>. QED
        BY <4>2, <4>3
    <3>. QED
      BY <3>1, <3>2
  <2>4. clipped[i] = Clip(v_imu[i + 1]) /\ clipped[i - 1] = Clip(v_imu[i])
    BY <2>1
  <2>5. dt(v_imu[i], v_imu[i + 1]) = Clip(v_imu[i + 1]) - Clip(v_imu[i])
    BY <2>2, <2>3, dtIsClipped
  <2>. QED
    BY <1>4, <2>4, <2>5
<1>9. clipped[0] = last_lidar_end_time_ /\ clipped[n] = Last(imu)
  <2>1. 0 \in 0 .. n /\ n \in 0 .. n /\ n \in 1 .. n /\ 0 + 1 = 1
    BY <1>3
  <2>2. clipped[0] = Clip(last_imu_) /\ clipped[n] = Clip(Last(imu))
    BY <1>2, <1>5, <2>1
  <2>3. Clip(last_imu_) = last_lidar_end_time_
    BY DEF Clip
  <2>4. Clip(Last(imu)) = Last(imu)
    <3>1. Last(imu) \in Int
      BY LastType
    <3>. QED
      BY <3>1 DEF Clip
  <2>. HIDE DEF clipped
  <2>. QED
    BY <2>2, <2>3, <2>4
<1>. HIDE DEF clipped
<1>10. sum = kf_time + clipped[n] - clipped[0]
  BY <1>2, <1>4, <1>7, <1>8, SumOfDifferences
<1>11. Last(v_imu) = Last(imu) /\ Last(imu) \in Int
  <2>1. Last(v_imu) = v_imu[n + 1] /\ n \in 1 .. n
    BY <1>2, <1>3 DEF Last
  <2>. QED
    BY <1>2, <1>5, <2>1, LastType
<1>. HIDE DEF sum
<1>. DEFINE last == Last(imu)
<1>12. /\ sum = kf_time + last - last_lidar_end_time_ /\ kf_time' = sum + Abs(end - last)
       /\ last \in Int /\ last <= end
  BY <1>1, <1>9, <1>10, <1>11
<1>. HIDE DEF last
<1>. QED
  BY <1>12 DEF Abs

\* What is left of a buffer when its front is taken.
LEMMA RestKeeps ==
  ASSUME NEW s \in Seq(Int), Sorted(s), NEW t \in Int, AllUpTo(s, t), NEW k \in 0 .. Len(s)
  PROVE  LET rest == SubSeq(s, k + 1, Len(s))
         IN  /\ rest \in Seq(Int) /\ Sorted(rest) /\ AllUpTo(rest, t)
             /\ \A i \in 1 .. Len(rest) : k + i \in 1 .. Len(s) /\ rest[i] = s[k + i]
<1>. DEFINE rest == SubSeq(s, k + 1, Len(s))
            n == Len(s)
<1>1. n \in Nat /\ k \in Nat /\ k <= n
  BY LenProperties
<1>2. \A i \in k + 1 .. n : s[i] \in Int
  <2>. TAKE i \in k + 1 .. n
  <2>1. i \in 1 .. n
    BY <1>1
  <2>. QED
    BY <2>1, ElementOfSeq
<1>3. /\ rest \in Seq(Int)
      /\ Len(rest) = IF k + 1 <= n THEN (n - (k + 1)) + 1 ELSE 0
      /\ \A i \in 1 .. (n - (k + 1)) + 1 : rest[i] = s[((k + 1) + i) - 1]
  <2>1. k + 1 \in Int /\ n \in Int
    BY <1>1
  <2>. HIDE DEF n
  <2>2. /\ SubSeq(s, k + 1, n) \in Seq(Int)
        /\ Len(SubSeq(s, k + 1, n)) = IF k + 1 <= n THEN (n - (k + 1)) + 1 ELSE 0
        /\ \A i \in 1 .. (n - (k + 1)) + 1 : SubSeq(s, k + 1, n)[i] = s[((k + 1) + i) - 1]
    BY <1>2, <2>1, SubSeqProperties
  <2>. QED
    BY <2>2 DEF n
<1>. HIDE DEF rest, n
<1>4. Len(rest) = n - k
  BY <1>1, <1>3
<1>5. \A i \in 1 .. Len(rest) : k + i \in 1 .. n /\ rest[i] = s[k + i]
  <2>. TAKE i \in 1 .. Len(rest)
  <2>1. i \in 1 .. (n - (k + 1)) + 1 /\ ((k + 1) + i) - 1 = k + i /\ k + i \in 1 .. n
    BY <1>1, <1>4
  <2>. QED
    BY <1>3, <2>1
<1>6. Sorted(rest)
  <2>. SUFFICES ASSUME NEW i \in 1 .. Len(rest), NEW j \in 1 .. Len(rest), i < j
                PROVE  rest[i] <= rest[j]
    BY DEF Sorted
  <2>1. k + i < k + j
    BY <1>1, <1>4
  <2>2. s[k + i] <= s[k + j]
    BY <1>5, <2>1 DEF Sorted, n
  <2>. QED
    BY <1>5, <2>2
<1>7. AllUpTo(rest, t)
  BY <1>5 DEF AllUpTo, n
<1>. QED
  BY <1>3, <1>5, <1>6, <1>7 DEF rest, n

\* A package, and what stays of the buffer.
LEMMA HandedImu ==
  ASSUME TypeInv, TimeOK, Handed, NEW imu, imu = Package(lidar_end_time')
  PROVE  /\ imu \in Seq(Int) /\ Sorted(imu) /\ lidar_end_time' <= last_timestamp_imu
         /\ Sorted(imu_buffer') /\ AllUpTo(imu_buffer', last_timestamp_imu')
         /\ \A t \in Int : AllFrom(imu_buffer, t) => AllFrom(imu_buffer', t)
         /\ imu # <<>> => /\ Last(imu) <= lidar_end_time'
                          /\ \A t \in Int : AllFrom(imu_buffer, t) => Last(imu) >= t
                          /\ AllFrom(imu_buffer', lidar_end_time')
<1>. DEFINE end == lidar_end_time'
            n == Len(imu_buffer)
            k == Len(imu)
<1>1. /\ imu_buffer # <<>> /\ end \in Int /\ imu_buffer \in Seq(Int)
      /\ last_timestamp_imu \in Int
  BY TakeScanTypes DEF Handed, TypeInv, Numbers, Others
<1>2. Sorted(imu_buffer) /\ AllUpTo(imu_buffer, last_timestamp_imu)
  BY DEF TimeOK
<1>3. /\ imu_buffer' = SubSeq(imu_buffer, k + 1, n) /\ last_timestamp_imu' = last_timestamp_imu
      /\ last_timestamp_imu >= end
  BY DEF Handed, stamps
<1>4. /\ imu \in Seq(Int)
      /\ imu # <<>> => \E m \in 1 .. n :
           /\ k = m
           /\ \A i \in 1 .. m : imu[i] = imu_buffer[i]
           /\ imu_buffer[m] <= end
           /\ m < n => imu_buffer[m] >= end \/ imu_buffer[m + 1] > end
  BY <1>1, PackageIsFront
<1>5. k \in Nat /\ n \in Nat /\ (imu = <<>> => k = 0)
  BY <1>1, <1>4, LenProperties, EmptySeq
<1>6. /\ k \in 0 .. n
      /\ \A i \in 1 .. k : imu[i] = imu_buffer[i] /\ i \in 1 .. n
      /\ imu # <<>> => /\ k \in 1 .. n /\ imu_buffer[k] <= end
                       /\ k < n => imu_buffer[k] >= end \/ imu_buffer[k + 1] > end
  <2>1. CASE imu = <<>>
    <3>. HIDE DEF k, n
    <3>. QED
      BY <1>5, <2>1
  <2>2. CASE imu # <<>>
    <3>1. PICK m \in 1 .. n :
           /\ k = m
           /\ \A i \in 1 .. m : imu[i] = imu_buffer[i]
           /\ imu_buffer[m] <= end
           /\ m < n => imu_buffer[m] >= end \/ imu_buffer[m + 1] > end
      BY <1>4, <2>2
    <3>. HIDE DEF k, n
    <3>. QED
      BY <1>5, <3>1
  <2>. QED
    BY <2>1, <2>2
<1>. HIDE DEF k, n, end
<1>7. \A i \in 1 .. n : imu_buffer[i] \in Int
  BY <1>1, ElementOfSeq DEF n
<1>8. /\ imu_buffer' \in Seq(Int) /\ Sorted(imu_buffer')
      /\ AllUpTo(imu_buffer', last_timestamp_imu)
      /\ \A i \in 1 .. Len(imu_buffer') : k + i \in 1 .. n /\ imu_buffer'[i] = imu_buffer[k + i]
  BY <1>1, <1>2, <1>3, <1>6, RestKeeps DEF n
<1>9. Sorted(imu)
  BY <1>2, <1>6 DEF Sorted, k, n
<1>10. \A t \in Int : AllFrom(imu_buffer, t) => AllFrom(imu_buffer', t)
  BY <1>8 DEF AllFrom, n
<1>11. ASSUME imu # <<>>
       PROVE  /\ Last(imu) <= end
              /\ \A t \in Int : AllFrom(imu_buffer, t) => Last(imu) >= t
              /\ AllFrom(imu_buffer', end)
  <2>1. Last(imu) = imu[k] /\ k \in 1 .. k /\ k \in 1 .. n
    BY <1>5, <1>6, <1>11 DEF Last, k
  <2>2. Last(imu) = imu_buffer[k] /\ imu_buffer[k] <= end
    BY <1>6, <1>11, <2>1
  <2>3. \A t \in Int : AllFrom(imu_buffer, t) => Last(imu) >= t
    BY <2>1, <2>2 DEF AllFrom, n
  <2>4. ASSUME NEW i \in 1 .. Len(imu_buffer') PROVE imu_buffer'[i] >= end
    <3>1. i \in Int /\ i >= 1 /\ k + i \in 1 .. n /\ imu_buffer'[i] = imu_buffer[k + i]
      BY <1>8
    <3>2. k < n /\ k + 1 \in 1 .. n /\ k < k + i /\ (i = 1 \/ k + 1 < k + i)
      BY <1>5, <3>1
    <3>3. /\ imu_buffer[k] <= imu_buffer[k + i]
          /\ i = 1 \/ imu_buffer[k + 1] <= imu_buffer[k + i]
      BY <1>2, <2>1, <3>1, <3>2 DEF Sorted, n
    <3>4. imu_buffer[k] >= end \/ imu_buffer[k + 1] > end
      BY <1>6, <1>11, <3>2
    <3>5. imu_buffer[k] \in Int /\ imu_buffer[k + 1] \in Int /\ imu_buffer[k + i] \in Int
      BY <1>7, <2>1, <3>1, <3>2
    <3>6. imu_buffer[k + i] >= end
      <4>1. CASE imu_buffer[k] >= end
        BY <1>1, <3>3, <3>5, <4>1
      <4>2. CASE imu_buffer[k + 1] > end /\ i # 1
        <5>1. imu_buffer[k + 1] <= imu_buffer[k + i]
          BY <3>3, <4>2
        <5>. QED
          BY <1>1, <3>5, <4>2, <5>1
      <4>3. CASE imu_buffer[k + 1] > end /\ i = 1
        BY <1>1, <3>5, <4>3
      <4>. QED
        BY <3>4, <4>1, <4>2, <4>3
    <3>. QED
      BY <3>1, <3>6
  <2>. QED
    BY <2>2, <2>3, <2>4 DEF AllFrom
<1>. QED
  BY <1>1, <1>3, <1>4, <1>8, <1>9, <1>10, <1>11 DEF end

LEMMA InitTimeOK == Init => TimeOK
<1>. SUFFICES ASSUME Init PROVE TimeOK
  OBVIOUS
<1>1. imu_buffer = <<>> /\ undistorted = FALSE
  BY DEF Init
<1>. QED
  BY <1>1 DEF TimeOK, Sorted, AllUpTo

\* A message is appended; when the stamps jump back, those before it are dropped.
LEMMA ImuKeepsTime ==
  ASSUME TypeInv, TimeOK, NEW step \in ImuSteps, imu_cbk(step), TypeInv'
  PROVE  TimeOK'
<1>. DEFINE stamp == last_timestamp_imu'
            back == stamp < last_timestamp_imu
            kept == IF back THEN <<>> ELSE imu_buffer
<1>1. /\ imu_buffer' = Append(kept, stamp)
      /\ holes' = IF back THEN holes \cup {"imu back"} ELSE holes
  BY DEF imu_cbk
<1>2. UNCHANGED <<undistorted, imu_need_init_, last_imu_, last_lidar_end_time_>>
  BY DEF imu_cbk, imuProcess
<1>3. /\ stamp \in Int /\ last_timestamp_imu \in Int /\ last_lidar_end_time_ \in Int
      /\ imu_buffer \in Seq(Int)
  BY DEF TypeInv, Numbers, Others
<1>. HIDE DEF stamp
<1>4. kept \in Seq(Int) /\ Sorted(kept) /\ AllUpTo(kept, stamp)
  <2>1. <<>> \in Seq(Int) /\ Sorted(<<>>) /\ AllUpTo(<<>>, stamp)
    BY EmptySeq DEF Sorted, AllUpTo
  <2>2. ASSUME ~back PROVE AllUpTo(imu_buffer, stamp)
    <3>1. AllUpTo(imu_buffer, last_timestamp_imu) /\ last_timestamp_imu <= stamp
      BY <1>3, <2>2 DEF TimeOK
    <3>2. \A i \in 1 .. Len(imu_buffer) : imu_buffer[i] \in Int
      BY <1>3, ElementOfSeq
    <3>. QED
      BY <1>3, <3>1, <3>2 DEF AllUpTo
  <2>. QED
    BY <1>3, <2>1, <2>2 DEF TimeOK
<1>. HIDE DEF kept
<1>5. /\ Len(imu_buffer') = Len(kept) + 1 /\ Len(kept) \in Nat
      /\ \A i \in 1 .. Len(kept) : imu_buffer'[i] = kept[i]
      /\ imu_buffer'[Len(kept) + 1] = stamp
  <2>1. imu_buffer' = Append(kept, stamp)
    BY <1>1
  <2>. QED
    BY <1>3, <1>4, <2>1, AppendProperties, LenProperties
<1>6. \A i \in 1 .. Len(imu_buffer') : i \in 1 .. Len(kept) \/ i = Len(kept) + 1
  BY <1>5
<1>7. \A i \in 1 .. Len(kept) : kept[i] <= stamp
  BY <1>4 DEF AllUpTo
<1>8. AllUpTo(imu_buffer', stamp)
  BY <1>3, <1>5, <1>6, <1>7 DEF AllUpTo
<1>9. Sorted(imu_buffer')
  <2>. SUFFICES ASSUME NEW i \in 1 .. Len(imu_buffer'), NEW j \in 1 .. Len(imu_buffer'), i < j
                PROVE  imu_buffer'[i] <= imu_buffer'[j]
    BY DEF Sorted
  <2>1. i \in 1 .. Len(kept)
    BY <1>5
  <2>2. CASE j \in 1 .. Len(kept)
    <3>1. kept[i] <= kept[j]
      BY <1>4, <2>1, <2>2 DEF Sorted
    <3>. QED
      BY <1>5, <2>1, <2>2, <3>1
  <2>3. CASE j = Len(kept) + 1
    BY <1>5, <1>7, <2>1, <2>3
  <2>. QED
    BY <1>6, <2>2, <2>3
<1>10. ASSUME undistorted, Forward'
       PROVE  last_lidar_end_time_ <= stamp /\ AllFrom(imu_buffer', last_lidar_end_time_)
  <2>1. ~back /\ Forward
    BY <1>1, <1>10 DEF Forward
  <2>2. /\ last_lidar_end_time_ <= last_timestamp_imu
        /\ AllFrom(imu_buffer, last_lidar_end_time_)
    BY <1>10, <2>1 DEF TimeOK
  <2>3. last_lidar_end_time_ <= stamp
    BY <1>3, <2>1, <2>2
  <2>4. kept = imu_buffer
    BY <2>1 DEF kept
  <2>5. stamp >= last_lidar_end_time_
    BY <1>3, <2>3
  <2>6. AllFrom(imu_buffer', last_lidar_end_time_)
    BY <1>5, <1>6, <2>2, <2>4, <2>5 DEF AllFrom
  <2>. QED
    BY <2>3, <2>6
<1>. QED
  BY <1>2, <1>8, <1>9, <1>10 DEF TimeOK, stamp

\* What Process does to the times, by cases.
LEMMA ProcessTimes ==
  ASSUME NEW scan, NEW imu, NEW end, Process(scan, imu, end)
  PROVE  \/ UNCHANGED <<undistorted, imu_need_init_, last_imu_, last_lidar_end_time_>>
         \/ imu_need_init_ /\ UNCHANGED <<undistorted, last_lidar_end_time_>>
         \/ /\ imu # <<>> /\ ~imu_need_init_ /\ UndistortPcl(scan, imu, end)
            /\ undistorted' = TRUE /\ imu_need_init_' = imu_need_init_
            /\ last_imu_' = Last(imu) /\ last_lidar_end_time_' = end
<1>1. CASE imu = <<>>
  BY <1>1 DEF Process, imuProcess
<1>2. CASE imu # <<>> /\ imu_need_init_
  BY <1>2 DEF Process, IMU_init
<1>3. CASE imu # <<>> /\ ~imu_need_init_
  BY <1>3 DEF Process, UndistortPcl
<1>. QED
  BY <1>1, <1>2, <1>3

LEMMA NextScanKeepsTime ==
  ASSUME TypeInv, TimeOK, NextScan, TypeInv'
  PROVE  TimeOK'
<1>. DEFINE end == lidar_end_time'
            imu == Package(end)
            scan == meas'.lidar
<1>1. Handed /\ Process(scan, imu, end) /\ (Forward' => Forward)
  BY DEF NextScan, Forward
<1>2. /\ end <= last_timestamp_imu
      /\ Sorted(imu_buffer') /\ AllUpTo(imu_buffer', last_timestamp_imu')
      /\ \A t \in Int : AllFrom(imu_buffer, t) => AllFrom(imu_buffer', t)
      /\ imu # <<>> => Last(imu) <= end /\ AllFrom(imu_buffer', end)
  BY <1>1, HandedImu
<1>3. last_timestamp_imu' = last_timestamp_imu /\ last_lidar_end_time_ \in Int
  BY <1>1 DEF Handed, stamps, TypeInv, Numbers
<1>. HIDE DEF end, imu, scan
<1>4. CASE UNCHANGED <<undistorted, imu_need_init_, last_imu_, last_lidar_end_time_>>
  BY <1>1, <1>2, <1>3, <1>4 DEF TimeOK
<1>5. CASE imu_need_init_ /\ UNCHANGED <<undistorted, last_lidar_end_time_>>
  <2>1. ~undistorted'
    BY <1>5 DEF TimeOK
  <2>. QED
    BY <1>2, <2>1 DEF TimeOK
<1>6. CASE /\ imu # <<>> /\ ~imu_need_init_
           /\ undistorted' = TRUE /\ imu_need_init_' = imu_need_init_
           /\ last_imu_' = Last(imu) /\ last_lidar_end_time_' = end
  BY <1>2, <1>3, <1>6 DEF TimeOK
<1>. QED
  BY <1>1, <1>4, <1>5, <1>6, ProcessTimes

LEMMA NextKeepsTime == TypeInv /\ TypeInv' /\ TimeOK /\ [Next]_vars => TimeOK'
<1>. SUFFICES ASSUME TypeInv, TypeInv', TimeOK, [Next]_vars PROVE TimeOK'
  OBVIOUS
<1>1. ASSUME UNCHANGED <<imu_buffer, last_timestamp_imu, imuProcess>>, holes \subseteq holes'
      PROVE  TimeOK'
  <2>1. UNCHANGED <<imu_buffer, last_timestamp_imu, undistorted, imu_need_init_, last_imu_,
                    last_lidar_end_time_>>
    BY <1>1 DEF imuProcess
  <2>2. Forward' => Forward
    BY <1>1 DEF Forward
  <2>. QED
    BY <2>1, <2>2 DEF TimeOK
<1>2. CASE LoseScan \/ Restart \/ UNCHANGED vars
  BY <1>1, <1>2 DEF LoseScan, Restart, vars, buffers, stamps
<1>3. ASSUME NEW points \in Sizes, NEW span \in Spans,
             standard_pcl_cbk(points, span) \/ livox_pcl_cbk(points, span)
      PROVE  TimeOK'
  BY <1>1, <1>3 DEF standard_pcl_cbk, livox_pcl_cbk, Push
<1>4. ASSUME NEW step \in ImuSteps, imu_cbk(step) PROVE TimeOK'
  BY <1>4, ImuKeepsTime
<1>5. CASE TimerWaits
  BY <1>1, <1>5 DEF TimerWaits, buffers, stamps
<1>6. CASE FirstScan
  <2>. DEFINE imu == Package(lidar_end_time')
  <2>1. Handed /\ UNCHANGED <<imuProcess, holes>>
    BY <1>6 DEF FirstScan
  <2>2. /\ Sorted(imu_buffer') /\ AllUpTo(imu_buffer', last_timestamp_imu')
        /\ \A t \in Int : AllFrom(imu_buffer, t) => AllFrom(imu_buffer', t)
    BY <2>1, HandedImu
  <2>3. /\ UNCHANGED <<undistorted, imu_need_init_, last_imu_, last_lidar_end_time_>>
        /\ last_timestamp_imu' = last_timestamp_imu /\ last_lidar_end_time_ \in Int
        /\ Forward' => Forward
    BY <2>1 DEF imuProcess, Handed, stamps, TypeInv, Numbers, Forward
  <2>. QED
    BY <2>2, <2>3 DEF TimeOK
<1>7. CASE NextScan
  BY <1>7, NextScanKeepsTime
<1>. QED
  BY <1>2, <1>3, <1>4, <1>5, <1>6, <1>7 DEF Next, timer_callback

\* The step that propagates the filter: NextScan, through UndistortPcl.
LEMMA NextPropagates ==
  TypeInv /\ TimeOK /\ [Next]_vars =>
    (/\ undistorted /\ last_lidar_end_time_' > last_lidar_end_time_
     /\ "imu back" \in holes => last_imu_' >= last_lidar_end_time_
     => kf_time' - kf_time = last_lidar_end_time_' - last_lidar_end_time_)
<1>. SUFFICES ASSUME TypeInv, TimeOK, [Next]_vars,
                     undistorted, last_lidar_end_time_' > last_lidar_end_time_,
                     ~Forward => last_imu_' >= last_lidar_end_time_
              PROVE  kf_time' - kf_time = last_lidar_end_time_' - last_lidar_end_time_
  BY DEF Forward
<1>1. last_lidar_end_time_ \in Int /\ last_imu_ \in Int /\ kf_time \in Int
  BY DEF TypeInv, Numbers
<1>2. last_lidar_end_time_' # last_lidar_end_time_
  BY <1>1
<1>3. NextScan
  <2>1. ~(UNCHANGED imuProcess)
    BY <1>2 DEF imuProcess
  <2>. QED
    BY <2>1 DEF Next, LoseScan, Restart, standard_pcl_cbk, livox_pcl_cbk, imu_cbk,
                timer_callback, TimerWaits, FirstScan, vars
<1>. DEFINE end == lidar_end_time'
            imu == Package(end)
            scan == meas'.lidar
<1>4. Handed /\ Process(scan, imu, end)
  BY <1>3 DEF NextScan
<1>5. /\ imu \in Seq(Int) /\ Sorted(imu)
      /\ imu # <<>> => /\ Last(imu) <= end
                       /\ \A t \in Int : AllFrom(imu_buffer, t) => Last(imu) >= t
  BY <1>4, HandedImu
<1>6. end \in Int
  BY <1>4, TakeScanTypes DEF Handed
<1>. HIDE DEF end, imu, scan
<1>7. /\ imu # <<>> /\ UndistortPcl(scan, imu, end)
      /\ last_imu_' = Last(imu) /\ last_lidar_end_time_' = end
  BY <1>2, <1>4, ProcessTimes
<1>8. last_imu_ <= last_lidar_end_time_ /\ (Forward => AllFrom(imu_buffer, last_lidar_end_time_))
  BY DEF TimeOK
<1>9. Last(imu) >= last_lidar_end_time_
  <2>1. CASE Forward
    BY <1>1, <1>5, <1>7, <1>8, <2>1
  <2>2. CASE ~Forward
    BY <1>7, <2>2
  <2>. QED
    BY <2>1, <2>2
<1>. QED
  BY <1>1, <1>5, <1>6, <1>7, <1>8, <1>9, Propagated

\* Whatever is lost or late, from the second scan on the filter goes exactly from the
\* end of one scan to that of the next (IMU_Processing.hpp:249, :262 and :294).
THEOREM FilterGoesOverScan == Spec => PropagatedOverScan
<1>1. Init => TimeOK
  BY InitTimeOK
<1>2. TypeInv /\ TypeInv' /\ TimeOK /\ [Next]_vars => TimeOK'
  BY NextKeepsTime
<1>3. TypeInv /\ TimeOK /\ [Next]_vars =>
        [/\ undistorted /\ last_lidar_end_time_' > last_lidar_end_time_
         /\ "imu back" \in holes => last_imu_' >= last_lidar_end_time_
         => kf_time' - kf_time = last_lidar_end_time_' - last_lidar_end_time_]_vars
  BY NextPropagates
<1>. QED
  BY <1>1, <1>2, <1>3, TypesInductive, PTL DEF Spec, PropagatedOverScan
=============================================================================
