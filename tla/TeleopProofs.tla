---------------------------- MODULE TeleopProofs ----------------------------
(***************************************************************************)
(* Proofs about the three programs between a voice and the robot's legs:    *)
(* the gate that cuts speech into utterances (VadGate), the session that    *)
(* has speech transcribed (RealtimeSession), and the bridge from commands   *)
(* to requests (CmdVelBridge).                                              *)
(***************************************************************************)
EXTENDS VadGate, RealtimeSession, CmdVelBridge, SequenceTheorems, TLAPS

-----------------------------------------------------------------------------
(* The gate, for all constants in the order of those of node.py: it cuts the *)
(* stream into unbroken and disjoint utterances that end in silence or at    *)
(* the maximal length, and drops no run of StartFrames frames of speech.     *)
(*                                                                          *)
(* The inductive part (GateInv) is that the open piece of the stream, which  *)
(* is _buffer in an utterance and _prefix outside, always ends with the      *)
(* newest frame and begins after the last utterance, and that the frame      *)
(* before the current run of speech is silent or was kept.                   *)

Position == 1 .. StreamLength

GateTypes ==
  /\ stream \in Seq(BOOLEAN) /\ Len(stream) <= StreamLength
  /\ in_speech \in BOOLEAN
  /\ voiced_run \in 0 .. StartFrames
  /\ silence_run \in 0 .. EndFrames - 1
  /\ prefix \in Seq(Position) /\ Len(prefix) <= PrefixFrames
  /\ buffer \in Seq(Position) /\ Len(buffer) < MaxFrames
  /\ utterances \in Seq(Seq(Position))
  /\ rejected = <<>>

\* A sequence of consecutive positions, the last of which is f.
Piece(s, f) ==
  /\ Len(s) <= f
  /\ \A i \in 1 .. Len(s) : s[i] = f - Len(s) + i

Open == IF in_speech THEN buffer ELSE prefix

\* The n frames of the stream st up to f are silent.
Silent(st, f, n) == \A g \in f - n + 1 .. f : ~st[g]

OpenPiece ==
  /\ Piece(Open, Len(stream))
  /\ ~in_speech => buffer = <<>> /\ voiced_run < StartFrames /\ voiced_run <= Len(prefix)
  /\ in_speech => /\ Len(buffer) >= StartFrames + silence_run
                  /\ Silent(stream, Len(stream), silence_run)

EndOf(u) == u[Len(u)]

\* An utterance of the stream st.
Finished(u, st) ==
  /\ u # <<>>
  /\ Piece(u, EndOf(u))
  /\ EndOf(u) <= Len(st)
  /\ \/ Len(u) = MaxFrames
     \/ Len(u) < MaxFrames /\ Len(u) >= EndFrames /\ Silent(st, EndOf(u), EndFrames)

Finishing ==
  /\ \A k \in 1 .. Len(utterances) :
       Finished(utterances[k], stream) /\ EndOf(utterances[k]) <= Len(stream) - Len(Open)
  /\ \A k \in 1 .. Len(utterances) - 1 : EndOf(utterances[k]) < utterances[k + 1][1]

Covered ==
  /\ NoSpeechDropped
  /\ ~in_speech => \/ voiced_run = Len(stream)
                   \/ ~stream[Len(stream) - voiced_run]
                   \/ Len(stream) - voiced_run \in Kept

GateInv == GateTypes /\ OpenPiece /\ Finishing /\ Covered

-----------------------------------------------------------------------------
LEMMA GateConstants ==
  /\ StartFrames \in Nat \ {0} /\ EndFrames \in Nat \ {0} /\ MinFrames \in Nat \ {0}
  /\ MaxFrames \in Nat /\ PrefixFrames \in Nat /\ StreamLength \in Nat
  /\ StartFrames <= PrefixFrames /\ PrefixFrames < MaxFrames
  /\ MinFrames <= StartFrames + EndFrames /\ StartFrames + EndFrames <= MaxFrames
  BY VadAssumption DEF VadAssumption

LEMMA PieceAppend ==
  ASSUME NEW s \in Seq(Position), NEW f \in Nat, Piece(s, f), f + 1 \in Position
  PROVE  /\ Append(s, f + 1) \in Seq(Position)
         /\ Len(Append(s, f + 1)) = Len(s) + 1
         /\ Len(s) \in Nat
         /\ Piece(Append(s, f + 1), f + 1)
         /\ Append(s, f + 1)[Len(s) + 1] = f + 1
<1>1. /\ Append(s, f + 1) \in Seq(Position)
      /\ Len(Append(s, f + 1)) = Len(s) + 1
      /\ \A i \in 1 .. Len(s) : Append(s, f + 1)[i] = s[i]
      /\ Append(s, f + 1)[Len(s) + 1] = f + 1
  BY AppendProperties
<1>2. Len(s) \in Nat
  BY LenProperties
<1>3. ASSUME NEW i \in 1 .. Len(s) + 1
      PROVE  Append(s, f + 1)[i] = (f + 1) - (Len(s) + 1) + i
  <2>1. CASE i \in 1 .. Len(s)
    BY <1>1, <1>2, <2>1 DEF Piece
  <2>2. CASE i = Len(s) + 1
    BY <1>1, <1>2, <2>2
  <2>. QED
    BY <1>2, <2>1, <2>2
<1>. QED
  BY <1>1, <1>2, <1>3 DEF Piece

LEMMA PieceTail ==
  ASSUME NEW s \in Seq(Position), NEW f \in Nat, Piece(s, f), s # <<>>
  PROVE  /\ Tail(s) \in Seq(Position)
         /\ Len(Tail(s)) = Len(s) - 1
         /\ Piece(Tail(s), f)
<1>1. Len(s) \in Nat \ {0}
  BY EmptySeq
<1>2. /\ Tail(s) \in Seq(Position)
      /\ Len(Tail(s)) = Len(s) - 1
      /\ \A i \in 1 .. Len(Tail(s)) : Tail(s)[i] = s[i + 1]
  BY HeadTailProperties
<1>3. ASSUME NEW i \in 1 .. Len(s) - 1 PROVE Tail(s)[i] = f - (Len(s) - 1) + i
  <2>1. i + 1 \in 1 .. Len(s) /\ i \in 1 .. Len(Tail(s))
    BY <1>1, <1>2
  <2>2. Tail(s)[i] = f - Len(s) + (i + 1)
    BY <1>2, <2>1 DEF Piece
  <2>. QED
    BY <1>1, <2>1, <2>2
<1>. QED
  BY <1>1, <1>2, <1>3 DEF Piece

\* The deque keeps the newest PrefixFrames frames.
LEMMA PieceAppended ==
  ASSUME NEW s \in Seq(Position), NEW f \in Nat, Piece(s, f), f + 1 \in Position,
         Len(s) <= PrefixFrames
  PROVE  /\ Appended(s, f + 1) \in Seq(Position)
         /\ Len(Appended(s, f + 1)) \in 1 .. PrefixFrames
         /\ Len(Appended(s, f + 1)) <= Len(s) + 1
         /\ Len(Appended(s, f + 1)) = PrefixFrames \/ Len(Appended(s, f + 1)) = Len(s) + 1
         /\ Piece(Appended(s, f + 1), f + 1)
<1>1. Len(s) \in Nat
  BY LenProperties
<1>2. CASE Len(s) < PrefixFrames
  BY <1>1, <1>2, PieceAppend, GateConstants DEF Appended
<1>3. CASE ~(Len(s) < PrefixFrames)
  <2>1. s # <<>> /\ Len(s) = PrefixFrames
    BY <1>1, <1>3, EmptySeq, GateConstants
  <2>2. Tail(s) \in Seq(Position) /\ Len(Tail(s)) = Len(s) - 1 /\ Piece(Tail(s), f)
    BY <2>1, PieceTail
  <2>3. Appended(s, f + 1) = Append(Tail(s), f + 1)
    BY <1>3 DEF Appended
  <2>. DEFINE t == Tail(s)
  <2>. HIDE DEF t
  <2>4. t \in Seq(Position) /\ Len(t) = Len(s) - 1 /\ Piece(t, f)
    BY <2>2 DEF t
  <2>5. /\ Append(t, f + 1) \in Seq(Position)
        /\ Len(Append(t, f + 1)) = Len(t) + 1
        /\ Piece(Append(t, f + 1), f + 1)
    BY <2>4, PieceAppend
  <2>6. Len(t) + 1 = Len(s)
    BY <1>1, <2>4
  <2>7. Appended(s, f + 1) = Append(t, f + 1)
    BY <2>3 DEF t
  <2>8. Len(Appended(s, f + 1)) = PrefixFrames /\ Len(s) = PrefixFrames
    BY <2>1, <2>5, <2>6, <2>7
  <2>9. PrefixFrames \in 1 .. PrefixFrames /\ PrefixFrames <= PrefixFrames + 1
    BY GateConstants
  <2>. QED
    BY <2>5, <2>7, <2>8, <2>9, Zenon
<1>. QED
  BY <1>2, <1>3

-----------------------------------------------------------------------------
(* One frame more. *)

LEMMA StreamGrows ==
  ASSUME GateTypes, NEW is_speech \in BOOLEAN, push(is_speech)
  PROVE  /\ Len(stream) \in Nat /\ Len(stream') = Len(stream) + 1
         /\ Len(stream') <= StreamLength
         /\ stream' \in Seq(BOOLEAN)
         /\ \A f \in 1 .. Len(stream) : stream'[f] = stream[f]
         /\ stream'[Len(stream) + 1] = is_speech
         /\ Frame = Len(stream) + 1 /\ Len(stream) + 1 \in Position
<1>1. Len(stream) \in Nat /\ Len(stream) < StreamLength
      /\ stream' = Append(stream, is_speech) /\ stream \in Seq(BOOLEAN)
  BY LenProperties DEF push, GateTypes
<1>. QED
  BY <1>1, AppendProperties, GateConstants DEF Frame, Position

\* st is an old stream and new the longer one.
LEMMA SilentStays ==
  ASSUME NEW st, NEW new, Len(st) \in Nat, \A g \in 1 .. Len(st) : new[g] = st[g],
         NEW f \in Nat, NEW n \in Nat, n <= f, f <= Len(st),
         Silent(st, f, n)
  PROVE  Silent(new, f, n)
<1>1. \A g \in f - n + 1 .. f : g \in 1 .. Len(st)
  OBVIOUS
<1>. QED
  BY <1>1, Zenon DEF Silent

LEMMA SilentGrows ==
  ASSUME NEW st, NEW new, Len(st) \in Nat, \A g \in 1 .. Len(st) : new[g] = st[g],
         NEW n \in Nat, n <= Len(st), Silent(st, Len(st), n), ~new[Len(st) + 1]
  PROVE  Silent(new, Len(st) + 1, n + 1)
<1>1. Silent(new, Len(st), n)
  BY SilentStays
<1>2. \A g \in (Len(st) + 1) - (n + 1) + 1 .. Len(st) + 1 :
        g \in Len(st) - n + 1 .. Len(st) \/ g = Len(st) + 1
  OBVIOUS
<1>. QED
  BY <1>1, <1>2, Zenon DEF Silent

\* An utterance stays finished.
LEMMA FinishedStays ==
  ASSUME NEW st, NEW new, Len(st) \in Nat, Len(new) = Len(st) + 1,
         \A g \in 1 .. Len(st) : new[g] = st[g],
         NEW u \in Seq(Position), Finished(u, st)
  PROVE  Finished(u, new)
<1>1. Len(u) \in Nat \ {0} /\ EndOf(u) \in Position
  <2>1. Len(u) \in Nat \ {0}
    BY EmptySeq DEF Finished
  <2>. QED
    BY <2>1, ElementOfSeq DEF EndOf
<1>2. EndOf(u) \in Nat /\ EndOf(u) <= Len(st) /\ Len(u) <= EndOf(u)
  BY <1>1, GateConstants DEF Finished, Piece, Position
<1>3. Len(u) >= EndFrames /\ Silent(st, EndOf(u), EndFrames)
        => Silent(new, EndOf(u), EndFrames)
  <2>. SUFFICES ASSUME Len(u) >= EndFrames, Silent(st, EndOf(u), EndFrames)
                PROVE  Silent(new, EndOf(u), EndFrames)
    OBVIOUS
  <2>1. EndFrames \in Nat /\ EndFrames <= EndOf(u)
    BY <1>1, <1>2, GateConstants
  <2>. QED
    BY <1>2, <2>1, SilentStays
<1>4. EndOf(u) <= Len(new)
  BY <1>2
<1>. QED
  BY <1>3, <1>4 DEF Finished

-----------------------------------------------------------------------------
(* What has been kept. *)

LEMMA ElementsOfAppend ==
  ASSUME NEW S, NEW s \in Seq(S), NEW x \in S
  PROVE  ToSet(Append(s, x)) = ToSet(s) \cup {x}
<1>1. /\ Append(s, x) \in Seq(S) /\ Len(Append(s, x)) = Len(s) + 1
      /\ \A i \in 1 .. Len(s) : Append(s, x)[i] = s[i]
      /\ Append(s, x)[Len(s) + 1] = x
  BY AppendProperties
<1>2. Len(s) \in Nat
  BY LenProperties
<1>3. DOMAIN s = 1 .. Len(s) /\ DOMAIN Append(s, x) = 1 .. Len(s) + 1
  BY <1>1, LenProperties
<1>4. \A i : i \in 1 .. Len(s) + 1 <=> i \in 1 .. Len(s) \/ i = Len(s) + 1
  BY <1>2
<1>5. ASSUME NEW y \in ToSet(Append(s, x)) PROVE y \in ToSet(s) \/ y = x
  BY <1>1, <1>3, <1>4, <1>5, Zenon DEF ToSet
<1>6. ASSUME NEW y \in ToSet(s) PROVE y \in ToSet(Append(s, x))
  BY <1>1, <1>3, <1>4, <1>6, Zenon DEF ToSet
<1>7. x \in ToSet(Append(s, x))
  BY <1>1, <1>3, <1>4, Zenon DEF ToSet
<1>. QED
  BY <1>5, <1>6, <1>7

\* The frames of the utterances us.
KeptIn(us) == UNION {ToSet(u) : u \in ToSet(us)}

LEMMA KeptParts ==
  /\ Kept = KeptIn(utterances) \cup ToSet(buffer)
  /\ Kept' = KeptIn(utterances') \cup ToSet(buffer')
  BY Zenon DEF Kept, KeptIn

LEMMA KeptInAppend ==
  ASSUME NEW us \in Seq(Seq(Position)), NEW u \in Seq(Position)
  PROVE  KeptIn(Append(us, u)) = KeptIn(us) \cup ToSet(u)
<1>1. ASSUME NEW vs, NEW f
      PROVE  f \in KeptIn(vs) <=> \E v \in ToSet(vs) : f \in ToSet(v)
  BY DEF KeptIn
<1>2. ToSet(Append(us, u)) = ToSet(us) \cup {u}
  BY ElementsOfAppend
<1>3. ASSUME NEW f
      PROVE  f \in KeptIn(Append(us, u)) <=> f \in KeptIn(us) \/ f \in ToSet(u)
  BY <1>1, <1>2, Zenon
<1>. QED
  BY <1>3

LEMMA LastElement ==
  ASSUME NEW s \in Seq(Position), NEW f \in Nat, Piece(s, f), Len(s) # 0
  PROVE  s[Len(s)] = f /\ f \in ToSet(s)
<1>1. Len(s) \in Nat \ {0} /\ DOMAIN s = 1 .. Len(s)
  BY LenProperties
<1>2. Len(s) \in 1 .. Len(s)
  BY <1>1
<1>3. s[Len(s)] = f - Len(s) + Len(s)
  BY <1>2 DEF Piece
<1>4. s[Len(s)] = f
  BY <1>1, <1>3
<1>. QED
  BY <1>1, <1>2, <1>4 DEF ToSet

\* As long as nothing that was kept is lost, only the newest StartFrames frames
\* are in question.
LEMMA WindowsStay ==
  ASSUME GateInv, NEW is_speech \in BOOLEAN, push(is_speech),
         Kept \subseteq Kept',
         NEW f \in Nat, f >= Len(stream) + 2 - StartFrames, f <= Len(stream) + 1,
         f = 0 \/ ~stream'[f] \/ f \in Kept'
  PROVE  NoSpeechDropped'
<1>1. /\ Len(stream) \in Nat /\ Len(stream') = Len(stream) + 1
      /\ \A g \in 1 .. Len(stream) : stream'[g] = stream[g]
  BY StreamGrows DEF GateInv
<1>2. StartFrames \in Nat \ {0}
  BY GateConstants
<1>3. ASSUME NEW i \in 1 .. Len(stream') - StartFrames + 1,
             \A g \in i .. i + StartFrames - 1 : stream'[g]
      PROVE  (i .. i + StartFrames - 1) \cap Kept' # {}
  <2>1. CASE i + StartFrames - 1 <= Len(stream)
    <3>1. \A g \in i .. i + StartFrames - 1 : g \in 1 .. Len(stream)
      BY <1>2, <2>1
    <3>2. \A g \in i .. i + StartFrames - 1 : stream[g]
      BY <1>1, <1>3, <3>1, Zenon
    <3>3. i \in 1 .. Len(stream) - StartFrames + 1
      BY <1>1, <1>2, <2>1
    <3>4. (i .. i + StartFrames - 1) \cap Kept # {}
      BY <3>2, <3>3, Zenon DEF GateInv, Covered, NoSpeechDropped
    <3>. QED
      BY <3>4
  <2>2. CASE ~(i + StartFrames - 1 <= Len(stream))
    <3>1. f \in i .. i + StartFrames - 1 /\ f # 0
      BY <1>1, <1>2, <2>2
    <3>2. f \in Kept'
      BY <1>3, <3>1, Zenon
    <3>. QED
      BY <3>1, <3>2, Zenon
  <2>. QED
    BY <2>1, <2>2
<1>. QED
  BY <1>3, Zenon DEF NoSpeechDropped

\* The newest frame is kept.
LEMMA CoveredTaken ==
  ASSUME GateInv, NEW is_speech \in BOOLEAN, push(is_speech),
         Kept \subseteq Kept', Len(stream) + 1 \in Kept',
         in_speech' \/ voiced_run' = 0
  PROVE  Covered'
<1>1. Len(stream) \in Nat /\ Len(stream') = Len(stream) + 1
  BY StreamGrows DEF GateInv
<1>2. NoSpeechDropped'
  <2>1. Len(stream) + 1 \in Nat /\ Len(stream) + 1 >= Len(stream) + 2 - StartFrames
    BY <1>1, GateConstants
  <2>. QED
    BY <1>1, <2>1, WindowsStay
<1>3. voiced_run' = 0 => Len(stream') - voiced_run' \in Kept'
  BY <1>1
<1>. QED
  BY <1>2, <1>3 DEF Covered

\* The gate stays shut: the frame before the current run of speech is silent or
\* was kept, and is one of the newest StartFrames frames.
LEMMA CoveredShut ==
  ASSUME GateInv, NEW is_speech \in BOOLEAN, push(is_speech),
         Kept' = Kept, ~in_speech, ~in_speech',
         voiced_run' < StartFrames,
         voiced_run' = IF is_speech THEN voiced_run + 1 ELSE 0
  PROVE  Covered'
<1>1. /\ Len(stream) \in Nat /\ Len(stream') = Len(stream) + 1
      /\ \A g \in 1 .. Len(stream) : stream'[g] = stream[g]
      /\ stream'[Len(stream) + 1] = is_speech
  BY StreamGrows DEF GateInv
<1>2. StartFrames \in Nat \ {0}
  BY GateConstants
<1>3. voiced_run \in Nat /\ voiced_run <= Len(stream)
  BY <1>1, <1>2 DEF GateInv, GateTypes, OpenPiece, Open, Piece
<1>. DEFINE f == Len(stream') - voiced_run'
<1>4. f \in Nat /\ f >= Len(stream) + 2 - StartFrames /\ f <= Len(stream) + 1
  BY <1>1, <1>2, <1>3
<1>5. f = 0 \/ ~stream'[f] \/ f \in Kept'
  <2>1. CASE is_speech
    <3>1. f = Len(stream) - voiced_run
      BY <1>1, <1>3, <2>1
    <3>2. CASE voiced_run = Len(stream)
      <4>1. f = 0
        BY <1>3, <3>1, <3>2
      <4>. QED
        BY <4>1, Zenon
    <3>3. CASE ~stream[Len(stream) - voiced_run] /\ voiced_run # Len(stream)
      <4>1. Len(stream) - voiced_run \in 1 .. Len(stream)
        BY <1>1, <1>3, <3>3
      <4>. QED
        BY <1>1, <3>1, <3>3, <4>1, Zenon
    <3>4. CASE Len(stream) - voiced_run \in Kept
      BY <3>1, <3>4, Zenon
    <3>. QED
      BY <3>2, <3>3, <3>4, Zenon DEF GateInv, Covered
  <2>2. CASE ~is_speech
    <3>1. f = Len(stream) + 1
      BY <1>1, <2>2
    <3>. QED
      BY <1>1, <2>2, <3>1, Zenon
  <2>. QED
    BY <2>1, <2>2
<1>. HIDE DEF f
<1>6. NoSpeechDropped'
  BY <1>4, <1>5, WindowsStay
<1>7. f = 0 => voiced_run' = Len(stream')
  BY <1>1, <1>2, <1>3 DEF f
<1>. QED
  BY <1>5, <1>6, <1>7, Zenon DEF Covered, f

-----------------------------------------------------------------------------
LEMMA InitGateInv == Init => GateInv
<1>. SUFFICES ASSUME Init PROVE GateInv
  OBVIOUS
<1>1. GateTypes
  <2>1. stream \in Seq(BOOLEAN) /\ Len(stream) = 0
    BY EmptySeq DEF Init
  <2>2. in_speech \in BOOLEAN
    BY Zenon DEF Init
  <2>3. voiced_run = 0 /\ silence_run = 0 /\ prefix = <<>> /\ buffer = <<>>
        /\ utterances = <<>> /\ rejected = <<>>
    BY DEF Init
  <2>4. 0 \in 0 .. StartFrames /\ 0 \in 0 .. EndFrames - 1 /\ 0 <= StreamLength
        /\ 0 <= PrefixFrames /\ 0 < MaxFrames
    BY GateConstants
  <2>. QED
    BY <2>1, <2>2, <2>3, <2>4, EmptySeq DEF GateTypes
<1>2. OpenPiece
  BY GateConstants DEF Init, OpenPiece, Open, Piece
<1>3. Finishing
  BY DEF Init, Finishing
<1>4. Covered
  BY GateConstants DEF Init, Covered, NoSpeechDropped
<1>. QED
  BY <1>1, <1>2, <1>3, <1>4 DEF GateInv

\* No utterance ends and the open piece grows at its end only.
LEMMA FinishingStays ==
  ASSUME GateInv, NEW is_speech \in BOOLEAN, push(is_speech),
         utterances' = utterances, Len(Open') \in Nat, Len(Open) \in Nat,
         Len(Open') <= Len(Open) + 1
  PROVE  Finishing'
<1>1. /\ Len(stream) \in Nat /\ Len(stream') = Len(stream) + 1
      /\ \A g \in 1 .. Len(stream) : stream'[g] = stream[g]
  BY StreamGrows DEF GateInv
<1>2. ASSUME NEW k \in 1 .. Len(utterances)
      PROVE  /\ Finished(utterances[k], stream')
             /\ EndOf(utterances[k]) <= Len(stream') - Len(Open')
  <2>. DEFINE u == utterances[k]
  <2>1. u \in Seq(Position)
    BY ElementOfSeq DEF GateInv, GateTypes
  <2>2. Finished(u, stream) /\ EndOf(u) <= Len(stream) - Len(Open)
    BY DEF GateInv, Finishing
  <2>3. EndOf(u) \in Position /\ EndOf(u) \in Int
    <3>1. Len(u) \in Nat \ {0}
      BY <2>1, <2>2, EmptySeq DEF Finished
    <3>2. u[Len(u)] \in Position
      BY <2>1, <3>1, ElementOfSeq
    <3>. QED
      BY <3>2, GateConstants DEF EndOf, Position
  <2>. HIDE DEF u
  <2>4. Finished(u, stream')
    BY <1>1, <2>1, <2>2, FinishedStays
  <2>5. EndOf(u) <= Len(stream') - Len(Open')
    BY <1>1, <2>2, <2>3
  <2>. QED
    BY <2>4, <2>5 DEF u
<1>. QED
  BY <1>2 DEF GateInv, Finishing

\* The gate stays shut or opens: the prefix becomes the buffer.
LEMMA PushQuietKeeps ==
  ASSUME GateInv, NEW is_speech \in BOOLEAN, push(is_speech), PushQuiet(is_speech)
  PROVE  GateInv'
<1>. DEFINE L == Len(stream)
            opens == voiced_run' >= StartFrames
<1>1. /\ L \in Nat /\ Len(stream') = L + 1 /\ Len(stream') <= StreamLength
      /\ stream' \in Seq(BOOLEAN)
      /\ \A f \in 1 .. L : stream'[f] = stream[f]
      /\ stream'[L + 1] = is_speech
      /\ Frame = L + 1 /\ L + 1 \in Position
  BY StreamGrows DEF GateInv
<1>2. /\ in_speech = FALSE /\ buffer = <<>> /\ Open = prefix
      /\ Piece(prefix, L) /\ voiced_run < StartFrames /\ voiced_run <= Len(prefix)
  BY DEF PushQuiet, GateInv, GateTypes, OpenPiece, Open
<1>3. prefix \in Seq(Position) /\ Len(prefix) <= PrefixFrames /\ Len(prefix) \in Nat
  BY LenProperties DEF GateInv, GateTypes
<1>4. prefix' = Appended(prefix, L + 1)
  BY <1>1 DEF PushQuiet
<1>5. /\ prefix' \in Seq(Position) /\ Len(prefix') \in 1 .. PrefixFrames
      /\ Len(prefix') <= Len(prefix) + 1
      /\ Len(prefix') = PrefixFrames \/ Len(prefix') = Len(prefix) + 1
      /\ Piece(prefix', L + 1)
  BY <1>1, <1>2, <1>3, <1>4, PieceAppended
<1>6. /\ voiced_run \in Nat
      /\ voiced_run' = IF is_speech THEN voiced_run + 1 ELSE 0
      /\ voiced_run' \in 0 .. StartFrames /\ voiced_run' <= Len(prefix')
  <2>1. voiced_run \in Nat /\ voiced_run' = IF is_speech THEN voiced_run + 1 ELSE 0
    BY GateConstants DEF PushQuiet, GateInv, GateTypes
  <2>. QED
    BY <1>2, <1>3, <1>5, <2>1, GateConstants
<1>7. /\ utterances' = utterances /\ rejected' = rejected
      /\ opens => in_speech' = TRUE /\ buffer' = prefix' /\ silence_run' = 0
      /\ ~opens => in_speech' = in_speech /\ buffer' = buffer /\ silence_run' = silence_run
  BY DEF PushQuiet
<1>8. Open' = prefix'
  BY <1>2, <1>7 DEF Open
<1>9. GateTypes'
  <2>1. buffer' \in Seq(Position) /\ Len(buffer') < MaxFrames
    BY <1>5, <1>7, GateConstants DEF GateInv, GateTypes
  <2>2. silence_run' \in 0 .. EndFrames - 1
    BY <1>7, GateConstants DEF GateInv, GateTypes
  <2>3. in_speech' \in BOOLEAN
    BY <1>7, Zenon DEF GateInv, GateTypes
  <2>4. utterances' \in Seq(Seq(Position)) /\ rejected' = <<>>
    BY <1>7 DEF GateInv, GateTypes
  <2>5. Len(prefix') <= PrefixFrames
    BY <1>5, GateConstants
  <2>. QED
    BY <1>1, <1>5, <1>6, <2>1, <2>2, <2>3, <2>4, <2>5 DEF GateTypes
<1>10. OpenPiece'
  <2>1. Piece(Open', Len(stream'))
    BY <1>1, <1>5, <1>8
  <2>2. CASE opens
    <3>1. voiced_run' = StartFrames
      BY <1>6, <2>2, GateConstants
    <3>2. Len(buffer') >= StartFrames + silence_run'
      BY <1>5, <1>6, <1>7, <2>2, <3>1, GateConstants
    <3>3. Silent(stream', Len(stream'), silence_run')
      BY <1>1, <1>7, <2>2 DEF Silent
    <3>. QED
      BY <1>7, <2>1, <2>2, <3>2, <3>3, Zenon DEF OpenPiece
  <2>3. CASE ~opens
    <3>1. voiced_run' < StartFrames
      BY <1>6, <2>3, GateConstants
    <3>. QED
      <4>1. ~in_speech' /\ buffer' = <<>>
        BY <1>2, <1>7, <2>3, Zenon
      <4>. QED
        BY <1>6, <2>1, <3>1, <4>1, Zenon DEF OpenPiece
  <2>. QED
    BY <2>2, <2>3
<1>11. Finishing'
  <2>1. Len(Open') \in Nat /\ Len(Open) \in Nat /\ Len(Open') <= Len(Open) + 1
    BY <1>2, <1>3, <1>5, <1>8, GateConstants
  <2>. QED
    BY <1>7, <2>1, FinishingStays
<1>12. Covered'
  <2>1. CASE opens
    <3>1. Kept \subseteq Kept'
      <4>1. ToSet(buffer) = {}
        BY <1>2 DEF ToSet
      <4>. QED
        BY <1>7, <4>1, KeptParts
    <3>2. L + 1 \in Kept'
      <4>1. L + 1 \in Nat /\ Len(prefix') # 0
        BY <1>1, <1>5, GateConstants
      <4>2. L + 1 \in ToSet(prefix')
        BY <1>5, <4>1, LastElement
      <4>3. L + 1 \in ToSet(buffer')
        BY <1>7, <2>1, <4>2, Zenon
      <4>. QED
        BY <4>3, KeptParts
    <3>. QED
      BY <1>7, <2>1, <3>1, <3>2, CoveredTaken
  <2>2. CASE ~opens
    <3>1. Kept' = Kept
      BY <1>7, <2>2, Zenon DEF Kept
    <3>2. voiced_run' < StartFrames
      BY <1>6, <2>2, GateConstants
    <3>. QED
      BY <1>2, <1>6, <1>7, <2>2, <3>1, <3>2, CoveredShut
  <2>. QED
    BY <2>1, <2>2
<1>. QED
  BY <1>9, <1>10, <1>11, <1>12 DEF GateInv

\* The utterance goes on.
LEMMA PushSpeechKeeps ==
  ASSUME GateInv, NEW is_speech \in BOOLEAN, push(is_speech), PushSpeech(is_speech)
  PROVE  GateInv'
<1>. DEFINE L == Len(stream)
<1>1. /\ L \in Nat /\ Len(stream') = L + 1 /\ Len(stream') <= StreamLength
      /\ stream' \in Seq(BOOLEAN)
      /\ \A f \in 1 .. L : stream'[f] = stream[f]
      /\ stream'[L + 1] = is_speech
      /\ Frame = L + 1 /\ L + 1 \in Position
  BY StreamGrows DEF GateInv
<1>2. /\ in_speech = TRUE /\ Open = buffer /\ Piece(buffer, L)
      /\ buffer \in Seq(Position)
      /\ silence_run \in 0 .. EndFrames - 1
      /\ Len(buffer) >= StartFrames + silence_run
      /\ Silent(stream, L, silence_run)
  BY DEF PushSpeech, GateInv, GateTypes, OpenPiece, Open
<1>3. /\ in_speech' = in_speech /\ voiced_run' = voiced_run /\ prefix' = prefix
      /\ utterances' = utterances /\ rejected' = rejected
      /\ silence_run' = SilenceAfter(is_speech) /\ silence_run' < EndFrames
      /\ buffer' = Append(buffer, L + 1) /\ Len(buffer) + 1 < MaxFrames
  BY <1>1 DEF PushSpeech
<1>4. /\ buffer' \in Seq(Position) /\ Len(buffer') = Len(buffer) + 1
      /\ Len(buffer) \in Nat /\ Piece(buffer', L + 1)
      /\ buffer'[Len(buffer) + 1] = L + 1
  BY <1>1, <1>2, <1>3, PieceAppend
<1>5. Open' = buffer'
  BY <1>2, <1>3 DEF Open
<1>6. /\ silence_run' \in 0 .. EndFrames - 1
      /\ silence_run' = IF is_speech THEN 0 ELSE silence_run + 1
  BY <1>2, <1>3, GateConstants DEF SilenceAfter
<1>7. GateTypes'
  <2>1. in_speech' \in BOOLEAN
    BY <1>2, <1>3, Zenon
  <2>. QED
    BY <1>1, <1>3, <1>4, <1>6, <2>1, GateConstants DEF GateInv, GateTypes
<1>8. OpenPiece'
  <2>1. Len(buffer') >= StartFrames + silence_run'
    BY <1>2, <1>4, <1>6, GateConstants
  <2>2. Silent(stream', L + 1, silence_run')
    <3>1. CASE is_speech
      BY <1>1, <1>6, <3>1 DEF Silent
    <3>2. CASE ~is_speech
      <4>1. silence_run \in Nat /\ silence_run <= L
        BY <1>1, <1>2, <1>4, GateConstants DEF Piece
      <4>2. ~stream'[L + 1]
        BY <1>1, <3>2, Zenon
      <4>3. Silent(stream', L + 1, silence_run + 1)
        BY <1>1, <1>2, <4>1, <4>2, SilentGrows
      <4>. QED
        BY <1>6, <3>2, <4>3, Zenon
    <3>. QED
      BY <3>1, <3>2
  <2>. QED
    BY <1>1, <1>2, <1>3, <1>4, <1>5, <2>1, <2>2, Zenon DEF OpenPiece
<1>9. Finishing'
  BY <1>2, <1>3, <1>4, <1>5, FinishingStays
<1>10. Covered'
  <2>1. ToSet(buffer') = ToSet(buffer) \cup {L + 1}
    BY <1>1, <1>2, <1>3, ElementsOfAppend
  <2>2. Kept' = Kept \cup {L + 1}
    BY <1>3, <2>1, KeptParts
  <2>. QED
    BY <1>2, <1>3, <2>2, CoveredTaken
<1>. QED
  BY <1>7, <1>8, <1>9, <1>10 DEF GateInv

\* The utterance ends, and is never too short to be returned: it holds the
\* StartFrames frames that opened the gate and the EndFrames silent ones.
LEMMA FlushKeeps ==
  ASSUME GateInv, NEW is_speech \in BOOLEAN, push(is_speech), Flush(is_speech)
  PROVE  GateInv'
<1>. DEFINE L == Len(stream)
            u == Append(buffer, L + 1)
<1>1. /\ L \in Nat /\ Len(stream') = L + 1 /\ Len(stream') <= StreamLength
      /\ stream' \in Seq(BOOLEAN)
      /\ \A f \in 1 .. L : stream'[f] = stream[f]
      /\ stream'[L + 1] = is_speech
      /\ Frame = L + 1 /\ L + 1 \in Position
  BY StreamGrows DEF GateInv
<1>2. /\ in_speech = TRUE /\ Open = buffer /\ Piece(buffer, L)
      /\ buffer \in Seq(Position) /\ Len(buffer) < MaxFrames
      /\ silence_run \in 0 .. EndFrames - 1
      /\ Len(buffer) >= StartFrames + silence_run
      /\ Silent(stream, L, silence_run)
  BY DEF Flush, GateInv, GateTypes, OpenPiece, Open
<1>3. /\ u \in Seq(Position) /\ Len(u) = Len(buffer) + 1
      /\ Len(buffer) \in Nat /\ Piece(u, L + 1)
      /\ u[Len(buffer) + 1] = L + 1
  BY <1>1, <1>2, PieceAppend
<1>4. /\ in_speech' = FALSE /\ buffer' = <<>> /\ prefix' = <<>>
      /\ voiced_run' = 0 /\ silence_run' = 0
      /\ SilenceAfter(is_speech) >= EndFrames \/ Len(buffer) + 1 >= MaxFrames
  BY DEF Flush
<1>5. \/ Len(u) = MaxFrames
      \/ /\ Len(u) < MaxFrames /\ ~is_speech
         /\ silence_run + 1 = EndFrames
  <2>1. CASE Len(buffer) + 1 >= MaxFrames
    <3>1. Len(buffer) + 1 = MaxFrames
      BY <1>2, <1>3, <2>1, GateConstants
    <3>. QED
      BY <1>3, <3>1, Zenon
  <2>2. CASE SilenceAfter(is_speech) >= EndFrames
    <3>1. ~is_speech
      BY <2>2, GateConstants DEF SilenceAfter
    <3>2. silence_run + 1 >= EndFrames
      BY <2>2, <3>1 DEF SilenceAfter
    <3>3. silence_run + 1 = EndFrames
      BY <1>2, <3>2, GateConstants
    <3>4. Len(u) <= MaxFrames /\ Len(u) \in Nat
      BY <1>2, <1>3, GateConstants
    <3>. QED
      BY <3>1, <3>3, <3>4, GateConstants
  <2>. QED
    BY <1>4, <2>1, <2>2
<1>6. Len(buffer) + 1 >= MinFrames
  BY <1>2, <1>3, <1>5, GateConstants
<1>7. utterances' = Append(utterances, u) /\ rejected' = rejected
  BY <1>1, <1>6 DEF Flush
<1>. HIDE DEF u
<1>8. EndOf(u) = L + 1
  BY <1>3 DEF EndOf
<1>9. Finished(u, stream')
  <2>1. CASE Len(u) = MaxFrames
    <3>1. u # <<>>
      BY <2>1, GateConstants, EmptySeq
    <3>. QED
      BY <1>1, <1>3, <1>8, <2>1, <3>1 DEF Finished
  <2>2. CASE Len(u) < MaxFrames /\ ~is_speech /\ silence_run + 1 = EndFrames
    <3>1. silence_run \in Nat /\ silence_run <= L
      BY <1>1, <1>2, <1>3, GateConstants DEF Piece
    <3>2. ~stream'[L + 1]
      BY <1>1, <2>2, Zenon
    <3>3. Silent(stream', L + 1, silence_run + 1)
      BY <1>1, <1>2, <3>1, <3>2, SilentGrows
    <3>4. Silent(stream', EndOf(u), EndFrames)
      BY <1>8, <2>2, <3>3, Zenon
    <3>5. Len(u) >= EndFrames
      BY <1>2, <1>3, <2>2, GateConstants
    <3>6. u # <<>>
      BY <3>5, GateConstants, EmptySeq
    <3>7. EndOf(u) <= Len(stream')
      BY <1>1, <1>8
    <3>. QED
      BY <1>3, <1>8, <2>2, <3>4, <3>5, <3>6, <3>7, Zenon DEF Finished
  <2>. QED
    BY <1>5, <2>1, <2>2
<1>10. /\ utterances \in Seq(Seq(Position)) /\ Len(utterances) \in Nat
       /\ utterances' \in Seq(Seq(Position))
       /\ Len(utterances') = Len(utterances) + 1
       /\ \A k \in 1 .. Len(utterances) : utterances'[k] = utterances[k]
       /\ utterances'[Len(utterances) + 1] = u
  <2>1. utterances \in Seq(Seq(Position))
    BY DEF GateInv, GateTypes
  <2>. QED
    BY <1>3, <1>7, <2>1, AppendProperties, LenProperties
<1>11. Open' = <<>>
  BY <1>4 DEF Open
<1>12. GateTypes'
  <2>1. in_speech' \in BOOLEAN
    BY <1>4, Zenon
  <2>2. /\ 0 \in 0 .. StartFrames /\ 0 \in 0 .. EndFrames - 1
        /\ 0 <= PrefixFrames /\ 0 < MaxFrames
    BY GateConstants
  <2>3. rejected' = <<>>
    BY <1>7 DEF GateInv, GateTypes
  <2>. QED
    BY <1>1, <1>4, <1>10, <2>1, <2>2, <2>3, EmptySeq DEF GateTypes
<1>13. OpenPiece'
  <2>1. Piece(Open', Len(stream'))
    BY <1>1, <1>11 DEF Piece
  <2>2. voiced_run' < StartFrames /\ voiced_run' <= Len(prefix')
    BY <1>4, GateConstants
  <2>. QED
    BY <1>4, <2>1, <2>2, Zenon DEF OpenPiece
<1>14. Finishing'
  <2>1. ASSUME NEW k \in 1 .. Len(utterances)
        PROVE  /\ utterances[k] \in Seq(Position)
               /\ Finished(utterances[k], stream')
               /\ EndOf(utterances[k]) \in Int
               /\ EndOf(utterances[k]) <= L - Len(buffer)
    <3>. DEFINE v == utterances[k]
    <3>1. v \in Seq(Position)
      BY <1>10, ElementOfSeq
    <3>2. Finished(v, stream) /\ EndOf(v) <= L - Len(buffer)
      BY <1>2 DEF GateInv, Finishing
    <3>3. EndOf(v) \in Int
      <4>1. Len(v) \in Nat \ {0}
        BY <3>1, <3>2, EmptySeq DEF Finished
      <4>2. v[Len(v)] \in Position
        BY <3>1, <4>1, ElementOfSeq
      <4>. QED
        BY <4>2, GateConstants DEF EndOf, Position
    <3>. HIDE DEF v
    <3>4. Finished(v, stream')
      BY <1>1, <3>1, <3>2, FinishedStays
    <3>. QED
      BY <3>1, <3>2, <3>3, <3>4 DEF v
  <2>2. ASSUME NEW k \in 1 .. Len(utterances')
        PROVE  /\ Finished(utterances'[k], stream')
               /\ EndOf(utterances'[k]) <= Len(stream') - Len(Open')
    <3>1. Len(Open') = 0
      BY <1>11
    <3>2. CASE k \in 1 .. Len(utterances)
      <4>1. EndOf(utterances[k]) <= L + 1
        BY <1>1, <1>3, <2>1, <3>2
      <4>. QED
        BY <1>1, <1>10, <2>1, <3>1, <3>2, <4>1
    <3>3. CASE k = Len(utterances) + 1
      BY <1>1, <1>8, <1>9, <1>10, <3>1, <3>3
    <3>. QED
      BY <1>10, <3>2, <3>3
  <2>3. ASSUME NEW k \in 1 .. Len(utterances') - 1
        PROVE  EndOf(utterances'[k]) < utterances'[k + 1][1]
    <3>1. CASE k + 1 \in 1 .. Len(utterances)
      <4>1. k \in 1 .. Len(utterances) - 1 /\ k \in 1 .. Len(utterances)
        BY <1>10, <3>1
      <4>2. EndOf(utterances[k]) < utterances[k + 1][1]
        BY <4>1 DEF GateInv, Finishing
      <4>3. utterances'[k] = utterances[k] /\ utterances'[k + 1] = utterances[k + 1]
        BY <1>10, <3>1, <4>1
      <4>. QED
        BY <4>2, <4>3
    <3>2. CASE k = Len(utterances)
      <4>1. k \in 1 .. Len(utterances) /\ utterances'[k + 1] = u
        BY <1>10, <3>2
      <4>2. u[1] = (L + 1) - (Len(buffer) + 1) + 1
        BY <1>3 DEF Piece
      <4>. QED
        BY <1>1, <1>3, <1>10, <2>1, <4>1, <4>2
    <3>. QED
      BY <1>10, <3>1, <3>2
  <2>. QED
    BY <2>2, <2>3 DEF Finishing
<1>15. Covered'
  <2>1. ToSet(u) = ToSet(buffer) \cup {L + 1}
    BY <1>1, <1>2, ElementsOfAppend DEF u
  <2>2. KeptIn(utterances') = KeptIn(utterances) \cup ToSet(u)
    BY <1>3, <1>7, <1>10, KeptInAppend
  <2>3. ToSet(buffer') = {}
    BY <1>4 DEF ToSet
  <2>4. Kept \subseteq Kept' /\ L + 1 \in Kept'
    BY <2>1, <2>2, <2>3, KeptParts
  <2>. QED
    BY <1>4, <2>4, CoveredTaken
<1>. QED
  BY <1>12, <1>13, <1>14, <1>15 DEF GateInv

LEMMA NextGateInv == GateInv /\ [Next]_vars => GateInv'
<1>. SUFFICES ASSUME GateInv, [Next]_vars PROVE GateInv'
  OBVIOUS
<1>1. CASE Next
  <2>1. PICK is_speech \in BOOLEAN : push(is_speech)
    BY <1>1, Zenon DEF Next
  <2>2. PushQuiet(is_speech) \/ PushSpeech(is_speech) \/ Flush(is_speech)
    BY <2>1, Zenon DEF push
  <2>. QED
    BY <2>1, <2>2, PushQuietKeeps, PushSpeechKeeps, FlushKeeps
<1>2. CASE UNCHANGED vars
  BY <1>2, Zenon DEF vars, GateInv, GateTypes, OpenPiece, Open, Finishing, Covered,
                     NoSpeechDropped, Kept
<1>. QED
  BY <1>1, <1>2

-----------------------------------------------------------------------------
\* The counters, the deque and the buffer stay in their bounds (push).
THEOREM GateTypeOK == Spec => []TypeOK
<1>1. GateInv => TypeOK
  <2>. SUFFICES ASSUME GateInv PROVE TypeOK
    OBVIOUS
  <2>1. in_speech <=> buffer # <<>>
    <3>1. in_speech => buffer # <<>>
      <4>1. silence_run \in Nat
        BY GateConstants DEF GateInv, GateTypes
      <4>. QED
        BY <4>1, GateConstants DEF GateInv, OpenPiece
    <3>. QED
      BY <3>1, Zenon DEF GateInv, OpenPiece
  <2>2. rejected \in Seq(Seq(1 .. StreamLength))
    BY EmptySeq DEF GateInv, GateTypes
  <2>. QED
    BY <2>1, <2>2, Zenon DEF GateInv, GateTypes, Position, TypeOK
<1>. QED
  BY InitGateInv, NextGateInv, <1>1, PTL DEF Spec

\* Every utterance is an unbroken piece of the stream and no frame is in two of
\* them (the hand-over from _prefix to _buffer, and _flush).
THEOREM UtterancesAreUnbroken == Spec => []UnbrokenAndDisjoint
<1>1. GateInv => UnbrokenAndDisjoint
  <2>. SUFFICES ASSUME GateInv PROVE UnbrokenAndDisjoint
    OBVIOUS
  <2>. USE DEF GateInv, GateTypes
  <2>1. ASSUME NEW u \in ToSet(utterances) PROVE IsInterval(u)
    <3>1. u \in Seq(Position) /\ Piece(u, EndOf(u)) /\ u # <<>>
      <4>1. PICK k \in 1 .. Len(utterances) : u = utterances[k]
        BY LenProperties DEF ToSet
      <4>2. u \in Seq(Position)
        BY <4>1, ElementOfSeq
      <4>. QED
        BY <4>1, <4>2 DEF Finishing, Finished
    <3>2. Len(u) \in Nat \ {0}
      BY <3>1, EmptySeq
    <3>3. EndOf(u) \in Int
      <4>1. u[Len(u)] \in Position
        BY <3>1, <3>2, ElementOfSeq
      <4>. QED
        BY <4>1, GateConstants DEF EndOf, Position
    <3>4. ASSUME NEW i \in 1 .. Len(u) - 1 PROVE u[i + 1] = u[i] + 1
      <4>1. i \in 1 .. Len(u) /\ i + 1 \in 1 .. Len(u)
        BY <3>2
      <4>2. u[i] = EndOf(u) - Len(u) + i /\ u[i + 1] = EndOf(u) - Len(u) + (i + 1)
        BY <3>1, <4>1 DEF Piece
      <4>. QED
        BY <3>2, <3>3, <4>2
    <3>. QED
      BY <3>4 DEF IsInterval
  <2>2. ASSUME NEW i \in 1 .. Len(utterances) - 1
        PROVE  Last(utterances[i]) < Head(utterances[i + 1])
    <3>1. i + 1 \in 1 .. Len(utterances)
      BY LenProperties
    <3>2. utterances[i + 1] \in Seq(Position) /\ utterances[i + 1] # <<>>
      BY <3>1, ElementOfSeq DEF Finishing, Finished
    <3>3. Head(utterances[i + 1]) = utterances[i + 1][1]
      BY <3>2
    <3>. QED
      BY <3>3 DEF Finishing, EndOf, Last
  <2>. QED
    BY <2>1, <2>2 DEF UnbrokenAndDisjoint
<1>. QED
  BY InitGateInv, NextGateInv, <1>1, PTL DEF Spec

LEMMA LastOnes ==
  ASSUME NEW e \in Int, NEW n \in Int, NEW l \in Int, NEW j \in n - l + 1 .. n
  PROVE  e - n + j \in e - l + 1 .. e
  OBVIOUS

\* No StartFrames consecutive frames of speech are all dropped (push, _flush).
THEOREM SpeechIsKept == Spec => []NoSpeechDropped
<1>1. GateInv => NoSpeechDropped
  BY Zenon DEF GateInv, Covered
<1>. QED
  BY InitGateInv, NextGateInv, <1>1, PTL DEF Spec

\* An utterance ends with EndFrames silent frames or at the maximal length.
THEOREM UtterancesEndInSilence == Spec => []EndsInSilence
<1>1. GateInv => EndsInSilence
  <2>. SUFFICES ASSUME GateInv, NEW u \in ToSet(utterances), Len(u) # MaxFrames
                PROVE  /\ Len(u) < MaxFrames
                       /\ \A i \in Len(u) - EndFrames + 1 .. Len(u) : ~stream[u[i]]
    BY Zenon DEF EndsInSilence
  <2>. USE DEF GateInv, GateTypes
  <2>1. PICK k \in 1 .. Len(utterances) : u = utterances[k]
    BY LenProperties DEF ToSet
  <2>2. u \in Seq(Position) /\ Finished(u, stream)
    BY <2>1, ElementOfSeq DEF Finishing
  <2>3. /\ u # <<>> /\ Piece(u, EndOf(u)) /\ Len(u) < MaxFrames
        /\ Len(u) >= EndFrames /\ Silent(stream, EndOf(u), EndFrames)
    BY <2>2, Zenon DEF Finished
  <2>4. Len(u) \in Nat \ {0}
    BY <2>2, <2>3, EmptySeq
  <2>5. EndOf(u) \in Int
    <3>1. u[Len(u)] \in Position
      BY <2>2, <2>4, ElementOfSeq
    <3>. QED
      BY <3>1, GateConstants DEF EndOf, Position
  <2>6. ASSUME NEW i \in Len(u) - EndFrames + 1 .. Len(u) PROVE ~stream[u[i]]
    <3>1. i \in 1 .. Len(u)
      BY <2>3, <2>4, GateConstants
    <3>2. u[i] = EndOf(u) - Len(u) + i
      BY <2>3, <3>1 DEF Piece
    <3>3. u[i] \in EndOf(u) - EndFrames + 1 .. EndOf(u)
      <4>1. EndOf(u) - Len(u) + i \in EndOf(u) - EndFrames + 1 .. EndOf(u)
        <5>1. Len(u) \in Int /\ EndFrames \in Int
          BY <2>4, GateConstants
        <5>. QED
          BY <2>5, <5>1, LastOnes, Zenon
      <4>. QED
        BY <3>2, <4>1, Zenon
    <3>. QED
      BY <2>3, <3>3, Zenon DEF Silent
  <2>. QED
    BY <2>3, <2>6
<1>. QED
  BY InitGateInv, NextGateInv, <1>1, PTL DEF Spec

-----------------------------------------------------------------------------
(* The session, for any number of turns, frames and errors: at most the last *)
(* transcript that is acted upon carries the times of another turn, and then *)
(* an error ends the loop, whatever the connection does.                     *)
(*                                                                          *)
(* A failed transcription leaves its turn in _pending_turns, after which     *)
(* the pairs are wrong.  The inductive part (SessionInv) is that they are    *)
(* right while no error is queued and the main thread is in its loop: an     *)
(* error is taken out of its queue only to leave the loop for good.  So a    *)
(* wrong pair is acted upon only past the look at the errors, and the next   *)
(* look finds one.                                                           *)

Turn == 1 .. MaxTurn
Result == [transcript : Turn, times : 0 .. MaxTurn]

\* The main thread has not given up yet.
Listening == main \notin {"close", "close_ws", "join", "exit"}

ControlTypes ==
  /\ main \in {"transport", "ready?", "error?", "frame", "send", "put", "poll", "poll_get",
               "drain", "drain_get", "drain_end", "close", "close_ws", "join", "exit"}
  /\ session \in {"init", "connect", "run", "error", "finally", "shutdown", "done"}
  /\ connection \in {"none", "open", "closing", "closed"}
  /\ sender \in {"running", "ended"} /\ receiver \in {"running", "ended"}
  /\ failed \in BOOLEAN /\ session_ready \in BOOLEAN
  /\ updated \in BOOLEAN /\ speaking \in BOOLEAN /\ drained \in BOOLEAN

\* The sender is stopped once, by a thread that sends no frame any more.
Bounded ==
  /\ drains \in 0 .. MaxDrain
  /\ send_queue \in Seq({"frame", "None"}) /\ Len(send_queue) <= MaxAudio + 1
  /\ Listening => drains < MaxDrain
  /\ Listening \/ main = "close" => Len(send_queue) <= MaxAudio

TurnTypes ==
  /\ errors \in Nat /\ reported \in 0 .. MaxError
  /\ stopped \in 0 .. MaxTurn /\ transcribed \in 0 .. stopped
  /\ pending_turns \in Seq(Turn) /\ Len(pending_turns) <= stopped
  /\ results \in Seq(Result) /\ handled \in Seq(Result)
  /\ speaking => stopped < MaxTurn

TypeInv == ControlTypes /\ Bounded /\ TurnTypes

\* Transcripts come in the order of their turns, those handled first.
InOrder ==
  /\ \A i \in 1 .. Len(handled) : \A j \in 1 .. i - 1 :
       handled[j].transcript < handled[i].transcript
  /\ \A i \in 1 .. Len(handled) : \A j \in 1 .. Len(results) :
       handled[i].transcript < results[j].transcript
  /\ \A i \in 1 .. Len(results) : \A j \in 1 .. i - 1 :
       results[j].transcript < results[i].transcript
  /\ \A i \in 1 .. Len(results) : results[i].transcript <= transcribed
  /\ \A i \in 1 .. Len(handled) : handled[i].transcript <= transcribed

\* The pending turns are those whose transcription is still to come.
Paired ==
  /\ Len(pending_turns) = stopped - transcribed
  /\ \A i \in 1 .. Len(pending_turns) : pending_turns[i] = transcribed + i
  /\ \A i \in 1 .. Len(results) : results[i].times = results[i].transcript

\* The main thread is in poll_result, before its look at the errors, and will
\* find one.
Raising == main \in {"poll", "drain"} /\ errors > 0

\* It has found one.
GaveUp == failed /\ ~Listening

\* What was acted upon has its own times, but for the last one.
HandledOK ==
  \A i \in 1 .. Len(handled) :
    \/ handled[i].times = handled[i].transcript
    \/ i = Len(handled) /\ (Raising \/ GaveUp)

SessionInv ==
  /\ TypeInv
  /\ InOrder
  /\ HandledOK
  /\ Listening /\ errors = 0 => Paired

-----------------------------------------------------------------------------
LEMMA Bounds ==
  /\ MaxTurn \in Nat /\ MaxAudio \in Nat \ {0}
  /\ MaxError \in Nat /\ MaxDrain \in Nat \ {0}
  BY SessionAssumption DEF SessionAssumption

LEMMA InitSessionInv ==
  ASSUME SessionInit
  PROVE  SessionInv
<1>1. ControlTypes
  BY DEF SessionInit, ControlTypes
<1>2. Bounded
  BY Bounds DEF SessionInit, Bounded
<1>3. TurnTypes
  BY Bounds DEF SessionInit, TurnTypes
<1>4. InOrder
  BY DEF SessionInit, InOrder
<1>5. Paired
  BY DEF SessionInit, Paired
<1>6. handled = <<>>
  BY DEF SessionInit
<1>7. HandledOK
  BY <1>6 DEF HandledOK
<1>. QED
  BY <1>1, <1>2, <1>3, <1>4, <1>5, <1>7 DEF SessionInv, TypeInv

-----------------------------------------------------------------------------
(* The types. *)

LEMMA ControlKeeps == ControlTypes /\ [SessionNext]_sessionVars => ControlTypes'
<1>. SUFFICES ASSUME ControlTypes, [SessionNext]_sessionVars PROVE ControlTypes'
  OBVIOUS
<1>. USE DEF ControlTypes, caller, turns, others, Goto,
             Raise, NextPass
<1>1. CASE SessionThread
  <2>. USE DEF SessionThread
  <2>1. CASE StartLoop \/ Connect \/ SendOn
    BY <2>1 DEF StartLoop, Connect, SendOn
  <2>2. CASE BothEnd \/ RecordError \/ Finally \/ CloseLoop
    BY <2>2 DEF BothEnd, RecordError, Finally, CloseLoop
  <2>. QED
    BY <1>1, <2>1, <2>2
<1>2. CASE Service
  <2>1. CASE ConnectionEnds \/ ConnectionBreaks
          \/ SessionUpdated \/ SpeechStarted
    BY <2>1 DEF ConnectionEnds, ConnectionBreaks,
                SessionUpdated, SpeechStarted
  <2>2. CASE SpeechStopped \/ Completed
          \/ Failed \/ ErrorEvent
    BY <2>2 DEF SpeechStopped, Completed, Failed, ErrorEvent
  <2>. QED
    BY <1>2, <2>1, <2>2 DEF Service
<1>3. CASE Main
  <2>1. CASE WaitTransport \/ TestReady
          \/ PollStart \/ NextFrame
    BY <2>1 DEF WaitTransport, TestReady, PollStart,
                NextFrame
  <2>2. CASE SendFrame \/ PutFrame
    BY <2>2 DEF SendFrame, PutFrame
  <2>3. CASE PollRaises \/ PollChecked
    BY <2>3 DEF PollRaises, PollChecked
  <2>5. CASE GetResult
    BY <2>5 DEF GetResult
  <2>6. CASE GetEmpty \/ EndPass
    BY <2>6 DEF GetEmpty, EndPass
  <2>4. CASE Close \/ CloseConnection \/ Join
    BY <2>4 DEF Close, CloseConnection, Join
  <2>. QED
    BY <1>3, <2>1, <2>2, <2>3, <2>4, <2>5, <2>6 DEF Main
<1>4. CASE LastFrame \/ Interrupt
  BY <1>4 DEF LastFrame, Interrupt
<1>5. CASE UNCHANGED sessionVars
  BY <1>5 DEF sessionVars
<1>. QED
  BY <1>1, <1>2, <1>3, <1>4, <1>5 DEF SessionNext

LEMMA SendQueueAppend ==
  ASSUME NEW waiting \in Seq({"frame", "None"}), NEW item \in {"frame", "None"}
  PROVE  /\ Append(waiting, item) \in Seq({"frame", "None"})
         /\ Len(Append(waiting, item)) = Len(waiting) + 1
         /\ Len(waiting) \in Nat
  BY AppendProperties, LenProperties

\* A thread that has given up does not come back, so that one None is all that
\* is put into the queue after the last frame.
LEMMA BoundedKeeps ==
  ASSUME ControlTypes, Bounded, [SessionNext]_sessionVars
  PROVE  Bounded'
<1>. USE DEF Bounded, Listening, caller, turns, others,
             Goto, Raise
<1>0. Len(send_queue) \in Nat
  BY LenProperties
<1>1. ASSUME UNCHANGED <<main, drains, send_queue>> PROVE Bounded'
  BY <1>1
<1>2. ASSUME UNCHANGED <<drains, send_queue>>, Listening \/ main' # "close",
             ~Listening => main' \in {"close_ws", "join", "exit"}
      PROVE  Bounded'
  BY <1>2
<1>3. CASE SendOn
  <2>1. /\ Tail(send_queue) \in Seq({"frame", "None"})
        /\ Len(Tail(send_queue)) = Len(send_queue) - 1
    BY <1>3, HeadTailProperties DEF SendOn
  <2>. QED
    BY <1>0, <1>3, <2>1, Bounds DEF SendOn
<1>4. CASE SessionThread /\ ~SendOn
  BY <1>1, <1>4 DEF SessionThread, StartLoop, Connect,
                    BothEnd, RecordError, Finally,
                    CloseLoop
<1>5. CASE Service
  BY <1>1, <1>5 DEF Service, ConnectionEnds, ConnectionBreaks,
                    SessionUpdated, SpeechStarted,
                    SpeechStopped, Completed, Failed,
                    ErrorEvent
<1>6. CASE WaitTransport \/ TestReady \/ PollStart
        \/ NextFrame \/ SendFrame
  BY <1>2, <1>6 DEF WaitTransport, TestReady, PollStart,
                    NextFrame, SendFrame
<1>7. CASE PutFrame
  <2>1. CASE send_queue' = send_queue
    BY <1>2, <1>7, <2>1 DEF PutFrame
  <2>2. CASE send_queue' = Append(send_queue, "frame") /\ Len(send_queue) < MaxAudio
    BY <1>0, <1>7, <2>2, SendQueueAppend, Bounds DEF PutFrame
  <2>. QED
    BY <1>7, <2>1, <2>2 DEF PutFrame
<1>8. CASE PollChecked \/ GetResult
  BY <1>2, <1>8 DEF PollChecked, GetResult
<1>9. CASE PollRaises \/ CloseConnection \/ Join
        \/ LastFrame \/ Interrupt
  BY <1>2, <1>9 DEF PollRaises, CloseConnection, Join,
                    LastFrame, Interrupt
<1>10. CASE GetEmpty \/ EndPass
  <2>1. CASE UNCHANGED drains
    BY <1>2, <1>10, <2>1 DEF GetEmpty, EndPass, NextPass
  <2>2. CASE NextPass
    <3>1. drains < MaxDrain /\ Len(send_queue) <= MaxAudio /\ UNCHANGED send_queue
      BY <1>10 DEF GetEmpty, EndPass
    <3>. QED
      BY <1>0, <2>2, <3>1, Bounds DEF NextPass
  <2>. QED
    BY <1>10, <2>1, <2>2 DEF GetEmpty, EndPass
<1>11. CASE Close
  <2>1. CASE session = "done"
    BY <1>2, <1>11, <2>1 DEF Close
  <2>2. CASE session # "done"
    BY <1>0, <1>11, <2>2, SendQueueAppend, Bounds DEF Close
  <2>. QED
    BY <2>1, <2>2
<1>12. CASE UNCHANGED sessionVars
  BY <1>1, <1>12 DEF sessionVars
<1>. QED
  BY <1>3, <1>4, <1>5, <1>6, <1>7, <1>8, <1>9, <1>10, <1>11, <1>12 DEF SessionNext,
                                                                       Main

-----------------------------------------------------------------------------
(* The turns: most steps leave them alone, and none of these makes the queue *)
(* of errors empty for a thread that listens.                                *)

Quiet ==
  /\ UNCHANGED <<pending_turns, stopped, transcribed, results, handled>>
  /\ errors' \in Nat /\ reported' \in 0 .. MaxError
  /\ speaking' => stopped < MaxTurn
  /\ Listening' /\ errors' = 0 => Listening /\ errors = 0
  /\ Raising \/ GaveUp => Raising' \/ GaveUp'

LEMMA QuietKeeps ==
  ASSUME SessionInv, ControlTypes', Bounded', Quiet
  PROVE  SessionInv'
<1>1. TurnTypes'
  BY DEF SessionInv, TypeInv, TurnTypes, Quiet
<1>2. InOrder'
  BY DEF SessionInv, InOrder, Quiet
<1>3. Paired => Paired'
  BY DEF Paired, Quiet
<1>4. HandledOK'
  BY DEF SessionInv, HandledOK, Quiet
<1>. QED
  BY <1>1, <1>2, <1>3, <1>4 DEF SessionInv, TypeInv, Quiet

\* The turn that stops is the last one that is pending.
LEMMA SpeechStoppedKeeps ==
  ASSUME SessionInv, ControlTypes', Bounded',
         SpeechStopped
  PROVE  SessionInv'
<1>. USE DEF SessionInv, TypeInv, TurnTypes
<1>1. /\ pending_turns' = Append(pending_turns, stopped + 1)
      /\ stopped' = stopped + 1 /\ stopped < MaxTurn /\ speaking' = FALSE
      /\ UNCHANGED <<transcribed, results, handled, errors, reported, main, failed>>
  <2>1. stopped < MaxTurn
    BY Zenon DEF SpeechStopped
  <2>. QED
    BY <2>1 DEF SpeechStopped, caller
<1>2. stopped + 1 \in Turn
  BY <1>1, Bounds DEF Turn
<1>3. /\ pending_turns' \in Seq(Turn)
      /\ Len(pending_turns') = Len(pending_turns) + 1
      /\ \A i \in 1 .. Len(pending_turns) : pending_turns'[i] = pending_turns[i]
      /\ pending_turns'[Len(pending_turns) + 1] = stopped + 1
  BY <1>1, <1>2, AppendProperties
<1>4. Len(pending_turns) \in Nat
  BY LenProperties
<1>5. TurnTypes'
  BY <1>1, <1>3, <1>4, Bounds
<1>6. InOrder'
  BY <1>1 DEF InOrder
<1>7. Paired => Paired'
  <2>. SUFFICES ASSUME Paired PROVE Paired'
    OBVIOUS
  <2>1. Len(pending_turns) = stopped - transcribed
    BY DEF Paired
  <2>2. Len(pending_turns') = stopped' - transcribed'
    BY <1>1, <1>3, <2>1, Bounds
  <2>3. ASSUME NEW i \in 1 .. Len(pending_turns')
        PROVE  pending_turns'[i] = transcribed' + i
    <3>1. CASE i \in 1 .. Len(pending_turns)
      BY <1>1, <1>3, <3>1 DEF Paired
    <3>2. CASE i = Len(pending_turns) + 1
      <4>1. pending_turns'[i] = stopped + 1 /\ transcribed' = transcribed
        BY <1>1, <1>3, <3>2
      <4>2. stopped \in Nat /\ transcribed \in Nat
        BY Bounds
      <4>. QED
        BY <1>4, <2>1, <3>2, <4>1, <4>2
    <3>. QED
      BY <1>3, <1>4, <3>1, <3>2
  <2>. QED
    BY <1>1, <2>2, <2>3 DEF Paired
<1>8. HandledOK'
  BY <1>1 DEF HandledOK, Raising, GaveUp, Listening
<1>. QED
  BY <1>1, <1>5, <1>6, <1>7, <1>8 DEF Listening

\* The transcript gets the oldest pending turn, which is its own if Paired.
LEMMA CompletedKeeps ==
  ASSUME SessionInv, ControlTypes', Bounded',
         Completed
  PROVE  SessionInv'
<1>. USE DEF SessionInv, TypeInv, TurnTypes
<1>. DEFINE times == IF pending_turns = <<>> THEN 0 ELSE Head(pending_turns)
            result == [transcript |-> transcribed + 1, times |-> times]
<1>1. /\ transcribed < stopped /\ transcribed' = transcribed + 1
      /\ results' = Append(results, result)
      /\ pending_turns' = IF pending_turns = <<>> THEN <<>> ELSE Tail(pending_turns)
      /\ UNCHANGED <<stopped, speaking, handled, errors, reported, main, failed>>
  BY DEF Completed, caller
<1>2. Len(pending_turns) \in Nat /\ (pending_turns # <<>> => Len(pending_turns) > 0)
  BY EmptySeq, LenProperties
<1>3. times \in 0 .. MaxTurn
  <2>1. CASE pending_turns = <<>>
    BY <2>1, Bounds
  <2>2. CASE pending_turns # <<>>
    <3>1. Head(pending_turns) \in Turn
      BY <2>2, HeadTailProperties
    <3>. QED
      BY <2>2, <3>1, Bounds DEF Turn
  <2>. QED
    BY <2>1, <2>2
<1>4. result \in Result
  BY <1>1, <1>3, Bounds DEF Result, Turn
<1>5. /\ results' \in Seq(Result)
      /\ Len(results') = Len(results) + 1
      /\ \A i \in 1 .. Len(results) : results'[i] = results[i]
      /\ results'[Len(results) + 1] = result
  BY <1>1, <1>4, AppendProperties
<1>6. Len(results) \in Nat /\ Len(handled) \in Nat
  BY LenProperties
<1>7. pending_turns # <<>> =>
        /\ Tail(pending_turns) \in Seq(Turn)
        /\ Len(Tail(pending_turns)) = Len(pending_turns) - 1
        /\ \A i \in 1 .. Len(Tail(pending_turns)) :
             Tail(pending_turns)[i] = pending_turns[i + 1]
  BY HeadTailProperties
<1>8. TurnTypes'
  <2>1. pending_turns' \in Seq(Turn) /\ Len(pending_turns') <= stopped
    BY <1>1, <1>2, <1>7, Bounds
  <2>. QED
    BY <1>1, <1>5, <2>1, Bounds
<1>9. InOrder'
  <2>1. \A i \in 1 .. Len(results) : results[i].transcript < result.transcript
    <3>1. \A i \in 1 .. Len(results) : results[i].transcript \in Nat
      <4>1. \A i \in 1 .. Len(results) : results[i] \in Result
        BY ElementOfSeq
      <4>2. \A made \in Result : made.transcript \in Nat
        BY Bounds DEF Result, Turn
      <4>. QED
        BY <4>1, <4>2
    <3>2. result.transcript = transcribed + 1 /\ transcribed \in Nat
      BY Bounds
    <3>. QED
      BY <3>1, <3>2 DEF InOrder
  <2>2. \A i \in 1 .. Len(handled) : handled[i].transcript < result.transcript
    <3>1. \A i \in 1 .. Len(handled) : handled[i].transcript \in Nat
      <4>1. \A i \in 1 .. Len(handled) : handled[i] \in Result
        BY ElementOfSeq
      <4>2. \A made \in Result : made.transcript \in Nat
        BY Bounds DEF Result, Turn
      <4>. QED
        BY <4>1, <4>2
    <3>2. result.transcript = transcribed + 1 /\ transcribed \in Nat
      BY Bounds
    <3>. QED
      BY <3>1, <3>2 DEF InOrder
  <2>3. result.transcript = transcribed'
    BY <1>1
  <2>. HIDE DEF result
  <2>4. ASSUME NEW i \in 1 .. Len(results')
        PROVE  i \in 1 .. Len(results) \/ i = Len(results) + 1
    BY <1>5, <1>6
  <2>5. \A i \in 1 .. Len(handled) : \A j \in 1 .. Len(results') :
          handled[i].transcript < results'[j].transcript
    BY <1>5, <2>2, <2>4 DEF InOrder
  <2>6. ASSUME NEW i \in 1 .. Len(results'), NEW j \in 1 .. i - 1
        PROVE  results'[j].transcript < results'[i].transcript
    <3>1. j \in 1 .. Len(results)
      BY <1>5, <1>6
    <3>2. CASE i \in 1 .. Len(results)
      BY <1>5, <3>1, <3>2 DEF InOrder
    <3>3. CASE i = Len(results) + 1
      BY <1>5, <2>1, <3>1, <3>3
    <3>. QED
      BY <2>4, <3>2, <3>3
  <2>7. /\ \A i \in 1 .. Len(results') : results'[i].transcript <= transcribed'
        /\ \A i \in 1 .. Len(handled) : handled[i].transcript <= transcribed'
    <3>1. \A i \in 1 .. Len(results') : results'[i] \in Result
      BY <1>5, ElementOfSeq
    <3>2. \A i \in 1 .. Len(handled) : handled[i] \in Result
      BY ElementOfSeq
    <3>3. transcribed' \in Nat
      BY <1>1, Bounds
    <3>4. \A r \in Result : r.transcript \in Nat
      BY Bounds DEF Result, Turn
    <3>5. ASSUME NEW i \in 1 .. Len(results') PROVE results'[i].transcript <= transcribed'
      <4>1. CASE i \in 1 .. Len(results)
        <5>1. results'[i].transcript < transcribed'
          BY <1>5, <2>1, <2>3, <4>1
        <5>2. results'[i].transcript \in Nat
          BY <3>1, <3>4
        <5>. QED
          BY <3>3, <5>1, <5>2
      <4>2. CASE i = Len(results) + 1
        BY <1>5, <2>3, <3>3, <4>2
      <4>. QED
        BY <2>4, <4>1, <4>2
    <3>. QED
      BY <2>2, <2>3, <3>2, <3>3, <3>4, <3>5
  <2>. QED
    BY <1>1, <2>5, <2>6, <2>7 DEF InOrder
<1>10. Paired => Paired'
  <2>. SUFFICES ASSUME Paired PROVE Paired'
    OBVIOUS
  <2>1. Len(pending_turns) > 0 /\ pending_turns # <<>>
    BY <1>1, Bounds DEF Paired
  <2>2. Head(pending_turns) = transcribed + 1
    <3>1. Head(pending_turns) = pending_turns[1]
      BY <2>1
    <3>. QED
      BY <1>2, <2>1, <3>1 DEF Paired
  <2>3. result.times = result.transcript
    BY <2>1, <2>2
  <2>4. Len(pending_turns') = stopped' - transcribed'
    BY <1>1, <1>2, <1>7, <2>1, Bounds DEF Paired
  <2>5. ASSUME NEW i \in 1 .. Len(pending_turns')
        PROVE  pending_turns'[i] = transcribed' + i
    <3>1. pending_turns' = Tail(pending_turns)
      BY <1>1, <2>1
    <3>2. i \in Int /\ i + 1 \in 1 .. Len(pending_turns)
      BY <1>2, <1>7, <2>1, <3>1
    <3>3. pending_turns'[i] = transcribed + (i + 1)
      BY <1>7, <2>1, <3>1, <3>2 DEF Paired
    <3>. QED
      BY <1>1, <3>2, <3>3, Bounds
  <2>. HIDE DEF result
  <2>6. \A i \in 1 .. Len(results') : results'[i].times = results'[i].transcript
    <3>1. \A i \in 1 .. Len(results) : results'[i].times = results'[i].transcript
      BY <1>5 DEF Paired
    <3>2. \A i \in 1 .. Len(results') : i \in 1 .. Len(results) \/ i = Len(results) + 1
      BY <1>5, <1>6
    <3>. QED
      BY <1>5, <2>3, <3>1, <3>2
  <2>. QED
    BY <2>4, <2>5, <2>6 DEF Paired
<1>11. HandledOK'
  BY <1>1 DEF HandledOK, Raising, GaveUp, Listening
<1>. QED
  BY <1>1, <1>8, <1>9, <1>10, <1>11 DEF Listening

\* From here on the pairs may be wrong, but an error is queued.
LEMMA FailedKeeps ==
  ASSUME SessionInv, ControlTypes', Bounded',
         Failed
  PROVE  SessionInv'
<1>. USE DEF SessionInv, TypeInv, TurnTypes
<1>1. /\ transcribed < stopped /\ transcribed' = transcribed + 1
      /\ errors' = errors + 1
      /\ UNCHANGED <<pending_turns, stopped, speaking, handled, results, reported,
                     main, failed>>
  BY DEF Failed, caller
<1>2. TurnTypes'
  BY <1>1, Bounds
<1>3. InOrder'
  <2>1. \A r \in Result : r.transcript \in Nat
    BY Bounds DEF Result, Turn
  <2>2. /\ \A i \in 1 .. Len(results) : results[i] \in Result
        /\ \A i \in 1 .. Len(handled) : handled[i] \in Result
    BY ElementOfSeq
  <2>3. transcribed \in Nat /\ transcribed' = transcribed + 1
    BY <1>1, Bounds
  <2>4. /\ \A i \in 1 .. Len(results) : results[i].transcript <= transcribed'
        /\ \A i \in 1 .. Len(handled) : handled[i].transcript <= transcribed'
    BY <2>1, <2>2, <2>3 DEF InOrder
  <2>. QED
    BY <1>1, <2>4 DEF InOrder
<1>4. errors' # 0
  BY <1>1
<1>5. HandledOK'
  BY <1>1 DEF HandledOK, Raising, GaveUp, Listening
<1>. QED
  BY <1>1, <1>2, <1>3, <1>4, <1>5

\* The oldest result moves to the end of those handled.  If no error is
\* queued it has its own times, and if one is, the next look will find it.
LEMMA GetResultKeeps ==
  ASSUME SessionInv, ControlTypes', Bounded',
         GetResult
  PROVE  SessionInv'
<1>. USE DEF SessionInv, TypeInv, TurnTypes
<1>. DEFINE result == Head(results)
<1>0. /\ main \in {"poll_get", "drain_get"} /\ main' \in {"poll", "drain"}
      /\ UNCHANGED errors
  BY DEF GetResult, Goto, others
<1>1. /\ results # <<>>
      /\ results' = Tail(results) /\ handled' = Append(handled, result)
      /\ UNCHANGED <<reported, turns>> /\ errors' \in Nat
  BY DEF GetResult, others
<1>2. Len(results) \in Nat \ {0} /\ Len(handled) \in Nat
  BY <1>1, EmptySeq, LenProperties
<1>3. result \in Result /\ result = results[1]
  BY <1>1, <1>2, ElementOfSeq
<1>4. /\ results' \in Seq(Result) /\ Len(results') = Len(results) - 1
      /\ \A i \in 1 .. Len(results') : results'[i] = results[i + 1]
  BY <1>1, HeadTailProperties
<1>5. \A i \in 1 .. Len(results') : i + 1 \in 1 .. Len(results) /\ 1 \in 1 .. (i + 1) - 1
  BY <1>2, <1>4
<1>. HIDE DEF result
<1>6. /\ handled' \in Seq(Result) /\ Len(handled') = Len(handled) + 1
      /\ \A i \in 1 .. Len(handled) : handled'[i] = handled[i]
      /\ handled'[Len(handled) + 1] = result
  BY <1>1, <1>3, AppendProperties
<1>7. \A i \in 1 .. Len(handled') : i \in 1 .. Len(handled) \/ i = Len(handled) + 1
  BY <1>2, <1>6
<1>8. TurnTypes'
  BY <1>1, <1>4, <1>6 DEF turns
<1>9. 1 \in 1 .. Len(results)
  BY <1>2
<1>10. InOrder'
  <2>1. ASSUME NEW i \in 1 .. Len(handled'), NEW j \in 1 .. i - 1
        PROVE  handled'[j].transcript < handled'[i].transcript
    <3>1. j \in 1 .. Len(handled)
      BY <1>2, <1>6
    <3>2. CASE i \in 1 .. Len(handled)
      BY <1>6, <3>1, <3>2 DEF InOrder
    <3>3. CASE i = Len(handled) + 1
      BY <1>3, <1>6, <1>9, <3>1, <3>3 DEF InOrder
    <3>. QED
      BY <1>7, <3>2, <3>3
  <2>2. ASSUME NEW i \in 1 .. Len(handled'), NEW j \in 1 .. Len(results')
        PROVE  handled'[i].transcript < results'[j].transcript
    <3>1. CASE i \in 1 .. Len(handled)
      BY <1>4, <1>5, <1>6, <3>1 DEF InOrder
    <3>2. CASE i = Len(handled) + 1
      BY <1>3, <1>4, <1>5, <1>6, <3>2 DEF InOrder
    <3>. QED
      BY <1>7, <3>1, <3>2
  <2>3. ASSUME NEW i \in 1 .. Len(results'), NEW j \in 1 .. i - 1
        PROVE  results'[j].transcript < results'[i].transcript
    <3>1. /\ j \in 1 .. Len(results') /\ j + 1 \in 1 .. (i + 1) - 1
          /\ i + 1 \in 1 .. Len(results)
      BY <1>2, <1>4, <1>5
    <3>. QED
      BY <1>4, <3>1 DEF InOrder
  <2>4. \A i \in 1 .. Len(results') : results'[i].transcript <= transcribed'
    BY <1>1, <1>4, <1>5 DEF InOrder, turns
  <2>5. \A i \in 1 .. Len(handled') : handled'[i].transcript <= transcribed'
    BY <1>1, <1>3, <1>6, <1>7, <1>9 DEF InOrder, turns
  <2>. QED
    BY <2>1, <2>2, <2>3, <2>4, <2>5 DEF InOrder
<1>11. Listening /\ ~Raising /\ ~GaveUp
  BY <1>0 DEF Listening, Raising, GaveUp
<1>12. \A i \in 1 .. Len(handled) : handled'[i].times = handled'[i].transcript
  BY <1>6, <1>11 DEF HandledOK
<1>13. CASE errors = 0
  <2>1. Paired
    BY <1>11, <1>13
  <2>2. result.times = result.transcript
    BY <1>3, <1>9, <2>1 DEF Paired
  <2>3. HandledOK'
    BY <1>6, <1>7, <1>12, <2>2 DEF HandledOK
  <2>4. \A i \in 1 .. Len(results') : results'[i].times = results'[i].transcript
    BY <1>4, <1>5, <2>1 DEF Paired
  <2>5. Paired'
    BY <1>1, <2>1, <2>4 DEF Paired, turns
  <2>. QED
    BY <1>8, <1>10, <2>3, <2>5
<1>14. CASE errors # 0
  <2>1. Raising' /\ errors' # 0
    <3>1. errors' = errors /\ errors \in Nat
      BY <1>0
    <3>2. errors' > 0
      BY <1>14, <3>1
    <3>. QED
      BY <1>0, <3>1, <3>2 DEF Raising
  <2>2. HandledOK'
    BY <1>6, <1>7, <1>12, <2>1 DEF HandledOK
  <2>. QED
    BY <1>8, <1>10, <2>1, <2>2
<1>. QED
  BY <1>13, <1>14

LEMMA NextSessionInv ==
  ASSUME SessionInv, [SessionNext]_sessionVars
  PROVE  SessionInv'
<1>1. ControlTypes' /\ Bounded'
  BY ControlKeeps, BoundedKeeps DEF SessionInv, TypeInv
<1>2. ASSUME Quiet PROVE SessionInv'
  BY <1>1, <1>2, QuietKeeps
<1>3. /\ errors \in Nat /\ reported \in 0 .. MaxError /\ MaxError \in Nat
      /\ speaking => stopped < MaxTurn
  BY Bounds DEF SessionInv, TypeInv, TurnTypes
<1>. USE DEF Quiet, Listening, Raising, GaveUp, caller, turns, others,
             Goto, Raise, NextPass
<1>4. CASE SessionThread
  BY <1>2, <1>3, <1>4 DEF SessionThread, StartLoop, Connect,
                          SendOn, BothEnd, RecordError,
                          Finally, CloseLoop
<1>5. CASE ConnectionEnds \/ ConnectionBreaks
        \/ SessionUpdated \/ SpeechStarted
  BY <1>2, <1>3, <1>5 DEF ConnectionEnds, ConnectionBreaks,
                          SessionUpdated, SpeechStarted
<1>6. CASE SpeechStopped
  BY <1>1, <1>6, SpeechStoppedKeeps
<1>7. CASE Completed
  BY <1>1, <1>7, CompletedKeeps
<1>8. CASE Failed
  BY <1>1, <1>8, FailedKeeps
<1>9. CASE ErrorEvent
  BY <1>2, <1>3, <1>9 DEF ErrorEvent
<1>10. CASE WaitTransport \/ TestReady
         \/ PollStart \/ NextFrame
  BY <1>2, <1>3, <1>10 DEF WaitTransport, TestReady, PollStart,
                           NextFrame
<1>11. CASE SendFrame \/ PutFrame
  BY <1>2, <1>3, <1>11 DEF SendFrame, PutFrame
<1>12. CASE GetResult
  BY <1>1, <1>12, GetResultKeeps
<1>13. CASE PollRaises \/ PollChecked \/ GetEmpty \/ EndPass
  <2>1. CASE PollRaises
    <3>1. failed' /\ ~Listening'
      BY <2>1 DEF PollRaises
    <3>2. /\ UNCHANGED <<pending_turns, stopped, transcribed, results, handled>>
          /\ UNCHANGED <<reported, speaking>>
      BY <2>1 DEF PollRaises
    <3>3. errors' \in Nat
      <4>1. errors > 0 /\ errors' = errors - 1
        BY <2>1 DEF PollRaises
      <4>. QED
        BY <1>3, <4>1
    <3>. QED
      BY <1>2, <1>3, <3>1, <3>2, <3>3
  <2>2. CASE PollChecked
    <3>1. ~Raising /\ Listening /\ errors = 0
      BY <1>3, <2>2 DEF PollChecked
    <3>2. /\ UNCHANGED <<pending_turns, stopped, transcribed, results, handled>>
          /\ UNCHANGED <<reported, speaking, errors>>
      BY <2>2 DEF PollChecked
    <3>. QED
      BY <1>2, <1>3, <3>1, <3>2
  <2>3. CASE GetEmpty
    BY <1>2, <1>3, <2>3 DEF GetEmpty
  <2>4. CASE EndPass
    BY <1>2, <1>3, <2>4 DEF EndPass
  <2>. QED
    BY <1>13, <2>1, <2>2, <2>3, <2>4
<1>14. CASE Close \/ CloseConnection \/ Join
  BY <1>2, <1>3, <1>14 DEF Close, CloseConnection, Join
<1>15. CASE LastFrame \/ Interrupt
  BY <1>2, <1>3, <1>15 DEF LastFrame, Interrupt
<1>16. CASE UNCHANGED sessionVars
  BY <1>2, <1>3, <1>16 DEF sessionVars
<1>. QED
  BY <1>4, <1>5, <1>6, <1>7, <1>8, <1>9, <1>10, <1>11, <1>12, <1>13, <1>14, <1>15, <1>16
     DEF SessionNext, Service, Main

\* The variables stay in their types and the queues in their bounds.
THEOREM SessionTypes == SessionSpec => []SessionTypeOK
<1>1. SessionInv => SessionTypeOK
  <2>. SUFFICES ASSUME SessionInv PROVE SessionTypeOK
    OBVIOUS
  <2>1. ControlTypes /\ Bounded /\ TurnTypes
    BY DEF SessionInv, TypeInv
  <2>2. {results, handled} \subseteq Seq([transcript : 1 .. MaxTurn, times : 0 .. MaxTurn])
    BY <2>1 DEF TurnTypes, Result, Turn
  <2>3. {sender, receiver} \subseteq {"running", "ended"}
    BY <2>1 DEF ControlTypes
  <2>4. {failed, drained, session_ready, updated, speaking} \subseteq BOOLEAN
    BY <2>1, Zenon DEF ControlTypes
  <2>. QED
    BY <2>1, <2>2, <2>3, <2>4 DEF SessionTypeOK, ControlTypes, Bounded, TurnTypes, Turn
<1>2. SessionInit => SessionInv
  BY InitSessionInv
<1>3. SessionInv /\ [SessionNext]_sessionVars => SessionInv'
  BY NextSessionInv
<1>. QED
  BY <1>1, <1>2, <1>3, PTL DEF SessionSpec

\* At most the last transcript that is acted upon carries the times of another
\* turn, with an error waiting or raised, and none is acted upon twice or out of
\* order (poll_result, handle_asr_result).
THEOREM TranscriptsPaired == SessionSpec => []TranscriptOfItsTurn
<1>1. SessionInv => TranscriptOfItsTurn
  <2>. SUFFICES ASSUME SessionInv PROVE TranscriptOfItsTurn
    OBVIOUS
  <2>1. DOMAIN handled = 1 .. Len(handled)
    BY LenProperties DEF SessionInv, TypeInv, TurnTypes
  <2>. QED
    BY <2>1 DEF SessionInv, InOrder, HandledOK, Raising, GaveUp, TimesOfItsTurn, TranscriptOfItsTurn
<1>2. SessionInit => SessionInv
  BY InitSessionInv
<1>3. SessionInv /\ [SessionNext]_sessionVars => SessionInv'
  BY NextSessionInv
<1>. QED
  BY <1>1, <1>2, <1>3, PTL DEF SessionSpec

-----------------------------------------------------------------------------
(* The bridge, for every depth of the subscription, every length of the      *)
(* sleep and every number of Twists: a stand-up is followed by BalanceStand  *)
(* before anything else, and the newest Twist prevails.                      *)
(*                                                                          *)
(* The inductive part (Numbered) is that the queue holds the newest Twists,  *)
(* without a gap, and that all requests are for older ones.                  *)

Number == Nat \ {0}
Twist == [kind : Kind, n : Number]
SportRequest == [api : Api, n : Number]

BridgeTypes ==
  /\ count \in Nat /\ asleep \in Nat
  /\ queue \in Seq(Twist)
  /\ requests \in Seq(SportRequest)

\* The Twists that wait are the newest ones, up to the number last.
Newest(twists, last) ==
  /\ Len(twists) <= last
  /\ \A i \in 1 .. Len(twists) : twists[i].n = last - Len(twists) + i

\* The requests are in the order of publication and for Twists up to the number n.
Ordered(sent, n) ==
  /\ \A i \in 1 .. Len(sent) : sent[i].n <= n
  /\ \A i \in 1 .. Len(sent) : \A j \in i .. Len(sent) : sent[i].n <= sent[j].n

\* A stand-up with its BalanceStand, or with the number sleeping if it is the last.
Balanced(sent, sleeping) ==
  \A i \in 1 .. Len(sent) :
    sent[i].api = "StandUp" =>
      IF i < Len(sent)
      THEN sent[i + 1] = [api |-> "BalanceStand", n |-> sent[i].n]
      ELSE sleeping = sent[i].n

Numbered ==
  /\ Newest(queue, count)
  /\ Ordered(requests, count - Len(queue))
  /\ asleep # 0 => requests # <<>> /\ requests[Len(requests)].n = asleep
  /\ count > 0 /\ queue = <<>> =>
       requests # <<>> /\ requests[Len(requests)].n = count

BridgeInv == BridgeTypes /\ Numbered /\ Balanced(requests, asleep)

-----------------------------------------------------------------------------
LEMMA NumbersOfRequests ==
  ASSUME NEW sent \in Seq(SportRequest)
  PROVE  \A i \in 1 .. Len(sent) : sent[i].n \in Nat \ {0}
<1>1. \A i \in 1 .. Len(sent) : sent[i] \in SportRequest
  BY ElementOfSeq
<1>. QED
  BY <1>1 DEF SportRequest, Number

LEMMA NewestAppend ==
  ASSUME NEW twists \in Seq(Twist), NEW last \in Nat, Newest(twists, last),
         NEW twist \in Twist, twist.n = last + 1
  PROVE  Newest(Append(twists, twist), last + 1)
<1>1. /\ Len(Append(twists, twist)) = Len(twists) + 1
      /\ \A i \in 1 .. Len(twists) : Append(twists, twist)[i] = twists[i]
      /\ Append(twists, twist)[Len(twists) + 1] = twist
  BY AppendProperties
<1>2. Len(twists) \in Nat
  BY LenProperties
<1>. QED
  BY <1>1, <1>2 DEF Newest

LEMMA NewestTail ==
  ASSUME NEW twists \in Seq(Twist), NEW last \in Nat, Newest(twists, last),
         twists # <<>>
  PROVE  /\ Newest(Tail(twists), last)
         /\ Tail(twists) \in Seq(Twist)
         /\ Len(Tail(twists)) = Len(twists) - 1
         /\ Head(twists) \in Twist
         /\ Head(twists).n = last - Len(twists) + 1
<1>1. Len(twists) \in Nat \ {0}
  BY EmptySeq
<1>2. /\ Tail(twists) \in Seq(Twist)
      /\ Len(Tail(twists)) = Len(twists) - 1
      /\ \A i \in 1 .. Len(Tail(twists)) : Tail(twists)[i] = twists[i + 1]
  BY HeadTailProperties
<1>3. Head(twists) = twists[1] /\ twists[1] \in Twist
  BY <1>1, ElementOfSeq
<1>4. Head(twists).n = last - Len(twists) + 1
  BY <1>1, <1>3 DEF Newest
<1>5. Newest(Tail(twists), last)
  <2>1. \A i \in 1 .. Len(Tail(twists)) : i + 1 \in 1 .. Len(twists)
    BY <1>1, <1>2
  <2>2. \A i \in 1 .. Len(Tail(twists)) :
          Tail(twists)[i].n = last - Len(twists) + (i + 1)
    BY <1>2, <2>1 DEF Newest
  <2>. QED
    BY <1>1, <1>2, <2>2 DEF Newest
<1>. QED
  BY <1>2, <1>3, <1>4, <1>5

LEMMA OrderedAppend ==
  ASSUME NEW sent \in Seq(SportRequest), NEW n \in Nat, NEW m \in Nat, n <= m,
         Ordered(sent, n), NEW request \in SportRequest, request.n <= m,
         \A i \in 1 .. Len(sent) : sent[i].n <= request.n
  PROVE  Ordered(Append(sent, request), m)
<1>1. /\ Len(Append(sent, request)) = Len(sent) + 1
      /\ \A i \in 1 .. Len(sent) : Append(sent, request)[i] = sent[i]
      /\ Append(sent, request)[Len(sent) + 1] = request
  BY AppendProperties
<1>2. Len(sent) \in Nat /\ \A i \in 1 .. Len(sent) : sent[i].n \in Nat
  BY LenProperties, NumbersOfRequests
<1>3. request.n \in Nat
  BY DEF SportRequest, Number
<1>. DEFINE s == Append(sent, request)
<1>4. ASSUME NEW i \in 1 .. Len(s), NEW j \in i .. Len(s) PROVE s[i].n <= s[j].n
  <2>1. CASE j <= Len(sent)
    BY <1>1, <1>2, <2>1 DEF Ordered
  <2>2. CASE i <= Len(sent) /\ j = Len(sent) + 1
    BY <1>1, <1>2, <2>2
  <2>3. CASE i = Len(sent) + 1 /\ j = Len(sent) + 1
    BY <1>1, <1>3, <2>3
  <2>. QED
    BY <1>1, <1>2, <2>1, <2>2, <2>3
<1>5. ASSUME NEW i \in 1 .. Len(s) PROVE s[i].n <= m
  <2>1. CASE i <= Len(sent)
    BY <1>1, <1>2, <1>3, <1>5, <2>1 DEF Ordered
  <2>2. CASE i = Len(sent) + 1
    BY <1>1, <2>2
  <2>. QED
    BY <1>1, <1>2, <1>5, <2>1, <2>2
<1>. QED
  BY <1>4, <1>5 DEF Ordered

\* With nobody asleep no stand-up is last, so that anything may follow.
LEMMA BalancedAppend ==
  ASSUME NEW sent \in Seq(SportRequest), NEW sleeping \in Nat, NEW after \in Nat,
         Balanced(sent, sleeping), NEW request \in SportRequest,
         \/ sleeping = 0
         \/ request = [api |-> "BalanceStand", n |-> sleeping],
         request.api = "StandUp" => after = request.n
  PROVE  Balanced(Append(sent, request), after)
<1>1. /\ Len(Append(sent, request)) = Len(sent) + 1
      /\ \A i \in 1 .. Len(sent) : Append(sent, request)[i] = sent[i]
      /\ Append(sent, request)[Len(sent) + 1] = request
  BY AppendProperties
<1>2. Len(sent) \in Nat /\ \A i \in 1 .. Len(sent) : sent[i].n \in Nat \ {0}
  BY LenProperties, NumbersOfRequests
<1>. DEFINE s == Append(sent, request)
<1>3. ASSUME NEW i \in 1 .. Len(s), s[i].api = "StandUp"
      PROVE  IF i < Len(s)
             THEN s[i + 1] = [api |-> "BalanceStand", n |-> s[i].n]
             ELSE after = s[i].n
  <2>1. CASE i < Len(sent)
    BY <1>1, <1>2, <1>3, <2>1 DEF Balanced
  <2>2. CASE i = Len(sent)
    <3>. HIDE DEF s
    <3>1. i \in 1 .. Len(sent) /\ s[i] = sent[i]
      <4>1. i \in 1 .. Len(sent)
        BY <1>2, <1>3, <2>2
      <4>. QED
        BY <1>1, <4>1 DEF s
    <3>2. sent[i].api = "StandUp" /\ sleeping = sent[i].n
      <4>1. sent[i].api = "StandUp" /\ ~(i < Len(sent))
        BY <1>2, <1>3, <2>2, <3>1
      <4>. QED
        BY <3>1, <4>1 DEF Balanced
    <3>. QED
      BY <1>1, <1>2, <2>2, <3>1, <3>2 DEF s
  <2>3. CASE i = Len(sent) + 1
    BY <1>1, <1>2, <1>3, <2>3
  <2>. QED
    BY <1>1, <1>2, <1>3, <2>1, <2>2, <2>3
<1>. QED
  BY <1>3 DEF Balanced

-----------------------------------------------------------------------------
LEMMA InitBridgeInv == BridgeInit => BridgeInv
<1>. SUFFICES ASSUME BridgeInit PROVE BridgeInv
  OBVIOUS
<1>1. count = 0 /\ asleep = 0 /\ queue = <<>> /\ requests = <<>>
  BY DEF BridgeInit
<1>2. BridgeTypes
  BY <1>1 DEF BridgeTypes
<1>3. Numbered
  BY <1>1 DEF Numbered, Newest, Ordered
<1>4. Balanced(requests, asleep)
  BY <1>1 DEF Balanced
<1>. QED
  BY <1>2, <1>3, <1>4 DEF BridgeInv

\* A full queue loses its oldest Twist, and the newest comes last.
LEMMA PublishKeeps ==
  ASSUME BridgeInv,
         NEW kind \in Kind, Publish(kind),
         UNCHANGED <<asleep, requests>>
  PROVE  BridgeInv'
<1>. DEFINE twist == [kind |-> kind, n |-> count + 1]
            kept == IF Len(queue) < Depth THEN queue ELSE Tail(queue)
<1>. USE DEF BridgeInv, BridgeTypes
<1>1. twist \in Twist /\ twist.n = count + 1
  BY DEF Twist, Number
<1>2. Len(queue) \in Nat /\ Depth \in Nat \ {0}
  BY LenProperties, BridgeAssumption DEF BridgeAssumption
<1>3. kept \in Seq(Twist) /\ Newest(kept, count) /\ Len(kept) <= Len(queue)
  <2>1. CASE Len(queue) < Depth
    BY <1>2, <2>1 DEF Numbered
  <2>2. CASE ~(Len(queue) < Depth)
    <3>1. queue # <<>>
      BY <1>2, <2>2, EmptySeq
    <3>. QED
      BY <1>2, <2>2, <3>1, NewestTail DEF Numbered
  <2>. QED
    BY <2>1, <2>2
<1>4. count' = count + 1 /\ queue' = Append(kept, twist)
  BY DEF Publish, Deliver
<1>5. /\ queue' \in Seq(Twist) /\ queue' # <<>>
      /\ Len(queue') = Len(kept) + 1
  BY <1>1, <1>3, <1>4, AppendProperties
<1>6. Newest(queue', count')
  BY <1>1, <1>3, <1>4, NewestAppend
<1>7. Ordered(requests, count' - Len(queue'))
  <2>1. Len(kept) \in Nat
    BY <1>3, LenProperties
  <2>2. count - Len(queue) <= count' - Len(queue')
    <3>. HIDE DEF kept
    <3>1. count' = count + 1 /\ Len(queue') = Len(kept) + 1
      BY <1>4, <1>5
    <3>. QED
      BY <1>2, <1>3, <2>1, <3>1
  <2>3. \A i \in 1 .. Len(requests) : requests[i].n \in Nat
    BY NumbersOfRequests DEF BridgeInv, BridgeTypes
  <2>4. count' - Len(queue') \in Int /\ count - Len(queue) \in Int
    BY <1>2, <1>4, <1>5, <2>1
  <2>. QED
    BY <2>2, <2>3, <2>4 DEF Numbered, Ordered
<1>8. Numbered'
  BY <1>5, <1>6, <1>7 DEF Numbered
<1>. QED
  BY <1>4, <1>5, <1>8

\* The request for the Twist whose turn it is goes out while nobody is asleep.
LEMMA CallbackKeeps ==
  ASSUME BridgeInv, Callback
  PROVE  BridgeInv'
<1>. USE DEF BridgeInv, BridgeTypes
<1>. DEFINE twist == Head(queue)
<1>1. /\ asleep = 0 /\ queue # <<>> /\ queue' = Tail(queue) /\ count' = count
      /\ asleep' = IF twist.kind = "up" THEN twist.n ELSE 0
  BY DEF Callback
<1>2. /\ Newest(queue', count') /\ queue' \in Seq(Twist)
      /\ Len(queue') = Len(queue) - 1
      /\ twist \in Twist /\ twist.n = count - Len(queue) + 1
  BY <1>1, NewestTail DEF Numbered
<1>3. Len(queue) \in Nat \ {0} /\ Len(queue) <= count
  BY <1>1, EmptySeq DEF Numbered, Newest
<1>4. PICK request \in SportRequest :
        /\ requests' = Append(requests, request)
        /\ request.n = twist.n
        /\ request.api = "StandUp" => twist.kind = "up"
  <2>1. twist.n \in Number /\ twist.kind \in {"move", "up", "down"}
    BY <1>2 DEF Twist, Kind
  <2>. DEFINE for(api) == [api |-> api, n |-> twist.n]
  <2>2. CASE twist.kind = "move"
    <3>1. for("Move") \in SportRequest /\ for("Move").n = twist.n /\ for("Move").api = "Move"
      BY <2>1 DEF SportRequest, Api
    <3>2. requests' = Append(requests, for("Move"))
      BY <2>2 DEF Callback, Request
    <3>. QED
      BY <3>1, <3>2
  <2>3. CASE twist.kind = "down"
    <3>1. /\ for("StandDown") \in SportRequest /\ for("StandDown").n = twist.n
          /\ for("StandDown").api = "StandDown"
      BY <2>1 DEF SportRequest, Api
    <3>2. requests' = Append(requests, for("StandDown"))
      BY <2>3 DEF Callback, Request
    <3>. QED
      BY <3>1, <3>2
  <2>4. CASE twist.kind = "up"
    <3>1. for("StandUp") \in SportRequest /\ for("StandUp").n = twist.n
      BY <2>1 DEF SportRequest, Api
    <3>2. requests' = Append(requests, for("StandUp"))
      BY <2>4 DEF Callback, Request
    <3>. QED
      BY <2>4, <3>1, <3>2
  <2>. QED
    BY <2>1, <2>2, <2>3, <2>4
<1>5. request.n = count' - Len(queue') /\ request.n \in Nat \ {0}
  BY <1>1, <1>2, <1>3, <1>4 DEF SportRequest, Number
<1>6. asleep' \in Nat
  BY <1>1, <1>2 DEF Twist, Number
<1>7. /\ requests' \in Seq(SportRequest) /\ requests' # <<>>
      /\ Len(requests') = Len(requests) + 1
      /\ requests'[Len(requests')] = request
  BY <1>4, AppendProperties
<1>8. Ordered(requests', count' - Len(queue'))
  <2>1. /\ count - Len(queue) \in Nat
        /\ count - Len(queue) <= request.n
    <3>1. request.n = count - Len(queue) + 1
      BY <1>2, <1>4
    <3>. QED
      BY <1>3, <3>1
  <2>2. \A i \in 1 .. Len(requests) : requests[i].n <= request.n
    <3>1. \A i \in 1 .. Len(requests) : requests[i].n \in Nat
      BY NumbersOfRequests DEF BridgeInv, BridgeTypes
    <3>. QED
      BY <1>5, <2>1, <3>1 DEF Numbered, Ordered
  <2>3. Ordered(requests, count - Len(queue))
    BY DEF Numbered
  <2>4. Ordered(Append(requests, request), request.n)
    BY <1>5, <2>1, <2>2, <2>3, OrderedAppend
  <2>. QED
    BY <1>4, <1>5, <2>4
<1>9. Balanced(requests', asleep')
  <2>1. request.api = "StandUp" => asleep' = request.n
    BY <1>1, <1>4
  <2>. QED
    BY <1>1, <1>4, <1>6, <2>1, BalancedAppend
<1>10. count' > 0 /\ queue' = <<>> => request.n = count'
  <2>1. count' \in Nat
    BY <1>1
  <2>2. queue' = <<>> => Len(queue') = 0
    OBVIOUS
  <2>3. Len(queue') = 0 => request.n = count' - 0
    BY <1>5, Zenon
  <2>. QED
    BY <2>1, <2>2, <2>3
<1>11. asleep' # 0 => request.n = asleep'
  BY <1>1, <1>4
<1>. QED
  BY <1>1, <1>2, <1>6, <1>7, <1>8, <1>9, <1>10, <1>11 DEF Numbered

\* The BalanceStand is for the stand-up that was the last request.
LEMMA BalanceStandKeeps ==
  ASSUME BridgeInv, BalanceStand
  PROVE  BridgeInv'
<1>. USE DEF BridgeInv, BridgeTypes
<1>. DEFINE request == [api |-> "BalanceStand", n |-> asleep]
            older == count - Len(queue)
<1>1. /\ asleep # 0 /\ asleep' = 0 /\ count' = count /\ queue' = queue
      /\ requests' = Append(requests, request)
  BY DEF BalanceStand, Request
<1>2. request \in SportRequest
  BY <1>1 DEF SportRequest, Number, Api
<1>3. /\ requests' \in Seq(SportRequest) /\ requests' # <<>>
      /\ requests'[Len(requests')] = request
  BY <1>1, <1>2, AppendProperties
<1>4. older \in Nat
  BY LenProperties DEF Numbered, Newest
<1>5. requests # <<>> /\ requests[Len(requests)].n = asleep
  BY <1>1 DEF Numbered
<1>6. Len(requests) \in Nat \ {0}
  BY <1>5, EmptySeq
<1>7. \A i \in 1 .. Len(requests) : requests[i].n <= asleep
  BY <1>5, <1>6 DEF Numbered, Ordered
<1>8. Ordered(requests', older)
  <2>1. asleep <= older
    BY <1>5, <1>6 DEF Numbered, Ordered
  <2>2. Ordered(requests, older) /\ request.n = asleep
    BY DEF Numbered
  <2>. HIDE DEF request, older
  <2>. QED
    BY <1>1, <1>2, <1>4, <1>7, <2>1, <2>2, OrderedAppend
<1>9. Balanced(requests', asleep')
  BY <1>1, <1>2, BalancedAppend
<1>10. count' > 0 /\ queue' = <<>> => request.n = count'
  BY <1>1, <1>5 DEF Numbered
<1>. QED
  BY <1>1, <1>3, <1>8, <1>9, <1>10 DEF Numbered

LEMMA NextBridgeInv ==
  ASSUME BridgeInv, [BridgeNext]_bridgeVars
  PROVE  BridgeInv'
<1>. DEFINE same == UNCHANGED <<count, asleep, queue, requests>>
<1>1. ASSUME same PROVE BridgeInv'
  BY <1>1 DEF BridgeInv, BridgeTypes, Numbered, Newest, Ordered, Balanced
<1>2. CASE Tick
  BY <1>1, <1>2 DEF Tick
<1>3. CASE Command
  BY <1>3, PublishKeeps DEF Command, Kind
<1>4. CASE OtherPublisher
  BY <1>4, PublishKeeps DEF OtherPublisher
<1>5. CASE Callback
  BY <1>5, CallbackKeeps
<1>6. CASE BalanceStand
  BY <1>6, BalanceStandKeeps
<1>7. CASE UNCHANGED bridgeVars
  BY <1>1, <1>7 DEF bridgeVars
<1>. QED
  BY <1>2, <1>3, <1>4, <1>5, <1>6, <1>7 DEF BridgeNext

\* Nothing comes between a stand-up and its BalanceStand (cmdVelCallback, which
\* sleeps between the two).
THEOREM StandsAreBalanced == BridgeSpec => []BalanceFollowsStand
<1>1. BridgeInv => BalanceFollowsStand
  <2>. SUFFICES ASSUME BridgeInv PROVE BalanceFollowsStand
    OBVIOUS
  <2>1. DOMAIN requests = 1 .. Len(requests)
    BY LenProperties DEF BridgeInv, BridgeTypes
  <2>. QED
    BY <2>1 DEF BridgeInv, Balanced, BalanceFollowsStand
<1>2. BridgeInv /\ [BridgeNext]_bridgeVars => BridgeInv'
  BY NextBridgeInv
<1>. QED
  BY InitBridgeInv, <1>1, <1>2, PTL DEF BridgeSpec

\* The robot gets the Twists in their order and ends up with the newest one,
\* whatever the subscription had to drop while the callback slept.
THEOREM NewestTwistPrevails == BridgeSpec => []NewestPrevails
<1>1. BridgeInv => NewestPrevails
  <2>. SUFFICES ASSUME BridgeInv PROVE NewestPrevails
    OBVIOUS
  <2>1. queue # <<>> => Last(queue).n = count
    <3>1. queue # <<>> => Len(queue) \in Nat \ {0}
      BY EmptySeq DEF BridgeInv, BridgeTypes
    <3>. QED
      BY <3>1 DEF BridgeInv, BridgeTypes, Numbered, Newest, Last
  <2>2. count > 0 /\ queue = <<>> => requests # <<>> /\ Last(requests).n = count
    BY DEF BridgeInv, Numbered, Last
  <2>3. \A i \in 1 .. Len(requests) - 1 : requests[i].n <= requests[i + 1].n
    <3>1. Len(requests) \in Nat
      BY LenProperties DEF BridgeInv, BridgeTypes
    <3>2. \A i \in 1 .. Len(requests) - 1 : i \in 1 .. Len(requests) /\ i + 1 \in i .. Len(requests)
      BY <3>1
    <3>. QED
      BY <3>2 DEF BridgeInv, Numbered, Ordered
  <2>4. count > 0 => IF queue # <<>> THEN Last(queue).n = count
                                     ELSE requests # <<>> /\ Last(requests).n = count
    <3>1. CASE queue # <<>>
      BY <2>1, <3>1
    <3>2. CASE queue = <<>>
      BY <2>2, <3>2
    <3>. QED
      BY <3>1, <3>2
  <2>. QED
    BY <2>3, <2>4, Zenon DEF NewestPrevails
<1>2. BridgeInv /\ [BridgeNext]_bridgeVars => BridgeInv'
  BY NextBridgeInv
<1>. QED
  BY InitBridgeInv, <1>1, <1>2, PTL DEF BridgeSpec
=============================================================================
