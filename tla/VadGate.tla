------------------------------- MODULE VadGate -------------------------------
(***************************************************************************)
(* The energy gate that cuts the microphone stream into utterances          *)
(* (class VadGate of voice_teleop/node.py).  The classification of a frame  *)
(* as speech, by its energy against an adaptive threshold, is an input; the *)
(* frames themselves are represented by their positions in the stream.      *)
(***************************************************************************)
EXTENDS Integers, Sequences, SequencesExt

CONSTANTS StartFrames,  \* _start_frames: 3
          EndFrames,    \* _end_frames: 20
          MinFrames,    \* _min_frames: 9
          MaxFrames,    \* _max_frames: 500
          PrefixFrames, \* maxlen of _prefix: 10
          StreamLength  \* bound of the model on the frames captured

\* The order of the constants of node.py.
ASSUME VadAssumption ==
  /\ StartFrames \in Nat \ {0}
  /\ EndFrames \in Nat \ {0}
  /\ MinFrames \in Nat \ {0}
  /\ MaxFrames \in Nat
  /\ PrefixFrames \in Nat
  /\ StartFrames <= PrefixFrames
  /\ PrefixFrames < MaxFrames
  /\ MinFrames <= StartFrames + EndFrames
  /\ StartFrames + EndFrames <= MaxFrames
  /\ StreamLength \in Nat

VARIABLES
  stream,      \* stream[i]: frame i is speech
  in_speech,
  voiced_run,
  silence_run,
  prefix,      \* positions of the frames in _prefix
  buffer,      \* positions of the frames in _buffer
  utterances,  \* what push has returned, oldest first
  rejected     \* what _flush has found too short

vars == <<stream, in_speech, voiced_run, silence_run, prefix, buffer,
          utterances, rejected>>

Init ==
  /\ stream = <<>>
  /\ in_speech = FALSE
  /\ voiced_run = 0
  /\ silence_run = 0
  /\ prefix = <<>>
  /\ buffer = <<>>
  /\ utterances = <<>>
  /\ rejected = <<>>

Frame == Len(stream) + 1

\* A faulty deque, without maxlen.
AppendedAlways(s, x) == Append(s, x)

\* deque(maxlen = PrefixFrames)
Appended(s, x) == IF Len(s) < PrefixFrames THEN Append(s, x) ELSE Append(Tail(s), x)

\* A faulty start, which leaves the prefix out.
PushQuietBare(is_speech) ==
  /\ ~in_speech
  /\ prefix' = Appended(prefix, Frame)
  /\ voiced_run' = IF is_speech THEN voiced_run + 1 ELSE 0
  /\ IF voiced_run' >= StartFrames
     THEN in_speech' = TRUE /\ buffer' = <<>> /\ silence_run' = 0
     ELSE UNCHANGED <<in_speech, buffer, silence_run>>
  /\ UNCHANGED <<utterances, rejected>>

\* push outside an utterance.
PushQuiet(is_speech) ==
  /\ ~in_speech
  /\ prefix' = Appended(prefix, Frame)
  /\ voiced_run' = IF is_speech THEN voiced_run + 1 ELSE 0
  /\ IF voiced_run' >= StartFrames
     THEN in_speech' = TRUE /\ buffer' = prefix' /\ silence_run' = 0
     ELSE UNCHANGED <<in_speech, buffer, silence_run>>
  /\ UNCHANGED <<utterances, rejected>>

\* A faulty count, of all the silence in the utterance.
SilenceAfterTotal(is_speech) == IF is_speech THEN silence_run ELSE silence_run + 1

SilenceAfter(is_speech) == IF is_speech THEN 0 ELSE silence_run + 1

\* push inside an utterance that goes on.
PushSpeech(is_speech) ==
  /\ in_speech
  /\ SilenceAfter(is_speech) < EndFrames
  /\ Len(buffer) + 1 < MaxFrames
  /\ silence_run' = SilenceAfter(is_speech)
  /\ buffer' = Append(buffer, Frame)
  /\ UNCHANGED <<in_speech, voiced_run, prefix, utterances, rejected>>

\* A faulty _flush, which keeps the prefix of the utterance.
FlushKeepsPrefix(is_speech) ==
  /\ in_speech
  /\ SilenceAfter(is_speech) >= EndFrames \/ Len(buffer) + 1 >= MaxFrames
  /\ IF Len(buffer) + 1 >= MinFrames
     THEN utterances' = Append(utterances, Append(buffer, Frame)) /\ UNCHANGED rejected
     ELSE rejected' = Append(rejected, Append(buffer, Frame)) /\ UNCHANGED utterances
  /\ in_speech' = FALSE
  /\ buffer' = <<>>
  /\ voiced_run' = 0
  /\ silence_run' = 0
  /\ UNCHANGED prefix

\* push of the last frame of an utterance: _flush.
Flush(is_speech) ==
  /\ in_speech
  /\ SilenceAfter(is_speech) >= EndFrames \/ Len(buffer) + 1 >= MaxFrames
  /\ IF Len(buffer) + 1 >= MinFrames
     THEN utterances' = Append(utterances, Append(buffer, Frame)) /\ UNCHANGED rejected
     ELSE rejected' = Append(rejected, Append(buffer, Frame)) /\ UNCHANGED utterances
  /\ in_speech' = FALSE
  /\ buffer' = <<>>
  /\ prefix' = <<>>
  /\ voiced_run' = 0
  /\ silence_run' = 0

push(is_speech) ==
  /\ Len(stream) < StreamLength
  /\ stream' = Append(stream, is_speech)
  /\ PushQuiet(is_speech) \/ PushSpeech(is_speech) \/ Flush(is_speech)

Next == \E is_speech \in BOOLEAN : push(is_speech)

Spec == Init /\ [][Next]_vars

-----------------------------------------------------------------------------
(* The variables stay in their types and bounds: prefix, buffer and the      *)
(* counters of an open utterance.                                            *)
TypeOK ==
  /\ stream \in Seq(BOOLEAN) /\ Len(stream) <= StreamLength
  /\ in_speech \in BOOLEAN
  /\ voiced_run \in 0 .. StartFrames
  /\ silence_run \in 0 .. EndFrames - 1
  /\ prefix \in Seq(1 .. StreamLength) /\ Len(prefix) <= PrefixFrames
  /\ buffer \in Seq(1 .. StreamLength) /\ Len(buffer) < MaxFrames
  /\ in_speech <=> buffer # <<>>
  /\ utterances \in Seq(Seq(1 .. StreamLength))
  /\ rejected \in Seq(Seq(1 .. StreamLength))

IsInterval(s) == \A i \in 1 .. Len(s) - 1 : s[i + 1] = s[i] + 1

(* Every utterance is an unbroken piece of the stream, and no frame is in    *)
(* two of them, although the frames pass through prefix and buffer.          *)
UnbrokenAndDisjoint ==
  /\ \A u \in ToSet(utterances) : IsInterval(u)
  /\ \A i \in 1 .. Len(utterances) - 1 :
       Last(utterances[i]) < Head(utterances[i + 1])

Kept == (UNION {ToSet(u) : u \in ToSet(utterances)}) \cup ToSet(buffer)

(* No StartFrames consecutive frames of speech are all dropped, not even     *)
(* right after an utterance was cut at its maximal length.                   *)
NoSpeechDropped ==
  \A i \in 1 .. Len(stream) - StartFrames + 1 :
    LET window == i .. i + StartFrames - 1
    IN (\A f \in window : stream[f]) => window \cap Kept # {}

(* An utterance is cut at the maximal length or ends with EndFrames          *)
(* consecutive silent frames: a pause inside a phrase does not end it.       *)
EndsInSilence ==
  \A u \in ToSet(utterances) :
    \/ Len(u) = MaxFrames
    \/ Len(u) < MaxFrames /\ \A i \in Len(u) - EndFrames + 1 .. Len(u) : ~stream[u[i]]
=============================================================================
