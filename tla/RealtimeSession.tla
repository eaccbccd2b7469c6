--------------------------- MODULE RealtimeSession ---------------------------
(***************************************************************************)
(* The Azure backend of voice_teleop (class AzureRealtimeSession and        *)
(* main_loop_realtime of voice_teleop/node.py).  The main thread reads the  *)
(* microphone, hands frames to an asyncio loop on a thread of its own, and  *)
(* takes results and errors from two queues; on the loop a sender and a     *)
(* receiver share one connection to the service.                            *)
(*                                                                          *)
(* The service detects turns of speech and transcribes them in their order; *)
(* a transcription may fail, the service may report an error, and the       *)
(* connection may end, regularly or not, at any time.                       *)
(***************************************************************************)
EXTENDS Naturals, Sequences

CONSTANTS MaxTurn,  \* bound of the model on the turns of speech
          MaxAudio, \* bound of the model on the frames in _send_queue
          MaxError, \* bound of the model on the errors the service reports
          MaxDrain  \* 20: polls after the last frame

ASSUME SessionAssumption ==
  /\ MaxTurn \in Nat /\ MaxAudio \in Nat \ {0}
  /\ MaxError \in Nat /\ MaxDrain \in Nat \ {0}

VARIABLES
  main,           \* where the main thread is
  failed,         \* an exception was raised there
  drains,         \* passes of the loop after the last frame
  drained,        \* this pass has handled a result
  session,        \* where the session's thread is
  connection,     \* "none", "open", "closing" (ws.close was called), "closed"
  sender,         \* "running" or "ended"
  receiver,
  session_ready,
  updated,        \* session.updated was received
  send_queue,
  errors,         \* length of _errors
  reported,       \* errors the service has reported
  results,        \* _results: a transcript's turn and the turn of its times
  pending_turns,  \* _pending_turns
  speaking,       \* _speech_started_at is not None
  stopped,        \* turns that have stopped
  transcribed,    \* turns whose transcription was completed or failed
  handled         \* results given to handle_asr_result

caller == <<main, failed, drains, drained, handled>>
turns == <<pending_turns, speaking, stopped, transcribed>>
sessionVars == <<caller, session, connection, sender, receiver, session_ready, updated,
          send_queue, errors, reported, results, turns>>

SessionInit ==
  /\ main = "transport" /\ failed = FALSE /\ drains = 0 /\ drained = FALSE
  /\ handled = <<>>
  /\ session = "init" /\ connection = "none"
  /\ sender = "running" /\ receiver = "running"
  /\ session_ready = FALSE /\ updated = FALSE
  /\ send_queue = <<>> /\ errors = 0 /\ reported = 0 /\ results = <<>>
  /\ pending_turns = <<>> /\ speaking = FALSE /\ stopped = 0 /\ transcribed = 0

-----------------------------------------------------------------------------
(* The session's thread: _run_loop and _run_session. *)

StartLoop ==
  /\ session = "init"
  /\ session' = "connect"
  /\ UNCHANGED <<caller, connection, sender, receiver, session_ready, updated,
                 send_queue, errors, reported, results, turns>>

Connect ==
  /\ session = "connect"
  /\ \/ session' = "run" /\ connection' = "open"
     \/ session' = "error" /\ UNCHANGED connection
  /\ UNCHANGED <<caller, sender, receiver, session_ready, updated,
                 send_queue, errors, reported, results, turns>>

\* _sender_loop: None ends it, and sending on a closed connection raises.
SendOn ==
  /\ session = "run" /\ sender = "running"
  /\ send_queue # <<>>
  /\ send_queue' = Tail(send_queue)
  /\ sender' = IF Head(send_queue) = "None" THEN "ended" ELSE sender
  /\ session' = IF Head(send_queue) = "frame" /\ connection = "closed"
                THEN "error" ELSE session
  /\ UNCHANGED <<caller, connection, receiver, session_ready, updated,
                 errors, reported, results, turns>>

\* The service, or the completion of ws.close, ends the connection regularly:
\* the receiver's loop is over, the sender does not notice.
ConnectionEnds ==
  /\ session = "run" /\ receiver = "running"
  /\ connection' = "closed"
  /\ receiver' = "ended"
  /\ UNCHANGED <<caller, session, sender, session_ready, updated,
                 send_queue, errors, reported, results, turns>>

\* The receiver raises, and the sender is cancelled.
ConnectionBreaks ==
  /\ session = "run" /\ receiver = "running"
  /\ connection' = "closed"
  /\ session' = "error"
  /\ UNCHANGED <<caller, sender, receiver, session_ready, updated,
                 send_queue, errors, reported, results, turns>>

BothEnd ==
  /\ session = "run" /\ sender = "ended" /\ receiver = "ended"
  /\ session' = "finally"
  /\ UNCHANGED <<caller, connection, sender, receiver, session_ready, updated,
                 send_queue, errors, reported, results, turns>>

RecordError ==
  /\ session = "error"
  /\ errors' = errors + 1
  /\ session' = "finally"
  /\ UNCHANGED <<caller, connection, sender, receiver, session_ready, updated,
                 send_queue, reported, results, turns>>

Finally ==
  /\ session = "finally"
  /\ session_ready' = TRUE
  /\ session' = "shutdown"
  /\ UNCHANGED <<caller, connection, sender, receiver, updated,
                 send_queue, errors, reported, results, turns>>

CloseLoop ==
  /\ session = "shutdown"
  /\ session' = "done"
  /\ UNCHANGED <<caller, connection, sender, receiver, session_ready, updated,
                 send_queue, errors, reported, results, turns>>

-----------------------------------------------------------------------------
(* _handle_server_event *)

Receiving == session = "run" /\ receiver = "running"

SessionUpdated ==
  /\ Receiving
  /\ updated' = TRUE
  /\ session_ready' = TRUE
  /\ UNCHANGED <<caller, session, connection, sender, receiver,
                 send_queue, errors, reported, results, turns>>

SpeechStarted ==
  /\ Receiving /\ updated
  /\ ~speaking /\ stopped < MaxTurn
  /\ speaking' = TRUE
  /\ UNCHANGED <<caller, session, connection, sender, receiver, session_ready, updated,
                 send_queue, errors, reported, results, pending_turns, stopped, transcribed>>

SpeechStopped ==
  /\ Receiving
  /\ speaking
  /\ speaking' = FALSE
  /\ stopped' = stopped + 1
  /\ pending_turns' = Append(pending_turns, stopped')
  /\ UNCHANGED <<caller, session, connection, sender, receiver, session_ready, updated,
                 send_queue, errors, reported, results, transcribed>>

\* The transcript of the next turn is paired with the oldest pending turn.
Completed ==
  /\ Receiving
  /\ transcribed < stopped
  /\ transcribed' = transcribed + 1
  /\ results' = Append(results, [transcript |-> transcribed',
                                 times |-> IF pending_turns = <<>> THEN 0
                                           ELSE Head(pending_turns)])
  /\ pending_turns' = IF pending_turns = <<>> THEN <<>> ELSE Tail(pending_turns)
  /\ UNCHANGED <<caller, session, connection, sender, receiver, session_ready, updated,
                 send_queue, errors, reported, speaking, stopped>>

\* A transcription fails: its turn stays pending.
Failed ==
  /\ Receiving
  /\ transcribed < stopped
  /\ transcribed' = transcribed + 1
  /\ errors' = errors + 1
  /\ UNCHANGED <<caller, session, connection, sender, receiver, session_ready, updated,
                 send_queue, reported, results, pending_turns, speaking, stopped>>

ErrorEvent ==
  /\ Receiving
  /\ reported < MaxError
  /\ reported' = reported + 1
  /\ errors' = errors + 1
  /\ UNCHANGED <<caller, session, connection, sender, receiver, session_ready, updated,
                 send_queue, results, turns>>

-----------------------------------------------------------------------------
(* The main thread. *)

others == <<session, connection, sender, receiver, session_ready, updated, reported, turns>>

Goto(pc) == main' = pc

\* The exception leaves start, which is called outside the try block, or the
\* loop, whose finally closes the session.
Raise(pc) == failed' = TRUE /\ Goto(pc)

WaitTransport ==
  /\ main = "transport"
  /\ IF session # "init" THEN Goto("ready?") /\ UNCHANGED failed ELSE Raise("exit")
  /\ UNCHANGED <<drains, drained, handled, send_queue, errors, results, others>>

\* start: while not _session_ready
TestReady ==
  /\ main = "ready?"
  /\ Goto(IF session_ready THEN "frame" ELSE "error?")
  /\ UNCHANGED <<failed, drains, drained, handled, send_queue, errors, results, others>>

\* raise_if_error, then the deadline.
PollStart ==
  /\ main = "error?"
  /\ \/ errors > 0 /\ errors' = errors - 1 /\ Raise("exit")
     \/ errors = 0 /\ Goto("ready?") /\ UNCHANGED <<failed, errors>>
     \/ errors = 0 /\ Raise("exit") /\ UNCHANGED errors
  /\ UNCHANGED <<drains, drained, handled, send_queue, results, others>>

NextFrame ==
  /\ main = "frame"
  /\ Goto("send")
  /\ UNCHANGED <<failed, drains, drained, handled, send_queue, errors, results, others>>

\* The capture ends.
LastFrame ==
  /\ main = "frame"
  /\ Goto("drain")
  /\ UNCHANGED <<failed, drains, drained, handled, send_queue, errors, results, others>>

Interrupt ==
  /\ main = "frame"
  /\ Goto("close")
  /\ UNCHANGED <<failed, drains, drained, handled, send_queue, errors, results, others>>

\* send_audio_frame
SendFrame ==
  /\ main = "send"
  /\ \/ errors > 0 /\ errors' = errors - 1 /\ Raise("close") /\ UNCHANGED send_queue
     \/ errors = 0 /\ Goto("put") /\ UNCHANGED <<failed, errors, send_queue>>
  /\ UNCHANGED <<drains, drained, handled, results, others>>

\* call_soon_threadsafe raises if the loop is closed.
PutFrame ==
  /\ main = "put"
  /\ \/ session = "done" /\ Raise("close") /\ UNCHANGED send_queue
     \/ /\ session # "done"
        /\ Goto("poll")
        /\ send_queue' = IF Len(send_queue) < MaxAudio THEN Append(send_queue, "frame")
                                                       ELSE send_queue
        /\ UNCHANGED failed
  /\ UNCHANGED <<drains, drained, handled, errors, results, others>>

\* raise_if_error, at the beginning of poll_result and at the end of a pass
\* after the last frame that handled nothing.
PollRaises ==
  /\ main \in {"poll", "drain", "drain_end"}
  /\ errors > 0
  /\ errors' = errors - 1
  /\ Raise("close")
  /\ UNCHANGED <<drains, drained, handled, send_queue, results, others>>

\* A faulty poll_result, which does not look at the errors.
PollUnchecked ==
  /\ main \in {"poll", "drain"}
  /\ Goto(IF main = "poll" THEN "poll_get" ELSE "drain_get")
  /\ UNCHANGED <<failed, drains, drained, handled, send_queue, errors, results, others>>

\* No error is queued; the loop's thread may go on before the results are
\* looked at.
PollChecked ==
  /\ main \in {"poll", "drain"}
  /\ errors = 0
  /\ Goto(IF main = "poll" THEN "poll_get" ELSE "drain_get")
  /\ UNCHANGED <<failed, drains, drained, handled, send_queue, errors, results, others>>

\* _results.get_nowait() returns a result, and handle_asr_result acts on it.
GetResult ==
  /\ main \in {"poll_get", "drain_get"}
  /\ results # <<>>
  /\ results' = Tail(results)
  /\ handled' = Append(handled, Head(results))
  /\ drained' = (main = "drain_get")
  /\ Goto(IF main = "poll_get" THEN "poll" ELSE "drain")
  /\ UNCHANGED <<failed, drains, send_queue, errors, others>>

\* A faulty end of a pass, one pass too many.
NextPassLate ==
  /\ drains' = drains + 1
  /\ drained' = FALSE
  /\ Goto(IF drains' > MaxDrain THEN "close" ELSE "drain")

NextPass ==
  /\ drains' = drains + 1
  /\ drained' = FALSE
  /\ Goto(IF drains' = MaxDrain THEN "close" ELSE "drain")

\* poll_result returns None.
GetEmpty ==
  /\ main \in {"poll_get", "drain_get"}
  /\ results = <<>>
  /\ \/ main = "poll_get" /\ Goto("frame") /\ UNCHANGED <<drains, drained>>
     \/ main = "drain_get" /\ drained /\ NextPass
     \/ main = "drain_get" /\ ~drained /\ Goto("drain_end") /\ UNCHANGED <<drains, drained>>
  /\ UNCHANGED <<failed, handled, send_queue, errors, results, others>>

EndPass ==
  /\ main = "drain_end"
  /\ errors = 0
  /\ NextPass
  /\ UNCHANGED <<failed, handled, send_queue, errors, results, others>>

\* A faulty close, which does not stop the sender.
CloseWithoutNone ==
  /\ main = "close"
  /\ \/ session = "done" /\ Raise("exit")
     \/ session # "done" /\ Goto("close_ws") /\ UNCHANGED failed
  /\ UNCHANGED <<drains, drained, handled, send_queue, errors, results, others>>

\* close: if the loop is closed, the attempt to stop the sender raises.
Close ==
  /\ main = "close"
  /\ \/ session = "done" /\ Raise("exit") /\ UNCHANGED send_queue
     \/ /\ session # "done"
        /\ send_queue' = Append(send_queue, "None")
        /\ Goto("close_ws")
        /\ UNCHANGED failed
  /\ UNCHANGED <<drains, drained, handled, errors, results, others>>

\* ws.close is run on the loop; its outcome is waited for, up to 5 s.
CloseConnection ==
  /\ main = "close_ws"
  /\ connection' = IF session = "run" /\ connection = "open" THEN "closing" ELSE connection
  /\ Goto("join")
  /\ UNCHANGED <<failed, drains, drained, handled, send_queue, errors, results, session, sender,
                 receiver, session_ready, updated, reported, turns>>

\* The thread is joined for at most 5 s.
Join ==
  /\ main = "join"
  /\ Goto("exit")
  /\ UNCHANGED <<failed, drains, drained, handled, send_queue, errors, results, others>>

-----------------------------------------------------------------------------
SessionThread == \/ StartLoop \/ Connect \/ SendOn \/ BothEnd
                 \/ RecordError \/ Finally \/ CloseLoop

Service == \/ ConnectionEnds \/ ConnectionBreaks \/ SessionUpdated
           \/ SpeechStarted \/ SpeechStopped \/ Completed \/ Failed \/ ErrorEvent

Main == \/ WaitTransport \/ TestReady \/ PollStart
        \/ NextFrame
        \/ SendFrame \/ PutFrame
        \/ PollRaises \/ PollChecked \/ GetResult \/ GetEmpty \/ EndPass
        \/ Close \/ CloseConnection \/ Join

SessionNext == SessionThread \/ Service \/ Main \/ LastFrame \/ Interrupt

\* Both threads run, the microphone delivers frames, start has its deadline,
\* and a connection that is being closed gets closed.
SessionFairness ==
  /\ WF_sessionVars(SessionThread)
  /\ WF_sessionVars(Main)
  /\ SF_sessionVars(main = "error?" /\ main' = "exit" /\ Main)
  /\ WF_sessionVars(connection = "closing" /\ ConnectionEnds)

SessionSpec == SessionInit /\ [][SessionNext]_sessionVars
SessionFairSpec == SessionSpec /\ SessionFairness

-----------------------------------------------------------------------------
(* The variables stay in their types; after the last frame there are at most *)
(* MaxDrain passes.                                                          *)
SessionTypeOK ==
  /\ main \in {"transport", "ready?", "error?", "frame", "send", "put", "poll", "poll_get",
               "drain", "drain_get", "drain_end", "close", "close_ws", "join", "exit"}
  /\ session \in {"init", "connect", "run", "error", "finally", "shutdown", "done"}
  /\ connection \in {"none", "open", "closing", "closed"}
  /\ {sender, receiver} \subseteq {"running", "ended"}
  /\ {failed, drained, session_ready, updated, speaking} \subseteq BOOLEAN
  /\ drains \in 0 .. MaxDrain
  /\ send_queue \in Seq({"frame", "None"}) /\ Len(send_queue) <= MaxAudio + 1
  /\ errors \in Nat /\ reported \in 0 .. MaxError
  /\ pending_turns \in Seq(1 .. MaxTurn) /\ Len(pending_turns) <= stopped
  /\ stopped \in 0 .. MaxTurn /\ transcribed \in 0 .. stopped
  /\ {results, handled} \subseteq
       Seq([transcript : 1 .. MaxTurn, times : 0 .. MaxTurn])

TimesOfItsTurn(result) == result.times = result.transcript

(* A failed transcription leaves its turn in _pending_turns, so that later   *)
(* transcripts get the times of earlier turns.  At most one of them is acted *)
(* upon: one that was completed after the failure and both between the two   *)
(* looks of one poll_result, at the errors and at the results.  It is the    *)
(* last one, for the error that waits then ends the loop.  And none is acted *)
(* upon twice or before an earlier one.                                      *)
TranscriptOfItsTurn ==
  \A i \in DOMAIN handled :
    /\ \/ TimesOfItsTurn(handled[i])
       \/ i = Len(handled) /\ (errors > 0 \/ failed)
    /\ \A j \in 1 .. i - 1 : handled[j].transcript < handled[i].transcript

(* README.md:293: stt_latency_ms is the time from speech_stopped to the      *)
(* final transcript, so a transcript goes with the times of its own turn.    *)
(* The code does not keep this: see the exception above.                     *)
LatencyOfItsTurn == \A i \in DOMAIN handled : TimesOfItsTurn(handled[i])

(* A lost connection ends the node, also when it was closed regularly, which *)
(* only the next send notices; and closing ends the session's thread,        *)
(* whatever the connection did before.                                       *)
SessionEnds ==
  /\ (connection = "closed") ~> (main = "exit")
  /\ (main = "close_ws") ~> (session = "done")
=============================================================================
