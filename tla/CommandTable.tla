---------------------------- MODULE CommandTable ----------------------------
(***************************************************************************)
(* Commands to a lidar and their callbacks in Livox-SDK2                    *)
(* (command_handler/general_command_handler.cpp, mid360_command_handler.cpp,*)
(* comm/generate_seq.cpp).                                                  *)
(*                                                                          *)
(* A caller takes a sequence number, sends the command over UDP and enters  *)
(* it in the table commands_ of the commands that wait for an               *)
(* acknowledgement; the command that writes the host configuration is       *)
(* entered before it is sent, all others after.  The three IO threads look  *)
(* acknowledgements up in the table, and each of them also removes, from    *)
(* its timer, the commands that have waited too long.  Whoever removes a    *)
(* command calls its callback, after it has released the lock of the table. *)
(*                                                                          *)
(* UDP may lose, duplicate, delay and reorder: the lidar may answer any     *)
(* command on the wire, and any answer may arrive any number of times, also *)
(* never.                                                                   *)
(***************************************************************************)
EXTENDS Naturals, FiniteSets

CONSTANTS Command,    \* the commands sent: every retry is a command of its own
          HostConfig, \* those that write the host configuration: UpdateLidarCfg
          IOThread,   \* the threads of IOLoop
          MaxSeq,     \* UINT16_MAX
          NoCommand

\* MaxSeq commands are not outlived by the first of them: a number is free
\* again when it comes round.
ASSUME CommandAssumption ==
  /\ IsFiniteSet(Command)
  /\ HostConfig \subseteq Command
  /\ MaxSeq \in Nat \ {0}
  /\ Cardinality(Command) <= MaxSeq
  /\ NoCommand \notin Command

Seq == 1 .. MaxSeq
Status == {"Success", "Timeout", "SendFailed"}

VARIABLES
  seq,      \* the counter of GenerateSeq
  commands, \* commands_: the command entered under each number
  due,      \* commands in the table whose time_out has passed
  pc,       \* where the caller of each command is
  seq_num,  \* the number of each command, once it has one
  wire,     \* commands that left the host
  answered, \* commands the lidar has answered
  job,      \* the callbacks an IO thread is about to call
  called    \* called[c][s]: how often the callback of c got status s

vars == <<seq, commands, due, pc, seq_num, wire, answered, job, called>>

Idle == [status |-> "Success", cmds |-> {}]

Init ==
  /\ seq = 1
  /\ commands = [q \in Seq |-> NoCommand]
  /\ due = {}
  /\ pc = [c \in Command |-> "idle"]
  /\ seq_num = [c \in Command |-> 1]
  /\ wire = {}
  /\ answered = {}
  /\ job = [t \in IOThread |-> Idle]
  /\ called = [c \in Command |-> [s \in Status |-> 0]]

-----------------------------------------------------------------------------
(* Callers: SendCommand. *)

\* A faulty NextSeq, which does not wrap.
NextSeqGrows == seq + 1

\* A faulty NextSeq, which stays at its maximum.
NextSeqSticks == IF seq = MaxSeq THEN MaxSeq ELSE seq + 1

NextSeq == IF seq = MaxSeq THEN 1 ELSE seq + 1

\* A faulty AddsFirst: every command is entered after it is sent.
AddsNever(c) == FALSE

AddsFirst(c) == c \in HostConfig

GetSeq(c) ==
  /\ pc[c] = "idle"
  /\ seq' = NextSeq
  /\ seq_num' = [seq_num EXCEPT ![c] = NextSeq]
  /\ pc' = [pc EXCEPT ![c] = IF AddsFirst(c) THEN "add" ELSE "send"]
  /\ UNCHANGED <<commands, due, wire, answered, job, called>>

\* No handler for the device type: SendFailed is returned, no callback comes.
RefuseCommand(c) ==
  /\ pc[c] = "send"
  /\ ~AddsFirst(c)
  /\ pc' = [pc EXCEPT ![c] = "refused"]
  /\ UNCHANGED <<seq, commands, due, seq_num, wire, answered, job, called>>

AfterSend(c) == IF AddsFirst(c) THEN "done" ELSE "add"

SendTo(c) ==
  /\ pc[c] = "send"
  /\ wire' = wire \cup {c}
  /\ pc' = [pc EXCEPT ![c] = AfterSend(c)]
  /\ UNCHANGED <<seq, commands, due, seq_num, answered, job, called>>

\* sendto fails: the callback is called at once, and the command still is, or
\* will be, in the table.
SendToFails(c) ==
  /\ pc[c] = "send"
  /\ called' = [called EXCEPT ![c]["SendFailed"] = @ + 1]
  /\ pc' = [pc EXCEPT ![c] = AfterSend(c)]
  /\ UNCHANGED <<seq, commands, due, seq_num, wire, answered, job>>

AddCommand(c) ==
  /\ pc[c] = "add"
  /\ commands' = [commands EXCEPT ![seq_num[c]] = c]
  /\ due' = due \ {commands[seq_num[c]]}
  /\ pc' = [pc EXCEPT ![c] = IF AddsFirst(c) THEN "send" ELSE "done"]
  /\ UNCHANGED <<seq, seq_num, wire, answered, job, called>>

-----------------------------------------------------------------------------
(* The lidar, and time. *)

Answer(c) ==
  /\ c \in wire \ answered
  /\ answered' = answered \cup {c}
  /\ UNCHANGED <<seq, commands, due, pc, seq_num, wire, job, called>>

\* time_out has passed for a command in the table.
Elapse(c) ==
  /\ \E q \in Seq : commands[q] = c
  /\ due' = due \cup {c}
  /\ UNCHANGED <<seq, commands, pc, seq_num, wire, answered, job, called>>

-----------------------------------------------------------------------------
(* The IO threads. *)

\* A faulty HandleAck, which leaves the command in the table.
HandleAckKeeps(t, c) ==
  /\ job[t].cmds = {}
  /\ c \in answered
  /\ commands[seq_num[c]] # NoCommand
  /\ job' = [job EXCEPT ![t] = [status |-> "Success", cmds |-> {commands[seq_num[c]]}]]
  /\ UNCHANGED <<seq, commands, due, pc, seq_num, wire, answered, called>>

\* An acknowledgement carries the number of the command it answers and is
\* dropped if the table has no command under it.
HandleAck(t, c) ==
  /\ job[t].cmds = {}
  /\ c \in answered
  /\ commands[seq_num[c]] # NoCommand
  /\ job' = [job EXCEPT ![t] = [status |-> "Success", cmds |-> {commands[seq_num[c]]}]]
  /\ commands' = [commands EXCEPT ![seq_num[c]] = NoCommand]
  /\ due' = due \ {commands[seq_num[c]]}
  /\ UNCHANGED <<seq, pc, seq_num, wire, answered, called>>

\* A faulty CommandsHandle, which removes more than it collects.
CommandsHandleOne(t) ==
  /\ job[t].cmds = {}
  /\ \E c \in due :
       job' = [job EXCEPT ![t] = [status |-> "Timeout", cmds |-> {c}]]
  /\ commands' = [q \in Seq |-> IF commands[q] \in due THEN NoCommand ELSE commands[q]]
  /\ due' = {}
  /\ UNCHANGED <<seq, pc, seq_num, wire, answered, called>>

\* CommandsHandle, from the timer of any IO thread: all overdue commands leave
\* the table in one critical section.
CommandsHandle(t) ==
  /\ job[t].cmds = {}
  /\ due # {}
  /\ job' = [job EXCEPT ![t] = [status |-> "Timeout", cmds |-> due]]
  /\ commands' = [q \in Seq |-> IF commands[q] \in due THEN NoCommand ELSE commands[q]]
  /\ due' = {}
  /\ UNCHANGED <<seq, pc, seq_num, wire, answered, called>>

Callback(t) ==
  \E c \in job[t].cmds :
    /\ called' = [called EXCEPT ![c][job[t].status] = @ + 1]
    /\ job' = [job EXCEPT ![t].cmds = @ \ {c}]
    /\ UNCHANGED <<seq, commands, due, pc, seq_num, wire, answered>>

-----------------------------------------------------------------------------
Send(c) == SendTo(c) \/ SendToFails(c)

Next == \/ \E c \in Command : \/ GetSeq(c)
                              \/ RefuseCommand(c)
                              \/ Send(c)
                              \/ AddCommand(c)
                              \/ Answer(c)
                              \/ Elapse(c)
        \/ \E t \in IOThread : \/ \E c \in Command : HandleAck(t, c)
                               \/ CommandsHandle(t)
                               \/ Callback(t)

\* A caller finishes what it began, time passes, and every pass of an IO loop
\* checks its timer, however many acknowledgements it handles.
Fairness == /\ \A c \in Command : /\ WF_vars(Send(c))
                                  /\ WF_vars(AddCommand(c))
                                  /\ WF_vars(Elapse(c))
            /\ \A t \in IOThread : SF_vars(CommandsHandle(t)) /\ WF_vars(Callback(t))

Spec == Init /\ [][Next]_vars
FairSpec == Spec /\ Fairness

-----------------------------------------------------------------------------
(* The variables stay in their types: in particular a sequence number is    *)
(* never 0 and fits in 16 bits.                                             *)
TypeOK ==
  /\ seq \in Seq
  /\ commands \in [Seq -> Command \cup {NoCommand}]
  /\ due \subseteq Command
  /\ pc \in [Command -> {"idle", "send", "add", "done", "refused"}]
  /\ seq_num \in [Command -> Seq]
  /\ wire \subseteq Command
  /\ answered \subseteq wire
  /\ job \in [IOThread -> [status : {"Success", "Timeout"}, cmds : SUBSET Command]]
  /\ called \in [Command -> [Status -> Nat]]

InTable(c) == \E q \in Seq : commands[q] = c
InJob(c) == {t \in IOThread : c \in job[t].cmds}
Outcomes(c) == called[c]["Success"] + called[c]["Timeout"]

(* Although acknowledgements may be duplicated, and three threads both look  *)
(* them up and expire commands, the callback of a command is told at most    *)
(* one of Success and Timeout, and that once; SendFailed, told by the caller *)
(* itself, is told at most once and comes in addition.                       *)
OneOutcome ==
  \A c \in Command : Outcomes(c) <= 1 /\ called[c]["SendFailed"] <= 1

(* A callback is told Success only if the lidar answered that very command:  *)
(* numbers, which wrap, do not mix commands up.                              *)
SuccessIsAnswered ==
  \A c \in Command : called[c]["Success"] > 0 => c \in answered

(* A command entered before it is sent is still in the table when the lidar  *)
(* answers it, unless an outcome was already taken: its acknowledgement is   *)
(* never dropped for having come too early.                                  *)
AckFindsCommand ==
  \A c \in HostConfig \cap answered :
    commands[seq_num[c]] = c \/ InJob(c) # {} \/ Outcomes(c) > 0

(* Entering a command never overwrites another one that still waits.         *)
NoOverwrite ==
  [][\A q \in Seq : commands'[q] \in {commands[q], NoCommand}
                    \/ commands[q] = NoCommand]_vars

(* Every command that was sent, or tried, is told Success or Timeout in the  *)
(* end: no callback is lost between the table, the timers and the threads.   *)
EveryCommandCalledBack ==
  \A c \in Command : pc[c] \in {"add", "done"} ~> Outcomes(c) > 0
=============================================================================
