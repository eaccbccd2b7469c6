------------------------- MODULE CommandTableProofs -------------------------
(***************************************************************************)
(* For any commands, any number of IO threads and any range of sequence     *)
(* numbers: each command gets one outcome, and the right one.               *)
(***************************************************************************)
EXTENDS CommandTable, FiniteSetTheorems, TLAPS

(* The caller of c has reached the point from which c may be in the table.  *)
Entered(c) == pc[c] = "done" \/ (AddsFirst(c) /\ pc[c] = "send")

(* The caller of c has not tried to send it.                                *)
Unsent(c) == pc[c] \in {"idle", "send", "refused"} \/ (AddsFirst(c) /\ pc[c] = "add")

(* The callback of c has neither been called with an outcome nor is about   *)
(* to be.                                                                   *)
Open(c) ==
  /\ called[c]["Success"] = 0
  /\ called[c]["Timeout"] = 0
  /\ \A t \in IOThread : c \notin job[t].cmds

Tabled(c) == commands[seq_num[c]] = c

CommandInv(c) ==
  /\ \A q \in Seq : commands[q] = c => q = seq_num[c]
  /\ Tabled(c) => Entered(c) /\ Open(c)
  /\ ~Entered(c) => Open(c)
  /\ \A t \in IOThread : c \in job[t].cmds =>
       /\ called[c]["Success"] = 0 /\ called[c]["Timeout"] = 0
       /\ \A u \in IOThread : c \in job[u].cmds => u = t
  /\ Outcomes(c) <= 1
  /\ called[c]["SendFailed"] <= 1
  /\ Unsent(c) => called[c]["SendFailed"] = 0
  /\ c \in due => Tabled(c)

TableInv == TypeOK /\ \A c \in Command : CommandInv(c)

(* What a step that is not about command c leaves alone.                    *)
Spared(c) ==
  /\ \A q \in Seq : commands'[q] = c => commands[q] = c
  /\ c \in due' => c \in due /\ Tabled(c)'
  /\ seq_num'[c] = seq_num[c]
  /\ pc'[c] = pc[c]
  /\ \A t \in IOThread : c \in job'[t].cmds => c \in job[t].cmds
  /\ called'[c] = called[c]

(* The initial table is empty.                                              *)
LEMMA TableInit == Init => TableInv
<1> SUFFICES ASSUME Init PROVE TableInv
  OBVIOUS
<1> USE CommandAssumption
<1>1. 1 \in Seq
  BY DEF Seq
<1>2. TypeOK
  BY <1>1 DEF Init, TypeOK, Idle, Status
<1>3. ASSUME NEW c \in Command PROVE CommandInv(c)
  BY <1>1, NoCommand # c DEF Init, CommandInv, Tabled, Entered, Open, Outcomes, Idle, Status
<1>4. QED
  BY <1>2, <1>3 DEF TableInv

(* The invariant of a command survives the steps about other commands.      *)
LEMMA SparedKeeps ==
  ASSUME TableInv, NEW c \in Command, Spared(c)
  PROVE  CommandInv(c)'
<1>1. seq_num[c] \in Seq
  BY DEF TableInv, TypeOK
<1>2. Tabled(c)' => Tabled(c)
  BY <1>1 DEF Spared, Tabled
<1>3. /\ Entered(c)' <=> Entered(c)
      /\ Unsent(c)' <=> Unsent(c)
      /\ Open(c) => Open(c)'
      /\ Outcomes(c)' = Outcomes(c)
  BY DEF Spared, Entered, Unsent, Open, Outcomes, AddsFirst
<1>4. QED
  BY <1>2, <1>3 DEF TableInv, CommandInv, Spared

(* NextSeq stays in the range of the sequence numbers.                      *)
LEMMA NextSeqInRange == seq \in Seq => NextSeq \in Seq
BY CommandAssumption DEF Seq, NextSeq

-----------------------------------------------------------------------------
(* The steps of the callers.                                                *)

LEMMA GetSeqKeeps ==
  ASSUME TableInv, NEW c \in Command, GetSeq(c)
  PROVE  TableInv'
<1>1. TypeOK'
  BY NextSeqInRange DEF GetSeq, TableInv, TypeOK
<1>2. ASSUME NEW d \in Command \ {c} PROVE CommandInv(d)'
  <2>1. Spared(d)
    BY DEF GetSeq, Spared, TableInv, TypeOK, CommandInv, Tabled
  <2>2. QED
    BY <2>1, SparedKeeps
<1>3. CommandInv(c)'
  <2>1. pc[c] = "idle" /\ pc'[c] \in {"add", "send"} /\ (AddsFirst(c) => pc'[c] = "add")
    BY DEF GetSeq, TableInv, TypeOK
  <2>2. Open(c) /\ Unsent(c) /\ ~Entered(c) /\ ~Tabled(c)
    BY <2>1 DEF TableInv, CommandInv, Unsent, Entered
  <2>3. \A q \in Seq : commands[q] # c
    BY <2>2 DEF TableInv, CommandInv, Tabled
  <2>4. seq_num'[c] \in Seq
    BY <1>1 DEF TypeOK
  <2>5. ~Tabled(c)' /\ c \notin due'
    BY <2>2, <2>3, <2>4 DEF GetSeq, Tabled, TableInv, CommandInv
  <2>6. Open(c)' /\ called'[c] = called[c] /\ commands' = commands
    BY <2>2 DEF GetSeq, Open
  <2>7. Outcomes(c)' <= 1 /\ called'[c]["SendFailed"] = 0
    BY <2>2, <2>6 DEF TableInv, CommandInv, Outcomes
  <2>8. QED
    BY <2>3, <2>5, <2>6, <2>7 DEF CommandInv, Open
<1>4. QED
  BY <1>1, <1>2, <1>3 DEF TableInv

LEMMA RefuseKeeps ==
  ASSUME TableInv, NEW c \in Command, RefuseCommand(c)
  PROVE  TableInv'
<1>1. TypeOK'
  BY DEF RefuseCommand, TableInv, TypeOK
<1>2. ASSUME NEW d \in Command \ {c} PROVE CommandInv(d)'
  <2>1. Spared(d)
    BY DEF RefuseCommand, Spared, TableInv, TypeOK, CommandInv, Tabled
  <2>2. QED
    BY <2>1, SparedKeeps
<1>3. CommandInv(c)'
  <2>1. pc[c] = "send" /\ ~AddsFirst(c) /\ pc'[c] = "refused"
    BY DEF RefuseCommand, TableInv, TypeOK
  <2>2. ~Entered(c) /\ Unsent(c)
    BY <2>1 DEF Entered, Unsent
  <2>3. Open(c)' /\ ~Tabled(c)'
    BY <2>2 DEF RefuseCommand, TableInv, CommandInv, Open, Tabled
  <2>4. QED
    BY <2>2, <2>3 DEF RefuseCommand, TableInv, CommandInv, Outcomes, Open, Tabled
<1>4. QED
  BY <1>1, <1>2, <1>3 DEF TableInv

(* Counting one more call of the callback of c with status s.               *)
LEMMA CountCall ==
  ASSUME NEW f \in [Command -> [Status -> Nat]], NEW c \in Command, NEW s \in Status,
         NEW g, g = [f EXCEPT ![c][s] = @ + 1]
  PROVE  /\ g \in [Command -> [Status -> Nat]]
         /\ g[c][s] = f[c][s] + 1
         /\ \A r \in Status \ {s} : g[c][r] = f[c][r]
         /\ \A d \in Command \ {c} : g[d] = f[d]
<1>1. f[c] \in [Status -> Nat]
  OBVIOUS
<1>2. g[c] = [f[c] EXCEPT ![s] = f[c][s] + 1] /\ \A d \in Command \ {c} : g[d] = f[d]
  OBVIOUS
<1>3. f[c][s] + 1 \in Nat
  BY <1>1
<1>4. g[c] \in [Status -> Nat]
  BY <1>1, <1>2, <1>3
<1>5. g \in [Command -> [Status -> Nat]]
  <2>1. g = [d \in Command |-> g[d]]
    OBVIOUS
  <2>2. \A d \in Command : g[d] \in [Status -> Nat]
    BY <1>2, <1>4
  <2>3. QED
    BY <2>1, <2>2
<1>6. QED
  BY <1>1, <1>2, <1>5

LEMMA SendKeeps ==
  ASSUME TableInv, NEW c \in Command, Send(c)
  PROVE  TableInv'
<1> USE DEF AfterSend
<1>1. /\ pc[c] = "send" /\ pc' = [pc EXCEPT ![c] = AfterSend(c)]
      /\ UNCHANGED <<seq, commands, due, seq_num, answered, job>>
  BY DEF Send, SendTo, SendToFails
<1>2. pc'[c] = AfterSend(c) /\ Unsent(c) /\ (Entered(c) <=> AddsFirst(c))
  BY <1>1 DEF TableInv, TypeOK, Unsent, Entered
<1>3. /\ called' \in [Command -> [Status -> Nat]]
      /\ \A d \in Command \ {c} : called'[d] = called[d]
      /\ called'[c]["Success"] = called[c]["Success"]
      /\ called'[c]["Timeout"] = called[c]["Timeout"]
      /\ called'[c]["SendFailed"] <= 1
  <2>1. called \in [Command -> [Status -> Nat]] /\ called[c]["SendFailed"] = 0
    BY <1>2 DEF TableInv, TypeOK, CommandInv
  <2>2. CASE SendTo(c)
    BY <2>1, <2>2 DEF SendTo
  <2>3. CASE SendToFails(c)
    BY <2>1, <2>3, CountCall, "SendFailed" \in Status DEF SendToFails, Status
  <2>4. QED
    BY <2>2, <2>3 DEF Send
<1>4. wire' \subseteq Command /\ wire \subseteq wire'
  <2>1. wire \subseteq Command
    BY DEF TableInv, TypeOK
  <2>2. QED
    BY <2>1 DEF Send, SendTo, SendToFails
<1>5. TypeOK'
  <2>1. pc' \in [Command -> {"idle", "send", "add", "done", "refused"}]
    BY <1>1 DEF TableInv, TypeOK
  <2>2. QED
    BY <1>1, <1>3, <1>4, <2>1 DEF TableInv, TypeOK
<1>6. ASSUME NEW d \in Command \ {c} PROVE CommandInv(d)'
  <2>1. Spared(d)
    BY <1>1, <1>3 DEF Spared, TableInv, TypeOK, CommandInv, Tabled
  <2>2. QED
    BY <2>1, SparedKeeps
<1>7. CommandInv(c)'
  <2>1. (Entered(c)' <=> AddsFirst(c)) /\ ~Unsent(c)'
    BY <1>2 DEF Entered, Unsent, AddsFirst
  <2>2. (Open(c)' <=> Open(c)) /\ (Tabled(c)' <=> Tabled(c)) /\ Outcomes(c)' = Outcomes(c)
    BY <1>1, <1>3 DEF Open, Tabled, Outcomes
  <2>3. QED
    BY <1>1, <1>2, <1>3, <2>1, <2>2 DEF TableInv, CommandInv
<1>8. QED
  BY <1>5, <1>6, <1>7 DEF TableInv

LEMMA AddCommandKeeps ==
  ASSUME TableInv, NEW c \in Command, AddCommand(c)
  PROVE  TableInv'
<1> USE CommandAssumption
<1>1. /\ pc[c] = "add"
      /\ commands' = [commands EXCEPT ![seq_num[c]] = c]
      /\ due' = due \ {commands[seq_num[c]]}
      /\ pc' = [pc EXCEPT ![c] = IF AddsFirst(c) THEN "send" ELSE "done"]
      /\ UNCHANGED <<seq, seq_num, wire, answered, job, called>>
  BY DEF AddCommand
<1>2. ~Entered(c) /\ Open(c) /\ ~Tabled(c)
  BY <1>1 DEF Entered, TableInv, CommandInv
<1>3. seq_num[c] \in Seq /\ commands \in [Seq -> Command \cup {NoCommand}]
  BY DEF TableInv, TypeOK
<1>4. TypeOK'
  BY <1>1, <1>3 DEF TableInv, TypeOK
<1>5. ASSUME NEW d \in Command \ {c} PROVE CommandInv(d)'
  <2>1. \A q \in Seq : commands'[q] = d => commands[q] = d
    BY <1>1, <1>3
  <2>2. d \in due' => d \in due /\ Tabled(d)'
    <3>1. SUFFICES ASSUME d \in due' PROVE d \in due /\ Tabled(d)'
      OBVIOUS
    <3>2. d \in due /\ commands[seq_num[d]] = d /\ commands[seq_num[c]] # d
      BY <1>1, <3>1 DEF TableInv, CommandInv, Tabled
    <3>3. seq_num[d] \in Seq /\ seq_num[d] # seq_num[c]
      BY <3>2 DEF TableInv, TypeOK
    <3>4. QED
      BY <1>1, <1>3, <3>2, <3>3 DEF Tabled
  <2>3. pc'[d] = pc[d]
    BY <1>1 DEF TableInv, TypeOK
  <2>4. Spared(d)
    BY <1>1, <2>1, <2>2, <2>3 DEF Spared
  <2>5. QED
    BY <2>4, SparedKeeps
<1>6. CommandInv(c)'
  <2>1. pc'[c] = (IF AddsFirst(c) THEN "send" ELSE "done")
    BY <1>1 DEF TableInv, TypeOK
  <2>2. Entered(c)' /\ (Unsent(c)' => Unsent(c))
    BY <1>1, <2>1 DEF Entered, Unsent, AddsFirst
  <2>3. Open(c)' /\ Tabled(c)' /\ Outcomes(c)' = Outcomes(c)
    BY <1>1, <1>2, <1>3 DEF Open, Tabled, Outcomes
  <2>4. \A q \in Seq : commands'[q] = c => q = seq_num'[c]
    <3>1. \A q \in Seq : commands[q] # c
      BY <1>2 DEF TableInv, CommandInv, Tabled
    <3>2. QED
      BY <1>1, <1>3, <3>1
  <2>5. QED
    BY <1>1, <2>2, <2>3, <2>4 DEF TableInv, CommandInv, Open
<1>7. QED
  BY <1>4, <1>5, <1>6 DEF TableInv

-----------------------------------------------------------------------------
(* The lidar, time and the IO threads.                                      *)

LEMMA AnswerKeeps ==
  ASSUME TableInv, NEW c \in Command, Answer(c)
  PROVE  TableInv'
<1>1. TypeOK'
  BY DEF Answer, TableInv, TypeOK
<1>2. ASSUME NEW d \in Command PROVE CommandInv(d)'
  <2>1. Spared(d)
    BY DEF Answer, Spared, TableInv, CommandInv, Tabled
  <2>2. QED
    BY <2>1, SparedKeeps
<1>3. QED
  BY <1>1, <1>2 DEF TableInv

LEMMA ElapseKeeps ==
  ASSUME TableInv, NEW c \in Command, Elapse(c)
  PROVE  TableInv'
<1>1. TypeOK'
  BY DEF Elapse, TableInv, TypeOK
<1>2. Tabled(c)
  BY DEF Elapse, TableInv, CommandInv, Tabled
<1>3. ASSUME NEW d \in Command PROVE CommandInv(d)'
  <2>1. d \in due' => Tabled(d)
    BY <1>2 DEF Elapse, TableInv, CommandInv
  <2>2. CommandInv(d)
    BY DEF TableInv
  <2>3. UNCHANGED <<commands, pc, seq_num, job, called>>
    BY DEF Elapse
  <2>4. QED
    BY <2>1, <2>2, <2>3
       DEF CommandInv, Tabled, Entered, AddsFirst, Unsent, Open, Outcomes
<1>4. QED
  BY <1>1, <1>3 DEF TableInv

(* The commands of S leave the table for the job of thread t.               *)
LEMMA TakeKeeps ==
  ASSUME TableInv, TypeOK', NEW t \in IOThread, NEW S \in SUBSET Command,
         job[t].cmds = {},
         \A u \in IOThread \ {t} : job'[u] = job[u],
         job'[t].cmds = S,
         \A c \in S : Tabled(c),
         \A q \in Seq : commands'[q] = IF commands[q] \in S THEN NoCommand ELSE commands[q],
         due' = due \ S,
         UNCHANGED <<seq, pc, seq_num, wire, answered, called>>
  PROVE  TableInv'
<1> USE CommandAssumption
<1>1. ASSUME NEW d \in Command \ S PROVE CommandInv(d)'
  <2>1. seq_num[d] \in Seq
    BY DEF TableInv, TypeOK
  <2>2. d \in due' => d \in due /\ Tabled(d)'
    BY <2>1 DEF TableInv, CommandInv, Tabled
  <2>3. \A u \in IOThread : d \in job'[u].cmds => d \in job[u].cmds
    OBVIOUS
  <2>4. Spared(d)
    BY <2>2, <2>3 DEF Spared
  <2>5. QED
    BY <2>4, SparedKeeps
<1>2. ASSUME NEW d \in S PROVE CommandInv(d)'
  <2>1. d \in Command /\ Tabled(d) /\ Open(d) /\ Entered(d) /\ CommandInv(d)
    BY DEF TableInv, CommandInv
  <2>2. \A q \in Seq : commands'[q] # d
    OBVIOUS
  <2>3. seq_num'[d] \in Seq
    BY <2>1 DEF TypeOK
  <2>4. ~Tabled(d)' /\ d \notin due'
    BY <2>2, <2>3 DEF Tabled
  <2>5. Entered(d)' /\ (Unsent(d)' <=> Unsent(d)) /\ Outcomes(d)' = Outcomes(d)
    BY <2>1 DEF Entered, AddsFirst, Unsent, Outcomes
  <2>6. \A u \in IOThread : d \in job'[u].cmds => u = t
    BY <2>1 DEF Open
  <2>7. QED
    BY <2>1, <2>2, <2>4, <2>5, <2>6 DEF CommandInv, Open
<1>3. QED
  BY <1>1, <1>2 DEF TableInv

LEMMA AckKeeps ==
  ASSUME TableInv, NEW t \in IOThread, NEW c \in Command, HandleAck(t, c)
  PROVE  TableInv'
<1> USE CommandAssumption
<1> DEFINE d == commands[seq_num[c]]
<1>1. seq_num[c] \in Seq /\ d \in Command /\ Tabled(d) /\ seq_num[d] = seq_num[c]
  BY DEF HandleAck, TableInv, TypeOK, CommandInv, Tabled
<1>2. TypeOK'
  BY <1>1 DEF HandleAck, TableInv, TypeOK
<1>3. \A q \in Seq : commands'[q] = IF commands[q] \in {d} THEN NoCommand ELSE commands[q]
  BY <1>1 DEF HandleAck, TableInv, TypeOK, CommandInv
<1>4. /\ job[t].cmds = {} /\ job'[t].cmds = {d}
      /\ \A u \in IOThread \ {t} : job'[u] = job[u]
      /\ due' = due \ {d}
      /\ UNCHANGED <<seq, pc, seq_num, wire, answered, called>>
  BY DEF HandleAck, TableInv, TypeOK
<1>5. {d} \in SUBSET Command
  BY <1>1
<1> HIDE DEF d
<1>6. QED
  BY <1>1, <1>2, <1>3, <1>4, <1>5, TakeKeeps

LEMMA CommandsHandleKeeps ==
  ASSUME TableInv, NEW t \in IOThread, CommandsHandle(t)
  PROVE  TableInv'
<1> USE CommandAssumption
<1>1. due \in SUBSET Command /\ \A c \in due : Tabled(c)
  BY DEF TableInv, TypeOK, CommandInv
<1>2. TypeOK'
  <2>1. commands' \in [Seq -> Command \cup {NoCommand}]
    BY DEF CommandsHandle, TableInv, TypeOK
  <2>2. job' \in [IOThread -> [status : {"Success", "Timeout"}, cmds : SUBSET Command]]
    BY <1>1 DEF CommandsHandle, TableInv, TypeOK
  <2>3. QED
    BY <2>1, <2>2 DEF CommandsHandle, TableInv, TypeOK
<1>3. \A q \in Seq : commands'[q] = IF commands[q] \in due THEN NoCommand ELSE commands[q]
  BY DEF CommandsHandle
<1>4. /\ job[t].cmds = {} /\ job'[t].cmds = due
      /\ \A u \in IOThread \ {t} : job'[u] = job[u]
      /\ due' = due \ due
      /\ UNCHANGED <<seq, pc, seq_num, wire, answered, called>>
  BY DEF CommandsHandle, TableInv, TypeOK
<1>5. QED
  BY <1>1, <1>2, <1>3, <1>4, TakeKeeps

LEMMA CallbackKeeps ==
  ASSUME TableInv, NEW t \in IOThread, Callback(t)
  PROVE  TableInv'
<1>1. PICK c \in job[t].cmds :
        /\ called' = [called EXCEPT ![c][job[t].status] = @ + 1]
        /\ job' = [job EXCEPT ![t].cmds = @ \ {c}]
        /\ UNCHANGED <<seq, commands, due, pc, seq_num, wire, answered>>
  BY DEF Callback
<1> DEFINE s == job[t].status
<1>2. /\ called \in [Command -> [Status -> Nat]]
      /\ job \in [IOThread -> [status : {"Success", "Timeout"}, cmds : SUBSET Command]]
  BY DEF TableInv, TypeOK
<1>3. c \in Command /\ s \in {"Success", "Timeout"} /\ s \in Status
  BY <1>2 DEF Status
<1>4. /\ called' \in [Command -> [Status -> Nat]]
      /\ called'[c][s] = called[c][s] + 1
      /\ \A r \in Status \ {s} : called'[c][r] = called[c][r]
      /\ \A d \in Command \ {c} : called'[d] = called[d]
  <2> HIDE DEF s
  <2>1. called' = [called EXCEPT ![c][s] = @ + 1]
    BY <1>1 DEF s
  <2>2. QED
    BY <1>2, <1>3, <2>1, CountCall
<1>5. /\ job'[t].cmds = job[t].cmds \ {c}
      /\ \A u \in IOThread \ {t} : job'[u] = job[u]
      /\ job' \in [IOThread -> [status : {"Success", "Timeout"}, cmds : SUBSET Command]]
  BY <1>1, <1>2
<1>6. TypeOK'
  BY <1>1, <1>4, <1>5 DEF TableInv, TypeOK
<1>7. ASSUME NEW d \in Command \ {c} PROVE CommandInv(d)'
  <2>1. Spared(d)
    BY <1>1, <1>4, <1>5 DEF Spared, TableInv, CommandInv, Tabled
  <2>2. QED
    BY <2>1, SparedKeeps
<1>8. CommandInv(c)'
  <2>1. /\ called[c]["Success"] = 0 /\ called[c]["Timeout"] = 0
        /\ \A u \in IOThread : c \in job[u].cmds => u = t
    BY <1>3 DEF TableInv, CommandInv
  <2>2. ~Open(c)
    BY DEF Open
  <2>3. Entered(c) /\ ~Tabled(c)
    BY <1>3, <2>2 DEF TableInv, CommandInv
  <2>4. Entered(c)' /\ ~Tabled(c)' /\ (Unsent(c)' <=> Unsent(c))
    BY <1>1, <2>3 DEF Entered, AddsFirst, Tabled, Unsent
  <2>5. \A u \in IOThread : c \notin job'[u].cmds
    BY <1>5, <2>1
  <2>6. Outcomes(c)' <= 1 /\ called'[c]["SendFailed"] = called[c]["SendFailed"]
    <3>1. CASE s = "Success"
      BY <1>4, <2>1, <3>1 DEF Outcomes, Status
    <3>2. CASE s = "Timeout"
      BY <1>4, <2>1, <3>2 DEF Outcomes, Status
    <3>3. QED
      BY <1>3, <3>1, <3>2
  <2>7. QED
    BY <1>1, <1>3, <2>3, <2>4, <2>5, <2>6 DEF TableInv, CommandInv
<1>9. QED
  BY <1>6, <1>7, <1>8 DEF TableInv

-----------------------------------------------------------------------------
(* Every step preserves the invariant.                                      *)
LEMMA TableStep == TableInv /\ [Next]_vars => TableInv'
<1> SUFFICES ASSUME TableInv, [Next]_vars PROVE TableInv'
  OBVIOUS
<1>1. CASE UNCHANGED vars
  <2>1. TypeOK'
    BY <1>1 DEF vars, TableInv, TypeOK
  <2>2. ASSUME NEW d \in Command PROVE CommandInv(d)'
    <3>1. Spared(d)
      BY <1>1 DEF vars, Spared, TableInv, CommandInv, Tabled
    <3>2. QED
      BY <3>1, SparedKeeps
  <2>3. QED
    BY <2>1, <2>2 DEF TableInv
<1>2. ASSUME NEW c \in Command,
             GetSeq(c) \/ RefuseCommand(c) \/ Send(c) \/ AddCommand(c) \/ Answer(c) \/ Elapse(c)
      PROVE  TableInv'
  BY <1>2, GetSeqKeeps, RefuseKeeps, SendKeeps, AddCommandKeeps, AnswerKeeps, ElapseKeeps
<1>3. ASSUME NEW t \in IOThread,
             (\E c \in Command : HandleAck(t, c)) \/ CommandsHandle(t) \/ Callback(t)
      PROVE  TableInv'
  BY <1>3, AckKeeps, CommandsHandleKeeps, CallbackKeeps
<1>4. QED
  BY <1>1, <1>2, <1>3 DEF Next

(* The variables keep their types; a sequence number fits its 16 bits.      *)
THEOREM TableTypeCorrect == Spec => []TypeOK
<1>1. TableInv => TypeOK
  BY DEF TableInv
<1>2. QED
  BY <1>1, TableInit, TableStep, PTL DEF Spec

(* Every callback is told at most one of Success and Timeout, at most once.  *)
THEOREM TableOneOutcome == Spec => []OneOutcome
<1>1. TableInv => OneOutcome
  BY DEF TableInv, CommandInv, OneOutcome
<1>2. QED
  BY <1>1, TableInit, TableStep, PTL DEF Spec

-----------------------------------------------------------------------------
(* While no number comes round, a number belongs to one command only.       *)

Numbered == {c \in Command : pc[c] # "idle"}
Drawn == Cardinality(Numbered)

(* The numbers drawn are 2, 3, ... and, at last, 1.                         *)
NumberInv ==
  /\ \A c, d \in Numbered : seq_num[c] = seq_num[d] => c = d
  /\ \A c \in Numbered : IF seq_num[c] = 1 THEN Drawn = MaxSeq ELSE seq_num[c] <= Drawn + 1
  /\ seq = IF Drawn < MaxSeq THEN Drawn + 1 ELSE 1

LEMMA NumberInit == Init => NumberInv
<1> SUFFICES ASSUME Init PROVE NumberInv
  OBVIOUS
<1>1. Numbered = {}
  BY DEF Init, Numbered
<1>2. Drawn = 0
  BY <1>1, FS_EmptySet DEF Drawn
<1>3. QED
  BY <1>1, <1>2, CommandAssumption DEF Init, NumberInv

(* Drawing a number takes one that no command has.                          *)
LEMMA GetSeqNumbers ==
  ASSUME TableInv, NumberInv, NEW c \in Command, GetSeq(c)
  PROVE  NumberInv'
<1> USE CommandAssumption
<1>1. c \notin Numbered /\ Numbered \subseteq Command /\ Numbered' = Numbered \cup {c}
  BY DEF GetSeq, Numbered, TableInv, TypeOK
<1>2. IsFiniteSet(Numbered) /\ Drawn \in Nat
  BY <1>1, FS_Subset, FS_CardinalityType DEF Drawn
<1>3. Drawn' = Drawn + 1
  BY <1>1, <1>2, FS_AddElement DEF Drawn
<1>4. Drawn' <= MaxSeq
  <2>1. Cardinality(Numbered') <= Cardinality(Command)
    BY <1>1, FS_Subset
  <2>2. Cardinality(Command) \in Nat
    BY FS_CardinalityType
  <2>3. QED
    BY <1>2, <1>3, <2>1, <2>2 DEF Drawn
<1>5. seq = Drawn + 1
  BY <1>2, <1>3, <1>4 DEF NumberInv
<1>6. seq' = (IF Drawn + 1 = MaxSeq THEN 1 ELSE Drawn + 2) /\ seq_num'[c] = seq'
  BY <1>2, <1>5 DEF GetSeq, NextSeq, TableInv, TypeOK
<1>7. \A d \in Numbered : seq_num'[d] = seq_num[d] /\ seq_num[d] \in Seq
  BY <1>1 DEF GetSeq, TableInv, TypeOK
<1>8. \A d \in Numbered : seq_num[d] # seq'
  BY <1>2, <1>3, <1>4, <1>6, <1>7 DEF NumberInv, Seq
<1>9. \A d, e \in Numbered' : seq_num'[d] = seq_num'[e] => d = e
  BY <1>1, <1>6, <1>7, <1>8 DEF NumberInv
<1>10. \A d \in Numbered' :
         IF seq_num'[d] = 1 THEN Drawn' = MaxSeq ELSE seq_num'[d] <= Drawn' + 1
  <2>1. \A d \in Numbered : seq_num[d] # 1 /\ seq_num[d] <= Drawn + 1
    BY <1>2, <1>3, <1>4 DEF NumberInv
  <2>2. \A d \in Numbered : seq_num'[d] # 1 /\ seq_num'[d] <= Drawn' + 1
    BY <1>2, <1>3, <1>7, <2>1 DEF Seq
  <2>3. IF seq_num'[c] = 1 THEN Drawn' = MaxSeq ELSE seq_num'[c] <= Drawn' + 1
    BY <1>2, <1>3, <1>6
  <2>4. QED
    BY <1>1, <2>2, <2>3
<1>11. seq' = IF Drawn' < MaxSeq THEN Drawn' + 1 ELSE 1
  BY <1>2, <1>3, <1>4, <1>6
<1>12. QED
  BY <1>9, <1>10, <1>11 DEF NumberInv

LEMMA NumberStep == TableInv /\ NumberInv /\ [Next]_vars => NumberInv'
<1> SUFFICES ASSUME TableInv, NumberInv, [Next]_vars PROVE NumberInv'
  OBVIOUS
<1>1. ASSUME Numbered' = Numbered, seq' = seq, seq_num' = seq_num PROVE NumberInv'
  BY <1>1 DEF NumberInv, Drawn
<1>2. CASE UNCHANGED vars
  BY <1>1, <1>2 DEF vars, Numbered
<1>3. ASSUME NEW c \in Command, RefuseCommand(c) \/ Send(c) \/ AddCommand(c)
      PROVE  NumberInv'
  BY <1>1, <1>3
     DEF RefuseCommand, Send, SendTo, SendToFails, AfterSend, AddCommand, Numbered, TableInv, TypeOK
<1>4. ASSUME NEW c \in Command, Answer(c) \/ Elapse(c) PROVE NumberInv'
  BY <1>1, <1>4 DEF Answer, Elapse, Numbered
<1>5. ASSUME NEW t \in IOThread,
             (\E c \in Command : HandleAck(t, c)) \/ CommandsHandle(t) \/ Callback(t)
      PROVE  NumberInv'
  BY <1>1, <1>5 DEF HandleAck, CommandsHandle, Callback, Numbered
<1>6. QED
  BY <1>2, <1>3, <1>4, <1>5, GetSeqNumbers DEF Next

(* A number in the table leads to the command that drew it.                 *)
LEMMA NumberFinds ==
  ASSUME TableInv, NumberInv, NEW c \in Numbered, commands[seq_num[c]] # NoCommand
  PROVE  Tabled(c)
<1> DEFINE d == commands[seq_num[c]]
<1>1. c \in Command /\ seq_num[c] \in Seq /\ d \in Command
  BY DEF Numbered, TableInv, TypeOK
<1>2. seq_num[d] = seq_num[c] /\ Tabled(d)
  BY <1>1 DEF TableInv, CommandInv, Tabled
<1>3. d \in Numbered
  <2>1. Entered(d)
    BY <1>1, <1>2 DEF TableInv, CommandInv
  <2>2. QED
    BY <1>1, <2>1 DEF Entered, Numbered
<1>4. QED
  BY <1>2, <1>3 DEF NumberInv

(* The command a caller enters finds its place in the table empty.          *)
LEMMA PlaceIsFree ==
  ASSUME TableInv, NumberInv, NEW c \in Command, AddCommand(c)
  PROVE  commands[seq_num[c]] = NoCommand
<1>1. c \in Numbered /\ ~Entered(c)
  BY DEF AddCommand, Numbered, Entered
<1>2. ~Tabled(c)
  BY <1>1 DEF TableInv, CommandInv
<1>3. QED
  BY <1>1, <1>2, NumberFinds

(* Entering a command never overwrites another one that waits.              *)
THEOREM TableNoOverwrite == Spec => NoOverwrite
<1> DEFINE A == \A q \in Seq : commands'[q] \in {commands[q], NoCommand}
                               \/ commands[q] = NoCommand
<1>1. TableInv /\ NumberInv /\ [Next]_vars => [A]_vars
  <2> SUFFICES ASSUME TableInv, NumberInv, Next PROVE A
    OBVIOUS
  <2> USE CommandAssumption
  <2>1. ASSUME NEW c \in Command, AddCommand(c) PROVE A
    BY <2>1, PlaceIsFree DEF AddCommand, TableInv, TypeOK
  <2>2. ASSUME NEW c \in Command,
               GetSeq(c) \/ RefuseCommand(c) \/ Send(c) \/ Answer(c) \/ Elapse(c)
        PROVE  A
    BY <2>2 DEF GetSeq, RefuseCommand, Send, SendTo, SendToFails, Answer, Elapse
  <2>3. ASSUME NEW t \in IOThread,
               (\E c \in Command : HandleAck(t, c)) \/ CommandsHandle(t) \/ Callback(t)
        PROVE  A
    BY <2>3 DEF HandleAck, CommandsHandle, Callback, TableInv, TypeOK
  <2>4. QED
    BY <2>1, <2>2, <2>3 DEF Next
<1>2. QED
  BY <1>1, TableInit, TableStep, NumberInit, NumberStep, PTL DEF Spec, NoOverwrite

-----------------------------------------------------------------------------
(* Success is the lidar's answer to that command, and an answer to a        *)
(* command entered before it was sent finds it.                             *)

AnswerInv(c) ==
  /\ c \in wire => pc[c] = "done" \/ (~AddsFirst(c) /\ pc[c] = "add")
  /\ \A t \in IOThread : c \in job[t].cmds /\ job[t].status = "Success" => c \in answered
  /\ called[c]["Success"] > 0 => c \in answered
  /\ AddsFirst(c) /\ Entered(c) => Tabled(c) \/ InJob(c) # {} \/ Outcomes(c) > 0

(* What a step must do to the answer part of the invariant of command c: it *)
(* may take c out of the table only into a job, out of a job only into an   *)
(* outcome, and into a Success job only when c is answered.                 *)
AnswerStep(c) ==
  /\ answered \subseteq answered'
  /\ c \in wire' => \/ c \in wire /\ pc'[c] \in {pc[c], "done"}
                    \/ pc'[c] = AfterSend(c)
  /\ \A t \in IOThread :
       c \in job'[t].cmds /\ job'[t].status = "Success" =>
         c \in answered \/ (c \in job[t].cmds /\ job[t].status = "Success")
  /\ called'[c]["Success"] > 0 =>
       \/ called[c]["Success"] > 0
       \/ \E t \in IOThread : c \in job[t].cmds /\ job[t].status = "Success"
  /\ Entered(c)' => Entered(c) \/ Tabled(c)'
  /\ Tabled(c) => Tabled(c)' \/ InJob(c)' # {}
  /\ InJob(c) # {} => InJob(c)' # {} \/ Outcomes(c)' > 0
  /\ Outcomes(c) > 0 => Outcomes(c)' > 0

LEMMA AnswerStepKeeps ==
  ASSUME NEW c \in Command, AnswerInv(c), AnswerStep(c)
  PROVE  AnswerInv(c)'
<1>1. c \in wire' => pc'[c] = "done" \/ (~AddsFirst(c) /\ pc'[c] = "add")
  BY DEF AnswerInv, AnswerStep, AfterSend
<1>2. \A t \in IOThread : c \in job'[t].cmds /\ job'[t].status = "Success" => c \in answered'
  BY DEF AnswerInv, AnswerStep
<1>3. called'[c]["Success"] > 0 => c \in answered'
  BY DEF AnswerInv, AnswerStep
<1>4. AddsFirst(c) /\ Entered(c)' => Tabled(c)' \/ InJob(c)' # {} \/ Outcomes(c)' > 0
  BY DEF AnswerInv, AnswerStep
<1>5. QED
  BY <1>1, <1>2, <1>3, <1>4 DEF AnswerInv, AddsFirst

(* A step that leaves table, jobs and outcomes of c alone.                  *)
LEMMA QuietStep ==
  ASSUME NEW c \in Command,
         Tabled(c)' <=> Tabled(c), job' = job, called'[c]["Success"] = called[c]["Success"],
         called'[c]["Timeout"] = called[c]["Timeout"], answered \subseteq answered',
         c \in wire' => \/ c \in wire /\ pc'[c] \in {pc[c], "done"}
                       \/ pc'[c] = AfterSend(c),
         Entered(c)' => Entered(c)
  PROVE  AnswerStep(c)
<1>1. InJob(c)' = InJob(c) /\ Outcomes(c)' = Outcomes(c)
  BY DEF InJob, Outcomes
<1>2. QED
  BY <1>1 DEF AnswerStep

(* Every step is one of these, for every command.                           *)
LEMMA AnswerSteps ==
  ASSUME TableInv, NumberInv, Next, TableInv', NEW c \in Command,
         \A d \in Command : AnswerInv(d)
  PROVE  AnswerStep(c)
<1> USE CommandAssumption DEF AfterSend
<1>1. ASSUME NEW d \in Command, GetSeq(d) PROVE AnswerStep(c)
  <2>1. CASE c = d
    <3>1. pc[c] = "idle" /\ pc'[c] \in {"add", "send"} /\ (AddsFirst(c) => pc'[c] = "add")
      BY <1>1, <2>1 DEF GetSeq, TableInv, TypeOK
    <3>2. ~Entered(c) /\ ~Entered(c)' /\ ~Tabled(c) /\ ~Tabled(c)' /\ c \notin wire
      BY <3>1 DEF Entered, AddsFirst, TableInv, CommandInv, AnswerInv
    <3>3. QED
      BY <1>1, <3>2, QuietStep DEF GetSeq
  <2>2. CASE c # d
    BY <1>1, <2>2, QuietStep DEF GetSeq, TableInv, TypeOK, Tabled, Entered, AddsFirst
  <2>3. QED
    BY <2>1, <2>2
<1>2. ASSUME NEW d \in Command, RefuseCommand(d) PROVE AnswerStep(c)
  BY <1>2, QuietStep
     DEF RefuseCommand, TableInv, TypeOK, Tabled, Entered, AddsFirst, AnswerInv
<1>3. ASSUME NEW d \in Command, Send(d) PROVE AnswerStep(c)
  <2>1. /\ pc[d] = "send" /\ pc' = [pc EXCEPT ![d] = AfterSend(d)]
        /\ UNCHANGED <<commands, seq_num, answered, job>>
        /\ wire' \subseteq wire \cup {d}
    BY <1>3 DEF Send, SendTo, SendToFails
  <2>2. called'[c]["Success"] = called[c]["Success"] /\ called'[c]["Timeout"] = called[c]["Timeout"]
    <3>1. called \in [Command -> [Status -> Nat]] /\ "SendFailed" \in Status
          /\ "Success" \in Status /\ "Timeout" \in Status
      BY DEF TableInv, TypeOK, Status
    <3>2. CASE SendTo(d)
      BY <3>2 DEF SendTo
    <3>3. CASE SendToFails(d)
      BY <3>1, <3>3, CountCall DEF SendToFails
    <3>4. QED
      BY <1>3, <3>2, <3>3 DEF Send
  <2>3. (Tabled(c)' <=> Tabled(c)) /\ (Entered(c)' => Entered(c))
    BY <2>1 DEF Tabled, Entered, AddsFirst, TableInv, TypeOK
  <2>4. c \in wire' => \/ c \in wire /\ pc'[c] \in {pc[c], "done"}
                      \/ pc'[c] = AfterSend(c)
    BY <2>1 DEF TableInv, TypeOK
  <2>5. QED
    BY <2>1, <2>2, <2>3, <2>4, QuietStep
<1>4. ASSUME NEW d \in Command, AddCommand(d) PROVE AnswerStep(c)
  <2>1. /\ commands' = [commands EXCEPT ![seq_num[d]] = d]
        /\ pc[d] = "add" /\ pc' = [pc EXCEPT ![d] = IF AddsFirst(d) THEN "send" ELSE "done"]
        /\ UNCHANGED <<seq_num, wire, answered, job, called>>
    BY <1>4 DEF AddCommand
  <2>2. commands[seq_num[d]] = NoCommand /\ seq_num[d] \in Seq /\ seq_num[c] \in Seq
    BY <1>4, PlaceIsFree DEF TableInv, TypeOK
  <2>3. (Tabled(c) => Tabled(c)') /\ (c = d => Tabled(c)')
    BY <2>1, <2>2 DEF Tabled, TableInv, TypeOK
  <2>4. Entered(c)' => Entered(c) \/ Tabled(c)'
    BY <2>1, <2>3 DEF Entered, AddsFirst, TableInv, TypeOK
  <2>5. c \in wire' => c \in wire /\ pc'[c] \in {pc[c], "done"}
    BY <2>1 DEF AnswerInv, TableInv, TypeOK
  <2>6. InJob(c)' = InJob(c) /\ Outcomes(c)' = Outcomes(c)
    BY <2>1 DEF InJob, Outcomes
  <2>7. QED
    BY <2>1, <2>3, <2>4, <2>5, <2>6 DEF AnswerStep
<1>5. ASSUME NEW d \in Command, Answer(d) \/ Elapse(d) PROVE AnswerStep(c)
  BY <1>5, QuietStep DEF Answer, Elapse, Tabled, Entered, AddsFirst
<1>6. ASSUME NEW t \in IOThread, NEW d \in Command, HandleAck(t, d) PROVE AnswerStep(c)
  <2>1. /\ d \in answered /\ commands[seq_num[d]] # NoCommand /\ job[t].cmds = {}
        /\ job' = [job EXCEPT ![t] = [status |-> "Success", cmds |-> {commands[seq_num[d]]}]]
        /\ commands' = [commands EXCEPT ![seq_num[d]] = NoCommand]
        /\ UNCHANGED <<seq, pc, seq_num, wire, answered, called>>
    BY <1>6 DEF HandleAck
  <2>2. d \in Numbered
    BY <2>1 DEF AnswerInv, TableInv, TypeOK, Numbered
  <2>3. commands[seq_num[d]] = d
    BY <2>1, <2>2, NumberFinds DEF Tabled
  <2>4. /\ job'[t].status = "Success" /\ job'[t].cmds = {d}
        /\ \A u \in IOThread \ {t} : job'[u] = job[u]
    BY <2>1, <2>3 DEF TableInv, TypeOK
  <2>5. Tabled(c) => Tabled(c)' \/ c = d
    BY <2>1, <2>3 DEF Tabled, TableInv, TypeOK
  <2>6. (c = d => InJob(c)' # {}) /\ (InJob(c) # {} => InJob(c)' # {})
    BY <2>1, <2>4 DEF InJob
  <2>7. Outcomes(c)' = Outcomes(c) /\ (Entered(c)' <=> Entered(c))
    BY <2>1 DEF Outcomes, Entered, AddsFirst
  <2>8. QED
    BY <2>1, <2>4, <2>5, <2>6, <2>7 DEF AnswerStep
<1>7. ASSUME NEW t \in IOThread, CommandsHandle(t) PROVE AnswerStep(c)
  <2>1. /\ job[t].cmds = {} /\ job'[t].status = "Timeout" /\ job'[t].cmds = due
        /\ \A u \in IOThread \ {t} : job'[u] = job[u]
        /\ UNCHANGED <<seq, pc, seq_num, wire, answered, called>>
    BY <1>7 DEF CommandsHandle, TableInv, TypeOK
  <2>2. Tabled(c) => Tabled(c)' \/ c \in due
    BY <1>7 DEF CommandsHandle, Tabled, TableInv, TypeOK
  <2>3. (c \in due => InJob(c)' # {}) /\ (InJob(c) # {} => InJob(c)' # {})
    BY <2>1 DEF InJob
  <2>4. Outcomes(c)' = Outcomes(c) /\ (Entered(c)' <=> Entered(c))
    BY <2>1 DEF Outcomes, Entered, AddsFirst
  <2>5. QED
    BY <2>1, <2>2, <2>3, <2>4 DEF AnswerStep
<1>8. ASSUME NEW t \in IOThread, Callback(t) PROVE AnswerStep(c)
  <2>1. PICK d \in job[t].cmds :
          /\ called' = [called EXCEPT ![d][job[t].status] = @ + 1]
          /\ job' = [job EXCEPT ![t].cmds = @ \ {d}]
          /\ UNCHANGED <<seq, commands, due, pc, seq_num, wire, answered>>
    BY <1>8 DEF Callback
  <2> DEFINE s == job[t].status
  <2>2. d \in Command /\ s \in {"Success", "Timeout"} /\ s \in Status
    BY DEF TableInv, TypeOK, Status
  <2>3. /\ called'[d][s] = called[d][s] + 1
        /\ \A r \in Status \ {s} : called'[d][r] = called[d][r]
        /\ \A e \in Command \ {d} : called'[e] = called[e]
        /\ called' \in [Command -> [Status -> Nat]]
    <3> HIDE DEF s
    <3>1. called' = [called EXCEPT ![d][s] = @ + 1] /\ called \in [Command -> [Status -> Nat]]
      BY <2>1 DEF s, TableInv, TypeOK
    <3>2. QED
      BY <2>2, <3>1, CountCall
  <2>4. /\ job'[t].status = job[t].status /\ job'[t].cmds = job[t].cmds \ {d}
        /\ \A u \in IOThread \ {t} : job'[u] = job[u]
    BY <2>1 DEF TableInv, TypeOK
  <2>5. /\ called[c]["Success"] \in Nat /\ called[c]["Timeout"] \in Nat
        /\ called'[c]["Success"] \in Nat /\ called'[c]["Timeout"] \in Nat
    BY <2>3 DEF TableInv, TypeOK, Status
  <2>6. Outcomes(c)' >= Outcomes(c) /\ (c = d => Outcomes(c)' > 0)
    <3>1. CASE c # d
      BY <2>3, <2>5, <3>1 DEF Outcomes
    <3>2. CASE c = d /\ s = "Success"
      BY <2>3, <2>5, <3>2 DEF Outcomes, Status
    <3>3. CASE c = d /\ s = "Timeout"
      BY <2>3, <2>5, <3>3 DEF Outcomes, Status
    <3>4. QED
      BY <2>2, <3>1, <3>2, <3>3
  <2>7. called'[c]["Success"] > 0 =>
          called[c]["Success"] > 0 \/ (c \in job[t].cmds /\ job[t].status = "Success")
    BY <2>2, <2>3 DEF Status
  <2>8. c # d => InJob(c)' = InJob(c)
    BY <2>4 DEF InJob
  <2>9. (Tabled(c)' <=> Tabled(c)) /\ (Entered(c)' <=> Entered(c)) /\ Outcomes(c) \in Nat
    BY <2>1, <2>5 DEF Tabled, Entered, AddsFirst, Outcomes
  <2>10. Outcomes(c)' \in Nat
    BY <2>5 DEF Outcomes
  <2>11. Outcomes(c) > 0 => Outcomes(c)' > 0
    BY <2>6, <2>9, <2>10
  <2>12. \A u \in IOThread :
           c \in job'[u].cmds /\ job'[u].status = "Success" =>
             c \in job[u].cmds /\ job[u].status = "Success"
    BY <2>4
  <2>13. (InJob(c) # {} => InJob(c)' # {} \/ Outcomes(c)' > 0)
    BY <2>6, <2>8
  <2>14. QED
    BY <2>1, <2>7, <2>9, <2>11, <2>12, <2>13 DEF AnswerStep
<1>9. QED
  BY <1>1, <1>2, <1>3, <1>4, <1>5, <1>6, <1>7, <1>8 DEF Next

LEMMA AnswerInit == Init => \A c \in Command : AnswerInv(c)
BY DEF Init, AnswerInv, AddsFirst, Entered, Idle, Status

AllInv == TableInv /\ NumberInv /\ \A c \in Command : AnswerInv(c)

LEMMA AllStep == AllInv /\ [Next]_vars => AllInv'
<1> SUFFICES ASSUME AllInv, [Next]_vars PROVE AllInv'
  OBVIOUS
<1>1. TableInv' /\ NumberInv'
  BY TableStep, NumberStep DEF AllInv
<1>2. CASE Next
  <2>1. \A c \in Command : AnswerStep(c)
    BY <1>1, <1>2, AnswerSteps DEF AllInv
  <2>2. \A c \in Command : AnswerInv(c)'
    BY <2>1, AnswerStepKeeps DEF AllInv
  <2>3. QED
    BY <1>1, <2>2 DEF AllInv
<1>3. CASE UNCHANGED vars
  <2>1. ASSUME NEW c \in Command PROVE AnswerInv(c)'
    <3>1. AnswerInv(c)
      BY DEF AllInv
    <3>2. QED
      BY <1>3, <3>1 DEF vars, AnswerInv, AddsFirst, Entered, Tabled, InJob, Outcomes
  <2>2. QED
    BY <1>1, <2>1 DEF AllInv
<1>4. QED
  BY <1>2, <1>3

(* A callback is told Success only if the lidar answered that command, also  *)
(* after the counter has wrapped, with no more commands than there are       *)
(* numbers (CommandAssumption).                                              *)
THEOREM TableSuccessIsAnswered == Spec => []SuccessIsAnswered
<1>1. Init => AllInv
  BY TableInit, NumberInit, AnswerInit DEF AllInv
<1>2. AllInv => SuccessIsAnswered
  BY DEF AllInv, AnswerInv, SuccessIsAnswered
<1>3. QED
  BY <1>1, <1>2, AllStep, PTL DEF Spec

(* The acknowledgement of a host-configuration write finds its command in    *)
(* the table, unless the command already has its outcome.                    *)
THEOREM TableAckFindsCommand == Spec => []AckFindsCommand
<1>1. Init => AllInv
  BY TableInit, NumberInit, AnswerInit DEF AllInv
<1>2. AllInv => AckFindsCommand
  <2> SUFFICES ASSUME AllInv, NEW c \in HostConfig \cap answered
               PROVE  Tabled(c) \/ InJob(c) # {} \/ Outcomes(c) > 0
    BY DEF AckFindsCommand, Tabled
  <2>1. c \in Command /\ c \in wire /\ AddsFirst(c)
    BY DEF AllInv, TableInv, TypeOK, AddsFirst
  <2>2. Entered(c)
    BY <2>1 DEF AllInv, AnswerInv, Entered
  <2>3. QED
    BY <2>1, <2>2 DEF AllInv, AnswerInv
<1>3. QED
  BY <1>1, <1>2, AllStep, PTL DEF Spec
=============================================================================
