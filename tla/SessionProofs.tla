--------------------------- MODULE SessionProofs ---------------------------
(***************************************************************************)
(* The worker of an open session holds its committed history, and both     *)
(* kinds of session keep the promise of AslSession, for any instructions,  *)
(* any interpreter and any history.  PipeInv says what lies in the pipes   *)
(* at each phase of the worker, for every client of it; SessionInv says    *)
(* how far each operation has got and what the worker then holds.          *)
(***************************************************************************)
EXTENDS Session, TLAPS

\* What the interpreter is to a session: the constants Initial and Outcomes of the
\* protocol are the session's.
Semantics ==
  /\ \A src : Initial(src) = SessionInitial(src)
  /\ \A state, c : Outcomes(state, c) = SessionOutcomes(state, c)

-----------------------------------------------------------------------------
(* The pipes.                                                              *)

PipeType ==
  /\ process \in {"none", "live", "dead"} /\ phase \in {"boot", "idle", "busy", "asking"}
  /\ call \in Commands \cup {NoCommand}
  /\ stdin \in Seq(Commands \cup {MemoryReply})
  /\ process = "none" => call = NoCommand
  /\ call # NoCommand => answer = NoAnswer
  /\ answer \in {NoAnswer} \cup Failures \cup UNION {Replies(c) : c \in Commands}

\* The line of the request in progress, while the worker has not read it.
Sent == IF call = NoCommand THEN <<>> ELSE <<call>>

\* The next line is none the waiting worker would take for its memory reply.
NoMemoryReply == stdin = <<>> \/ Head(stdin) # MemoryReply

\* A worker that asks is answered, or it was left alone in the middle of a command
\* (or asked during boot), and then the next line ends it.
Asking ==
  \/ /\ call # NoCommand /\ command = call
     /\ \/ stdin = <<>> /\ stdout = <<MemoryRequest>>
        \/ stdin = <<MemoryReply>> /\ stdout = <<>>
  \/ /\ NoMemoryReply /\ stdout \in {<<>>, <<MemoryRequest>>}
     /\ stdin = <<>> /\ stdout # <<>> => call = NoCommand

Replied == call # NoCommand /\ stdin = <<>> /\ \E r \in Replies(call) : stdout = <<r>>

WorkerInv ==
  process = "live" =>
    /\ phase = "boot" => command = NoCommand /\ stdin = Sent /\ stdout = <<>>
    /\ phase = "idle" => (stdin = Sent /\ stdout = <<>>) \/ Replied
    /\ phase = "busy" => /\ call # NoCommand /\ command = call
                         /\ stdin = <<>> /\ stdout = <<>>
    /\ phase = "asking" => Asking

ReplyInv ==
  call # NoCommand => stdout \in {<<>>, <<MemoryRequest>>} \/ (Replied /\ phase = "idle")

PipeInv == PipeType /\ WorkerInv /\ ReplyInv

-----------------------------------------------------------------------------
\* A pipe with one line.
LEMMA OneLine ==
  ASSUME NEW x
  PROVE  /\ <<x>> # <<>> /\ Head(<<x>>) = x /\ Tail(<<x>>) = <<>> /\ Append(<<>>, x) = <<x>>
OBVIOUS

\* Lines of different kinds differ, by their names.
LEMMA Names ==
  /\ \A c \in Commands : c.name \in {"ping", "reset", "step"} /\ c # NoCommand
  /\ \A i : Step(i) # Reset /\ Step(i) # Ping /\ Step(i).name = "step" /\ Step(i).arg = i
  /\ Ping # Reset /\ Ping.name = "ping"
  /\ MemoryReply \notin Commands /\ MemoryRequest.name = "mem_request"
  /\ \A c \in Commands : AnsweredWith(c) = "status" /\ Expected(c) = "status"
  /\ \A c \in Commands : \A r \in Replies(c) :
       r.name = "status" /\ r.to = c /\ r.value \in {0, 1} /\ r # MemoryRequest
  /\ \A f \in Failures : f.name \in {"error", "timeout", "raised"}
<1>1. \A c \in Commands : c.name \in {"ping", "reset", "step"}
  BY DEF Commands, Ping, Reset, Step, Line
<1>2. \A c \in Commands : c # NoCommand
  BY SessionAssumption, Zenon
<1>3. \A i : Step(i) # Reset /\ Step(i) # Ping /\ Step(i).name = "step" /\ Step(i).arg = i
  BY Zenon DEF Ping, Reset, Step, Line
<1>4. Ping # Reset /\ Ping.name = "ping"
  BY Zenon DEF Ping, Reset, Line
<1>5. MemoryReply \notin Commands /\ MemoryRequest.name = "mem_request"
  <2>1. MemoryReply.name = "mem_reply" /\ MemoryRequest.name = "mem_request"
    BY Zenon DEF MemoryReply, MemoryRequest, Line
  <2> QED
    BY <1>1, <2>1, Zenon
<1>6. \A c \in Commands : AnsweredWith(c) = "status" /\ Expected(c) = "status"
  BY <1>1, Zenon DEF AnsweredWith, Expected, ValueCommands, ParsedAsValue, ParsedAsFlagOrWord
<1>7. \A c \in Commands : \A r \in Replies(c) :
        r.name = "status" /\ r.to = c /\ r.value \in {0, 1} /\ r # MemoryRequest
  <2>1. ASSUME NEW c \in Commands, NEW r \in Replies(c)
        PROVE  r.name = "status" /\ r.to = c /\ r.value \in {0, 1}
    BY DEF Replies, Reply
  <2> QED
    BY <1>5, <2>1, Zenon
<1>8. \A f \in Failures : f.name \in {"error", "timeout", "raised"}
  BY DEF Failures, Failure, Reply
<1> QED
  BY <1>1, <1>2, <1>3, <1>4, <1>5, <1>6, <1>7, <1>8, Zenon

\* What main answers to a command of a session.
LEMMA ExecuteAnswers ==
  ASSUME Semantics, NEW c \in Commands, NEW outcome \in Execute(c)
  PROVE  /\ outcome.value \in {0, 1}
         /\ c = Reset => outcome.vm = <<source>> /\ outcome.value = 0
         /\ c = Ping => outcome.vm = vm /\ outcome.value = 0
         /\ \A i : c = Step(i) => /\ outcome.vm = Append(vm, i)
                                  /\ outcome.value = 0 <=> Executed(vm, i)
<1>1. CASE c = Reset
  BY <1>1, Names DEF Execute, Semantics, SessionInitial
<1>2. CASE c # Reset
  <2>1. outcome \in SessionOutcomes(vm, c)
    BY <1>2, Zenon DEF Execute, Semantics
  <2>2. CASE c = Ping
    <3>1. outcome = [vm |-> vm, value |-> 0]
      BY <2>1, <2>2, Names, Zenon DEF SessionOutcomes
    <3> QED
      BY <2>2, <3>1, Names, Zenon
  <2>3. ASSUME NEW i, c = Step(i)
        PROVE  /\ outcome.vm = Append(vm, i) /\ outcome.value \in {0, 1}
               /\ outcome.value = 0 <=> Executed(vm, i)
    <3>1. outcome = [vm |-> Append(vm, i), value |-> IF Executed(vm, i) THEN 0 ELSE 1]
      BY <2>1, <2>3, Names DEF SessionOutcomes
    <3> QED
      BY <3>1
  <2>4. c = Ping \/ \E i : c = Step(i)
    BY <1>2, Zenon DEF Commands
  <2> QED
    BY <1>2, <2>2, <2>3, <2>4, Names, Zenon
<1> QED
  BY <1>1, <1>2, Zenon
-----------------------------------------------------------------------------
(* Every client of the worker keeps the pipes in order.                    *)

\* The host's side: a reply ends the request, a memory request is answered or the
\* request fails, the end of the worker ends it.
LEMMA PipeHost == PipeInv /\ HostProgress => PipeInv'
<1> SUFFICES ASSUME PipeInv, HostProgress PROVE PipeInv'
  BY Zenon
<1>0. /\ call \in Commands /\ call # NoCommand /\ process # "none"
  BY Zenon DEF HostProgress, HostReads, HostEof, HostTimesOut, PipeInv, PipeType
<1>f. Failure("error") \in Failures /\ Failure("raised") \in Failures
      /\ Failure("timeout") \in Failures
  BY Zenon DEF Failures
<1>1. CASE HostReads /\ Head(stdout) # MemoryRequest
  <2>1. Replied /\ phase = "idle"
    BY <1>0, <1>1, OneLine, Zenon DEF HostReads, PipeInv, ReplyInv
  <2>2. PICK r \in Replies(call) : stdout = <<r>>
    BY <2>1, Zenon DEF Replied
  <2>3. /\ stdout' = <<>> /\ stdin' = <<>> /\ call' = NoCommand /\ answer' = r
        /\ UNCHANGED <<process, phase, command>>
    BY <1>1, <2>1, <2>2, OneLine, Zenon DEF HostReads, EndRequest, Replied, worker
  <2>4. PipeType'
    BY <1>0, <2>2, <2>3 DEF PipeInv, PipeType
  <2> QED
    BY <2>1, <2>3, <2>4, Zenon DEF PipeInv, WorkerInv, ReplyInv, Sent
<1>2. CASE HostReads /\ Head(stdout) = MemoryRequest
  <2>1. stdout = <<MemoryRequest>>
    <3>1. ~Replied
      BY <1>0, <1>2, Names, OneLine DEF Replied
    <3> QED
      BY <1>0, <1>2, <3>1, Zenon DEF HostReads, PipeInv, ReplyInv
  <2>2. stdout' = <<>> /\ UNCHANGED <<process, phase, command>>
    BY <1>2, <2>1, OneLine, Zenon DEF HostReads, worker
  <2>3. process = "live" => phase = "asking" /\ Asking
    <3>1. ~Replied
      BY <1>0, <1>2, Names, OneLine DEF Replied
    <3> QED
      BY <2>1, <3>1, OneLine, Zenon DEF PipeInv, PipeType, WorkerInv
  <2>4. CASE /\ call' = NoCommand /\ answer' \in Failures /\ stdin' = stdin
    <3>1. PipeType'
      BY <2>2, <2>4, Zenon DEF PipeInv, PipeType
    <3>2. process = "live" => NoMemoryReply
      BY <2>1, <2>3, OneLine, Zenon DEF Asking, NoMemoryReply
    <3> QED
      BY <2>2, <2>3, <2>4, <3>1, <3>2, Zenon
         DEF PipeInv, WorkerInv, ReplyInv, Asking, NoMemoryReply
  <2>5. CASE stdin' = Append(stdin, MemoryReply) /\ UNCHANGED <<call, answer>>
    <3>1. PipeType'
      BY <2>2, <2>5 DEF PipeInv, PipeType
    <3>2. CASE process = "live" /\ stdin = <<>>
      <4>1. command = call /\ stdin' = <<MemoryReply>>
        BY <1>0, <2>1, <2>3, <2>5, <3>2, OneLine, Zenon DEF Asking
      <4> QED
        BY <1>0, <2>2, <2>3, <2>5, <3>1, <3>2, <4>1, Zenon DEF PipeInv, WorkerInv, ReplyInv, Asking
    <3>3. CASE process = "live" /\ stdin # <<>>
      <4>1. Head(stdin) # MemoryReply
        BY <2>1, <2>3, <3>3, OneLine, Zenon DEF Asking, NoMemoryReply
      <4>2. stdin' # <<>> /\ Head(stdin') = Head(stdin)
        BY <2>5, <3>3 DEF PipeInv, PipeType
      <4> QED
        BY <2>2, <2>3, <2>5, <3>1, <3>3, <4>1, <4>2, Zenon
           DEF PipeInv, WorkerInv, ReplyInv, Asking, NoMemoryReply
    <3>4. CASE process # "live"
      BY <2>2, <2>5, <3>1, <3>4, Zenon DEF PipeInv, WorkerInv, ReplyInv
    <3> QED
      BY <3>2, <3>3, <3>4, Zenon
  <2> QED
    BY <1>f, <1>2, <2>4, <2>5, Zenon DEF HostReads, EndRequest
<1>3. CASE HostEof \/ HostTimesOut
  <2>1. /\ process' = "dead" /\ call' = NoCommand /\ answer' \in Failures
        /\ stdin' = stdin /\ phase' = phase
    BY <1>f, <1>3, Zenon DEF HostEof, HostTimesOut, EndRequest, pipes, worker
  <2> QED
    BY <2>1, Zenon DEF PipeInv, PipeType, WorkerInv, ReplyInv
<1> QED
  BY <1>1, <1>2, <1>3, Zenon DEF HostProgress, HostReads

\* The worker's side: one reply for each command, after its memory requests.
LEMMA PipeWorker == Semantics /\ PipeInv /\ (WorkerProgress \/ Die) => PipeInv'
<1> SUFFICES ASSUME Semantics, PipeInv, WorkerProgress \/ Die PROVE PipeInv'
  BY Zenon
<1>0. process = "live" /\ UNCHANGED <<call, answer>>
  BY Zenon DEF WorkerProgress, Boot, ReadCommand, AskMemory, ReadMemoryReply, FinishCommand, Die
<1>1. CASE Boot
  <2>1. command = NoCommand /\ stdin = Sent /\ stdout = <<>>
    BY <1>0, <1>1, Zenon DEF Boot, PipeInv, WorkerInv
  <2>2. PipeType' /\ process' = "live" /\ stdin' = stdin /\ command' = command
    BY <1>0, <1>1, Zenon DEF Boot, PipeInv, PipeType
  <2>3. CASE phase' = "asking" /\ stdout' = <<MemoryRequest>>
    <3>1. Asking'
      <4>1. CASE call = NoCommand
        BY <1>0, <2>1, <2>2, <2>3, <4>1, Zenon DEF Asking, NoMemoryReply, Sent
      <4>2. CASE call # NoCommand
        <5>1. stdin = <<call>> /\ call # MemoryReply
          BY <2>1, <4>2, Names, Zenon DEF Sent, PipeInv, PipeType
        <5> QED
          BY <1>0, <2>2, <2>3, <5>1, OneLine, Zenon DEF Asking, NoMemoryReply
      <4> QED
        BY <4>1, <4>2, Zenon
    <3> QED
      BY <2>2, <2>3, <3>1, Zenon DEF PipeInv, WorkerInv, ReplyInv
  <2>4. CASE phase' = "idle" /\ stdout' = stdout
    BY <1>0, <2>1, <2>2, <2>4, Zenon DEF PipeInv, WorkerInv, ReplyInv, Sent
  <2> QED
    BY <1>1, <2>1, <2>3, <2>4, OneLine, Zenon DEF Boot, Emit
<1>2. CASE ReadCommand
  <2>1. stdin = Sent /\ stdout = <<>>
    BY <1>0, <1>2, Zenon DEF ReadCommand, PipeInv, WorkerInv, Replied
  <2>2. call # NoCommand /\ stdin = <<call>>
    BY <1>2, <2>1, Zenon DEF ReadCommand, Sent
  <2>3. /\ stdin' = <<>> /\ command' = call /\ phase' = "busy" /\ stdout' = stdout
        /\ process' = process
    BY <1>2, <2>2, OneLine, Zenon DEF ReadCommand
  <2>4. PipeType'
    BY <1>0, <2>3 DEF PipeInv, PipeType
  <2> QED
    BY <1>0, <2>1, <2>2, <2>3, <2>4, Zenon DEF PipeInv, WorkerInv, ReplyInv
<1>3. CASE AskMemory
  <2>1. call # NoCommand /\ command = call /\ stdin = <<>> /\ stdout = <<>>
    BY <1>0, <1>3, Zenon DEF AskMemory, PipeInv, WorkerInv
  <2>2. /\ phase' = "asking" /\ stdout' = <<MemoryRequest>> /\ stdin' = stdin
        /\ command' = command /\ process' = process
    BY <1>3, <2>1, OneLine, Zenon DEF AskMemory, Emit
  <2>3. PipeType'
    BY <1>0, <2>2, Zenon DEF PipeInv, PipeType
  <2> QED
    BY <1>0, <2>1, <2>2, <2>3, Zenon DEF PipeInv, WorkerInv, ReplyInv, Asking
<1>4. CASE ReadMemoryReply
  <2>1. Asking /\ stdin # <<>>
    BY <1>0, <1>4, Zenon DEF ReadMemoryReply, PipeInv, WorkerInv
  <2>2. /\ stdin' = Tail(stdin) /\ stdout' = stdout /\ command' = command
    BY <1>4, Zenon DEF ReadMemoryReply
  <2>3. stdin' \in Seq(Commands \cup {MemoryReply})
    BY <2>1, <2>2 DEF PipeInv, PipeType
  <2>4. CASE Head(stdin) = MemoryReply
    <3>1. call # NoCommand /\ command = call /\ stdin = <<MemoryReply>> /\ stdout = <<>>
      BY <2>1, <2>4, Zenon DEF Asking, NoMemoryReply
    <3>2. phase' = "busy" /\ process' = process /\ stdin' = <<>>
      BY <1>4, <2>2, <2>4, <3>1, OneLine, Zenon DEF ReadMemoryReply
    <3>3. PipeType'
      BY <1>0, <2>3, <3>2, Zenon DEF PipeInv, PipeType
    <3> QED
      BY <1>0, <2>2, <3>1, <3>2, <3>3, Zenon DEF PipeInv, WorkerInv, ReplyInv
  <2>5. CASE Head(stdin) # MemoryReply
    <3>1. process' = "dead" /\ phase' = phase
      BY <1>4, <2>5, Zenon DEF ReadMemoryReply
    <3>2. PipeType'
      BY <1>0, <2>3, <3>1, Zenon DEF PipeInv, PipeType
    <3>3. stdout \in {<<>>, <<MemoryRequest>>}
      BY <2>1, Zenon DEF Asking
    <3> QED
      BY <1>0, <2>2, <3>1, <3>2, <3>3, Zenon DEF PipeInv, WorkerInv, ReplyInv
  <2> QED
    BY <2>4, <2>5, Zenon
<1>5. CASE FinishCommand
  <2>1. /\ call # NoCommand /\ call \in Commands /\ command = call
        /\ stdin = <<>> /\ stdout = <<>>
    BY <1>0, <1>5, Zenon DEF FinishCommand, PipeInv, PipeType, WorkerInv
  <2>2. PICK outcome \in Execute(call) :
          stdout' = Append(stdout, Reply(AnsweredWith(call), outcome.value, call))
    BY <1>5, <2>1, Zenon DEF FinishCommand, Emit
  <2>3. outcome.value \in {0, 1} /\ AnsweredWith(call) = "status"
    BY <2>1, <2>2, ExecuteAnswers, Names, Zenon
  <2>4. \E r \in Replies(call) : stdout' = <<r>>
    BY <2>1, <2>2, <2>3, OneLine, Zenon DEF Replies
  <2>5. phase' = "idle" /\ stdin' = stdin /\ process' = process
    BY <1>5, Zenon DEF FinishCommand
  <2>6. PipeType'
    BY <1>0, <2>5, Zenon DEF PipeInv, PipeType
  <2> QED
    BY <1>0, <2>1, <2>4, <2>5, <2>6, Zenon DEF PipeInv, WorkerInv, ReplyInv, Replied
<1>6. CASE Die
  BY <1>0, <1>6, Zenon DEF Die, pipes, worker, PipeInv, PipeType, WorkerInv, ReplyInv, Replied
<1> QED
  BY <1>1, <1>2, <1>3, <1>4, <1>5, <1>6, Zenon DEF WorkerProgress
\* A request of a known command.
LEMMA PipeRequest ==
  ASSUME PipeInv, NEW c \in Commands, Request(c)
  PROVE  PipeInv'
<1>0. call = NoCommand /\ answer = NoAnswer /\ c # NoCommand /\ c # MemoryReply
  BY Names, Zenon DEF Request
<1>1. CASE RequestRestart(c)
  <2>1. /\ process' = "live" /\ phase' = "boot" /\ command' = NoCommand
        /\ stdin' = <<c>> /\ stdout' = <<>> /\ call' = c /\ answer' = answer
    BY <1>1, Zenon DEF RequestRestart, Spawn
  <2> QED
    BY <1>0, <2>1 DEF PipeInv, PipeType, WorkerInv, ReplyInv, Sent
<1>4. CASE RequestRestartRaises(c)
  <2>1. /\ process' = "none" /\ call' = NoCommand /\ answer' \in Failures
        /\ stdin' = stdin /\ phase' = phase
    BY <1>0, <1>4, Zenon DEF RequestRestartRaises, pipes, worker, Failures
  <2> QED
    BY <2>1, Zenon DEF PipeInv, PipeType, WorkerInv, ReplyInv
<1>2. CASE RequestDead(c)
  <2>1. /\ process' = "dead" /\ call' = NoCommand /\ answer' \in Failures
        /\ stdin' = stdin /\ phase' = phase
    BY <1>0, <1>2, Zenon DEF RequestDead, pipes, worker, Failures
  <2> QED
    BY <2>1, Zenon DEF PipeInv, PipeType, WorkerInv, ReplyInv
<1>3. CASE RequestLive(c)
  <2>1. /\ process = "live" /\ process' = "live" /\ call' = c /\ answer' = answer
        /\ stdin' = Append(stdin, c) /\ stdout' = stdout /\ phase' = phase /\ command' = command
    BY <1>3, Zenon DEF RequestLive, worker
  <2>2. PipeType'
    BY <1>0, <2>1 DEF PipeInv, PipeType
  <2>3. CASE phase \in {"boot", "idle"}
    <3>1. stdin = <<>> /\ stdout = <<>> /\ (phase = "boot" => command = NoCommand)
      BY <1>0, <2>1, <2>3, Zenon DEF PipeInv, WorkerInv, Sent, Replied
    <3>2. stdin' = <<c>>
      BY <2>1, <3>1, OneLine, Zenon
    <3> QED
      BY <1>0, <2>1, <2>2, <2>3, <3>1, <3>2, Zenon DEF PipeInv, WorkerInv, ReplyInv, Sent
  <2>4. CASE phase = "asking"
    <3>1. NoMemoryReply /\ stdout \in {<<>>, <<MemoryRequest>>}
      BY <1>0, <2>1, <2>4, Zenon DEF PipeInv, WorkerInv, Asking
    <3>2. stdin' # <<>> /\ Head(stdin') # MemoryReply
      <4>1. CASE stdin = <<>>
        BY <1>0, <2>1, <4>1, OneLine, Zenon
      <4>2. CASE stdin # <<>>
        BY <2>1, <3>1, <4>2 DEF NoMemoryReply, PipeInv, PipeType
      <4> QED
        BY <4>1, <4>2, Zenon
    <3> QED
      BY <2>1, <2>2, <2>4, <3>1, <3>2, Zenon
         DEF PipeInv, WorkerInv, ReplyInv, Asking, NoMemoryReply
  <2>5. phase # "busy"
    BY <1>0, <2>1, Zenon DEF PipeInv, WorkerInv
  <2> QED
    BY <2>3, <2>4, <2>5, Zenon DEF PipeInv, PipeType
<1> QED
  BY <1>1, <1>2, <1>3, <1>4, Zenon DEF Request

\* A start, a start that raises, a look at the answer, a stop.
LEMMA PipeControl ==
  ASSUME PipeInv,
         \/ \E src : Start(src)
         \/ StartRaises
         \/ Consume
         \/ Stop /\ UNCHANGED <<worker, call>> /\ answer' \in {answer, NoAnswer}
  PROVE  PipeInv'
<1>1. CASE \E src : Start(src)
  BY <1>1 DEF Start, Spawn, PipeInv, PipeType, WorkerInv, ReplyInv, Sent
<1>2. CASE StartRaises
  BY <1>2, Zenon DEF StartRaises, pipes, worker, Failures, PipeInv, PipeType, WorkerInv, ReplyInv
<1>3. CASE Consume
  <2>1. UNCHANGED <<process, stdin, stdout, phase, command, call>> /\ answer' = NoAnswer
    BY <1>3, Zenon DEF Consume, pipes, worker
  <2> QED
    BY <2>1, Zenon DEF PipeInv, PipeType, WorkerInv, ReplyInv, Sent, Replied, Asking, NoMemoryReply
<1>4. CASE Stop /\ UNCHANGED <<worker, call>> /\ answer' \in {answer, NoAnswer}
  BY <1>4 DEF Stop, worker, PipeInv, PipeType, WorkerInv, ReplyInv
<1> QED
  BY <1>1, <1>2, <1>3, <1>4, Zenon

SessionType ==
  /\ backend \in {"process", "embedded", "direct"} /\ open \in BOOLEAN
  /\ op \in {"new", "created", "pinging", "idle", "stepping", "restore", "resetting",
             "replay", "replaying"}
  /\ history \in Seq(Instruction) /\ target \in Seq(Instruction)
  /\ snapshots \in SUBSET Seq(Instruction) /\ index \in Nat
  /\ pending \in Instruction \cup {NoArg}
  /\ op = "stepping" => pending \in Instruction

\* A part of a history is a history.
LEMMA PrefixType ==
  ASSUME NEW h \in Seq(Instruction), NEW n \in 0..Len(h)
  PROVE  SubSeq(h, 1, n) \in Seq(Instruction) /\ Len(SubSeq(h, 1, n)) = n
OBVIOUS

\* Every step keeps the types of the session's own state.
LEMMA SessionTypeStep == SessionType /\ [Next]_vars => SessionType'
<1> SUFFICES ASSUME SessionType, [Next]_vars PROVE SessionType'
  BY Zenon
<1>1. CASE UNCHANGED session
  BY <1>1, Zenon DEF session, SessionType
<1>2. CASE Protocol \/ DirectUse
  BY <1>1, <1>2, Zenon DEF Protocol, DirectUse, DirectStart, DirectConsume, DirectStop,
                    DirectRequest, Direct
<1>3. CASE ProcessCreate \/ ProcessDestroy \/ Snapshot \/ Create \/ Destroy
  BY <1>3, Zenon DEF ProcessCreate, ProcessDestroy, Snapshot, Create, Destroy, SessionType
<1>4. ASSUME NEW i \in Instruction, ProcessStep(i) \/ StepInstruction(i) PROVE SessionType'
  <2>1. CASE ProcessStep(i)
    <3>1. history' \in Seq(Instruction)
      BY <2>1 DEF ProcessStep, SessionType
    <3>2. UNCHANGED <<backend, open, snapshots, op, pending, target, index>>
      BY <2>1, Zenon DEF ProcessStep
    <3> QED
      BY <3>1, <3>2, Zenon DEF SessionType
  <2>2. CASE StepInstruction(i)
    <3>1. /\ op' = "stepping" /\ pending' = i
          /\ UNCHANGED <<backend, open, history, snapshots, target, index>>
      BY <2>2, Zenon DEF StepInstruction
    <3> QED
      BY <3>1, Zenon DEF SessionType
  <2> QED
    BY <1>4, <2>1, <2>2, Zenon
<1>5. ASSUME NEW h \in snapshots \cup {<<>>}, ProcessReset(h) \/ ResetTo(h)
      PROVE  SessionType'
  <2>1. Len(h) \in 0..Len(history)
    BY <1>5 DEF ProcessReset, ResetTo, ValidSnapshot, SessionType
  <2>2. SubSeq(history, 1, Len(h)) \in Seq(Instruction)
    BY <2>1, PrefixType, Zenon DEF SessionType
  <2> QED
    BY <1>5, <2>2, Zenon DEF ProcessReset, ResetTo, SessionType
<1>6. CASE Continue
  <2> DEFINE Rest == <<backend, snapshots, pending>>
  <2>1. CASE SendPing \/ SendReset \/ Replayed
    <3>1. /\ op' \in {"pinging", "resetting", "replay"}
          /\ UNCHANGED <<Rest, open, history, target, index>>
      BY <2>1, Zenon DEF SendPing, SendReset, Replayed
    <3> QED
      BY <3>1, Zenon DEF SessionType
  <2>2. CASE Created \/ StepRejected \/ GiveUp
    <3>1. /\ op' \in {"idle", "restore"} /\ open' \in {open, TRUE, FALSE}
          /\ target' \in {target, history} /\ UNCHANGED <<Rest, history, index>>
      BY <2>2, Zenon DEF Created, StepRejected, GiveUp
    <3> QED
      BY <3>1, Zenon DEF SessionType
  <2>3. CASE ResetDone \/ SendReplay
    <3>1. /\ op' \in {"replay", "replaying"} /\ index' \in {0, index + 1}
          /\ UNCHANGED <<Rest, open, history, target>>
      BY <2>3, Zenon DEF ResetDone, SendReplay
    <3> QED
      BY <3>1 DEF SessionType
  <2>4. CASE StepCommitted
    <3>1. /\ op = "stepping" /\ op' = "idle" /\ history' = Append(history, pending)
          /\ UNCHANGED <<Rest, open, target, index>>
      BY <2>4, Zenon DEF StepCommitted
    <3>2. history' \in Seq(Instruction)
      BY <3>1 DEF SessionType
    <3> QED
      BY <3>1, <3>2, Zenon DEF SessionType
  <2>5. CASE Restored
    <3>1. op' = "idle" /\ history' = target /\ UNCHANGED <<Rest, open, target, index>>
      BY <2>5, Zenon DEF Restored
    <3> QED
      BY <3>1, Zenon DEF SessionType
  <2> QED
    BY <1>6, <2>1, <2>2, <2>3, <2>4, <2>5, Zenon DEF Continue
<1> QED
  BY <1>1, <1>2, <1>3, <1>4, <1>5, <1>6, Zenon DEF Next, Operation, vars

\* The session's steps seen from the worker.
LEMMA PipeStep == Semantics /\ SessionType /\ PipeInv /\ [Next]_vars => PipeInv'
<1> SUFFICES ASSUME Semantics, SessionType, PipeInv, [Next]_vars PROVE PipeInv'
  BY Zenon
<1>1. CASE UNCHANGED protocol
  BY <1>1, Zenon DEF protocol, pipes, worker, PipeInv, PipeType, WorkerInv, ReplyInv, Sent,
              Replied, Asking, NoMemoryReply
<1>2. CASE Protocol
  BY <1>2, PipeHost, PipeWorker, Zenon DEF Protocol, ProtocolNext
<1>3. CASE Operation
  <2>1. CASE ProcessCreate \/ ProcessDestroy \/ Snapshot
    BY <1>1, <2>1, Zenon DEF ProcessCreate, ProcessDestroy, Snapshot
  <2>2. CASE Create
    BY <2>2, PipeControl, Zenon DEF Create
  <2>3. CASE Destroy
    BY <2>3, PipeControl, Zenon DEF Destroy
  <2>4. ASSUME NEW i \in Instruction, ProcessStep(i) \/ StepInstruction(i) PROVE PipeInv'
    <3>1. Step(i) \in Commands
      BY Zenon DEF Commands
    <3> QED
      BY <1>1, <2>4, <3>1, PipeRequest, Zenon DEF ProcessStep, StepInstruction
  <2>5. ASSUME NEW h, ProcessReset(h) \/ ResetTo(h) PROVE PipeInv'
    BY <1>1, <2>5, Zenon DEF ProcessReset, ResetTo
  <2> QED
    BY <1>3, <2>1, <2>2, <2>3, <2>4, <2>5, Zenon DEF Operation
<1>4. CASE Continue
  <2>1. CASE SendPing \/ SendReset
    BY <2>1, PipeRequest, Zenon DEF SendPing, SendReset, Commands
  <2>2. CASE SendReplay
    <3>1. target[index + 1] \in Instruction
      BY <2>2 DEF SendReplay, SessionType
    <3> QED
      BY <2>2, <3>1, PipeRequest, Zenon DEF SendReplay, Commands
  <2>3. CASE Created \/ StepCommitted \/ StepRejected \/ ResetDone \/ Replayed
    BY <2>3, PipeControl, Zenon DEF Created, StepCommitted, StepRejected, ResetDone, Replayed
  <2>4. CASE Restored
    BY <1>1, <2>4, Zenon DEF Restored
  <2>5. CASE GiveUp
    BY <2>5, PipeControl, Zenon DEF GiveUp
  <2> QED
    BY <1>4, <2>1, <2>2, <2>3, <2>4, <2>5, Zenon DEF Continue
<1>5. CASE DirectUse
  BY <1>5, PipeRequest, PipeControl, Zenon
     DEF DirectUse, DirectStart, DirectConsume, DirectStop, DirectRequest
<1> QED
  BY <1>1, <1>2, <1>3, <1>4, <1>5, Zenon DEF Next, vars

\* The types and the pipes, from the start on.
THEOREM PipeInvariance == ASSUME Semantics PROVE Spec => [](SessionType /\ PipeInv)
<1>1. Init => SessionType /\ PipeInv
  <2> SUFFICES ASSUME Init PROVE SessionType /\ PipeInv
    BY Zenon
  <2>0. <<>> \in Seq(Instruction)
    OBVIOUS
  <2>1. SessionType
    <3>1. /\ backend \in {"process", "embedded", "direct"} /\ open = FALSE /\ history = <<>>
          /\ snapshots = {} /\ op = "new" /\ pending = NoArg /\ target = <<>> /\ index = 0
      BY Zenon DEF Init
    <3>2. open \in BOOLEAN
      BY <3>1, Zenon
    <3>3. op # "stepping" /\ op \in {"new"}
      BY <3>1, Zenon
    <3>4. /\ history \in Seq(Instruction) /\ target \in Seq(Instruction)
          /\ snapshots \in SUBSET Seq(Instruction) /\ index \in Nat
      BY <2>0, <3>1, Zenon
    <3> QED
      BY <3>1, <3>2, <3>3, <3>4, Zenon DEF SessionType
  <2>2. PipeType
    BY DEF Init, ProtocolInit, PipeType
  <2> QED
    BY <2>1, <2>2, Zenon DEF Init, ProtocolInit, PipeInv, WorkerInv, ReplyInv
<1>2. SessionType /\ PipeInv /\ [Next]_vars => (SessionType /\ PipeInv)'
  BY SessionTypeStep, PipeStep, Zenon
<1> QED
  BY <1>1, <1>2, PTL DEF Spec

\* A line that request returns is the worker's answer to the very command it sent,
\* also for a caller that goes on after requests that timed out or raised.
THEOREM Pairing == ASSUME Semantics PROVE Spec => []PairedReply
<1>1. SessionType /\ PipeInv => PairedReply
  <2> SUFFICES ASSUME PipeInv, call # NoCommand, stdout # <<>>, Head(stdout) # MemoryRequest
               PROVE  Head(stdout).to = call /\ Head(stdout).name = Expected(call)
    BY Zenon DEF PairedReply
  <2>1. call \in Commands
    BY Zenon DEF PipeInv, PipeType
  <2>2. PICK r \in Replies(call) : stdout = <<r>>
    BY OneLine, Zenon DEF PipeInv, ReplyInv, Replied
  <2> QED
    BY <2>1, <2>2, OneLine, Names
<1> QED
  BY <1>1, PipeInvariance, PTL

-----------------------------------------------------------------------------
(* One request and its answer.                                             *)

\* The ASL state after these instructions.
Vm(h) == <<GivenSource>> \o h

Alive == process # "none" /\ source = GivenSource
Quiet == call = NoCommand /\ stdin = <<>> /\ stdout = <<>> /\ phase = "idle"

\* The ASL state after the command.
After(c, before) ==
  IF c = Reset THEN <<GivenSource>> ELSE IF c = Ping THEN before ELSE Append(before, c.arg)

Lost == call = NoCommand /\ answer \in Failures
Waiting(c) == call = c /\ stdout \in {<<>>, <<MemoryRequest>>}
Got(r, c) == (call = c /\ stdout = <<r>>) \/ (Quiet /\ answer = r)

\* The request failed, or it waits and the command has not changed the ASL state, or
\* its reply is there and the command was executed once.
Exchange(c, before) ==
  \/ Lost
  \/ Waiting(c) /\ (c # Reset => vm = before)
  \/ \E r \in Replies(c) :
       /\ Got(r, c) /\ vm = After(c, before)
       /\ r.value = 0 /\ c.name = "step" => Executed(before, c.arg)

\* A request of a worker that was started with the source of the session.
LEMMA RequestExchange ==
  ASSUME PipeInv, Alive, NEW c \in Commands, NEW before, Request(c), c # Reset => vm = before
  PROVE  Alive' /\ Exchange(c, before)'
<1>0. call = NoCommand /\ ~RequestRestart(c) /\ ~RequestRestartRaises(c)
  BY Zenon DEF Request, RequestRestart, RequestRestartRaises, Alive
<1>1. CASE RequestDead(c)
  BY <1>0, <1>1, Zenon DEF RequestDead, pipes, worker, Failures, Exchange, Lost, Alive
<1>2. CASE RequestLive(c)
  <2>1. /\ process = "live" /\ process' = "live" /\ source' = source /\ call' = c
        /\ stdout' = stdout /\ vm' = vm
    BY <1>2, Zenon DEF RequestLive, worker
  <2>2. stdout \in {<<>>, <<MemoryRequest>>}
    BY <1>0, <2>1, Zenon DEF PipeInv, PipeType, WorkerInv, Replied, Asking
  <2> QED
    BY <2>1, <2>2, Zenon DEF Exchange, Waiting, Alive
<1> QED
  BY <1>0, <1>1, <1>2, Zenon DEF Request

\* A quiet worker does nothing but die.
LEMMA QuietStep ==
  ASSUME Quiet, process # "none", ProtocolNext
  PROVE  /\ Quiet' /\ process' # "none"
         /\ UNCHANGED <<source, vm, answer>>
<1>1. Die
  BY Zenon DEF Quiet, ProtocolNext, HostProgress, HostReads, HostEof, HostTimesOut,
         WorkerProgress, Boot, ReadCommand, AskMemory, ReadMemoryReply, FinishCommand
<1> QED
  BY <1>1, Zenon DEF Die, Quiet, pipes, worker

\* An exchange goes on, whatever the worker and the host do next.
LEMMA ExchangeStep ==
  ASSUME Semantics, PipeInv, Alive, ProtocolNext,
         NEW c \in Commands, NEW before, Exchange(c, before)
  PROVE  Alive' /\ Exchange(c, before)'
<1>c. c # NoCommand
  BY Names, Zenon
<1>a. Alive'
  BY Zenon DEF Alive, ProtocolNext, HostProgress, HostReads, HostEof, HostTimesOut,
         WorkerProgress, Boot, ReadCommand, AskMemory, ReadMemoryReply, FinishCommand, Die
<1>1. CASE Lost
  <2>1. UNCHANGED <<call, answer>>
    BY <1>1, Zenon DEF Lost, ProtocolNext, HostProgress, HostReads, HostEof, HostTimesOut,
         WorkerProgress, Boot, ReadCommand, AskMemory, ReadMemoryReply, FinishCommand, Die
  <2> QED
    BY <1>a, <1>1, <2>1, Zenon DEF Lost, Exchange
<1>2. CASE Waiting(c) /\ (c # Reset => vm = before)
  <2>0. call = c /\ stdout \in {<<>>, <<MemoryRequest>>}
    BY <1>2, Zenon DEF Waiting
  <2>1. CASE HostReads
    <3>1. Head(stdout) = MemoryRequest /\ stdout' = <<>> /\ vm' = vm
      BY <2>0, <2>1, OneLine, Zenon DEF HostReads, worker
    <3>2. (call' = NoCommand /\ answer' \in Failures) \/ call' = call
      BY <2>1, <3>1, Zenon DEF HostReads, EndRequest, Failures
    <3> QED
      BY <1>a, <1>2, <2>0, <3>1, <3>2, Zenon DEF Exchange, Lost, Waiting
  <2>2. CASE HostEof \/ HostTimesOut
    BY <1>a, <2>2, Zenon DEF HostEof, HostTimesOut, EndRequest, Failures, Exchange, Lost
  <2>3. CASE Boot \/ AskMemory
    <3>1. stdout = <<>> /\ call' = call /\ vm' = vm
      BY <2>3, Zenon DEF Boot, AskMemory, PipeInv, WorkerInv
    <3>2. stdout' \in {<<>>, <<MemoryRequest>>}
      BY <2>3, <3>1, OneLine, Zenon DEF Boot, AskMemory, Emit
    <3> QED
      BY <1>a, <1>2, <2>0, <3>1, <3>2, Zenon DEF Exchange, Waiting
  <2>4. CASE ReadCommand \/ ReadMemoryReply \/ Die
    <3>1. UNCHANGED <<call, stdout, vm>>
      BY <2>4, Zenon DEF ReadCommand, ReadMemoryReply, Die, pipes, worker
    <3> QED
      BY <1>a, <1>2, <2>0, <3>1, Zenon DEF Exchange, Waiting
  <2>5. CASE FinishCommand
    <3>1. command = c /\ stdout = <<>> /\ call' = c /\ source = GivenSource
      BY <2>0, <2>5, Zenon DEF FinishCommand, PipeInv, WorkerInv, Alive
    <3>2. PICK outcome \in Execute(c) :
            /\ vm' = outcome.vm
            /\ stdout' = Append(stdout, Reply(AnsweredWith(c), outcome.value, c))
      BY <2>5, <3>1, Zenon DEF FinishCommand, Emit
    <3> DEFINE r == Reply("status", outcome.value, c)
    <3>3. outcome.value \in {0, 1} /\ stdout' = <<r>>
      BY <3>1, <3>2, ExecuteAnswers, Names, OneLine
    <3>4. r \in Replies(c) /\ r.value = outcome.value
      BY <3>3, Zenon DEF Replies, Reply
    <3>5. vm' = After(c, before) /\ (outcome.value = 0 /\ c.name = "step" => Executed(before, c.arg))
      <4>1. CASE c = Reset
        BY <3>1, <3>2, <4>1, ExecuteAnswers, Zenon DEF After, Reset, Line
      <4>2. CASE c = Ping
        BY <1>2, <3>2, <4>2, ExecuteAnswers, Names DEF After
      <4>3. ASSUME NEW i \in Instruction, c = Step(i)
            PROVE  /\ vm' = After(c, before)
                   /\ outcome.value = 0 => Executed(before, c.arg)
        <5>1. c # Reset /\ c # Ping /\ c.arg = i /\ vm = before
          BY <1>2, <4>3, Names, Zenon
        <5>2. outcome.vm = Append(vm, i) /\ (outcome.value = 0 <=> Executed(vm, i))
          BY <4>3, ExecuteAnswers, Zenon
        <5> QED
          BY <3>2, <5>1, <5>2, Zenon DEF After
      <4> QED
        BY <4>1, <4>2, <4>3, Zenon DEF Commands
    <3> HIDE DEF r
    <3> QED
      BY <1>a, <3>1, <3>3, <3>4, <3>5, Zenon DEF Exchange, Got
  <2> QED
    BY <2>1, <2>2, <2>3, <2>4, <2>5, Zenon DEF ProtocolNext, HostProgress, WorkerProgress
<1>3. ASSUME NEW r \in Replies(c), Got(r, c), vm = After(c, before),
             r.value = 0 /\ c.name = "step" => Executed(before, c.arg)
      PROVE  Exchange(c, before)'
  <2>1. CASE call = c /\ stdout = <<r>>
    <3>1. r # MemoryRequest /\ Replied /\ phase = "idle"
      BY <1>c, <2>1, Names, OneLine, Zenon DEF PipeInv, ReplyInv
    <3>2. HostReads \/ Die
      BY <2>1, <3>1, OneLine, Zenon DEF ProtocolNext, HostProgress, HostReads, HostEof, HostTimesOut,
         WorkerProgress, Boot, ReadCommand, AskMemory, ReadMemoryReply, FinishCommand, Replied
    <3>3. CASE HostReads
      <4>1. /\ answer' = r /\ call' = NoCommand /\ stdout' = <<>> /\ stdin' = <<>>
            /\ phase' = "idle" /\ vm' = vm
        BY <2>1, <3>1, <3>3, OneLine, Zenon DEF HostReads, EndRequest, worker, Replied
      <4> QED
        BY <1>3, <4>1, Zenon DEF Exchange, Got, Quiet
    <3>4. CASE Die
      BY <1>3, <2>1, <3>4, Zenon DEF Die, pipes, worker, Exchange, Got
    <3> QED
      BY <3>2, <3>3, <3>4, Zenon
  <2>2. CASE Quiet /\ answer = r
    <3>1. Quiet' /\ answer' = r /\ vm' = vm
      BY <2>2, QuietStep, Zenon DEF Alive
    <3> QED
      BY <1>3, <3>1, Zenon DEF Exchange, Got
  <2> QED
    BY <1>3, <2>1, <2>2, Zenon DEF Got
<1> QED
  BY <1>a, <1>1, <1>2, <1>3, Zenon DEF Exchange

\* A status is the answer to the command of the exchange.
LEMMA ExchangeAnswered ==
  ASSUME PipeInv, NEW c \in Commands, NEW before, Exchange(c, before), NEW n, Status(n)
  PROVE  /\ Quiet /\ vm = After(c, before)
         /\ n = 0 /\ c.name = "step" => Executed(before, c.arg)
<1>1. call = NoCommand /\ c # NoCommand /\ answer.name = "status" /\ answer.value = n
  BY Names, Zenon DEF Status, Answered, PipeInv, PipeType
<1>2. answer \notin Failures
  BY <1>1, Names, Zenon
<1> QED
  BY <1>1, <1>2, Zenon DEF Exchange, Lost, Waiting, Got

-----------------------------------------------------------------------------
(* Histories and their prefixes.                                           *)

\* The empty history is the source alone, and a prefix may be the whole or nothing.
LEMMA Ends ==
  ASSUME NEW h \in Seq(Instruction)
  PROVE  /\ Vm(<<>>) = <<GivenSource>>
         /\ SubSeq(h, 1, 0) = <<>> /\ SubSeq(h, 1, Len(h)) = h
<1>1. Vm(<<>>) = <<GivenSource>>
  BY DEF Vm
<1> QED
  BY <1>1

\* Executing one more instruction.
LEMMA VmAppend ==
  ASSUME NEW h \in Seq(Instruction), NEW i \in Instruction
  PROVE  Append(Vm(h), i) = Vm(Append(h, i))
BY DEF Vm

\* Sending one more instruction of the prefix again.
LEMMA VmPrefix ==
  ASSUME NEW t \in Seq(Instruction), NEW k \in 1..Len(t)
  PROVE  Append(Vm(SubSeq(t, 1, k - 1)), t[k]) = Vm(SubSeq(t, 1, k))
<1>1. SubSeq(t, 1, k - 1) \in Seq(Instruction) /\ t[k] \in Instruction
  BY PrefixType
<1>2. Append(SubSeq(t, 1, k - 1), t[k]) = SubSeq(t, 1, k)
  OBVIOUS
<1> QED
  BY <1>1, <1>2, VmAppend, Zenon

-----------------------------------------------------------------------------
(* The operations of the embedded session.                                 *)

\* The command an operation waits for, and the ASL state it is sent in.
Awaiting == {"pinging", "stepping", "resetting", "replaying"}
Asked ==
  CASE op = "pinging" -> Ping
    [] op = "stepping" -> Step(pending)
    [] op = "resetting" -> Reset
    [] OTHER -> Step(target[index])
Before ==
  CASE op = "stepping" -> Vm(history)
    [] op = "replaying" -> Vm(SubSeq(target, 1, index - 1))
    [] OTHER -> Vm(<<>>)

Creating == {"new", "created", "pinging"}
Restoring == {"restore", "resetting", "replay", "replaying"}

\* What is restored: the prefix of a valid snapshot, or all that is committed.
TargetInv ==
  op \in Restoring =>
    IF pending = NoArg
    THEN /\ target \in snapshots \cup {<<>>}
         /\ \E n \in 0..Len(history) : target = SubSeq(history, 1, n)
    ELSE target = history

\* How far the operation has got.
StageInv ==
  /\ op = "new" => process = "none" /\ call = NoCommand /\ answer = NoAnswer
  /\ op = "created" =>
       /\ call = NoCommand
       /\ answer \in Failures \/ (answer = NoAnswer /\ Alive /\ vm = Vm(<<>>))
  /\ op \in Awaiting => Alive /\ Exchange(Asked, Before)
  /\ op = "idle" /\ ~open => process = "none" /\ call = NoCommand
  /\ op = "idle" /\ open => vm = Vm(history)
  /\ op = "replay" => index \in 0..Len(target) /\ vm = Vm(SubSeq(target, 1, index))
  /\ op = "replaying" => index \in 1..Len(target)
  /\ op \in {"restore", "replay"} \/ (op = "idle" /\ open) =>
       Alive /\ Quiet /\ answer = NoAnswer
  /\ op = "stepping" \/ op \in Restoring => open

SessionInv ==
  /\ op \in Creating => ~open /\ history = <<>> /\ result = "none"
  /\ backend = "process" => op \in {"new", "idle"} /\ process = "none" /\ call = NoCommand
  /\ backend = "direct" => op = "new"
  /\ backend = "embedded" => StageInv /\ TargetInv

Inv == SessionType /\ PipeInv /\ SessionInv

\* The command is one the session sends.
LEMMA AskedType == ASSUME SessionType, StageInv, op \in Awaiting PROVE Asked \in Commands
<1>1. CASE op \in {"pinging", "resetting"}
  BY <1>1, Zenon DEF Asked, Commands
<1>2. CASE op = "stepping"
  BY <1>2, Zenon DEF Asked, Commands, SessionType
<1>3. CASE op = "replaying"
  <2>1. target[index] \in Instruction
    BY <1>3 DEF StageInv, SessionType
  <2> QED
    BY <1>3, <2>1, Zenon DEF Asked, Commands
<1> QED
  BY <1>1, <1>2, <1>3, Zenon DEF Awaiting

\* Without a request in progress the worker may boot or die, nothing else.
LEMMA UnaskedStep ==
  ASSUME PipeInv, call = NoCommand, ProtocolNext
  PROVE  /\ process # "none" /\ process' # "none"
         /\ UNCHANGED <<source, vm, call, answer>>
BY Zenon DEF PipeInv, WorkerInv, ProtocolNext, HostProgress, HostReads, HostEof, HostTimesOut,
       WorkerProgress, Boot, ReadCommand, AskMemory, ReadMemoryReply, FinishCommand, Die, worker

\* What the worker and the host do in the middle of an operation.
LEMMA ProtocolStage ==
  ASSUME Semantics, Inv, Protocol
  PROVE  SessionInv'
<1>0. ProtocolNext /\ UNCHANGED session /\ SessionType /\ PipeInv /\ SessionInv
  BY Zenon DEF Protocol, Inv
<1>1. UNCHANGED <<backend, open, history, snapshots, op, pending, target, index, result>>
  BY <1>0, Zenon DEF session
<1>2. CASE backend # "embedded"
  BY <1>0, <1>1, <1>2, UnaskedStep, Zenon DEF SessionInv, Creating, SessionType
<1>3. CASE backend = "embedded"
  <2>0. StageInv
    BY <1>0, <1>3, Zenon DEF SessionInv
  <2>1. CASE op \in {"new", "created"}
    <3>1. StageInv'
      BY <1>0, <1>1, <2>0, <2>1, UnaskedStep, Zenon DEF StageInv, Alive, Awaiting, Restoring, Vm
    <3> QED
      BY <1>0, <1>1, <1>3, <3>1, Zenon DEF SessionInv, TargetInv, Creating, Restoring
  <2>2. CASE op \in Awaiting
    <3>1. PICK c \in Commands, b \in {Before} : c = Asked /\ b = Before
      BY <1>0, <2>0, <2>2, AskedType, Zenon
    <3>2. Alive' /\ Exchange(c, b)'
      BY <1>0, <2>0, <2>2, <3>1, ExchangeStep, Zenon DEF StageInv
    <3>3. c = Asked' /\ b = Before'
      BY <1>1, <3>1, Zenon DEF Asked, Before, Vm
    <3>4. Exchange(Asked, Before)'
      BY <3>2, <3>3, Zenon
    <3>5. StageInv'
      BY <1>1, <2>0, <2>2, <3>2, <3>4, Zenon DEF StageInv, Awaiting, Restoring
    <3> QED
      BY <1>0, <1>1, <1>3, <3>5, Zenon DEF SessionInv, TargetInv, Creating, Restoring
  <2>3. CASE op \in {"restore", "replay", "idle"}
    <3>1. CASE op = "idle" /\ ~open
      BY <1>0, <2>0, <3>1, UnaskedStep, Zenon DEF StageInv
    <3>2. CASE ~(op = "idle" /\ ~open)
      <4>1. Quiet /\ Alive /\ answer = NoAnswer
        BY <2>0, <2>3, <3>2, Zenon DEF StageInv
      <4>2. Quiet' /\ Alive' /\ answer' = NoAnswer /\ vm' = vm
        BY <1>0, <4>1, QuietStep, Zenon DEF Alive
      <4>3. StageInv'
        BY <1>1, <2>0, <2>3, <3>2, <4>2, Zenon DEF StageInv, Awaiting, Restoring, Vm
      <4> QED
        BY <1>0, <1>1, <1>3, <4>3, Zenon DEF SessionInv, TargetInv, Creating, Restoring
    <3> QED
      BY <3>1, <3>2, Zenon
  <2> QED
    BY <1>0, <2>1, <2>2, <2>3, Zenon DEF SessionType, Awaiting
<1> QED
  BY <1>2, <1>3, Zenon

\* A status ends the exchange of the operation.
LEMMA StatusStage ==
  ASSUME Inv, backend = "embedded", op \in Awaiting, NEW n, Status(n)
  PROVE  /\ Alive /\ Quiet /\ vm = After(Asked, Before)
         /\ n = 0 /\ Asked.name = "step" => Executed(Before, Asked.arg)
<1>1. PipeInv /\ StageInv /\ SessionType
  BY Zenon DEF Inv, SessionInv
<1>2. PICK c \in Commands, b \in {Before} : c = Asked /\ b = Before
  BY <1>1, AskedType, Zenon
<1>3. Exchange(c, b) /\ Alive
  BY <1>1, <1>2, Zenon DEF StageInv
<1> QED
  BY <1>1, <1>2, <1>3, ExchangeAnswered, Zenon

\* A request of an operation whose worker is alive.
LEMMA RequestStage ==
  ASSUME PipeInv, Alive, NEW c \in Commands, NEW b, Request(c), c # Reset => vm = b,
         c = Asked', b = Before'
  PROVE  Alive' /\ Exchange(Asked, Before)'
<1>1. Alive' /\ Exchange(c, b)'
  BY RequestExchange, Zenon
<1> QED
  BY <1>1, Zenon

\* Only the embedded session continues operations.
LEMMA ContinueEmbedded ==
  ASSUME SessionInv, SessionType, op \notin {"new", "idle"}
  PROVE  backend = "embedded" /\ StageInv /\ TargetInv
BY Zenon DEF SessionInv, SessionType

\* _restore_prefix and the operations that use it.
LEMMA RestoreStage ==
  ASSUME Semantics, Inv, SessionType',
         StepRejected \/ SendReset \/ ResetDone \/ SendReplay \/ Replayed \/ Restored
  PROVE  SessionInv'
<1>0. /\ SessionType /\ PipeInv /\ backend = "embedded" /\ StageInv /\ TargetInv
      /\ UNCHANGED <<backend, open, snapshots, pending>>
  BY ContinueEmbedded, Zenon DEF Inv, StepRejected, SendReset, ResetDone, SendReplay, Replayed, Restored
<1>1. CASE StepRejected
  <2>1. op = "stepping" /\ op' = "restore" /\ target' = history /\ history' = history /\ open
    BY <1>0, <1>1, Zenon DEF StepRejected, StageInv
  <2>2. Alive /\ Quiet
    BY <1>0, <1>1, <2>1, StatusStage, Zenon DEF StepRejected, Awaiting
  <2>3. Alive' /\ Quiet' /\ answer' = NoAnswer
    BY <1>1, <2>2, Zenon DEF StepRejected, Consume, pipes, worker, Alive, Quiet
  <2>4. StageInv'
    BY <1>0, <2>1, <2>3, Zenon DEF StageInv, Awaiting
  <2>5. pending # NoArg
    BY <1>0, <2>1, SessionAssumption, Zenon DEF SessionType
  <2>6. TargetInv'
    BY <1>0, <2>1, <2>5, Zenon DEF TargetInv
  <2> QED
    BY <1>0, <2>1, <2>4, <2>6, Zenon DEF SessionInv, Creating
<1>2. CASE SendReset
  <2>1. /\ op = "restore" /\ op' = "resetting" /\ open /\ Alive
        /\ UNCHANGED <<target, history, result>>
    BY <1>0, <1>2, Zenon DEF SendReset, StageInv, Restoring
  <2>2. Alive' /\ Exchange(Asked, Before)'
    <3>1. PICK b : b = Before'
      BY Zenon
    <3>2. Reset = Asked' /\ Reset \in Commands
      BY <2>1, Zenon DEF Asked, Commands
    <3> QED
      BY <1>0, <1>2, <2>1, <3>1, <3>2, RequestStage, Zenon DEF SendReset
  <2>3. StageInv'
    BY <1>0, <2>1, <2>2, Zenon DEF StageInv, Awaiting
  <2>4. TargetInv'
    BY <1>0, <2>1, Zenon DEF TargetInv, Restoring
  <2> QED
    BY <1>0, <2>1, <2>3, <2>4, Zenon DEF SessionInv, Creating
<1>3. CASE ResetDone
  <2>1. /\ op = "resetting" /\ op' = "replay" /\ open /\ index' = 0
        /\ UNCHANGED <<target, history, result>>
    BY <1>0, <1>3, Zenon DEF ResetDone, StageInv, Restoring
  <2>2. Alive /\ Quiet /\ vm = <<GivenSource>>
    BY <1>0, <1>3, <2>1, StatusStage, Zenon DEF ResetDone, Awaiting, Asked, After
  <2>3. Alive' /\ Quiet' /\ answer' = NoAnswer /\ vm' = <<GivenSource>>
    BY <1>3, <2>2, Zenon DEF ResetDone, Consume, pipes, worker, Alive, Quiet
  <2>4. vm' = Vm(SubSeq(target, 1, 0))
    BY <1>0, <2>3, Ends, Zenon DEF SessionType
  <2>5. StageInv'
    BY <1>0, <2>1, <2>3, <2>4 DEF StageInv, Awaiting, SessionType
  <2>6. TargetInv'
    BY <1>0, <2>1, Zenon DEF TargetInv, Restoring
  <2> QED
    BY <1>0, <2>1, <2>5, <2>6, Zenon DEF SessionInv, Creating
<1>4. CASE SendReplay
  <2>1. /\ op = "replay" /\ op' = "replaying" /\ open /\ Alive /\ index' = index + 1
        /\ index \in 0..Len(target) /\ index < Len(target)
        /\ vm = Vm(SubSeq(target, 1, index))
        /\ UNCHANGED <<target, history, result>>
    BY <1>0, <1>4, Zenon DEF SendReplay, StageInv, Restoring
  <2>2. PICK c \in Commands : c = Step(target[index + 1])
    BY <1>0, <2>1 DEF Commands, SessionType
  <2>3. PICK b : b = vm
    BY Zenon
  <2>4. c = Asked' /\ b = Before'
    BY <2>1, <2>2, <2>3 DEF Asked, Before, Vm
  <2>5. Alive' /\ Exchange(Asked, Before)'
    BY <1>0, <1>4, <2>1, <2>2, <2>3, <2>4, RequestStage, Zenon DEF SendReplay
  <2>6. StageInv'
    BY <1>0, <2>1, <2>5 DEF StageInv, Awaiting, SessionType
  <2>7. TargetInv'
    BY <1>0, <2>1, Zenon DEF TargetInv, Restoring
  <2> QED
    BY <1>0, <2>1, <2>6, <2>7, Zenon DEF SessionInv, Creating
<1>5. CASE Replayed
  <2>1. /\ op = "replaying" /\ op' = "replay" /\ open /\ index \in 1..Len(target)
        /\ UNCHANGED <<target, history, result, index>>
    BY <1>0, <1>5, Zenon DEF Replayed, StageInv, Restoring
  <2>2. /\ Asked = Step(target[index]) /\ Before = Vm(SubSeq(target, 1, index - 1))
        /\ target \in Seq(Instruction)
    BY <1>0, <2>1, Zenon DEF Asked, Before, SessionType
  <2>3. Alive /\ Quiet /\ vm = Append(Before, target[index])
    BY <1>0, <1>5, <2>1, <2>2, StatusStage, Names DEF Replayed, Awaiting, After
  <2>4. Alive' /\ Quiet' /\ answer' = NoAnswer /\ vm' = vm
    BY <1>5, <2>3, Zenon DEF Replayed, Consume, pipes, worker, Alive, Quiet
  <2>5. vm = Vm(SubSeq(target, 1, index))
    BY <2>1, <2>2, <2>3, VmPrefix, Zenon
  <2>6. StageInv'
    BY <1>0, <2>1, <2>4, <2>5 DEF StageInv, Awaiting, Vm
  <2>7. TargetInv'
    BY <1>0, <2>1, Zenon DEF TargetInv, Restoring
  <2> QED
    BY <1>0, <2>1, <2>6, <2>7, Zenon DEF SessionInv, Creating
<1>6. CASE Restored
  <2>1. /\ op = "replay" /\ op' = "idle" /\ open /\ index = Len(target) /\ history' = target
        /\ Alive /\ Quiet /\ answer = NoAnswer /\ vm = Vm(SubSeq(target, 1, index))
    BY <1>0, <1>6, Zenon DEF Restored, StageInv, Restoring
  <2>2. vm = Vm(target)
    BY <1>0, <2>1, Ends, Zenon DEF SessionType
  <2>3. Alive' /\ Quiet' /\ answer' = NoAnswer /\ vm' = vm
    BY <1>6, <2>1, Zenon DEF Restored, protocol, pipes, worker, Alive, Quiet
  <2>4. StageInv'
    BY <1>0, <2>1, <2>2, <2>3, Zenon DEF StageInv, Awaiting, Restoring, Vm
  <2> QED
    BY <1>0, <2>1, <2>4, Zenon DEF SessionInv, TargetInv, Creating, Restoring
<1> QED
  BY <1>1, <1>2, <1>3, <1>4, <1>5, <1>6, Zenon

\* The creation of an embedded session and its steps.
LEMMA StepStage ==
  ASSUME Semantics, Inv, SessionType',
         \/ Create \/ SendPing \/ Created \/ StepCommitted
         \/ \E i \in Instruction : StepInstruction(i)
  PROVE  SessionInv'
<1>0. /\ SessionType /\ PipeInv /\ SessionInv /\ backend = "embedded" /\ StageInv
      /\ UNCHANGED <<backend, snapshots, target>>
  BY ContinueEmbedded, Zenon DEF Inv, SessionInv, Create, SendPing, Created, StepInstruction, StepCommitted
<1>1. CASE Create
  <2>1. /\ op = "new" /\ op' = "created" /\ ~open /\ history = <<>> /\ result = "none"
        /\ UNCHANGED <<open, history, result>>
    BY <1>0, <1>1, Zenon DEF Create, SessionInv, Creating
  <2>2. CASE Start(GivenSource)
    <3>1. process' = "live" /\ source' = GivenSource /\ answer' = NoAnswer /\ call' = NoCommand
      BY <2>2, Zenon DEF Start, Spawn
    <3>2. vm' = Vm(<<>>)
      BY <2>2, Ends DEF Start, Spawn, Semantics, SessionInitial, Vm
    <3> QED
      BY <1>0, <2>1, <3>1, <3>2, Zenon
         DEF SessionInv, StageInv, TargetInv, Creating, Awaiting, Restoring, Alive, Vm
  <2>3. CASE StartRaises
    <3>1. call' = NoCommand /\ answer' \in Failures
      BY <2>3, Zenon DEF StartRaises, Failures
    <3> QED
      BY <1>0, <2>1, <3>1, Zenon DEF SessionInv, StageInv, TargetInv, Creating, Awaiting, Restoring
  <2> QED
    BY <1>1, <2>2, <2>3, Zenon DEF Create
<1>2. CASE SendPing
  <2>1. /\ op = "created" /\ op' = "pinging" /\ ~open /\ history = <<>> /\ result = "none"
        /\ UNCHANGED <<open, history, result>>
    BY <1>0, <1>2, Zenon DEF SendPing, SessionInv, Creating
  <2>2. answer = NoAnswer
    BY <1>2, Zenon DEF SendPing, Request
  <2>3. Alive /\ vm = Vm(<<>>)
    BY <1>0, <2>1, <2>2, SessionAssumption, Zenon DEF StageInv
  <2>4. PICK b : b = Vm(<<>>)
    BY Zenon
  <2>5. Ping \in Commands /\ Ping = Asked' /\ b = Before'
    BY <2>1, <2>4, Zenon DEF Commands, Asked, Before, Vm
  <2>6. Alive' /\ Exchange(Asked, Before)'
    BY <1>0, <1>2, <2>3, <2>4, <2>5, RequestStage, Zenon DEF SendPing
  <2> QED
    BY <1>0, <2>1, <2>6, Zenon DEF SessionInv, StageInv, TargetInv, Creating, Awaiting, Restoring
<1>3. CASE Created
  <2>1. op = "pinging" /\ op' = "idle" /\ open' = TRUE /\ history = <<>> /\ history' = history
    BY <1>0, <1>3, Zenon DEF Created, SessionInv, Creating
  <2>2. Alive /\ Quiet /\ vm = Vm(<<>>)
    BY <1>0, <1>3, <2>1, StatusStage, Names, Zenon DEF Created, Awaiting, Asked, Before, After
  <2>3. Alive' /\ Quiet' /\ answer' = NoAnswer /\ vm' = vm
    BY <1>3, <2>2, Zenon DEF Created, Consume, pipes, worker, Alive, Quiet
  <2> QED
    BY <1>0, <2>1, <2>2, <2>3, Zenon
       DEF SessionInv, StageInv, TargetInv, Creating, Awaiting, Restoring, Vm
<1>4. ASSUME NEW i \in Instruction, StepInstruction(i) PROVE SessionInv'
  <2>1. /\ op = "idle" /\ open /\ op' = "stepping" /\ pending' = i
        /\ UNCHANGED <<open, history, result>>
    BY <1>4, Zenon DEF StepInstruction, Idle
  <2>2. Alive /\ vm = Vm(history)
    BY <1>0, <2>1, Zenon DEF StageInv
  <2>3. PICK b : b = Vm(history)
    BY Zenon
  <2>4. PICK c \in Commands : c = Step(i)
    BY Zenon DEF Commands
  <2>5. c = Asked' /\ b = Before'
    BY <2>1, <2>3, <2>4, Zenon DEF Asked, Before, Vm
  <2>6. Alive' /\ Exchange(Asked, Before)'
    BY <1>0, <1>4, <2>2, <2>3, <2>4, <2>5, RequestStage, Zenon DEF StepInstruction
  <2> QED
    BY <1>0, <2>1, <2>6, Zenon DEF SessionInv, StageInv, TargetInv, Creating, Awaiting, Restoring
<1>5. CASE StepCommitted
  <2>1. /\ op = "stepping" /\ op' = "idle" /\ open /\ open' = open /\ pending \in Instruction
        /\ history' = Append(history, pending) /\ history \in Seq(Instruction)
    BY <1>0, <1>5, Zenon DEF StepCommitted, StageInv, SessionType
  <2>2. Alive /\ Quiet /\ vm = Append(Vm(history), pending)
    BY <1>0, <1>5, <2>1, StatusStage, Names DEF StepCommitted, Awaiting, Asked, Before, After
  <2>3. Alive' /\ Quiet' /\ answer' = NoAnswer /\ vm' = vm
    BY <1>5, <2>2, Zenon DEF StepCommitted, Consume, pipes, worker, Alive, Quiet
  <2>4. vm' = Vm(history')
    BY <2>1, <2>2, <2>3, VmAppend, Zenon
  <2> QED
    BY <1>0, <2>1, <2>3, <2>4, Zenon
       DEF SessionInv, StageInv, TargetInv, Creating, Awaiting, Restoring, Vm
<1> QED
  BY <1>1, <1>2, <1>3, <1>4, <1>5, Zenon

\* A reset reaches a prefix.
LEMMA ResetIsPrefix ==
  ASSUME SessionType, NEW h \in snapshots \cup {<<>>}, h = <<>> \/ ValidSnapshot(h)
  PROVE  h = SubSeq(history, 1, Len(h)) /\ Promise!IsPrefixOf(h, history)
<1>1. h = SubSeq(history, 1, Len(h)) /\ Len(h) \in 0..Len(history)
  <2>1. CASE h = <<>>
    <3>1. Len(h) = 0 /\ history \in Seq(Instruction)
      BY <2>1, Zenon DEF SessionType
    <3> QED
      BY <2>1, <3>1, Ends
  <2>2. CASE ValidSnapshot(h)
    BY <2>2 DEF ValidSnapshot, SessionType
  <2> QED
    BY <2>1, <2>2, Zenon
<1> QED
  BY <1>1, Zenon DEF Promise!IsPrefixOf

\* The operations without a request, and the end of a session.
LEMMA LocalStage ==
  ASSUME Inv, SessionType',
         \/ ProcessCreate \/ ProcessDestroy \/ Snapshot \/ Destroy \/ GiveUp
         \/ \E i \in Instruction : ProcessStep(i)
         \/ \E h \in snapshots \cup {<<>>} : ProcessReset(h) \/ ResetTo(h)
  PROVE  SessionInv'
<1>0. SessionType /\ PipeInv /\ SessionInv /\ backend' = backend
  BY Zenon DEF Inv, ProcessCreate, ProcessDestroy, Snapshot, Destroy, GiveUp, ProcessStep,
         ProcessReset, ResetTo
<1>1. CASE \/ ProcessCreate \/ ProcessDestroy \/ \E i \in Instruction : ProcessStep(i)
           \/ \E h \in snapshots \cup {<<>>} : ProcessReset(h)
  <2>1. backend = "process" /\ op' = "idle" /\ UNCHANGED <<process, call>>
    BY <1>1, Zenon DEF ProcessCreate, ProcessDestroy, ProcessStep, ProcessReset, Idle, protocol
  <2> QED
    BY <1>0, <2>1, Zenon DEF SessionInv, Creating
<1>2. CASE Snapshot
  <2>1. /\ op = "idle" /\ open /\ UNCHANGED <<open, history, op, pending, target, index, result>>
        /\ UNCHANGED <<process, source, stdin, stdout, phase, vm, call, answer>>
    BY <1>2, Zenon DEF Snapshot, Idle, protocol, pipes, worker
  <2>2. backend = "embedded" => StageInv'
    BY <1>0, <2>1, Zenon DEF SessionInv, StageInv, Awaiting, Restoring, Alive, Quiet, Vm
  <2> QED
    BY <1>0, <2>1, <2>2, Zenon DEF SessionInv, TargetInv, Creating, Restoring
<1>3. CASE Destroy \/ GiveUp
  <2>1. op' = "idle" /\ open' = FALSE /\ process' = "none" /\ call' = NoCommand
    BY <1>3, Zenon DEF Destroy, GiveUp, Idle, Stop
  <2>2. backend = "embedded"
    BY <1>0, <1>3, ContinueEmbedded, Zenon DEF Destroy, GiveUp
  <2> QED
    BY <1>0, <2>1, <2>2, Zenon DEF SessionInv, StageInv, TargetInv, Creating, Awaiting, Restoring
<1>4. ASSUME NEW h \in snapshots \cup {<<>>}, ResetTo(h) PROVE SessionInv'
  <2>1. /\ op = "idle" /\ open /\ op' = "restore" /\ pending' = NoArg
        /\ target' = SubSeq(history, 1, Len(h)) /\ (h = <<>> \/ ValidSnapshot(h))
        /\ backend = "embedded" /\ UNCHANGED <<open, history, snapshots, result>>
        /\ UNCHANGED <<process, source, stdin, stdout, phase, vm, call, answer>>
    BY <1>4, Zenon DEF ResetTo, Idle, protocol, pipes, worker
  <2>2. StageInv
    BY <1>0, <2>1, Zenon DEF SessionInv
  <2>3. StageInv'
    BY <2>1, <2>2, Zenon DEF StageInv, Awaiting, Restoring, Alive, Quiet
  <2>4. target' = h /\ Promise!IsPrefixOf(h, history)
    BY <1>0, <2>1, ResetIsPrefix, Zenon
  <2>5. TargetInv'
    BY <2>1, <2>4, Zenon DEF TargetInv, Promise!IsPrefixOf
  <2> QED
    BY <1>0, <2>1, <2>3, <2>5, Zenon DEF SessionInv, Creating
<1> QED
  BY <1>1, <1>2, <1>3, <1>4, Zenon

\* The invariant holds from the start on.
THEOREM Invariance == ASSUME Semantics PROVE Spec => []Inv
<1>1. Init => SessionInv
  BY Zenon DEF Init, ProtocolInit, SessionInv, StageInv, TargetInv, Creating, Awaiting, Restoring
<1>2. Inv /\ (SessionType /\ PipeInv)' /\ [Next]_vars => SessionInv'
  <2> SUFFICES ASSUME Inv, SessionType', PipeInv', [Next]_vars PROVE SessionInv'
    BY Zenon
  <2>1. CASE Protocol
    BY <2>1, ProtocolStage, Zenon
  <2>2. CASE DirectUse
    <3>1. backend = "direct" /\ UNCHANGED session
      BY <2>2, Zenon DEF DirectUse, DirectStart, DirectRequest, DirectConsume, DirectStop, Direct
    <3> QED
      BY <3>1, Zenon DEF Inv, SessionInv, session, Creating
  <2>3. CASE Operation \/ Continue
    BY <2>3, RestoreStage, StepStage, LocalStage, Zenon DEF Operation, Continue
  <2>4. CASE UNCHANGED vars
    <3>1. UNCHANGED <<protocol, session>>
      BY <2>4, Zenon DEF vars
    <3>2. UNCHANGED <<process, source, stdin, stdout, phase, vm, call, answer>>
      BY <3>1, Zenon DEF protocol, pipes, worker
    <3>3. UNCHANGED <<backend, open, history, snapshots, op, pending, target, index, result>>
      BY <3>1, Zenon DEF session
    <3>4. StageInv' = StageInv
      BY <3>2, <3>3 DEF StageInv, Alive, Quiet, Exchange, Lost, Waiting, Got, Asked, Before, Vm,
                        After
    <3> QED
      BY <3>2, <3>3, <3>4, Zenon DEF Inv, SessionInv, TargetInv
  <2> QED
    BY <2>1, <2>2, <2>3, <2>4, Zenon DEF Next
<1> QED
  BY <1>1, <1>2, PipeInvariance, PTL DEF Spec, Inv

\* Between operations the worker of an open embedded session holds the session's
\* source followed by the committed instructions, and its pipes are empty.
THEOREM WorkerHoldsHistory == ASSUME Semantics PROVE Spec => []VmIsHistory
<1>1. Inv => VmIsHistory
  BY Zenon DEF Inv, SessionInv, StageInv, VmIsHistory, Idle, Alive, Quiet, Vm
<1> QED
  BY <1>1, Invariance, PTL

\* The worker of a session that is closed is gone.
THEOREM NothingLeftRunning == ASSUME Semantics PROVE Spec => []ClosedIsStopped
<1>1. Inv => ClosedIsStopped
  BY Zenon DEF Inv, SessionInv, StageInv, ClosedIsStopped, SessionType
<1> QED
  BY <1>1, Invariance, PTL

-----------------------------------------------------------------------------
(* The promise of AslSession.                                              *)

\* Each step of either backend is a step of the promise, or changes nothing of it.
LEMMA PromiseStep ==
  ASSUME Inv, Next
  PROVE  Promise!Next \/ UNCHANGED Promise!vars
<1>0. SessionType /\ SessionInv
  BY Zenon DEF Inv
<1>1. CASE Protocol \/ DirectUse
  <2>1. UNCHANGED session
    BY <1>1, Zenon DEF Protocol, DirectUse, DirectStart, DirectRequest, DirectConsume, DirectStop, Direct
  <2> QED
    BY <2>1, Zenon DEF session, Promise!vars
<1>2. CASE Create \/ SendPing \/ StepRejected \/ SendReset \/ ResetDone \/ SendReplay \/ Replayed
           \/ (\E i \in Instruction : StepInstruction(i))
           \/ (\E h \in snapshots \cup {<<>>} : ResetTo(h))
  BY <1>2, Zenon DEF Create, SendPing, StepRejected, SendReset, ResetDone, SendReplay, Replayed,
              StepInstruction, ResetTo, Promise!vars
<1>3. CASE ProcessCreate \/ Created
  <2>1. ~open /\ result = "none"
    BY <1>0, <1>3, Zenon DEF ProcessCreate, Created, SessionInv, Creating
  <2>2. open' = TRUE /\ UNCHANGED <<backend, history, snapshots, result>>
    BY <1>3, Zenon DEF ProcessCreate, Created
  <2>3. Promise!Create
    BY <2>1, <2>2, Zenon DEF Promise!Create
  <2> QED
    BY <2>1, <2>3, Zenon DEF Promise!Next
<1>4. CASE ProcessDestroy \/ Destroy
  <2>1. open /\ Promise!Destroy
    BY <1>4, Zenon DEF ProcessDestroy, Destroy, Idle, Promise!Destroy
  <2> QED
    BY <2>1, Zenon DEF Promise!Next
<1>5. CASE Snapshot
  <2>1. open /\ Promise!Snapshot
    BY <1>5, Zenon DEF Snapshot, Idle, Promise!Snapshot
  <2> QED
    BY <2>1, Zenon DEF Promise!Next
<1>6. ASSUME NEW i \in Instruction, ProcessStep(i) PROVE Promise!Next
  <2>1. open /\ backend = "process" /\ UNCHANGED <<backend, open, snapshots>>
    BY <1>6, Zenon DEF ProcessStep, Idle
  <2>2. CASE Runs(Append(history, i)) /\ history' = Append(history, i) /\ result' = "committed"
    <3>1. Accepted(backend, history, i)
      BY <2>1, <2>2, Zenon DEF Accepted
    <3>2. Promise!Commit(i)
      BY <2>1, <2>2, <3>1, Zenon DEF Promise!Commit
    <3> QED
      BY <2>1, <3>2, Zenon DEF Promise!Next
  <2>3. CASE history' = history /\ result' = "rejected"
    <3>1. Promise!Reject
      BY <2>1, <2>3, Zenon DEF Promise!Reject
    <3> QED
      BY <2>1, <3>1, Zenon DEF Promise!Next
  <2> QED
    BY <1>6, <2>2, <2>3, Zenon DEF ProcessStep
<1>7. ASSUME NEW h \in snapshots \cup {<<>>}, ProcessReset(h) PROVE Promise!Next
  <2>1. /\ open /\ (h = <<>> \/ ValidSnapshot(h))
        /\ history' = SubSeq(history, 1, Len(h)) /\ result' = "restored"
        /\ UNCHANGED <<backend, open, snapshots>>
    BY <1>7, Zenon DEF ProcessReset, Idle
  <2>2. Promise!Restore(h)
    BY <1>0, <2>1, ResetIsPrefix, Zenon DEF Promise!Restore
  <2> QED
    BY <2>1, <2>2, Zenon DEF Promise!Next
<1>8. CASE StepCommitted
  <2>1. /\ op = "stepping" /\ backend = "embedded" /\ open /\ pending \in Instruction
    BY <1>0, <1>8, ContinueEmbedded, Zenon DEF StepCommitted, SessionType, StageInv
  <2>2. Executed(Vm(history), pending)
    BY <1>8, <2>1, StatusStage, Names DEF StepCommitted, Awaiting, Asked, Before
  <2>3. Accepted(backend, history, pending)
    BY <2>1, <2>2, Zenon DEF Accepted, Vm
  <2>4. Promise!Commit(pending)
    BY <1>8, <2>1, <2>3, Zenon DEF StepCommitted, Promise!Commit
  <2> QED
    BY <2>1, <2>4, Zenon DEF Promise!Next
<1>9. CASE Restored
  <2>1. /\ op = "replay" /\ history' = target
        /\ result' = IF pending = NoArg THEN "restored" ELSE "rejected"
        /\ UNCHANGED <<backend, open, snapshots>>
    BY <1>9, Zenon DEF Restored
  <2>2. open /\ TargetInv
    BY <1>0, <2>1, ContinueEmbedded, Zenon DEF StageInv, Restoring
  <2>3. CASE pending = NoArg
    <3>1. target \in snapshots \cup {<<>>} /\ Promise!IsPrefixOf(target, history)
      BY <2>1, <2>2, <2>3, Zenon DEF TargetInv, Restoring, Promise!IsPrefixOf
    <3>2. Promise!Restore(target)
      BY <2>1, <2>2, <2>3, <3>1, Zenon DEF Promise!Restore
    <3> QED
      BY <2>2, <3>1, <3>2, Zenon DEF Promise!Next
  <2>4. CASE pending # NoArg
    <3>1. Promise!Reject
      BY <2>1, <2>2, <2>4, Zenon DEF TargetInv, Restoring, Promise!Reject
    <3> QED
      BY <2>2, <3>1, Zenon DEF Promise!Next
  <2> QED
    BY <2>3, <2>4, Zenon
<1>10. CASE GiveUp
  <2>1. op \notin {"new", "idle"} /\ Promise!Fail
    BY <1>10, Zenon DEF GiveUp, Promise!Fail
  <2>2. open \/ (~open /\ result = "none")
    BY <1>0, <2>1, ContinueEmbedded, Zenon
       DEF SessionInv, SessionType, StageInv, Creating, Restoring
  <2> QED
    BY <2>1, <2>2, Zenon DEF Promise!Next
<1> QED
  BY <1>1, <1>2, <1>3, <1>4, <1>5, <1>6, <1>7, <1>8, <1>9, <1>10, Zenon
     DEF Next, Operation, Continue

\* Both backends implement AslSession: the detailed specification implements the
\* abstract one, with the variables of the same names.
THEOREM Refinement == ASSUME Semantics PROVE Spec => KeepsPromise
<1>1. Init => Promise!Init
  BY Zenon DEF Init, Promise!Init
<1>2. Inv /\ [Next]_vars => [Promise!Next]_(Promise!vars)
  <2>1. UNCHANGED vars => UNCHANGED Promise!vars
    BY Zenon DEF vars, session, Promise!vars
  <2> QED
    BY <2>1, PromiseStep, Zenon
<1> QED
  BY <1>1, <1>2, Invariance, PTL DEF Spec, KeepsPromise, Promise!Spec
=============================================================================
