--------------------------- MODULE WorkerProtocol ---------------------------
(***************************************************************************)
(* EmbeddedAslWorker (embedded/worker.py), the worker process it drives    *)
(* (embedded/Worker.ml) and the two pipes between them.  The host sends a  *)
(* command line and reads lines until one is no memory request; meanwhile  *)
(* the worker runs the interpreter and asks for guest memory on the same   *)
(* pipes.  Either side may fail at any point: the worker dies, a request   *)
(* times out, a memory callback raises.                                    *)
(*                                                                         *)
(* A line is a record.  A reply carries, for the properties only, the      *)
(* command it answers.  What an instruction does to the ASL state is the   *)
(* interpreter's business: the operators Outcomes and Asks stand for it.   *)
(* The module is a component: its clients say when to call Start, Request  *)
(* and Stop, and consume the answer.                                       *)
(***************************************************************************)
EXTENDS Integers, Sequences

CONSTANTS
  NoCommand, NoArg, NoSource, EmptySource, NoAnswer,
  Bridge,              \* memory callbacks are attached
  Initial(_),          \* ASL state after ResetProfileState and the source
  SourceAsks(_),       \* the source asks for guest memory
  Outcomes(_, _),      \* [vm, value] a command may end with in an ASL state
  Asks(_, _),          \* the command may ask for guest memory in an ASL state
  MaxAsks              \* bound on the memory requests of one command

VARIABLES
  process,   \* "none" (_process is None), "live", "dead" (poll() is not None)
  source,    \* _initial_source
  stdin, stdout,     \* lines written and not yet read
  phase,     \* of the worker: "boot", "idle", "busy", "asking"
  command,   \* the command the worker executes, NoCommand during boot
  asks,      \* memory requests of it so far
  vm,        \* the ASL state
  call,      \* command of the host's request in progress
  answer     \* how the host's last request ended, until its client looks

pipes == <<stdin, stdout>>
worker == <<phase, command, asks, vm>>
protocol == <<process, source, pipes, worker, call, answer>>

-----------------------------------------------------------------------------
(* The lines.                                                              *)

Line(name, arg) == [name |-> name, arg |-> arg]
Reply(name, value, to) == [name |-> name, value |-> value, to |-> to]
Failure(why) == Reply(why, NoArg, NoCommand)   \* the exception a request ends with

\* The commands of parse_step.
Step(instruction) == Line("step", instruction)
Reset == Line("reset", NoArg)
Ping == Line("ping", NoArg)
Query(name) == Line(name, NoArg)
MemoryRequest == Line("mem_request", NoArg)
MemoryReply == Line("mem_reply", NoArg)

\* main: the commands answered by HostWriteStatus, by HostWriteStepResult and
\* by HostWriteValue; anything else is answered with status 2.
StatusCommands ==
  {"step", "reset", "ping", "write_mem", "select_pe", "set_tpc", "clear_mem_cache"}
ValueCommands ==
  {"peek_gpr", "peek_tpc", "decode_length", "peek_fault", "read_mem", "peek_pe_gpr",
   "peek_pe", "peek_terminal_pending", "peek_bundle_active", "peek_bundle_body_active",
   "peek_acr", "peek_control_request", "peek_barg_bpcn", "peek_barg_word",
   "peek_shared", "peek_block_collective"}

AnsweredWith(c) ==
  CASE c.name = "step_auto" -> "step_result"
    [] c.name \in ValueCommands -> "value"
    [] OTHER -> "status"

\* The reply line each method of EmbeddedAslWorker goes on to parse.
ParsedAsValue ==
  {"decode_length", "peek_tpc", "read_mem", "peek_fault", "peek_pe_gpr", "peek_pe",
   "peek_terminal_pending"}
ParsedAsFlagOrWord ==
  {"peek_bundle_active", "peek_bundle_body_active", "peek_block_collective", "peek_acr",
   "peek_control_request", "peek_barg_bpcn", "peek_barg_word", "peek_shared"}

Expected(c) ==
  CASE c.name = "step_auto" -> "step_result"
    [] c.name \in ParsedAsValue \cup ParsedAsFlagOrWord -> "value"
    [] OTHER -> "status"

-----------------------------------------------------------------------------
(* The host.                                                               *)

ProtocolInit ==
  /\ process = "none" /\ source = NoSource /\ stdin = <<>> /\ stdout = <<>>
  /\ phase = "boot" /\ command = NoCommand /\ asks = 0 /\ vm = Initial(EmptySource)
  /\ call = NoCommand /\ answer = NoAnswer

\* A new process: it has not read anything yet.
Spawn(src) ==
  /\ process' = "live" /\ source' = src
  /\ phase' = "boot" /\ command' = NoCommand /\ asks' = 0 /\ vm' = Initial(src)

\* start: the process is spawned, or the build or the spawn raises.
Start(src) ==
  /\ process = "none" /\ call = NoCommand /\ answer = NoAnswer
  /\ Spawn(src) /\ stdin' = <<>> /\ stdout' = <<>>
  /\ UNCHANGED <<call, answer>>

StartRaises ==
  /\ process = "none" /\ call = NoCommand /\ answer = NoAnswer
  /\ answer' = Failure("error")
  /\ UNCHANGED <<process, source, pipes, worker, call>>

\* request, up to the command line in the pipe.  A stopped worker is started
\* again first, and stop has forgotten its source.
RequestRestart(c) ==
  /\ process = "none"
  /\ Spawn(EmptySource) /\ stdin' = <<c>> /\ stdout' = <<>>
  /\ call' = c
  /\ UNCHANGED answer

\* That start may raise as well, in the build or in the spawn.
RequestRestartRaises(c) ==
  /\ process = "none"
  /\ answer' = Failure("error")
  /\ UNCHANGED <<process, source, pipes, worker, call>>

\* Fault variant: poll is not asked, so lines of a dead process are read.
RequestUnpolled(c) ==
  /\ process = "dead"
  /\ call' = c
  /\ UNCHANGED <<process, source, pipes, worker, answer>>

RequestDead(c) ==
  /\ process = "dead"
  /\ answer' = Failure("error")
  /\ UNCHANGED <<process, source, pipes, worker, call>>

RequestLive(c) ==
  /\ process = "live"
  /\ stdin' = Append(stdin, c) /\ call' = c
  /\ UNCHANGED <<process, source, stdout, worker, answer>>

Request(c) ==
  /\ call = NoCommand /\ answer = NoAnswer
  /\ RequestRestart(c) \/ RequestRestartRaises(c) \/ RequestDead(c) \/ RequestLive(c)

EndRequest(a) == call' = NoCommand /\ answer' = a

\* The read loop of request: a reply is returned; a memory request is served by
\* the callback, which may raise; without callbacks the request raises.
HostReads ==
  /\ call # NoCommand /\ stdout # <<>>
  /\ stdout' = Tail(stdout)
  /\ \/ /\ Head(stdout) # MemoryRequest
        /\ EndRequest(Head(stdout)) /\ UNCHANGED stdin
     \/ /\ Head(stdout) = MemoryRequest /\ ~Bridge
        /\ EndRequest(Failure("error")) /\ UNCHANGED stdin
     \/ /\ Head(stdout) = MemoryRequest /\ Bridge
        /\ \/ stdin' = Append(stdin, MemoryReply) /\ UNCHANGED <<call, answer>>
           \/ EndRequest(Failure("raised")) /\ UNCHANGED stdin
  /\ UNCHANGED <<process, source, worker>>

\* "worker closed stdout", or the write to it broke.
HostEof ==
  /\ call # NoCommand /\ process = "dead" /\ stdout = <<>>
  /\ EndRequest(Failure("error"))
  /\ UNCHANGED <<process, source, pipes, worker>>

\* Fault variant: the read has no timeout.
HostWaits == FALSE

\* _readline waits in vain and kills the worker.  Its last line may still come
\* to lie in the pipe.
HostTimesOut ==
  /\ call # NoCommand /\ process = "live" /\ stdout = <<>>
  /\ process' = "dead"
  /\ stdout' \in {<<>>, <<Reply(AnsweredWith(call), NoArg, call)>>}
  /\ EndRequest(Failure("timeout"))
  /\ UNCHANGED <<source, stdin, worker>>

\* stop: quit, wait, terminate; the pipes are closed.
Stop ==
  /\ call = NoCommand
  /\ process' = "none" /\ source' = NoSource /\ stdin' = <<>> /\ stdout' = <<>>

\* What the caller of request finds: a line of the worker or an exception.
Answered == answer # NoAnswer
Failed == Answered /\ answer.name \in {"error", "timeout", "raised"}
Status(n) == Answered /\ answer.name = "status" /\ answer.value = n

Consume ==
  /\ Answered /\ answer' = NoAnswer
  /\ UNCHANGED <<process, source, pipes, worker, call>>

-----------------------------------------------------------------------------
(* The worker process.                                                     *)

Emit(line) == stdout' = Append(stdout, line)

\* main runs the initial source before it reads the first command.
Boot ==
  /\ process = "live" /\ phase = "boot"
  /\ IF SourceAsks(source)
     THEN phase' = "asking" /\ Emit(MemoryRequest)
     ELSE phase' = "idle" /\ UNCHANGED stdout
  /\ UNCHANGED <<process, source, stdin, command, asks, vm, call, answer>>

\* read_command: a line that is no command is answered with status 2.
ReadCommand ==
  /\ process = "live" /\ phase = "idle" /\ stdin # <<>>
  /\ stdin' = Tail(stdin) /\ command' = Head(stdin)
  /\ phase' = "busy" /\ asks' = 0
  /\ UNCHANGED <<process, source, stdout, vm, call, answer>>

\* HostReadMemoryByte on a byte that is not cached, HostWriteMemoryByte.
AskMemory ==
  /\ process = "live" /\ phase = "busy" /\ asks < MaxAsks
  /\ Asks(vm, command) \/ (command = Reset /\ SourceAsks(source))
  /\ phase' = "asking" /\ asks' = asks + 1 /\ Emit(MemoryRequest)
  /\ UNCHANGED <<process, source, stdin, command, vm, call, answer>>

\* memory_request reads the next line, whatever it is: anything but a memory
\* reply is an invalid_arg and ends the process.
ReadMemoryReply ==
  /\ process = "live" /\ phase = "asking" /\ stdin # <<>>
  /\ stdin' = Tail(stdin)
  /\ IF Head(stdin) = MemoryReply
     THEN phase' = (IF command = NoCommand THEN "idle" ELSE "busy") /\ UNCHANGED process
     ELSE process' = "dead" /\ UNCHANGED phase
  /\ UNCHANGED <<source, stdout, command, asks, vm, call, answer>>

\* What main does with a command: the reset runs the source again.
Execute(c) ==
  IF c = Reset THEN {[vm |-> Initial(source), value |-> 0]} ELSE Outcomes(vm, c)

FinishCommand ==
  /\ process = "live" /\ phase = "busy"
  /\ \E outcome \in Execute(command) :
       /\ vm' = outcome.vm
       /\ Emit(Reply(AnsweredWith(command), outcome.value, command))
  /\ phase' = "idle"
  /\ UNCHANGED <<process, source, stdin, command, asks, call, answer>>

\* An ASL error, the loop limit of main or a signal: the exit handler leaves.
Die ==
  /\ process = "live"
  /\ process' = "dead"
  /\ UNCHANGED <<source, pipes, worker, call, answer>>

HostProgress == HostReads \/ HostEof \/ HostTimesOut
WorkerProgress == Boot \/ ReadCommand \/ AskMemory \/ ReadMemoryReply \/ FinishCommand

ProtocolNext == HostProgress \/ WorkerProgress \/ Die

-----------------------------------------------------------------------------
\* Whatever died, timed out or raised before: a line request returns is the
\* worker's answer to the very command the request sent, of the form its method
\* parses.  The reply is compared with the command when it is read.
PairedReply ==
  call # NoCommand /\ stdout # <<>> /\ Head(stdout) # MemoryRequest =>
    Head(stdout).to = call /\ Head(stdout).name = Expected(call)
=============================================================================
