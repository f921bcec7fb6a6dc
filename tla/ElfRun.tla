------------------------------- MODULE ElfRun -------------------------------
(***************************************************************************)
(* AslElfRunner.run (runtime/asl_elf.py): one program on one worker.       *)
(* With the host-memory profile the ASL code fetches through the bridge    *)
(* (step_auto); otherwise the host slices the bytes out of the segment it  *)
(* started in, follows the TPC with an offset of its own, and sends the    *)
(* instruction.  The run ends in a result or in an exception, and stops    *)
(* its worker either way.                                                  *)
(*                                                                         *)
(* The image is one segment of words; an instruction is one or more of     *)
(* them and its first word tells its width.  The length rule is total      *)
(* (DeterminePTOInstructionLength, 16 to 64 bits for every halfword), so   *)
(* the tests of a length against 0 never hold and decode_failed is no end. *)
(* The ASL state is the TPC, the instructions executed so far with their   *)
(* addresses and status, and the terminal flag; what an instruction does   *)
(* is a choice the constants bound.                                        *)
(***************************************************************************)
EXTENDS WorkerProtocol

CONSTANTS
  Data,            \* the words of the segment
  Base,            \* its address
  Blank,           \* the word of an unmapped address
  Width(_),        \* words of an instruction by its first word
  Fetchable(_),    \* ProbeInstructionAccess permits the word at this address
  Accepts(_),      \* ASL executes this instruction
  Targets(_),      \* addresses it may go on at beside the next one
  Terminal(_),     \* it matches an ACRC encoding (AslCompletionPolicy)
  Starts,          \* start addresses asked for
  Budgets          \* max_instructions asked for

Words == {Data[n] : n \in 1..Len(Data)} \cup {Blank}

ASSUME ElfAssumption ==
  /\ Data \in Seq(Words) /\ Base \in Nat /\ Starts \subseteq Nat
  /\ Budgets \subseteq Nat \ {0} /\ \A w \in Words : Width(w) \in Nat \ {0}

VARIABLES
  options,       \* [start, width, hosted, asks, budget] of the run, width 0: none given
  place,         \* where run is
  offset,        \* the position in the segment
  current,       \* [instruction, status, next] of this iteration
  steps,         \* the ElfSteps [address, instruction, returncode]
  termination

run == <<options, place, offset, current, steps, termination>>
vars == <<protocol, run>>

NoOptions == [start |-> Base, width |-> 0, hosted |-> FALSE, asks |-> FALSE, budget |-> 1]
Nothing == [instruction |-> <<>>, status |-> 0, next |-> Base]

-----------------------------------------------------------------------------
(* ExecutePTOInstruction and the queries of the worker, as the constants   *)
(* of WorkerProtocol.                                                      *)

ElfInitial(src) ==
  [tpc |-> IF src = EmptySource THEN Base ELSE src.start,
   hosted |-> src # EmptySource /\ src.hosted, executed |-> <<>>, pending |-> FALSE]
ElfSourceAsks(src) == src # EmptySource /\ src.asks
ElfAsks(state, c) == state.hosted /\ c.name \in {"step", "step_auto"}

\* HostReadMemoryByte through the bridge, which backs unmapped pages with zeros.
Cell(a) == IF a \in Base..(Base + Len(Data) - 1) THEN Data[a - Base + 1] ELSE Blank

\* An instruction and the status it ends with.
After(state, i, code) ==
  LET done == Append(state.executed,
                     [at |-> state.tpc, instruction |-> i, status |-> code])
  IN IF code # 0
     THEN {[state EXCEPT !.executed = done]}
     ELSE UNION {{[state EXCEPT !.tpc = pc, !.executed = done, !.pending = flag] :
                    flag \in IF Terminal(i) THEN BOOLEAN ELSE {FALSE}} :
                  pc \in {state.tpc + Len(i)} \cup Targets(i)}

StatusOf(i) == IF Accepts(i) THEN 0 ELSE 1

\* step_auto: the probe of the first word, then that of the whole instruction.
Permitted(pc) == \A k \in 1..Width(Cell(pc)) : Fetchable(pc + k - 1)

\* What it reports: the shortest length while the first word is denied, zeros while
\* the instruction is.  ExecuteNextPTOInstruction ends a denied fetch in a fault.
Fetched(pc) ==
  [k \in 1..(IF Fetchable(pc) THEN Width(Cell(pc)) ELSE 1) |->
     IF Permitted(pc) THEN Cell(pc + k - 1) ELSE Blank]
AutoStatus(pc) == IF Permitted(pc) THEN StatusOf(Fetched(pc)) ELSE 1

ElfOutcomes(state, c) ==
  LET i == Fetched(state.tpc)
      code == AutoStatus(state.tpc)
      answered(value) == {[vm |-> state, value |-> value]}
  IN CASE c.name = "step" ->
            {[vm |-> s, value |-> StatusOf(c.arg)] :
               s \in After(state, c.arg, StatusOf(c.arg))}
       [] c.name = "step_auto" ->
            {[vm |-> s, value |-> [instruction |-> i, status |-> code, next |-> s.tpc]] :
               s \in After(state, i, code)}
       [] c.name = "decode_length" -> answered(Width(c.arg))
       [] c.name = "peek_tpc" -> answered(state.tpc)
       [] c.name = "peek_terminal_pending" -> answered(state.pending)
       [] OTHER -> answered(0)

-----------------------------------------------------------------------------
Init ==
  /\ ProtocolInit
  /\ options = NoOptions /\ place = "new" /\ offset = 0
  /\ current = Nothing /\ steps = <<>> /\ termination = "max_instructions"

address == options.start + (offset - (options.start - Base))

\* Python's data[position : position + n].
Slice(position, n) ==
  LET clip(k) == IF k < 0 THEN (IF Len(Data) + k < 0 THEN 0 ELSE Len(Data) + k)
                 ELSE IF k > Len(Data) THEN Len(Data) ELSE k
  IN SubSeq(Data, clip(position) + 1, clip(position + n))

\* One request of run: sent at one place, its answer taken at another.
Send(from, c, to) ==
  /\ place = from /\ Request(c)
  /\ place' = to
  /\ UNCHANGED <<options, offset, current, steps, termination>>

Take(from, to) ==
  /\ place = from /\ ~Failed /\ Consume
  /\ place' = to

End(why) ==
  /\ termination' = why /\ place' = "finally"
  /\ UNCHANGED <<protocol, options, offset, current, steps>>

\* Up to worker.start.  A start that no segment holds, a width or a budget out of
\* range raises before there is a worker.
Begin(o) ==
  /\ place = "new"
  /\ o.start \in Base..(Base + Len(Data) - 1)
  /\ options' = o /\ offset' = o.start - Base /\ place' = "started"
  /\ Start([start |-> o.start, hosted |-> o.hosted, asks |-> o.asks]) \/ StartRaises
  /\ UNCHANGED <<current, steps, termination>>

SendPing == Send("started", Ping, "ping")
Pinged == Take("ping", "head") /\ UNCHANGED <<options, offset, current, steps, termination>>

\* for index in range(max_instructions): every iteration that goes on appends.
InBudget == place = "head" /\ Len(steps) < options.budget
BudgetUsed == place = "head" /\ Len(steps) = options.budget /\ End("max_instructions")

Explicit == options.width # 0 \/ ~options.hosted

\* The eight bytes at the offset.
available == Slice(offset, 4)

\* step_auto: ASL fetches, decodes and executes.
SendAuto == InBudget /\ ~Explicit /\ Send("head", Query("step_auto"), "auto")

AutoStepped ==
  /\ Take("auto", "stepped")
  /\ current' = answer.value
  /\ UNCHANGED <<options, offset, steps, termination>>

\* The host asks ASL for the width of what it fetched.
SendDecode ==
  /\ InBudget /\ Explicit /\ options.width = 0 /\ available # <<>>
  /\ Send("head", Line("decode_length", available[1]), "decode")

NothingThere ==
  /\ InBudget /\ Explicit /\ options.width = 0 /\ available = <<>>
  /\ End("out_of_image")

Decoded ==
  /\ Take("decode", "fetch")
  /\ current' = [Nothing EXCEPT !.instruction = Slice(offset, answer.value),
                                !.next = answer.value]
  /\ UNCHANGED <<options, offset, steps, termination>>

GivenWidth ==
  /\ InBudget /\ Explicit /\ options.width # 0
  /\ place' = "fetch"
  /\ current' = [Nothing EXCEPT !.instruction = Slice(offset, options.width),
                                !.next = options.width]
  /\ UNCHANGED <<protocol, options, offset, steps, termination>>

\* The fetched bytes may be cut by the end of the segment.
CutShort ==
  place = "fetch" /\ Len(current.instruction) # current.next /\ End("out_of_image")

SendStep ==
  /\ place = "fetch" /\ Len(current.instruction) = current.next
  /\ Send("fetch", Step(current.instruction), "step")

Stepped ==
  /\ Take("step", IF answer.value = 0 THEN "tpc" ELSE "fault")
  /\ current' = [current EXCEPT !.status = answer.value]
  /\ UNCHANGED <<options, offset, steps, termination>>

SendPeekTpc == Send("tpc", Query("peek_tpc"), "peek_tpc")
PeekedTpc ==
  /\ Take("peek_tpc", "stepped")
  /\ current' = [current EXCEPT !.next = answer.value]
  /\ UNCHANGED <<options, offset, steps, termination>>

SendPeekFault == Send("fault", Query("peek_fault"), "peek_fault")
PeekedFault ==
  Take("peek_fault", "stepped") /\ UNCHANGED <<options, offset, current, steps, termination>>

-----------------------------------------------------------------------------
(* The end of an iteration: the terminal query, the record, the next one.  *)

MayBeTerminal == current.status = 0 /\ Terminal(current.instruction)

Recorded(code) ==
  Append(steps, [address |-> address, instruction |-> current.instruction,
                 returncode |-> code])

SendPeekTerminal ==
  place = "stepped" /\ MayBeTerminal /\ Send("stepped", Query("peek_terminal_pending"), "peek")

PeekedTerminal ==
  /\ Take("peek", IF answer.value THEN "finally" ELSE "next")
  /\ termination' = IF answer.value THEN "asl_terminal" ELSE termination
  /\ steps' = Recorded(0)
  /\ UNCHANGED <<options, offset, current>>

\* Fault variant: the flag is not asked for, an encoding is enough.
TerminalByEncoding ==
  /\ place = "stepped" /\ current.status = 0
  /\ steps' = Recorded(0)
  /\ IF MayBeTerminal THEN termination' = "asl_terminal" /\ place' = "finally"
     ELSE termination' = termination /\ place' = "next"
  /\ UNCHANGED <<protocol, options, offset, current>>

\* No terminal encoding, or a rejected instruction.
RecordStep ==
  /\ place = "stepped" /\ ~MayBeTerminal
  /\ steps' = Recorded(current.status)
  /\ IF current.status = 0 THEN termination' = termination /\ place' = "next"
     ELSE termination' = "step_failed" /\ place' = "finally"
  /\ UNCHANGED <<protocol, options, offset, current>>

\* Fault variant: the offset never leaves the straight line.
AdvanceStraight ==
  /\ place = "next"
  /\ offset' = offset + Len(current.instruction)
  /\ place' = "head" /\ current' = Nothing
  /\ UNCHANGED <<protocol, options, steps, termination>>

Advance ==
  /\ place = "next"
  /\ offset' = IF current.next # address + Len(current.instruction)
               THEN current.next - Base
               ELSE offset + Len(current.instruction)
  /\ place' = "head" /\ current' = Nothing
  /\ UNCHANGED <<protocol, options, steps, termination>>

\* host_failure_status: a timeout is not a decision of ASL.
HostFailureStatus == IF answer.name = "timeout" THEN "step_timeout" ELSE "runtime_error"

\* The except branches around step_auto, step and peek_terminal_pending.
StepFailed ==
  /\ place \in {"auto", "step", "peek"} /\ Failed /\ Consume
  /\ steps' = Recorded(2) /\ termination' = HostFailureStatus /\ place' = "finally"
  /\ UNCHANGED <<options, offset, current>>

\* Any other request lets its exception out of run.
Escape ==
  /\ place \in {"started", "ping", "decode", "peek_tpc", "peek_fault"} /\ Failed /\ Consume
  /\ place' = "raising"
  /\ UNCHANGED <<options, offset, current, steps, termination>>

\* Fault variant: the worker is stopped only when the run has a result.
StopOnResult ==
  /\ place \in {"finally", "raising"} /\ call = NoCommand
  /\ place' = IF place = "finally" THEN "done" ELSE "raised"
  /\ IF place = "finally" THEN Stop ELSE UNCHANGED <<process, source, pipes>>
  /\ UNCHANGED <<worker, call, answer, options, offset, current, steps, termination>>

\* finally: worker.stop().
Finally ==
  /\ place \in {"finally", "raising"} /\ Stop
  /\ place' = IF place = "finally" THEN "done" ELSE "raised"
  /\ UNCHANGED <<worker, call, answer, options, offset, current, steps, termination>>

Requests ==
  [start : Starts, width : {0, 1, 2}, hosted : BOOLEAN, asks : BOOLEAN, budget : Budgets]

Loop ==
  \/ SendPing \/ Pinged \/ BudgetUsed \/ SendAuto \/ AutoStepped \/ SendDecode
  \/ NothingThere \/ Decoded \/ GivenWidth \/ CutShort \/ SendStep \/ Stepped
  \/ SendPeekTpc \/ PeekedTpc \/ SendPeekFault \/ PeekedFault \/ SendPeekTerminal
  \/ PeekedTerminal \/ RecordStep \/ Advance \/ StepFailed \/ Escape \/ Finally

Next ==
  \/ \E o \in Requests : Begin(o)
  \/ Loop
  \/ ProtocolNext /\ UNCHANGED run

\* The run's thread is scheduled, and poll gives up after timeout_s.
Spec ==
  Init /\ [][Next]_vars /\ WF_vars(Loop) /\ WF_vars(HostProgress /\ UNCHANGED run)

-----------------------------------------------------------------------------
(* as_dict.                                                                *)

failed == \E n \in 1..Len(steps) : steps[n].returncode # 0

status ==
  IF ~failed /\ termination = "asl_terminal" THEN "passed"
  ELSE IF ~failed /\ termination = "max_instructions" THEN "unfinished"
  ELSE "failed"

-----------------------------------------------------------------------------
\* The report is the execution: the steps of a result are the instructions the ASL
\* state really went through, in order and at the addresses its TPC had, each with
\* ASL's own verdict.  Only the last one may be a failure of the host, and then ASL
\* executed it or did not.  The words are those of the image at that address (zeros
\* where ASL was denied the fetch), except below the segment, where a negative offset
\* slices from its end.
WordsAt(a, i) ==
  a >= Base => \/ \A k \in 1..Len(i) : i[k] = Cell(a + k - 1)
               \/ ~Permitted(a) /\ \A k \in 1..Len(i) : i[k] = Blank
StepsAreExecuted ==
  place \in {"head", "done"} =>
    /\ \A n \in 1..Len(steps) : WordsAt(steps[n].address, steps[n].instruction)
    /\ LET hostFailed == steps # <<>> /\ steps[Len(steps)].returncode = 2
           decided == SubSeq(steps, 1, Len(steps) - (IF hostFailed THEN 1 ELSE 0))
           seen == [n \in 1..Len(vm.executed) |->
                      [address |-> vm.executed[n].at,
                       instruction |-> vm.executed[n].instruction,
                       returncode |-> vm.executed[n].status]]
       IN decided = seen \/ (hostFailed /\ decided = SubSeq(seen, 1, Len(seen) - 1))

\* A run is reported as passed only when ASL published its terminal event, as
\* unfinished only when the whole budget was executed and accepted, and as a failed
\* step only when ASL rejected one: a host that gave up never speaks for ASL.
VerdictIsEarned ==
  place = "done" =>
    /\ status = "passed" => vm.pending /\ vm.executed[Len(vm.executed)].status = 0
    /\ status = "unfinished" => Len(vm.executed) = options.budget /\ ~vm.pending
    /\ termination = "step_failed" => vm.executed[Len(vm.executed)].status # 0
    /\ \A n \in 1..Len(vm.executed) : vm.executed[n].status # 0 => status = "failed"

\* Every run that has begun ends, with or without a result, and no worker process is
\* left behind.
RunEnds == place # "new" ~> (place \in {"done", "raised"} /\ process = "none")
=============================================================================
