---------------------------- MODULE ElfRunProofs ----------------------------
(***************************************************************************)
(* The report of AslElfRunner.run is what ASL executed and its verdict is  *)
(* earned, for every image, interpreter, budget and number of memory       *)
(* requests, and wherever the worker or a request fails.                   *)
(***************************************************************************)
EXTENDS ElfRun, TLAPS

\* What the interpreter is to this runner: the constants Initial and Outcomes of the
\* protocol are the runner's, an instruction goes on at an address, and the constants
\* that stand for "no line" are no lines.
Semantics ==
  /\ \A src : Initial(src) = ElfInitial(src)
  /\ \A state, c : Outcomes(state, c) = ElfOutcomes(state, c)
  /\ \A i : Targets(i) \subseteq Int
  /\ \A name, arg : Line(name, arg) # NoCommand
  /\ \A name, value, to : Reply(name, value, to) # NoAnswer
  /\ \A s, h, a : [start |-> s, hosted |-> h, asks |-> a] # EmptySource

-----------------------------------------------------------------------------
(* The recorded steps and the ASL state.                                   *)

IsSeq(s) == s \in Seq({s[n] : n \in DOMAIN s})

\* The step that reports an executed instruction.
Report(e) ==
  [address |-> e.at, instruction |-> e.instruction, returncode |-> e.status]

\* The first m steps are the reports of the first m instructions executed.
Matches(m) ==
  \A n \in 1..m : steps[n] = Report(vm.executed[n]) /\ vm.executed[n].status \in {0, 1}
AllPassed == \A n \in 1..Len(steps) : steps[n].returncode = 0

\* Every instruction executed is recorded, and ASL goes on at pc.
Even(pc) ==
  /\ Len(vm.executed) = Len(steps) /\ Matches(Len(steps)) /\ AllPassed
  /\ vm.tpc = pc /\ pc \in Int /\ vm.pending = FALSE

\* One more is executed, with this status.
Ahead(i, code) ==
  /\ Len(vm.executed) = Len(steps) + 1 /\ Matches(Len(steps)) /\ AllPassed
  /\ vm.executed[Len(steps) + 1] = [at |-> address, instruction |-> i, status |-> code]
  /\ code \in {0, 1} /\ WordsAt(address, i) /\ Len(i) \in Nat /\ vm.tpc \in Int
  /\ vm.pending \in BOOLEAN /\ (vm.pending => code = 0 /\ Terminal(i))

-----------------------------------------------------------------------------
(* What is known at a place of run.                                        *)

Requesting == {"ping", "auto", "decode", "step", "peek_tpc", "peek_fault", "peek"}
Working == {"head", "fetch", "tpc", "fault", "stepped", "next"}

\* While nothing is executed at this place.
Before ==
  /\ place \in {"started", "ping", "head", "auto", "decode"} =>
       Even(address) /\ current = Nothing
  /\ place = "decode" => available[1] \in Words
  /\ place \in {"fetch", "step"} =>
       /\ Even(address) /\ WordsAt(address, current.instruction)
       /\ Len(current.instruction) \in Nat
  /\ place \in {"tpc", "peek_tpc", "fault", "peek_fault", "stepped", "peek"} =>
       Ahead(current.instruction, current.status)
  /\ place \in {"tpc", "peek_tpc"} => current.status = 0
  /\ place \in {"fault", "peek_fault"} => current.status = 1
  /\ place \in {"stepped", "peek"} /\ current.status = 0 => current.next = vm.tpc
  /\ place = "peek" => current.status = 0
  /\ place = "next" => Even(current.next) /\ Len(current.instruction) \in Nat

\* The command of the request.
CommandHere ==
  CASE place = "ping" -> Ping
    [] place = "auto" -> Query("step_auto")
    [] place = "decode" -> Line("decode_length", available[1])
    [] place = "step" -> Step(current.instruction)
    [] place = "peek_tpc" -> Query("peek_tpc")
    [] place = "peek_fault" -> Query("peek_fault")
    [] OTHER -> Query("peek_terminal_pending")

\* What its answer tells.
Told(v) ==
  /\ place = "auto" =>
       /\ v = [instruction |-> v.instruction, status |-> v.status, next |-> v.next]
       /\ Ahead(v.instruction, v.status) /\ v.next = vm.tpc
  /\ place = "step" => Ahead(current.instruction, v)
  /\ place \notin {"auto", "step"} => Before
  /\ place = "decode" => v \in Nat
  /\ place = "peek_tpc" => v = vm.tpc
  /\ place = "peek" => v = vm.pending

\* A request without an answer: ASL executed its command or did not.
Lost ==
  /\ Matches(Len(steps)) /\ Len(vm.executed) \in {Len(steps), Len(steps) + 1}
  /\ WordsAt(address, current.instruction)

Failures == {Failure(why) : why \in {"error", "timeout", "raised"}}

\* A request in progress, or one whose answer has not been looked at.
InFlight(c) ==
  \/ call = c /\ answer = NoAnswer /\ stdout \in {<<>>, <<MemoryRequest>>} /\ Before
  \/ /\ call = c /\ answer = NoAnswer /\ phase = "idle" /\ stdout # <<>>
     /\ stdout = <<Reply(AnsweredWith(c), stdout[1].value, c)>> /\ Told(stdout[1].value)
  \/ /\ call = NoCommand /\ answer # NoAnswer
     /\ answer = Reply(AnsweredWith(c), answer.value, c) /\ Told(answer.value)
  \/ call = NoCommand /\ answer \in Failures /\ Lost

Calm == call = NoCommand /\ answer = NoAnswer

\* The verdict, by the reason of the end.
Earned ==
  /\ \/ /\ termination \in {"max_instructions", "asl_terminal", "step_failed",
                            "out_of_image"}
        /\ Len(vm.executed) = Len(steps) /\ Matches(Len(steps))
     \/ /\ termination \in {"step_timeout", "runtime_error"}
        /\ steps # <<>> /\ steps[Len(steps)].returncode = 2
        /\ Len(vm.executed) \in {Len(steps) - 1, Len(steps)} /\ Matches(Len(steps) - 1)
  /\ termination = "max_instructions" =>
       AllPassed /\ Len(steps) = options.budget /\ vm.pending = FALSE
  /\ termination = "asl_terminal" => AllPassed /\ steps # <<>> /\ vm.pending = TRUE
  /\ termination = "step_failed" => steps # <<>> /\ steps[Len(steps)].returncode = 1

PlaceInv ==
  /\ place \in {"new", "started", "finally", "done", "raising", "raised"}
               \cup Requesting \cup Working
  /\ place = "new" => Calm /\ process = "none" /\ steps = <<>> /\ current = Nothing
  /\ place = "started" =>
       /\ call = NoCommand
       /\ answer \in Failures \/ (answer = NoAnswer /\ process # "none" /\ Before)
  /\ place \in Requesting => InFlight(CommandHere) /\ process # "none"
  /\ place \in Working => Calm /\ Before /\ process # "none"
  /\ place \in {"finally", "done"} => Calm /\ Earned
  /\ place \in {"raising", "raised"} => Calm

-----------------------------------------------------------------------------
(* The pipes of a live worker.                                             *)

\* It asked during boot: the next line, a command, ends it.
Doomed(c) ==
  /\ phase = "asking" /\ c # MemoryReply
  /\ \/ stdin = <<c>> /\ stdout \in {<<>>, <<MemoryRequest>>}
     \/ stdin = <<c, MemoryReply>> /\ stdout = <<>>

Wire ==
  process = "live" =>
    \/ call # NoCommand /\ phase \in {"boot", "idle"} /\ stdin = <<call>> /\ stdout = <<>>
    \/ call # NoCommand /\ phase = "busy" /\ command = call /\ stdin = <<>> /\ stdout = <<>>
    \/ /\ call # NoCommand /\ phase = "asking" /\ command = call
       /\ \/ stdin = <<>> /\ stdout = <<MemoryRequest>>
          \/ stdin = <<MemoryReply>> /\ stdout = <<>>
    \/ /\ call # NoCommand /\ phase = "idle" /\ stdin = <<>>
       /\ stdout \notin {<<>>, <<MemoryRequest>>}
    \/ call # NoCommand /\ Doomed(call)
    \/ call = NoCommand /\ phase \in {"boot", "idle"} /\ stdin = <<>> /\ stdout = <<>>
    \/ /\ call = NoCommand /\ phase = "asking" /\ stdin = <<>>
       /\ stdout \in {<<>>, <<MemoryRequest>>}
    \/ /\ call = NoCommand /\ stdin # <<>> /\ Doomed(stdin[1])
       /\ answer \in Failures \/ place \in {"finally", "done", "raising", "raised"}

\* The shapes of the variables, and the words of every recorded step.
Shape ==
  /\ IsSeq(steps) /\ IsSeq(vm.executed)
  /\ vm = [tpc |-> vm.tpc, hosted |-> vm.hosted, executed |-> vm.executed,
           pending |-> vm.pending]
  /\ current = [instruction |-> current.instruction, status |-> current.status,
                next |-> current.next]
  /\ options.start \in Int /\ options.width \in Nat /\ options.budget \in Nat
  /\ offset \in Int
  /\ \A n \in 1..Len(steps) : WordsAt(steps[n].address, steps[n].instruction)

Inv == Shape /\ Wire /\ PlaceInv
-----------------------------------------------------------------------------
(* Lines, sequences, words.                                                *)

\* A pipe with one line, or two.
LEMMA OneLine ==
  ASSUME NEW x, NEW y
  PROVE  /\ <<x>> # <<>> /\ Head(<<x>>) = x /\ Tail(<<x>>) = <<>> /\ Append(<<>>, x) = <<x>>
         /\ <<x>>[1] = x /\ Append(<<x>>, y) = <<x, y>> /\ <<x, y>> # <<>>
         /\ Head(<<x, y>>) = x /\ <<x, y>>[1] = x
<1>1. /\ <<x>> # <<>> /\ Head(<<x>>) = x /\ Tail(<<x>>) = <<>> /\ Append(<<>>, x) = <<x>>
      /\ <<x>>[1] = x
  OBVIOUS
<1>2. Append(<<x>>, y) = <<x, y>>
  <2> DEFINE t == Append(<<x>>, y)
             u == <<x, y>>
  <2>1. t \in Seq({x, y}) /\ u \in Seq({x, y}) /\ Len(t) = 2 /\ Len(u) = 2
    OBVIOUS
  <2>2. t[1] = u[1] /\ t[2] = u[2]
    OBVIOUS
  <2> HIDE DEF t, u
  <2>3. t = u
    BY <2>1, <2>2
  <2> QED
    BY <2>3, Zenon DEF t, u
<1>3. <<x, y>> # <<>> /\ Head(<<x, y>>) = x /\ <<x, y>>[1] = x
  OBVIOUS
<1> QED
  BY <1>1, <1>2, <1>3, Zenon

\* The answer of a command is no memory request and no failure.
LEMMA Answers ==
  ASSUME NEW c, NEW v
  PROVE  /\ Reply(AnsweredWith(c), v, c) # MemoryRequest
         /\ Reply(AnsweredWith(c), v, c).name \notin {"error", "timeout", "raised"}
         /\ Reply(AnsweredWith(c), v, c).value = v
<1>1. AnsweredWith(c) \in {"step_result", "value", "status"}
  BY Zenon DEF AnsweredWith
<1>2. Reply(AnsweredWith(c), v, c).name = AnsweredWith(c) /\ Reply(AnsweredWith(c), v, c).value = v
  BY Zenon DEF Reply
<1>3. MemoryRequest.name = "mem_request"
  BY Zenon DEF MemoryRequest, Line
<1>4. AnsweredWith(c) # "mem_request" /\ AnsweredWith(c) \notin {"error", "timeout", "raised"}
  BY <1>1, Zenon
<1> QED
  BY <1>2, <1>3, <1>4, Zenon

\* A failure is known by its name.
LEMMA FailureNames ==
  ASSUME Semantics
  PROVE  /\ \A f \in Failures : f.name \in {"error", "timeout", "raised"} /\ f # NoAnswer
         /\ \A why \in {"error", "timeout", "raised"} : Failure(why) \in Failures
<1>1. \A why : Failure(why).name = why
  BY Zenon DEF Failure, Reply
<1>2. \A f \in Failures : \E why \in {"error", "timeout", "raised"} : f = Failure(why)
  BY Zenon DEF Failures
<1>3. \A why : Failure(why) # NoAnswer
  BY Zenon DEF Failure, Semantics
<1> QED
  BY <1>1, <1>2, <1>3, Zenon DEF Failures

\* The request made at each place.
LEMMA Commands ==
  /\ place = "ping" => CommandHere = Ping
  /\ place = "auto" => CommandHere = Query("step_auto")
  /\ place = "decode" => CommandHere = Line("decode_length", available[1])
  /\ place = "step" => CommandHere = Step(current.instruction)
  /\ place = "peek_tpc" => CommandHere = Query("peek_tpc")
  /\ place = "peek_fault" => CommandHere = Query("peek_fault")
  /\ place = "peek" => CommandHere = Query("peek_terminal_pending")
BY Zenon DEF CommandHere

\* It is a command, and none that a worker takes for something else.
LEMMA CommandKind ==
  ASSUME Semantics, place \in Requesting
  PROVE  CommandHere # NoCommand /\ CommandHere # MemoryReply /\ CommandHere # Reset
<1>1. PICK name, arg : CommandHere = Line(name, arg) /\ name # "mem_reply" /\ name # "reset"
  BY Commands, Zenon DEF Requesting, Ping, Step, Query
<1>2. CommandHere.name = name
  BY <1>1, Zenon DEF Line
<1>3. MemoryReply.name = "mem_reply" /\ Reset.name = "reset"
  BY Zenon DEF MemoryReply, Reset, Line
<1> QED
  BY <1>1, <1>2, <1>3, Zenon DEF Semantics

\* A sequence with one more element.
LEMMA OneMore ==
  ASSUME NEW s, IsSeq(s), NEW e
  PROVE  /\ IsSeq(Append(s, e)) /\ Len(s) \in Nat /\ Len(Append(s, e)) = Len(s) + 1
         /\ Append(s, e) # <<>> /\ Append(s, e)[Len(s) + 1] = e
         /\ \A n \in 1..Len(s) : Append(s, e)[n] = s[n]
<1> DEFINE S == {s[n] : n \in DOMAIN s}
<1>1. s \in Seq(S)
  BY Zenon DEF IsSeq
<1> HIDE DEF S
<1>2. /\ Len(s) \in Nat /\ Len(Append(s, e)) = Len(s) + 1
      /\ Append(s, e) # <<>> /\ Append(s, e)[Len(s) + 1] = e
      /\ \A n \in 1..Len(s) : Append(s, e)[n] = s[n]
  BY <1>1
<1>3. Append(s, e) \in Seq({Append(s, e)[n] : n \in DOMAIN Append(s, e)})
  <2>1. Append(s, e) \in Seq(S \cup {e})
    BY <1>1
  <2> DEFINE t == Append(s, e)
  <2> HIDE DEF t
  <2>2. t \in Seq(S \cup {e}) => t \in Seq({t[n] : n \in DOMAIN t})
    OBVIOUS
  <2> QED
    BY <2>1, <2>2, Zenon DEF t
<1> QED
  BY <1>2, <1>3, Zenon DEF IsSeq

\* The empty sequence is one.
LEMMA Empty == IsSeq(<<>>) /\ Len(<<>>) = 0
<1>1. <<>> \in Seq({<<>>[n] : n \in DOMAIN <<>>}) /\ Len(<<>>) = 0
  OBVIOUS
<1> QED
  BY <1>1, Zenon DEF IsSeq

\* The address the runner records is that of its offset.
LEMMA Address ==
  ASSUME options.start \in Int, offset \in Int
  PROVE  address = Base + offset /\ address \in Int
BY ElfAssumption DEF address

\* A slice at a position that is not negative holds the words of the image there.
LEMMA SliceWords ==
  ASSUME NEW p \in Int, NEW n \in Nat
  PROVE  /\ Slice(p, n) \in Seq(Words) /\ Len(Slice(p, n)) \in Nat
         /\ WordsAt(Base + p, Slice(p, n))
<1> DEFINE lo == IF p < 0 THEN (IF Len(Data) + p < 0 THEN 0 ELSE Len(Data) + p)
                 ELSE IF p > Len(Data) THEN Len(Data) ELSE p
           hi == IF p + n < 0 THEN (IF Len(Data) + (p + n) < 0 THEN 0 ELSE Len(Data) + (p + n))
                 ELSE IF p + n > Len(Data) THEN Len(Data) ELSE p + n
<1>1. Slice(p, n) = SubSeq(Data, lo + 1, hi)
  BY Zenon DEF Slice
<1>2. Len(Data) \in Nat /\ Data \in Seq(Words) /\ Base \in Nat
  BY ElfAssumption
<1>3. lo \in 0..Len(Data) /\ hi \in 0..Len(Data)
  BY <1>2
<1>4. p >= 0 => lo <= p /\ (lo < hi => lo = p)
  BY <1>2
<1> HIDE DEF lo, hi
<1>5. /\ SubSeq(Data, lo + 1, hi) \in Seq(Words) /\ Len(SubSeq(Data, lo + 1, hi)) \in Nat
      /\ \A k \in 1..Len(SubSeq(Data, lo + 1, hi)) :
           /\ lo < hi /\ k \in Nat /\ lo + k \in 1..Len(Data)
           /\ SubSeq(Data, lo + 1, hi)[k] = Data[lo + k]
  BY <1>2, <1>3
<1>6. ASSUME p >= 0, NEW k \in 1..Len(SubSeq(Data, lo + 1, hi))
      PROVE  SubSeq(Data, lo + 1, hi)[k] = Cell(Base + p + k - 1)
  <2>1. lo = p /\ k \in Nat /\ lo + k \in 1..Len(Data) /\ SubSeq(Data, lo + 1, hi)[k] = Data[lo + k]
    BY <1>4, <1>5, <1>6, Zenon
  <2> DEFINE a == Base + p + k - 1
  <2>2. a \in Base..(Base + Len(Data) - 1) /\ a - Base + 1 = lo + k
    BY <1>2, <2>1
  <2> HIDE DEF a
  <2>3. Cell(a) = Data[lo + k]
    BY <2>2, Zenon DEF Cell
  <2> QED
    BY <2>1, <2>3, Zenon DEF a
<1>7. Base + p >= Base => p >= 0
  BY <1>2
<1> QED
  BY <1>1, <1>5, <1>6, <1>7, Zenon DEF WordsAt

\* What is known of the run does not depend on the protocol but for the ASL state.
LEMMA SameData ==
  ASSUME UNCHANGED <<run, vm>>
  PROVE  /\ Before' <=> Before
         /\ Lost' <=> Lost
         /\ Earned' <=> Earned
         /\ Shape' <=> Shape
         /\ CommandHere' = CommandHere /\ \A v : Told(v)' <=> Told(v)
<1>1. UNCHANGED <<options, place, offset, current, steps, termination>>
  BY Zenon DEF run
<1>2. address' = address /\ available' = available
  BY <1>1, Zenon DEF address, available
<1>3. \A m : Matches(m)' <=> Matches(m)
  BY <1>1, Zenon DEF Matches
<1>4. AllPassed' <=> AllPassed
  BY <1>1, Zenon DEF AllPassed
<1>5. \A pc : Even(pc)' <=> Even(pc)
  BY <1>1, <1>3, <1>4, Zenon DEF Even
<1>6. \A i, code : Ahead(i, code)' <=> Ahead(i, code)
  BY <1>1, <1>2, <1>3, <1>4, Zenon DEF Ahead
<1>7. Before' <=> Before
  BY <1>1, <1>2, <1>5, <1>6, Zenon DEF Before
<1>8. Lost' <=> Lost
  BY <1>1, <1>2, <1>3, Zenon DEF Lost
<1>9. Earned' <=> Earned
  BY <1>1, <1>3, <1>4, Zenon DEF Earned
<1>10. Shape' <=> Shape
  BY <1>1, Zenon DEF Shape
<1>11. CommandHere' = CommandHere
  BY <1>1, <1>2, Zenon DEF CommandHere
<1>12. \A v : Told(v)' <=> Told(v)
  BY <1>1, <1>2, <1>5, <1>6, <1>7 DEF Told
<1> QED
  BY <1>7, <1>8, <1>9, <1>10, <1>11, <1>12, Zenon

\* An instruction executed where every one before it is recorded: one ahead.
LEMMA Executes ==
  ASSUME Semantics, Shape, Even(address), UNCHANGED run,
         NEW i, Len(i) \in Nat, WordsAt(address, i), NEW code \in {0, 1},
         vm' \in After(vm, i, code)
  PROVE  Ahead(i, code)' /\ Shape'
<1> DEFINE e == [at |-> vm.tpc, instruction |-> i, status |-> code]
           done == Append(vm.executed, e)
<1>0. /\ UNCHANGED <<options, place, offset, current, steps>> /\ address' = address
      /\ vm.tpc = address /\ address \in Int /\ vm.pending = FALSE
      /\ Len(vm.executed) = Len(steps) /\ Matches(Len(steps)) /\ AllPassed
      /\ IsSeq(vm.executed) /\ IsSeq(steps)
      /\ vm = [tpc |-> vm.tpc, hosted |-> vm.hosted, executed |-> vm.executed,
               pending |-> vm.pending]
  BY Zenon DEF run, address, Even, Shape
<1>1. /\ vm' = [tpc |-> vm'.tpc, hosted |-> vm'.hosted, executed |-> vm'.executed,
                pending |-> vm'.pending]
      /\ vm'.executed = done /\ vm'.tpc \in Int
      /\ vm'.pending \in BOOLEAN /\ (vm'.pending => code = 0 /\ Terminal(i))
  <2>1. CASE code # 0
    <3>1. vm' = [vm EXCEPT !.executed = done]
      BY <2>1, Zenon DEF After
    <3>2. vm' = [tpc |-> vm.tpc, hosted |-> vm.hosted, executed |-> done, pending |-> vm.pending]
      BY <1>0, <3>1, Zenon
    <3> QED
      BY <1>0, <3>2, Zenon
  <2>2. CASE code = 0
    <3>1. PICK pc \in {vm.tpc + Len(i)} \cup Targets(i) :
            \E flag \in IF Terminal(i) THEN BOOLEAN ELSE {FALSE} :
              vm' = [vm EXCEPT !.tpc = pc, !.executed = done, !.pending = flag]
      BY <2>2, Zenon DEF After
    <3>5. PICK flag \in IF Terminal(i) THEN BOOLEAN ELSE {FALSE} :
            vm' = [vm EXCEPT !.tpc = pc, !.executed = done, !.pending = flag]
      BY <3>1, Zenon
    <3>2. vm' = [tpc |-> pc, hosted |-> vm.hosted, executed |-> done, pending |-> flag]
      BY <1>0, <3>5, Zenon
    <3>3. pc \in Int
      <4>1. vm.tpc + Len(i) \in Int
        BY <1>0
      <4> QED
        BY <3>1, <4>1, Zenon DEF Semantics
    <3>4. flag \in BOOLEAN /\ (flag => Terminal(i))
      BY <3>5, Zenon
    <3> QED
      BY <2>2, <3>2, <3>3, <3>4, Zenon
  <2> QED
    BY <2>1, <2>2, Zenon
<1>2. /\ IsSeq(done) /\ Len(done) = Len(steps) + 1
      /\ done[Len(steps) + 1] = [at |-> address, instruction |-> i, status |-> code]
      /\ \A n \in 1..Len(steps) : done[n] = vm.executed[n]
  <2> HIDE DEF e
  <2>1. /\ IsSeq(done) /\ Len(done) = Len(vm.executed) + 1 /\ done[Len(vm.executed) + 1] = e
        /\ \A n \in 1..Len(vm.executed) : done[n] = vm.executed[n]
    BY <1>0, OneMore
  <2>2. e = [at |-> address, instruction |-> i, status |-> code]
    BY <1>0, Zenon DEF e
  <2> QED
    BY <1>0, <2>1, <2>2, Zenon
<1> HIDE DEF done
<1>3. Matches(Len(steps))'
  BY <1>0, <1>1, <1>2, Zenon DEF Matches
<1>4. AllPassed'
  BY <1>0, Zenon DEF AllPassed
<1>6. Ahead(i, code)'
  BY <1>0, <1>1, <1>2, <1>3, <1>4, Zenon DEF Ahead
<1>7. Shape'
  BY <1>0, <1>1, <1>2, Zenon DEF Shape
<1> QED
  BY <1>6, <1>7, Zenon

-----------------------------------------------------------------------------
(* What the worker does with the command of a place.                       *)

\* The names of the commands.
LEMMA CommandNames ==
  /\ place = "ping" => CommandHere.name = "ping"
  /\ place = "auto" => CommandHere.name = "step_auto"
  /\ place = "decode" => CommandHere.name = "decode_length" /\ CommandHere.arg = available[1]
  /\ place = "step" => CommandHere.name = "step" /\ CommandHere.arg = current.instruction
  /\ place = "peek_tpc" => CommandHere.name = "peek_tpc"
  /\ place = "peek_fault" => CommandHere.name = "peek_fault"
  /\ place = "peek" => CommandHere.name = "peek_terminal_pending"
<1>1. \A name, arg : Line(name, arg).name = name /\ Line(name, arg).arg = arg
  BY Zenon DEF Line
<1> QED
  BY <1>1, Commands DEF Ping, Step, Query

\* The arms of the worker's command loop: an instruction.
LEMMA StepOutcome ==
  ASSUME NEW state, NEW c, c.name = "step", NEW o \in ElfOutcomes(state, c)
  PROVE  \E s \in After(state, c.arg, StatusOf(c.arg)) :
           o = [vm |-> s, value |-> StatusOf(c.arg)]
<1>1. ElfOutcomes(state, c) =
        {[vm |-> s, value |-> StatusOf(c.arg)] : s \in After(state, c.arg, StatusOf(c.arg))}
  BY Zenon DEF ElfOutcomes
<1> QED
  BY <1>1, Zenon

\* One that ASL fetches itself.
LEMMA AutoOutcome ==
  ASSUME NEW state, NEW c, c.name = "step_auto", NEW o \in ElfOutcomes(state, c)
  PROVE  \E s \in After(state, Fetched(state.tpc), AutoStatus(state.tpc)) :
           o = [vm |-> s, value |-> [instruction |-> Fetched(state.tpc),
                                     status |-> AutoStatus(state.tpc),
                                     next |-> s.tpc]]
<1>1. ElfOutcomes(state, c) =
        {[vm |-> s, value |-> [instruction |-> Fetched(state.tpc),
                               status |-> AutoStatus(state.tpc),
                               next |-> s.tpc]] :
           s \in After(state, Fetched(state.tpc), AutoStatus(state.tpc))}
  BY Zenon DEF ElfOutcomes
<1> QED
  BY <1>1, Zenon

\* The queries leave the ASL state alone.
LEMMA QueryOutcome ==
  ASSUME NEW state, NEW c, NEW o \in ElfOutcomes(state, c)
  PROVE  /\ c.name = "decode_length" => o = [vm |-> state, value |-> Width(c.arg)]
         /\ c.name = "peek_tpc" => o = [vm |-> state, value |-> state.tpc]
         /\ c.name = "peek_terminal_pending" => o = [vm |-> state, value |-> state.pending]
         /\ c.name \in {"ping", "peek_fault"} => o = [vm |-> state, value |-> 0]
<1>4. c.name = "decode_length" => ElfOutcomes(state, c) = {[vm |-> state, value |-> Width(c.arg)]}
  BY Zenon DEF ElfOutcomes
<1>5. c.name = "peek_tpc" => ElfOutcomes(state, c) = {[vm |-> state, value |-> state.tpc]}
  BY Zenon DEF ElfOutcomes
<1>6. c.name = "peek_terminal_pending" =>
        ElfOutcomes(state, c) = {[vm |-> state, value |-> state.pending]}
  BY Zenon DEF ElfOutcomes
<1>7. c.name \in {"ping", "peek_fault"} => ElfOutcomes(state, c) = {[vm |-> state, value |-> 0]}
  BY Zenon DEF ElfOutcomes
<1> QED
  BY <1>4, <1>5, <1>6, <1>7, Zenon

\* A fetched instruction has the words of the image, or zeros where it is denied.
LEMMA FetchedWords ==
  ASSUME NEW a \in Int
  PROVE  /\ Len(Fetched(a)) \in Nat /\ WordsAt(a, Fetched(a))
<1>1. Cell(a) \in Words
  <2>1. CASE a \in Base..(Base + Len(Data) - 1)
    <3>1. a - Base + 1 \in 1..Len(Data)
      BY <2>1, ElfAssumption
    <3> QED
      BY <2>1, <3>1, Zenon DEF Cell, Words
  <2> QED
    BY <2>1, Zenon DEF Cell, Words
<1>2. Width(Cell(a)) \in Nat
  BY <1>1, ElfAssumption, Zenon
<1> DEFINE n == IF Fetchable(a) THEN Width(Cell(a)) ELSE 1
<1>3. n \in Nat
  BY <1>2
<1>4. Fetched(a) = [k \in 1..n |-> IF Permitted(a) THEN Cell(a + k - 1) ELSE Blank]
  BY Zenon DEF Fetched
<1> HIDE DEF n
<1>5. /\ Len(Fetched(a)) = n
      /\ \A k \in 1..n : Fetched(a)[k] = IF Permitted(a) THEN Cell(a + k - 1) ELSE Blank
  BY <1>3, <1>4
<1> QED
  BY <1>3, <1>5, Zenon DEF WordsAt

\* A status is 0 or 1.
LEMMA Statuses == \A i, a : StatusOf(i) \in {0, 1} /\ AutoStatus(a) \in {0, 1}
BY Zenon DEF StatusOf, AutoStatus

\* The command of a place, finished, tells what the answer is taken for.
LEMMA Finishes ==
  ASSUME Semantics, Shape, place \in Requesting, Before, UNCHANGED run,
         NEW outcome \in Execute(CommandHere), vm' = outcome.vm
  PROVE  Told(outcome.value)' /\ Shape'
<1> DEFINE c == CommandHere
<1> HIDE DEF c
<1>n. c = CommandHere
  BY Zenon DEF c
<1>0. outcome \in ElfOutcomes(vm, c) /\ place' = place /\ current' = current /\ offset' = offset
      /\ options' = options
  BY <1>n, CommandKind, Zenon DEF Execute, Semantics, run
<1>a. address' = address /\ available' = available
  BY <1>0, Zenon DEF address, available
<1>1. CASE place = "auto"
  <2>0. c.name = "step_auto" /\ Even(address) /\ vm.tpc = address /\ address \in Int
    <3>1. Even(address)
      BY <1>1, Zenon DEF Before
    <3> QED
      BY <1>1, <3>1, <1>n, CommandNames, Zenon DEF Even
  <2>1. PICK i, code : i = Fetched(address) /\ code = AutoStatus(address)
    BY Zenon
  <2>2. PICK s \in After(vm, i, code) :
          outcome = [vm |-> s, value |-> [instruction |-> i, status |-> code, next |-> s.tpc]]
    BY <1>0, <2>0, <2>1, AutoOutcome
  <2>3. /\ vm' = s
        /\ outcome.value = [instruction |-> i, status |-> code, next |-> vm'.tpc]
    BY <2>2, Zenon
  <2>4. vm' \in After(vm, i, code) /\ Len(i) \in Nat /\ WordsAt(address, i) /\ code \in {0, 1}
    BY <2>0, <2>1, <2>2, <2>3, FetchedWords, Statuses, Zenon
  <2>5. Ahead(i, code)' /\ Shape'
    BY <2>0, <2>4, Executes, Zenon
  <2>6. /\ outcome.value.instruction = i /\ outcome.value.status = code
        /\ outcome.value.next = vm'.tpc
    BY <2>3
  <2> QED
    BY <1>0, <1>1, <2>3, <2>5, <2>6, Zenon DEF Told
<1>2. CASE place = "step"
  <2>0. c.name = "step" /\ c.arg = current.instruction
    BY <1>2, <1>n, CommandNames, Zenon
  <2>1. PICK i : i = current.instruction
    BY Zenon
  <2>2. PICK s \in After(vm, i, StatusOf(i)) : outcome = [vm |-> s, value |-> StatusOf(i)]
    <3>1. c.arg = i
      BY <2>0, <2>1, Zenon
    <3>2. \E s \in After(vm, c.arg, StatusOf(c.arg)) :
            outcome = [vm |-> s, value |-> StatusOf(c.arg)]
      BY <1>0, <2>0, StepOutcome
    <3> QED
      BY <3>1, <3>2, Zenon
  <2>3. /\ vm' \in After(vm, i, StatusOf(i)) /\ outcome.value = StatusOf(i)
        /\ StatusOf(i) \in {0, 1}
    BY <2>2, Statuses, Zenon
  <2>4. Even(address) /\ WordsAt(address, i) /\ Len(i) \in Nat
    BY <1>2, <2>1, Zenon DEF Before
  <2>5. Ahead(i, StatusOf(i))' /\ Shape'
    BY <2>3, <2>4, Executes, Zenon
  <2> QED
    BY <1>0, <1>2, <2>1, <2>3, <2>5, Zenon DEF Told
<1>3. CASE place \notin {"auto", "step"}
  <2>1. /\ place = "decode" => outcome = [vm |-> vm, value |-> Width(available[1])]
        /\ place = "peek_tpc" => outcome = [vm |-> vm, value |-> vm.tpc]
        /\ place = "peek" => outcome = [vm |-> vm, value |-> vm.pending]
        /\ place \in {"ping", "peek_fault"} => outcome = [vm |-> vm, value |-> 0]
    <3>1. /\ place = "decode" => c.name = "decode_length" /\ c.arg = available[1]
          /\ place = "peek_tpc" => c.name = "peek_tpc"
          /\ place = "peek" => c.name = "peek_terminal_pending"
          /\ place = "ping" => c.name = "ping"
          /\ place = "peek_fault" => c.name = "peek_fault"
      BY <1>n, CommandNames, Zenon
    <3>2. ASSUME place = "decode" PROVE outcome = [vm |-> vm, value |-> Width(available[1])]
      BY <1>0, <3>1, <3>2, QueryOutcome, Zenon
    <3>3. ASSUME place = "peek_tpc" PROVE outcome = [vm |-> vm, value |-> vm.tpc]
      BY <1>0, <3>1, <3>3, QueryOutcome, Zenon
    <3>4. ASSUME place = "peek" PROVE outcome = [vm |-> vm, value |-> vm.pending]
      BY <1>0, <3>1, <3>4, QueryOutcome, Zenon
    <3>5. ASSUME place \in {"ping", "peek_fault"} PROVE outcome = [vm |-> vm, value |-> 0]
      BY <1>0, <3>1, <3>5, QueryOutcome, Zenon
    <3> QED
      BY <3>2, <3>3, <3>4, <3>5, Zenon
  <2>2. outcome.vm = vm
    <3>1. \A v : [vm |-> vm, value |-> v].vm = vm
      BY Zenon
    <3> QED
      BY <1>3, <2>1, <3>1, Zenon DEF Requesting
  <2>3. Before' /\ Shape'
    BY <2>2, SameData, Zenon
  <2>4. place = "decode" => outcome.value \in Nat
    <3> SUFFICES ASSUME place = "decode" PROVE outcome.value \in Nat
      BY Zenon
    <3>1. available[1] \in Words
      BY Zenon DEF Before
    <3>2. outcome.value = Width(available[1])
      BY <2>1
    <3> QED
      BY <3>1, <3>2, ElfAssumption, Zenon
  <2>5. /\ place = "peek_tpc" => outcome.value = vm'.tpc
        /\ place = "peek" => outcome.value = vm'.pending
    <3>1. vm' = vm
      BY <2>2, Zenon
    <3>2. place = "peek_tpc" => outcome.value = vm.tpc
      BY <2>1
    <3>3. place = "peek" => outcome.value = vm.pending
      BY <2>1
    <3> QED
      BY <3>1, <3>2, <3>3, Zenon
  <2> QED
    BY <1>0, <1>3, <2>3, <2>4, <2>5, Zenon DEF Told
<1> QED
  BY <1>1, <1>2, <1>3, Zenon

-----------------------------------------------------------------------------
(* The steps of the protocol.                                              *)

\* While nothing is executed at a place, the answer of its request may as well be lost.
LEMMA MayBeLost ==
  ASSUME Before,
         place \in Requesting \cup {"started", "head", "fetch", "tpc", "fault", "stepped"}
  PROVE  Lost
<1>1. CASE place \in {"started", "head", "ping", "auto", "decode"}
  <2>1. Even(address) /\ current = Nothing
    BY <1>1, Zenon DEF Before
  <2>2. WordsAt(address, current.instruction)
    <3>1. Nothing.instruction = <<>>
      BY Zenon DEF Nothing
    <3> QED
      BY <2>1, <3>1 DEF WordsAt
  <2> QED
    BY <2>1, <2>2, Zenon DEF Lost, Even
<1>2. CASE place \in {"fetch", "step"}
  BY <1>2, Zenon DEF Lost, Even, Before
<1>3. CASE place \in {"tpc", "peek_tpc", "fault", "peek_fault", "stepped", "peek"}
  <2>1. Ahead(current.instruction, current.status)
    BY <1>3, Zenon DEF Before
  <2> QED
    BY <2>1, Zenon DEF Lost, Ahead
<1> QED
  BY <1>1, <1>2, <1>3, Zenon DEF Requesting

\* A request in progress belongs to the place of run.
LEMMA InProgress ==
  ASSUME Semantics, PlaceInv, call # NoCommand
  PROVE  /\ place \in Requesting /\ call = CommandHere /\ answer = NoAnswer
         /\ process # "none" /\ call # MemoryReply /\ call # Reset
         /\ \/ stdout \in {<<>>, <<MemoryRequest>>} /\ Before
            \/ /\ phase = "idle" /\ stdout # <<>>
               /\ stdout = <<Reply(AnsweredWith(call), stdout[1].value, call)>>
               /\ Told(stdout[1].value)
<1>1. place \in Requesting
  BY Zenon DEF PlaceInv, Calm, Working
<1>2. InFlight(CommandHere) /\ process # "none"
  BY <1>1, Zenon DEF PlaceInv
<1>3. call = CommandHere
  BY <1>2, Zenon DEF InFlight
<1>4. CommandHere # MemoryReply /\ CommandHere # Reset
  BY <1>1, CommandKind, Zenon
<1> QED
  BY <1>1, <1>2, <1>3, <1>4, Zenon DEF InFlight

\* A step of the protocol that leaves the ASL state alone: what has to be seen to.
LEMMA Frame ==
  ASSUME Inv, UNCHANGED <<run, vm>>, Wire', process' = "none" <=> process = "none",
         place \in Requesting => InFlight(CommandHere)',
         place \notin Requesting => UNCHANGED <<call, answer>>
  PROVE  Inv'
<1>1. place' = place /\ steps' = steps /\ current' = current
  BY Zenon DEF run
<1>2. /\ Before' <=> Before
      /\ Earned' <=> Earned
      /\ Shape'
  BY SameData, Zenon DEF Inv
<1>3. CASE place \in Requesting
  <2>1. PlaceInv'
    BY <1>1, <1>2, <1>3, Zenon DEF Inv, PlaceInv, Requesting, Working
  <2> QED
    BY <1>2, <2>1, Zenon DEF Inv
<1>4. CASE place \notin Requesting
  <2>1. call' = call /\ answer' = answer
    BY <1>4, Zenon
  <2>2. PlaceInv'
    BY <1>1, <1>2, <1>4, <2>1, Zenon DEF Inv, PlaceInv, Calm
  <2> QED
    BY <1>2, <2>2, Zenon DEF Inv
<1> QED
  BY <1>3, <1>4, Zenon

\* A step of the worker that answers nothing.
LEMMA Flight ==
  ASSUME Semantics, place \in Requesting, InFlight(CommandHere), UNCHANGED <<run, vm, call, answer>>,
         call # NoCommand =>
           \/ stdout \in {<<>>, <<MemoryRequest>>} /\ stdout' \in {<<>>, <<MemoryRequest>>}
           \/ stdout' = stdout /\ phase' = phase
  PROVE  InFlight(CommandHere)'
<1>1. /\ Before' <=> Before
      /\ Lost' <=> Lost
      /\ CommandHere' = CommandHere
      /\ \A v : Told(v)' <=> Told(v)
  BY SameData, Zenon
<1>2. call' = call /\ answer' = answer
  BY Zenon
<1>3. CASE call = NoCommand
  <2>1. CASE answer \in Failures /\ Lost
    BY <1>1, <1>2, <1>3, <2>1, Zenon DEF InFlight
  <2>2. CASE /\ answer # NoAnswer /\ Told(answer.value)
             /\ answer = Reply(AnsweredWith(CommandHere), answer.value, CommandHere)
    <3>1. Told(answer.value)'
      <4>1. PICK v : v = answer.value
        BY Zenon
      <4>2. Told(v)' /\ v = answer'.value
        BY <1>1, <1>2, <2>2, <4>1, Zenon
      <4> QED
        BY <4>2, Zenon
    <3> QED
      BY <1>1, <1>2, <1>3, <2>2, <3>1, Zenon DEF InFlight
  <2> QED
    BY <1>3, <2>1, <2>2, CommandKind, Zenon DEF InFlight
<1>4. CASE call # NoCommand
  <2>1. call = CommandHere /\ answer = NoAnswer
    BY <1>4, Zenon DEF InFlight
  <2>2. CASE stdout \in {<<>>, <<MemoryRequest>>} /\ Before /\ stdout' \in {<<>>, <<MemoryRequest>>}
    BY <1>1, <1>2, <2>1, <2>2, Zenon DEF InFlight
  <2>3. CASE /\ phase' = "idle" /\ stdout' = stdout /\ stdout # <<>> /\ Told(stdout[1].value)
             /\ stdout = <<Reply(AnsweredWith(CommandHere), stdout[1].value, CommandHere)>>
    <3>1. Told(stdout[1].value)'
      <4>1. PICK v : v = stdout[1].value
        BY Zenon
      <4>2. Told(v)' /\ v = stdout'[1].value
        BY <1>1, <2>3, <4>1, Zenon
      <4> QED
        BY <4>2, Zenon
    <3> QED
      BY <1>1, <1>2, <2>1, <2>3, <3>1, Zenon DEF InFlight
  <2>4. CASE stdout \in {<<>>, <<MemoryRequest>>} /\ Before
    BY <1>4, <2>2, <2>4, Zenon
  <2>5. CASE /\ phase = "idle" /\ stdout # <<>> /\ Told(stdout[1].value)
             /\ stdout = <<Reply(AnsweredWith(CommandHere), stdout[1].value, CommandHere)>>
    <3>1. PICK x : x = Reply(AnsweredWith(CommandHere), stdout[1].value, CommandHere)
      BY Zenon
    <3>2. x # MemoryRequest /\ stdout = <<x>>
      BY <2>5, <3>1, Answers, Zenon
    <3>3. stdout \notin {<<>>, <<MemoryRequest>>}
      BY <3>2, OneLine, Zenon
    <3>4. stdout' = stdout /\ phase' = phase
      BY <1>4, <3>3, Zenon
    <3> QED
      BY <2>3, <2>5, <3>4, Zenon
  <2> QED
    BY <1>4, <2>4, <2>5, Zenon DEF InFlight
<1> QED
  BY <1>3, <1>4, Zenon

\* The host's side of a request.
LEMMA HostStep ==
  ASSUME Semantics, Inv, HostProgress, UNCHANGED run
  PROVE  Inv'
<1>0. /\ call # NoCommand /\ UNCHANGED <<run, vm>> /\ phase' = phase /\ command' = command
  BY Zenon DEF HostProgress, HostReads, HostEof, HostTimesOut, worker
<1>1. /\ place \in Requesting /\ call = CommandHere /\ answer = NoAnswer
      /\ process # "none" /\ call # MemoryReply
  BY <1>0, InProgress, Zenon DEF Inv
<1>2. \/ stdout \in {<<>>, <<MemoryRequest>>} /\ Before
      \/ /\ phase = "idle" /\ stdout # <<>>
         /\ stdout = <<Reply(AnsweredWith(call), stdout[1].value, call)>>
         /\ Told(stdout[1].value)
  BY <1>0, InProgress, Zenon DEF Inv
<1>3. /\ Before' <=> Before
      /\ Lost' <=> Lost
      /\ CommandHere' = CommandHere
      /\ \A v : Told(v)' <=> Told(v)
  BY <1>0, SameData, Zenon
<1>4. process' # "none"
  BY <1>1, Zenon DEF HostProgress, HostReads, HostEof, HostTimesOut
<1>5. ASSUME Before, call' = NoCommand, answer' \in Failures PROVE InFlight(CommandHere)'
  BY <1>1, <1>3, <1>5, MayBeLost, Zenon DEF InFlight
<1>f. Failure("error") \in Failures /\ Failure("raised") \in Failures
      /\ Failure("timeout") \in Failures
  BY FailureNames, Zenon
<1>6. CASE HostReads /\ Head(stdout) # MemoryRequest
  <2>1. PICK v, x : v = stdout[1].value /\ x = Reply(AnsweredWith(call), v, call)
    BY Zenon
  <2>2. stdout = <<x>> /\ Told(v) /\ phase = "idle"
    BY <1>2, <1>6, <2>1, OneLine, Zenon DEF HostReads
  <2>3. /\ stdout' = <<>> /\ stdin' = stdin /\ call' = NoCommand /\ answer' = x
        /\ process' = process
    BY <1>6, <2>2, OneLine, Zenon DEF HostReads, EndRequest
  <2>4. x.value = v /\ x # MemoryRequest /\ x # NoAnswer
    BY <2>1, Answers, Zenon DEF Semantics
  <2>5. InFlight(CommandHere)'
    <3>1. Told(answer.value)'
      BY <1>3, <2>2, <2>3, <2>4, Zenon
    <3>2. answer' = Reply(AnsweredWith(CommandHere'), answer'.value, CommandHere')
      BY <1>1, <1>3, <2>1, <2>3, <2>4, Zenon
    <3> QED
      BY <2>3, <2>4, <3>1, <3>2, Zenon DEF InFlight
  <2>6. Wire'
    <3>1. stdout \notin {<<>>, <<MemoryRequest>>}
      BY <2>2, <2>4, OneLine, Zenon
    <3>2. process = "live" => stdin = <<>>
      BY <1>0, <2>2, <3>1, Zenon DEF Inv, Wire, Doomed
    <3> QED
      BY <1>0, <2>2, <2>3, <3>2, Zenon DEF Wire
  <2> QED
    BY <1>0, <1>1, <1>4, <2>5, <2>6, Frame, Zenon
<1>7. CASE HostReads /\ Head(stdout) = MemoryRequest
  <2>1. stdout = <<MemoryRequest>> /\ Before
    <3>1. PICK x : x = Reply(AnsweredWith(call), stdout[1].value, call)
      BY Zenon
    <3>2. x # MemoryRequest
      BY <3>1, Answers, Zenon
    <3> QED
      BY <1>2, <1>7, <3>1, <3>2, OneLine, Zenon DEF HostReads
  <2>2. stdout' = <<>> /\ process' = process
    BY <1>7, <2>1, OneLine, Zenon DEF HostReads
  <2>3. process = "live" =>
          \/ phase = "asking" /\ command = call /\ stdin = <<>>
          \/ phase = "asking" /\ stdin = <<call>>
    BY <1>0, <2>1, OneLine, Zenon DEF Inv, Wire, Doomed
  <2>4. CASE call' = NoCommand /\ answer' \in Failures /\ stdin' = stdin
    <3>1. Wire'
      <4>1. CASE stdin = <<>>
        BY <1>0, <2>2, <2>3, <2>4, <4>1, OneLine, Zenon DEF Wire
      <4>2. CASE stdin = <<call>>
        <5>1. PICK c : c = call
          BY Zenon
        <5>2. stdin' = <<c>> /\ stdin' # <<>> /\ stdin'[1] = c /\ c # MemoryReply
          BY <1>1, <2>4, <4>2, <5>1, OneLine, Zenon
        <5>3. process' = "live" => phase' = "asking"
          BY <1>0, <2>2, <2>3, Zenon
        <5> QED
          BY <2>2, <2>4, <5>2, <5>3, Zenon DEF Wire, Doomed
      <4> QED
        BY <2>2, <2>3, <4>1, <4>2, Zenon DEF Wire
    <3> QED
      BY <1>0, <1>1, <1>4, <1>5, <2>1, <2>4, <3>1, Frame, Zenon
  <2>5. CASE stdin' = Append(stdin, MemoryReply) /\ UNCHANGED <<call, answer>>
    <3>1. Wire'
      <4>1. CASE stdin = <<>>
        <5>1. stdin' = <<MemoryReply>>
          BY <2>5, <4>1, OneLine, Zenon
        <5> QED
          BY <1>0, <2>2, <2>3, <2>5, <4>1, <5>1, OneLine, Zenon DEF Wire
      <4>2. CASE stdin = <<call>>
        <5>1. stdin' = <<call, MemoryReply>> /\ call' = call
          BY <2>5, <4>2, OneLine, Zenon
        <5>2. process' = "live" => phase' = "asking"
          BY <1>0, <2>2, <2>3, Zenon
        <5> QED
          BY <1>0, <1>1, <2>2, <5>1, <5>2, Zenon DEF Wire, Doomed
      <4> QED
        BY <2>2, <2>3, <4>1, <4>2, Zenon DEF Wire
    <3>2. InFlight(CommandHere)'
      BY <1>1, <1>3, <2>1, <2>2, <2>5, Zenon DEF InFlight
    <3> QED
      BY <1>0, <1>1, <1>4, <3>1, <3>2, Frame, Zenon
  <2> QED
    BY <1>f, <1>7, <2>4, <2>5, Zenon DEF HostReads, EndRequest
<1>8. CASE HostEof \/ HostTimesOut
  <2>1. /\ stdout = <<>> /\ process' = "dead" /\ call' = NoCommand /\ answer' \in Failures
    BY <1>f, <1>8, Zenon DEF HostEof, HostTimesOut, EndRequest
  <2>2. Before /\ Wire'
    BY <1>2, <2>1, Zenon DEF Wire
  <2> QED
    BY <1>0, <1>1, <1>4, <1>5, <2>1, <2>2, Frame, Zenon
<1> QED
  BY <1>6, <1>7, <1>8, Zenon DEF HostProgress, HostReads

\* The worker's side.
LEMMA WorkerStep ==
  ASSUME Semantics, Inv, WorkerProgress \/ Die, UNCHANGED run
  PROVE  Inv'
<1>0. process = "live" /\ UNCHANGED <<call, answer>> /\ process' # "none"
  BY Zenon DEF WorkerProgress, Boot, ReadCommand, AskMemory, ReadMemoryReply, FinishCommand, Die
<1>1. Wire /\ PlaceInv /\ Shape
  BY Zenon DEF Inv
<1>2. ASSUME UNCHANGED vm, Wire',
             call # NoCommand =>
               \/ stdout \in {<<>>, <<MemoryRequest>>} /\ stdout' \in {<<>>, <<MemoryRequest>>}
               \/ stdout' = stdout /\ phase' = phase
      PROVE  Inv'
  <2>1. place \in Requesting => InFlight(CommandHere)
    BY <1>1, Zenon DEF PlaceInv
  <2>2. UNCHANGED <<run, vm, call, answer>>
    BY <1>0, <1>2, Zenon
  <2>3. place \in Requesting => InFlight(CommandHere)'
    BY <1>2, <2>1, <2>2, Flight, Zenon
  <2> QED
    BY <1>0, <1>2, <2>2, <2>3, Frame, Zenon
<1>3. CASE Boot
  <2>1. /\ stdout = <<>>
        /\ \/ call # NoCommand /\ stdin = <<call>>
           \/ call = NoCommand /\ stdin = <<>>
    BY <1>0, <1>1, <1>3, Zenon DEF Boot, Wire, Doomed
  <2>2. /\ process' = process /\ stdin' = stdin /\ vm' = vm /\ call' = call
        /\ \/ phase' = "asking" /\ stdout' = <<MemoryRequest>>
           \/ phase' = "idle" /\ stdout' = <<>>
    BY <1>0, <1>3, <2>1, OneLine, Zenon DEF Boot, Emit
  <2>3. call # NoCommand => call # MemoryReply
    BY <1>1, InProgress, Zenon
  <2>4. Wire'
    BY <2>1, <2>2, <2>3, Zenon DEF Wire, Doomed
  <2> QED
    BY <1>2, <2>1, <2>2, <2>4, Zenon
<1>4. CASE ReadCommand
  <2>1. call # NoCommand /\ stdin = <<call>> /\ stdout = <<>>
    BY <1>0, <1>1, <1>4, Zenon DEF ReadCommand, Wire, Doomed
  <2>2. /\ stdin' = <<>> /\ command' = call /\ phase' = "busy" /\ stdout' = stdout
        /\ vm' = vm /\ call' = call
    BY <1>4, <2>1, OneLine, Zenon DEF ReadCommand
  <2>3. Wire'
    BY <2>1, <2>2, Zenon DEF Wire
  <2> QED
    BY <1>2, <2>1, <2>2, <2>3, Zenon
<1>5. CASE AskMemory
  <2>1. call # NoCommand /\ command = call /\ stdin = <<>> /\ stdout = <<>>
    BY <1>0, <1>1, <1>5, Zenon DEF AskMemory, Wire, Doomed
  <2>2. /\ phase' = "asking" /\ stdout' = <<MemoryRequest>> /\ stdin' = stdin
        /\ command' = command /\ vm' = vm /\ call' = call
    BY <1>5, <2>1, OneLine, Zenon DEF AskMemory, Emit
  <2>3. Wire'
    BY <2>1, <2>2, Zenon DEF Wire
  <2> QED
    BY <1>2, <2>1, <2>2, <2>3, Zenon
<1>6. CASE ReadMemoryReply
  <2>1. stdout' = stdout /\ vm' = vm /\ stdin' = Tail(stdin) /\ command' = command /\ call' = call
    BY <1>6, Zenon DEF ReadMemoryReply
  <2>2. CASE Head(stdin) = MemoryReply
    <3>1. call # NoCommand /\ command = call /\ stdin = <<MemoryReply>> /\ stdout = <<>>
      <4>1. \A c : ~Doomed(c)
        BY <2>2, OneLine, Zenon DEF Doomed
      <4> QED
        BY <1>0, <1>1, <1>6, <4>1, Zenon DEF ReadMemoryReply, Wire
    <3>2. phase' = "busy" /\ stdin' = <<>>
      BY <1>6, <2>1, <2>2, <3>1, OneLine, Zenon DEF ReadMemoryReply
    <3>3. Wire'
      BY <2>1, <3>1, <3>2, Zenon DEF Wire
    <3> QED
      BY <1>2, <2>1, <3>1, <3>3, Zenon
  <2>3. CASE Head(stdin) # MemoryReply
    <3>1. process' = "dead" /\ phase' = phase
      BY <1>6, <2>3, Zenon DEF ReadMemoryReply
    <3> QED
      BY <1>2, <2>1, <3>1, Zenon DEF Wire
  <2> QED
    BY <2>2, <2>3, Zenon
<1>7. CASE FinishCommand
  <2>1. call # NoCommand /\ command = call /\ stdin = <<>> /\ stdout = <<>>
    BY <1>0, <1>1, <1>7, Zenon DEF FinishCommand, Wire, Doomed
  <2>2. /\ place \in Requesting /\ call = CommandHere /\ answer = NoAnswer
    BY <1>1, <2>1, InProgress, Zenon
  <2>3. Before
    BY <1>1, <2>1, InProgress, Zenon
  <2>4. PICK outcome \in Execute(CommandHere) :
          /\ vm' = outcome.vm
          /\ stdout' = Append(stdout, Reply(AnsweredWith(CommandHere), outcome.value, CommandHere))
    BY <1>7, <2>1, <2>2, Zenon DEF FinishCommand, Emit
  <2>5. Told(outcome.value)' /\ Shape'
    BY <1>1, <2>2, <2>3, <2>4, Finishes, Zenon
  <2>6. place' = place /\ CommandHere' = CommandHere /\ phase' = "idle" /\ stdin' = stdin
    <3>1. UNCHANGED <<options, place, offset, current>>
      BY Zenon DEF run
    <3>2. available' = available
      BY <3>1, Zenon DEF available
    <3> QED
      BY <1>7, <3>1, <3>2, Zenon DEF CommandHere, FinishCommand
  <2>7. PICK x : x = Reply(AnsweredWith(CommandHere), outcome.value, CommandHere)
    BY Zenon
  <2>8. stdout' = <<x>> /\ x.value = outcome.value /\ x # MemoryRequest
    BY <2>1, <2>4, <2>7, Answers, OneLine, Zenon
  <2>9. stdout' # <<>> /\ stdout' # <<MemoryRequest>> /\ stdout'[1] = x
    BY <2>8, OneLine, Zenon
  <2>10. InFlight(CommandHere)'
    <3>1. stdout' = <<Reply(AnsweredWith(CommandHere'), stdout'[1].value, CommandHere')>>
      BY <2>6, <2>7, <2>8, <2>9, Zenon
    <3>2. Told(stdout[1].value)'
      BY <2>5, <2>8, <2>9, Zenon
    <3> QED
      BY <1>0, <2>2, <2>6, <2>9, <3>1, <3>2, Zenon DEF InFlight
  <2>11. Wire'
    BY <1>0, <2>1, <2>6, <2>9, Zenon DEF Wire
  <2>12. PlaceInv'
    BY <1>0, <2>2, <2>6, <2>10, Zenon DEF PlaceInv, Requesting, Working
  <2> QED
    BY <2>5, <2>11, <2>12, Zenon DEF Inv
<1>8. CASE Die
  BY <1>2, <1>8, Zenon DEF Die, pipes, worker, Wire
<1> QED
  BY <1>3, <1>4, <1>5, <1>6, <1>7, <1>8, Zenon DEF WorkerProgress

-----------------------------------------------------------------------------
(* The steps of run.                                                       *)

\* What is known of the ASL state at a place, kept while only the place changes.
LEMMA SameVm ==
  ASSUME UNCHANGED <<options, offset, current, steps, vm>>
  PROVE  /\ address' = address /\ available' = available
         /\ Even(address)' <=> Even(address)
         /\ Ahead(current.instruction, current.status)'
              <=> Ahead(current.instruction, current.status)
         /\ WordsAt(address, current.instruction)' <=> WordsAt(address, current.instruction)
         /\ Lost' <=> Lost
         /\ Shape' <=> Shape
<1>1. address' = address /\ available' = available
  BY Zenon DEF address, available
<1>2. \A m : Matches(m)' <=> Matches(m)
  BY Zenon DEF Matches
<1>3. AllPassed' <=> AllPassed
  BY Zenon DEF AllPassed
<1>4. Even(address)' <=> Even(address)
  BY <1>1, <1>2, <1>3, Zenon DEF Even
<1>5. Ahead(current.instruction, current.status)' <=> Ahead(current.instruction, current.status)
  BY <1>1, <1>2, <1>3, Zenon DEF Ahead
<1>6. WordsAt(address, current.instruction)' <=> WordsAt(address, current.instruction)
  BY <1>1, Zenon DEF WordsAt
<1>7. Lost' <=> Lost
  BY <1>1, <1>2, <1>6, Zenon DEF Lost
<1>8. Shape' <=> Shape
  BY Zenon DEF Shape
<1> QED
  BY <1>1, <1>4, <1>5, <1>6, <1>7, <1>8, Zenon

\* A request is sent: the worker is there, so it is never started again.
LEMMA Sends ==
  ASSUME Semantics, Inv, NEW c, Request(c), c = CommandHere', c # MemoryReply, c # NoCommand,
         place \in {"started", "head", "fetch", "tpc", "fault", "stepped"},
         place' \in Requesting, UNCHANGED <<options, offset, current, steps, termination>>,
         vm' = vm => Before'
  PROVE  Inv'
<1>0. /\ call = NoCommand /\ answer = NoAnswer /\ process # "none" /\ Before
      /\ NoAnswer \notin Failures
  <2>1. call = NoCommand /\ answer = NoAnswer
    BY Zenon DEF Request
  <2>2. NoAnswer \notin Failures
    BY FailureNames, Zenon
  <2> QED
    BY <2>1, <2>2, Zenon DEF Inv, PlaceInv, Working
<1>2. vm' = vm /\ process' # "none" /\ phase' = phase
  BY <1>0, Zenon DEF Request, RequestRestart, RequestRestartRaises, RequestDead, RequestLive,
                     worker
<1>3. Before' /\ Lost' /\ Shape'
  BY <1>0, <1>2, SameVm, MayBeLost, Zenon DEF Inv
<1>4. CASE RequestDead(c)
  <2>1. call' = NoCommand /\ answer' \in Failures /\ process' = "dead"
    BY <1>0, <1>4, FailureNames, Zenon DEF RequestDead
  <2>2. InFlight(CommandHere)'
    BY <1>3, <2>1, Zenon DEF InFlight
  <2>3. PlaceInv' /\ Wire'
    BY <1>2, <2>1, <2>2, Zenon DEF PlaceInv, Requesting, Working, Wire
  <2> QED
    BY <1>3, <2>3, Zenon DEF Inv
<1>5. CASE RequestLive(c)
  <2>1. /\ process = "live" /\ call' = c /\ answer' = NoAnswer /\ stdin' = Append(stdin, c)
        /\ stdout' = stdout
    BY <1>0, <1>5, Zenon DEF RequestLive
  <2>2. /\ stdin = <<>>
        /\ \/ phase \in {"boot", "idle"} /\ stdout = <<>>
           \/ phase = "asking" /\ stdout \in {<<>>, <<MemoryRequest>>}
    BY <1>0, <2>1, Zenon DEF Inv, Wire
  <2>3. stdin' = <<c>>
    BY <2>1, <2>2, OneLine, Zenon
  <2>4. Wire'
    BY <1>2, <2>1, <2>2, <2>3, Zenon DEF Wire, Doomed
  <2>5. InFlight(CommandHere)'
    BY <1>3, <2>1, <2>2, Zenon DEF InFlight
  <2>6. PlaceInv'
    BY <1>2, <2>5, Zenon DEF PlaceInv, Requesting, Working
  <2> QED
    BY <1>3, <2>4, <2>6, Zenon DEF Inv
<1> QED
  BY <1>0, <1>4, <1>5, Zenon DEF Request, RequestRestart, RequestRestartRaises

\* The answer of a request is taken.
LEMMA Takes ==
  ASSUME Semantics, Inv, place \in Requesting, ~Failed, Consume
  PROVE  /\ Told(answer.value) /\ Calm' /\ Wire' /\ vm' = vm /\ process' # "none"
<1>1. answer # NoAnswer /\ answer \notin Failures /\ answer' = NoAnswer
  BY FailureNames, Zenon DEF Failed, Consume, Answered
<1>2. InFlight(CommandHere) /\ process # "none" /\ Wire
  BY Zenon DEF Inv, PlaceInv
<1>3. call = NoCommand /\ Told(answer.value)
  BY <1>1, <1>2, Zenon DEF InFlight
<1>4. UNCHANGED <<process, stdin, stdout, phase, command, vm, call>>
  BY Zenon DEF Consume, pipes, worker
<1>5. Wire'
  <2>1. place \notin {"finally", "done", "raising", "raised"}
    BY Zenon DEF Requesting
  <2> QED
    BY <1>1, <1>2, <1>3, <1>4, <2>1, Zenon DEF Wire
<1> QED
  BY <1>1, <1>2, <1>3, <1>4, <1>5, Zenon DEF Calm

\* A request that failed.
LEMMA Fails ==
  ASSUME Semantics, Inv, place \in Requesting \cup {"started"}, Failed, Consume,
         place' \in {"finally", "raising"}
  PROVE  /\ Calm' /\ Wire' /\ vm' = vm /\ (place \in Requesting => Lost)
<1>1. answer # NoAnswer /\ answer.name \in {"error", "timeout", "raised"} /\ answer' = NoAnswer
  BY Zenon DEF Failed, Consume, Answered
<1>2. call = NoCommand /\ (place \in Requesting => Lost)
  <2>1. CASE place = "started"
    BY <2>1, Zenon DEF Inv, PlaceInv, Requesting
  <2>2. CASE place \in Requesting
    <3>1. InFlight(CommandHere)
      BY <2>2, Zenon DEF Inv, PlaceInv
    <3>2. answer # Reply(AnsweredWith(CommandHere), answer.value, CommandHere)
      <4>1. PICK x : x = Reply(AnsweredWith(CommandHere), answer.value, CommandHere)
        BY Zenon
      <4>2. x.name \notin {"error", "timeout", "raised"}
        BY <4>1, Answers, Zenon
      <4> QED
        BY <1>1, <4>1, <4>2, Zenon
    <3> QED
      BY <1>1, <3>1, <3>2, Zenon DEF InFlight
  <2> QED
    BY <2>1, <2>2, Zenon
<1>3. UNCHANGED <<process, stdin, stdout, phase, command, vm, call>>
  BY Zenon DEF Consume, pipes, worker
<1>4. Wire'
  <2>1. stdin' # <<>> /\ Doomed(stdin[1]) => Doomed(stdin[1])'
    BY <1>3, Zenon DEF Doomed
  <2> QED
    BY <1>2, <1>3, <2>1, Zenon DEF Inv, Wire
<1> QED
  BY <1>1, <1>2, <1>3, <1>4, Zenon DEF Calm

\* A step of run without a request.
LEMMA Inside ==
  ASSUME Semantics, Inv, place \in Working, UNCHANGED protocol
  PROVE  /\ Before /\ Shape /\ Calm' /\ Wire' /\ vm' = vm /\ process' # "none"
<1>1. call = NoCommand /\ answer = NoAnswer /\ process # "none" /\ Before /\ Shape /\ Wire
  BY Zenon DEF Inv, PlaceInv, Calm
<1>2. UNCHANGED <<process, stdin, stdout, phase, command, vm, call, answer>>
  BY Zenon DEF protocol, pipes, worker
<1>3. answer \notin Failures /\ place \notin {"finally", "done", "raising", "raised"}
  BY <1>1, FailureNames, Zenon DEF Working
<1>4. Wire'
  BY <1>1, <1>2, <1>3, Zenon DEF Wire
<1> QED
  BY <1>1, <1>2, <1>4, Zenon DEF Calm

\* The lines a client sends.
LEMMA Lines ==
  ASSUME Semantics, NEW name, NEW arg, name # "mem_reply"
  PROVE  Line(name, arg) # NoCommand /\ Line(name, arg) # MemoryReply
<1>1. Line(name, arg).name = name /\ MemoryReply.name = "mem_reply"
  BY Zenon DEF Line, MemoryReply
<1> QED
  BY <1>1, Zenon DEF Semantics

\* Every request of the loop.
LEMMA SendingStep ==
  ASSUME Semantics, Inv,
         SendPing \/ SendAuto \/ SendDecode \/ SendStep \/ SendPeekTpc \/ SendPeekFault
           \/ SendPeekTerminal
  PROVE  Inv'
<1>1. CASE SendPing
  <2>1. /\ place = "started" /\ place' = "ping" /\ Request(Ping)
        /\ UNCHANGED <<options, offset, current, steps, termination>>
    BY <1>1, Zenon DEF SendPing, Send
  <2>2. CommandHere' = Ping /\ Ping # MemoryReply /\ Ping # NoCommand
    BY <2>1, Lines, Zenon DEF CommandHere, Ping
  <2>3. ASSUME vm' = vm PROVE Before'
    <3>1. Even(address) /\ current = Nothing
      <4>1. Before
        BY <2>1, FailureNames, Zenon DEF Inv, PlaceInv, Request
      <4> QED
        BY <2>1, <4>1, Zenon DEF Before
    <3> QED
      BY <2>1, <2>3, <3>1, SameVm, Zenon DEF Before
  <2> QED
    BY <2>1, <2>2, <2>3, Sends, Zenon DEF Requesting
<1>2. CASE SendAuto
  <2>1. /\ place = "head" /\ place' = "auto" /\ Request(Query("step_auto"))
        /\ UNCHANGED <<options, offset, current, steps, termination>>
    BY <1>2, Zenon DEF SendAuto, Send
  <2>2. /\ CommandHere' = Query("step_auto") /\ Query("step_auto") # MemoryReply
        /\ Query("step_auto") # NoCommand
    BY <2>1, Lines, Zenon DEF CommandHere, Query
  <2>3. ASSUME vm' = vm PROVE Before'
    <3>1. Even(address) /\ current = Nothing
      BY <2>1, Zenon DEF Inv, PlaceInv, Working, Before
    <3> QED
      BY <2>1, <2>3, <3>1, SameVm, Zenon DEF Before
  <2> QED
    BY <2>1, <2>2, <2>3, Sends, Zenon DEF Requesting
<1>3. CASE SendDecode
  <2>1. /\ place = "head" /\ place' = "decode" /\ Request(Line("decode_length", available[1]))
        /\ UNCHANGED <<options, offset, current, steps, termination>> /\ available # <<>>
    BY <1>3, Zenon DEF SendDecode, Send
  <2>2. PICK c : c = Line("decode_length", available[1])
    BY Zenon
  <2>3. available' = available
    BY <2>1, Zenon DEF available
  <2>4. CommandHere' = c /\ c # MemoryReply /\ c # NoCommand
    BY <2>1, <2>2, <2>3, Lines, Zenon DEF CommandHere
  <2>5. available[1] \in Words
    <3>1. offset \in Int
      BY Zenon DEF Inv, Shape
    <3>2. available \in Seq(Words)
      BY <3>1, SliceWords, Zenon DEF available
    <3> QED
      BY <2>1, <3>2
  <2>6. ASSUME vm' = vm PROVE Before'
    <3>1. Even(address) /\ current = Nothing
      BY <2>1, Zenon DEF Inv, PlaceInv, Working, Before
    <3> QED
      BY <2>1, <2>3, <2>5, <2>6, <3>1, SameVm, Zenon DEF Before
  <2> QED
    BY <2>1, <2>2, <2>4, <2>6, Sends, Zenon DEF Requesting
<1>4. CASE SendStep
  <2>1. /\ place = "fetch" /\ place' = "step" /\ Request(Step(current.instruction))
        /\ UNCHANGED <<options, offset, current, steps, termination>>
    BY <1>4, Zenon DEF SendStep, Send
  <2>2. PICK c : c = Step(current.instruction)
    BY Zenon
  <2>3. CommandHere' = c /\ c # MemoryReply /\ c # NoCommand
    BY <2>1, <2>2, Lines, Zenon DEF CommandHere, Step
  <2>4. ASSUME vm' = vm PROVE Before'
    <3>1. /\ Even(address) /\ WordsAt(address, current.instruction)
          /\ Len(current.instruction) \in Nat
      BY <2>1, Zenon DEF Inv, PlaceInv, Working, Before
    <3> QED
      BY <2>1, <2>4, <3>1, SameVm, Zenon DEF Before
  <2> QED
    BY <2>1, <2>2, <2>3, <2>4, Sends, Zenon DEF Requesting
<1>5. CASE SendPeekTpc \/ SendPeekFault \/ SendPeekTerminal
  <2>1. PICK name \in {"peek_tpc", "peek_fault", "peek_terminal_pending"} :
          /\ Request(Query(name))
          /\ UNCHANGED <<options, offset, current, steps, termination>>
          /\ \/ place = "tpc" /\ place' = "peek_tpc" /\ name = "peek_tpc"
             \/ place = "fault" /\ place' = "peek_fault" /\ name = "peek_fault"
             \/ /\ place = "stepped" /\ place' = "peek" /\ name = "peek_terminal_pending"
                /\ current.status = 0
    BY <1>5, Zenon DEF SendPeekTpc, SendPeekFault, SendPeekTerminal, MayBeTerminal, Send
  <2>2. CommandHere' = Query(name) /\ Query(name) # MemoryReply /\ Query(name) # NoCommand
    BY <2>1, Lines, Zenon DEF CommandHere, Query
  <2>3. ASSUME vm' = vm PROVE Before'
    <3>1. Before
      BY <2>1, Zenon DEF Inv, PlaceInv, Working
    <3>2. Ahead(current.instruction, current.status)'
      BY <2>1, <2>3, <3>1, SameVm, Zenon DEF Before
    <3>3. /\ place = "tpc" => current.status = 0
          /\ place = "fault" => current.status = 1
          /\ place = "stepped" /\ current.status = 0 => current.next = vm.tpc
      BY <3>1, Zenon DEF Before
    <3> QED
      BY <2>1, <2>3, <3>2, <3>3, Zenon DEF Before
  <2> QED
    BY <2>1, <2>2, <2>3, Sends, Zenon DEF Requesting
<1> QED
  BY <1>1, <1>2, <1>3, <1>4, <1>5, Zenon

\* While the steps and the ASL state stay, so does what is known of them.
LEMMA SameSteps ==
  ASSUME UNCHANGED <<options, offset, steps, vm>>, NEW i, NEW code
  PROVE  /\ address' = address
         /\ Even(address)' <=> Even(address)
         /\ Ahead(i, code)' <=> Ahead(i, code)
         /\ WordsAt(address, i)' <=> WordsAt(address, i)
<1>1. address' = address
  BY Zenon DEF address
<1>2. \A m : Matches(m)' <=> Matches(m)
  BY Zenon DEF Matches
<1>3. AllPassed' <=> AllPassed
  BY Zenon DEF AllPassed
<1>4. Even(address)' <=> Even(address)
  BY <1>1, <1>2, <1>3, Zenon DEF Even
<1>5. Ahead(i, code)' <=> Ahead(i, code)
  BY <1>1, <1>2, <1>3, Zenon DEF Ahead
<1>6. WordsAt(address, i)' <=> WordsAt(address, i)
  BY <1>1, Zenon DEF WordsAt
<1> QED
  BY <1>1, <1>4, <1>5, <1>6, Zenon

\* The instruction of this iteration, by its value.
LEMMA NamedNext ==
  ASSUME NEW i, NEW code, current'.instruction = i, current'.status = code
  PROVE  /\ Ahead(i, code)' => Ahead(current.instruction, current.status)'
         /\ WordsAt(address, i)' => WordsAt(address, current.instruction)'
<1>1. Ahead(i, code)' => Ahead(current.instruction, current.status)'
  BY Zenon DEF Ahead
<1>2. WordsAt(address, i)' => WordsAt(address, current.instruction)'
  BY Zenon DEF WordsAt
<1> QED
  BY <1>1, <1>2, Zenon

\* The shapes, when only the instruction of the iteration changes.
LEMMA SameShape ==
  ASSUME Shape, UNCHANGED <<options, offset, steps, vm>>,
         NEW i, NEW code, NEW n, current' = [instruction |-> i, status |-> code, next |-> n]
  PROVE  Shape' /\ current'.instruction = i /\ current'.status = code /\ current'.next = n
<1>1. /\ current'.instruction = i /\ current'.status = code /\ current'.next = n
      /\ current' = [instruction |-> current'.instruction, status |-> current'.status,
                     next |-> current'.next]
  BY Zenon
<1>2. \A j : WordsAt(steps[j].address, steps[j].instruction)'
               <=> WordsAt(steps[j].address, steps[j].instruction)
  BY Zenon DEF WordsAt
<1> QED
  BY <1>1, <1>2, Zenon DEF Shape

\* The run goes on.
LEMMA GoesOn ==
  ASSUME place' \in Working, Calm', Wire', process' # "none", Before', Shape'
  PROVE  Inv'
BY Zenon DEF Inv, PlaceInv, Working, Requesting

\* The run has a result.
LEMMA HasResult ==
  ASSUME place' \in {"finally", "done"}, Calm', Wire', Earned', Shape'
  PROVE  Inv'
BY Zenon DEF Inv, PlaceInv, Working, Requesting

\* Every answer the loop goes on with, but the terminal flag.
LEMMA TakeStep ==
  ASSUME Semantics, Inv,
         Pinged \/ AutoStepped \/ Decoded \/ Stepped \/ PeekedTpc \/ PeekedFault
  PROVE  Inv'
<1>1. CASE Pinged
  <2>1. /\ place = "ping" /\ place' = "head" /\ ~Failed /\ Consume
        /\ UNCHANGED <<options, offset, current, steps, termination>>
    BY <1>1, Zenon DEF Pinged, Take
  <2>2. Told(answer.value) /\ Calm' /\ Wire' /\ vm' = vm /\ process' # "none"
    BY <2>1, Takes, Zenon DEF Requesting
  <2>3. Even(address) /\ current = Nothing
    BY <2>1, <2>2, Zenon DEF Told, Before
  <2>4. Before' /\ Shape'
    BY <2>1, <2>2, <2>3, SameVm, Zenon DEF Before, Inv
  <2> QED
    BY <2>1, <2>2, <2>4, GoesOn, Zenon DEF Working
<1>2. CASE AutoStepped
  <2>0. PICK v : v = answer.value
    BY Zenon
  <2>1. /\ place = "auto" /\ ~Failed /\ Consume
        /\ place' = "stepped" /\ current' = v /\ UNCHANGED <<options, offset, steps, termination>>
    BY <1>2, <2>0, Zenon DEF AutoStepped, Take
  <2>2. Told(v) /\ Calm' /\ Wire' /\ vm' = vm /\ process' # "none"
    BY <2>0, <2>1, Takes, Zenon DEF Requesting
  <2>3. /\ v = [instruction |-> v.instruction, status |-> v.status, next |-> v.next]
        /\ Ahead(v.instruction, v.status) /\ v.next = vm.tpc
    BY <2>1, <2>2, Zenon DEF Told
  <2>4. PICK i, code, n : i = v.instruction /\ code = v.status /\ n = v.next
    BY Zenon
  <2>5. current' = [instruction |-> i, status |-> code, next |-> n]
    BY <2>1, <2>3, <2>4, Zenon
  <2>6. Shape' /\ current'.instruction = i /\ current'.status = code /\ current'.next = n
    BY <2>1, <2>2, <2>5, SameShape, Zenon DEF Inv
  <2>7. Ahead(i, code) /\ n = vm.tpc
    BY <2>3, <2>4, Zenon
  <2>8. Ahead(i, code)'
    BY <2>1, <2>2, <2>7, SameSteps, Zenon
  <2>9. Ahead(current.instruction, current.status)'
    BY <2>6, <2>8, NamedNext, Zenon
  <2>10. Before'
    BY <2>1, <2>2, <2>6, <2>7, <2>9, Zenon DEF Before
  <2> QED
    BY <2>1, <2>2, <2>6, <2>10, GoesOn, Zenon DEF Working
<1>3. CASE Decoded
  <2>0. PICK v : v = answer.value
    BY Zenon
  <2>1. /\ place = "decode" /\ ~Failed /\ Consume
        /\ place' = "fetch"
        /\ current' = [Nothing EXCEPT !.instruction = Slice(offset, v), !.next = v]
        /\ UNCHANGED <<options, offset, steps, termination>>
    BY <1>3, <2>0, Zenon DEF Decoded, Take
  <2>2. Told(v) /\ Calm' /\ Wire' /\ vm' = vm /\ process' # "none"
    BY <2>0, <2>1, Takes, Zenon DEF Requesting
  <2>3. v \in Nat /\ Even(address)
    BY <2>1, <2>2, Zenon DEF Told, Before
  <2>4. PICK i : i = Slice(offset, v)
    BY Zenon
  <2>5. current' = [instruction |-> i, status |-> 0, next |-> v]
    BY <2>1, <2>4, Zenon DEF Nothing
  <2>6. Shape' /\ current'.instruction = i /\ current'.status = 0 /\ current'.next = v
    BY <2>1, <2>2, <2>5, SameShape, Zenon DEF Inv
  <2>7. Even(address)' /\ place' = "fetch"
    BY <2>1, <2>2, <2>3, SameSteps, Zenon
  <2>8. WordsAt(address, i) /\ Len(i) \in Nat
    <3>1. options.start \in Int /\ offset \in Int
      BY Zenon DEF Inv, Shape
    <3>2. address = Base + offset
      BY <3>1, Address, Zenon
    <3>3. WordsAt(Base + offset, Slice(offset, v)) /\ Len(Slice(offset, v)) \in Nat
      BY <2>3, <3>1, SliceWords, Zenon
    <3> QED
      BY <2>4, <3>2, <3>3, Zenon
  <2>9. WordsAt(address, current.instruction)' /\ Len(current'.instruction) \in Nat
    BY <2>1, <2>2, <2>6, <2>8, SameSteps, NamedNext, Zenon
  <2>10. Before'
    BY <2>7, <2>9, Zenon DEF Before
  <2> QED
    BY <2>2, <2>6, <2>7, <2>10, GoesOn, Zenon DEF Working
<1>4. CASE Stepped
  <2>0. PICK v, i, n : v = answer.value /\ i = current.instruction /\ n = current.next
    BY Zenon
  <2>1. /\ place = "step" /\ ~Failed /\ Consume
        /\ place' = IF v = 0 THEN "tpc" ELSE "fault"
        /\ current' = [current EXCEPT !.status = v]
        /\ UNCHANGED <<options, offset, steps, termination>>
    BY <1>4, <2>0, Zenon DEF Stepped, Take
  <2>2. Told(v) /\ Calm' /\ Wire' /\ vm' = vm /\ process' # "none"
    BY <2>0, <2>1, Takes, Zenon DEF Requesting
  <2>3. Ahead(i, v) /\ v \in {0, 1}
    <3>1. Ahead(i, v)
      BY <2>0, <2>1, <2>2, Zenon DEF Told
    <3> QED
      BY <3>1, Zenon DEF Ahead
  <2>5. current' = [instruction |-> i, status |-> v, next |-> n]
    <3>1. current = [instruction |-> i, status |-> current.status, next |-> n]
      BY <2>0, Zenon DEF Inv, Shape
    <3> QED
      BY <2>1, <3>1
  <2>6. Shape' /\ current'.instruction = i /\ current'.status = v /\ current'.next = n
    BY <2>1, <2>2, <2>5, SameShape, Zenon DEF Inv
  <2>7. Ahead(current.instruction, current.status)'
    BY <2>1, <2>2, <2>3, <2>6, SameSteps, NamedNext, Zenon
  <2>8. (place' = "tpc" /\ current'.status = 0) \/ (place' = "fault" /\ current'.status = 1)
    BY <2>1, <2>3, <2>6, Zenon
  <2>9. Before'
    BY <2>7, <2>8, Zenon DEF Before
  <2> QED
    BY <2>2, <2>6, <2>8, <2>9, GoesOn, Zenon DEF Working
<1>5. CASE PeekedTpc
  <2>0. PICK v, i, code : v = answer.value /\ i = current.instruction /\ code = current.status
    BY Zenon
  <2>1. /\ place = "peek_tpc" /\ ~Failed /\ Consume /\ place' = "stepped"
        /\ current' = [current EXCEPT !.next = v]
        /\ UNCHANGED <<options, offset, steps, termination>>
    BY <1>5, <2>0, Zenon DEF PeekedTpc, Take
  <2>2. Told(v) /\ Calm' /\ Wire' /\ vm' = vm /\ process' # "none"
    BY <2>0, <2>1, Takes, Zenon DEF Requesting
  <2>3. v = vm.tpc /\ Ahead(i, code)
    BY <2>0, <2>1, <2>2, Zenon DEF Told, Before
  <2>5. current' = [instruction |-> i, status |-> code, next |-> v]
    <3>1. current = [instruction |-> i, status |-> code, next |-> current.next]
      BY <2>0, Zenon DEF Inv, Shape
    <3> QED
      BY <2>1, <3>1
  <2>6. Shape' /\ current'.instruction = i /\ current'.status = code /\ current'.next = v
    BY <2>1, <2>2, <2>5, SameShape, Zenon DEF Inv
  <2>7. Ahead(current.instruction, current.status)'
    BY <2>1, <2>2, <2>3, <2>6, SameSteps, NamedNext, Zenon
  <2>8. Before'
    BY <2>1, <2>2, <2>3, <2>6, <2>7, Zenon DEF Before
  <2> QED
    BY <2>1, <2>2, <2>6, <2>8, GoesOn, Zenon DEF Working
<1>6. CASE PeekedFault
  <2>1. /\ place = "peek_fault" /\ ~Failed /\ Consume /\ place' = "stepped"
        /\ UNCHANGED <<options, offset, current, steps, termination>>
    BY <1>6, Zenon DEF PeekedFault, Take
  <2>2. Told(answer.value) /\ Calm' /\ Wire' /\ vm' = vm /\ process' # "none"
    BY <2>1, Takes, Zenon DEF Requesting
  <2>3. Ahead(current.instruction, current.status) /\ current.status = 1
    BY <2>1, <2>2, Zenon DEF Told, Before
  <2>4. Ahead(current.instruction, current.status)' /\ current'.status # 0 /\ Shape'
    BY <2>1, <2>2, <2>3, SameVm DEF Inv
  <2>5. Before'
    BY <2>1, <2>4, Zenon DEF Before
  <2> QED
    BY <2>1, <2>2, <2>4, <2>5, GoesOn, Zenon DEF Working
<1> QED
  BY <1>1, <1>2, <1>3, <1>4, <1>5, <1>6, Zenon

\* The run ends between two instructions.
LEMMA Ends ==
  ASSUME Semantics, Inv, place \in Working, Even(address), NEW why, End(why),
         why \in {"max_instructions", "out_of_image"},
         why = "max_instructions" => Len(steps) = options.budget
  PROVE  Inv'
<1>1. /\ UNCHANGED protocol /\ UNCHANGED <<options, offset, current, steps>>
      /\ termination' = why /\ place' = "finally"
  BY Zenon DEF End
<1>2. Shape /\ Calm' /\ Wire' /\ vm' = vm
  BY <1>1, Inside, Zenon
<1>3. Even(address)' /\ Shape'
  BY <1>1, <1>2, SameVm, Zenon
<1>4. /\ Len(vm'.executed) = Len(steps') /\ Matches(Len(steps))' /\ AllPassed'
      /\ vm'.pending = FALSE
  BY <1>3, Zenon DEF Even
<1>5. termination' = "max_instructions" => Len(steps') = options'.budget
  BY <1>1, Zenon
<1>6. termination' \in {"max_instructions", "out_of_image"}
  BY <1>1, Zenon
<1>7. Earned'
  BY <1>4, <1>5, <1>6, Zenon DEF Earned
<1> QED
  BY <1>1, <1>2, <1>3, <1>7, HasResult, Zenon

\* A step is appended.
LEMMA Records ==
  ASSUME Shape, NEW code, steps' = Recorded(code), UNCHANGED <<options, offset, current, vm>>,
         WordsAt(address, current.instruction)
  PROVE  /\ Shape' /\ Len(steps) \in Nat /\ Len(steps') = Len(steps) + 1 /\ steps' # <<>>
         /\ steps'[Len(steps) + 1] =
              [address |-> address, instruction |-> current.instruction, returncode |-> code]
         /\ \A n \in 1..Len(steps) : steps'[n] = steps[n]
<1>1. PICK e : e = [address |-> address, instruction |-> current.instruction,
                    returncode |-> code]
  BY Zenon
<1>2. steps' = Append(steps, e) /\ IsSeq(steps)
  BY <1>1, Zenon DEF Recorded, Shape
<1>3. /\ IsSeq(steps') /\ Len(steps) \in Nat /\ Len(steps') = Len(steps) + 1
      /\ steps' # <<>> /\ steps'[Len(steps) + 1] = e
      /\ \A n \in 1..Len(steps) : steps'[n] = steps[n]
  <2>1. PICK s : s = steps
    BY Zenon
  <2>2. /\ IsSeq(Append(s, e)) /\ Len(s) \in Nat /\ Len(Append(s, e)) = Len(s) + 1
        /\ Append(s, e) # <<>> /\ Append(s, e)[Len(s) + 1] = e
        /\ \A n \in 1..Len(s) : Append(s, e)[n] = s[n]
    <3>1. IsSeq(s)
      BY <1>2, <2>1, Zenon
    <3> QED
      BY <3>1, OneMore
  <2> QED
    BY <1>2, <2>1, <2>2, Zenon
<1>4. ASSUME NEW n \in 1..Len(steps')
      PROVE  WordsAt(steps[n].address, steps[n].instruction)'
  <2>1. PICK a, i : a = steps'[n].address /\ i = steps'[n].instruction
    BY Zenon
  <2>2. WordsAt(a, i)
    <3>1. CASE n \in 1..Len(steps)
      <4>1. WordsAt(steps[n].address, steps[n].instruction) /\ steps'[n] = steps[n]
        BY <1>3, <3>1, Zenon DEF Shape
      <4> QED
        BY <2>1, <4>1, Zenon
    <3>2. CASE n = Len(steps) + 1
      <4>0. steps'[n] = e
        BY <1>3, <3>2, Zenon
      <4>1. a = address /\ i = current.instruction
        BY <1>1, <2>1, <4>0
      <4> QED
        BY <4>1, Zenon
    <3> QED
      BY <1>3, <3>1, <3>2
  <2> QED
    BY <2>1, <2>2, Zenon DEF WordsAt
<1>5. Shape'
  BY <1>3, <1>4, Zenon DEF Shape
<1> QED
  BY <1>1, <1>3, <1>5, Zenon

\* The first steps stay.
LEMMA StillMatches ==
  ASSUME Shape, NEW code, steps' = Recorded(code), UNCHANGED <<options, offset, current, vm>>,
         WordsAt(address, current.instruction), Matches(Len(steps))
  PROVE  Matches(Len(steps) - 1)'
<1>1. /\ Len(steps) \in Nat /\ Len(steps') = Len(steps) + 1
      /\ \A n \in 1..Len(steps) : steps'[n] = steps[n]
  BY Records, Zenon
<1>2. \A n \in 1..(Len(steps') - 1) : n \in 1..Len(steps)
  BY <1>1
<1>3. vm' = vm
  BY Zenon
<1>4. \A n \in 1..(Len(steps') - 1) :
        steps'[n] = Report(vm'.executed[n]) /\ vm'.executed[n].status \in {0, 1}
  BY <1>1, <1>2, <1>3, Zenon DEF Matches
<1> QED
  BY <1>4, Zenon DEF Matches

\* The step of the instruction just executed is appended with ASL's verdict.
LEMMA Reported ==
  ASSUME Shape, NEW code, steps' = Recorded(code), UNCHANGED <<options, offset, current, vm>>,
         Ahead(current.instruction, code)
  PROVE  /\ Shape' /\ Len(vm'.executed) = Len(steps') /\ Matches(Len(steps))'
         /\ code = 0 => AllPassed'
         /\ steps' # <<>> /\ steps'[Len(steps')].returncode = code /\ code \in {0, 1}
<1>0. /\ Len(vm.executed) = Len(steps) + 1 /\ Matches(Len(steps)) /\ AllPassed
      /\ vm.executed[Len(steps) + 1] =
           [at |-> address, instruction |-> current.instruction,
            status |-> code]
      /\ code \in {0, 1} /\ WordsAt(address, current.instruction)
  BY Zenon DEF Ahead
<1>1. /\ Shape' /\ Len(steps) \in Nat /\ Len(steps') = Len(steps) + 1 /\ steps' # <<>>
      /\ steps'[Len(steps) + 1] =
           [address |-> address, instruction |-> current.instruction, returncode |-> code]
      /\ \A n \in 1..Len(steps) : steps'[n] = steps[n]
  BY <1>0, Records, Zenon
<1>2. vm' = vm
  BY Zenon
<1>3. /\ steps'[Len(steps) + 1] = Report(vm.executed[Len(steps) + 1])
      /\ vm.executed[Len(steps) + 1].status \in {0, 1}
  <2>1. PICK e : e = vm.executed[Len(steps) + 1]
    BY Zenon
  <2>2. /\ e.at = address /\ e.instruction = current.instruction
        /\ e.status = code
    BY <1>0, <2>1
  <2> QED
    BY <1>0, <1>1, <2>1, <2>2, Zenon DEF Report
<1>4. \A n \in 1..Len(steps') : n \in 1..Len(steps) \/ n = Len(steps) + 1
  BY <1>1
<1>5. \A n \in 1..Len(steps') :
        steps'[n] = Report(vm'.executed[n]) /\ vm'.executed[n].status \in {0, 1}
  BY <1>0, <1>1, <1>2, <1>3, <1>4, Zenon DEF Matches
<1>6. steps'[Len(steps')].returncode = code /\ steps'[Len(steps) + 1].returncode = code
  BY <1>1
<1>7. ASSUME code = 0, NEW n \in 1..Len(steps') PROVE steps'[n].returncode = 0
  <2>1. CASE n \in 1..Len(steps)
    BY <1>0, <1>1, <2>1, Zenon DEF AllPassed
  <2>2. CASE n = Len(steps) + 1
    BY <1>6, <1>7, <2>2, Zenon
  <2> QED
    BY <1>4, <2>1, <2>2, Zenon
<1>8. code = 0 => AllPassed'
  BY <1>7, Zenon DEF AllPassed
<1>9. code \in {0, 1}
  BY <1>0, Zenon
<1>10. Matches(Len(steps))'
  BY <1>5, Zenon DEF Matches
<1> QED
  BY <1>0, <1>1, <1>2, <1>6, <1>8, <1>9, <1>10, Zenon

\* The steps of the loop without a request, up to the instruction's bytes.
LEMMA FetchStep ==
  ASSUME Semantics, Inv,
         BudgetUsed \/ NothingThere \/ GivenWidth \/ CutShort
  PROVE  Inv'
<1>1. ASSUME NEW why, End(why), place \in {"head", "fetch"},
             why \in {"max_instructions", "out_of_image"},
             why = "max_instructions" => Len(steps) = options.budget
      PROVE  Inv'
  <2>1. place \in Working
    BY <1>1, Zenon DEF Working
  <2>2. Before
    BY <2>1, Zenon DEF Inv, PlaceInv
  <2>3. Even(address)
    BY <1>1, <2>2, Zenon DEF Before
  <2> QED
    BY <1>1, <2>1, <2>3, Ends, Zenon
<1>2. CASE BudgetUsed \/ NothingThere \/ CutShort
  BY <1>1, <1>2, Zenon DEF BudgetUsed, NothingThere, InBudget, CutShort
<1>3. CASE GivenWidth
  <2>0. PICK v : v = options.width
    BY Zenon
  <2>1. /\ place = "head" /\ place' = "fetch" /\ UNCHANGED protocol
        /\ current' = [Nothing EXCEPT !.instruction = Slice(offset, v), !.next = v]
        /\ UNCHANGED <<options, offset, steps, termination>>
    BY <1>3, <2>0, Zenon DEF GivenWidth, InBudget
  <2>2. Before /\ Shape /\ Calm' /\ Wire' /\ vm' = vm /\ process' # "none"
    BY <2>1, Inside, Zenon DEF Working
  <2>3. v \in Nat /\ Even(address)
    BY <2>0, <2>1, <2>2, Zenon DEF Before, Shape
  <2>4. PICK i : i = Slice(offset, v)
    BY Zenon
  <2>5. current' = [instruction |-> i, status |-> 0, next |-> v]
    BY <2>1, <2>4, Zenon DEF Nothing
  <2>6. Shape' /\ current'.instruction = i /\ current'.status = 0 /\ current'.next = v
    BY <2>1, <2>2, <2>5, SameShape, Zenon
  <2>7. Even(address)'
    BY <2>1, <2>2, <2>3, SameSteps, Zenon
  <2>8. WordsAt(address, i) /\ Len(i) \in Nat
    <3>1. options.start \in Int /\ offset \in Int
      BY Zenon DEF Inv, Shape
    <3>2. address = Base + offset
      BY <3>1, Address, Zenon
    <3>3. WordsAt(Base + offset, Slice(offset, v)) /\ Len(Slice(offset, v)) \in Nat
      BY <2>3, <3>1, SliceWords, Zenon
    <3> QED
      BY <2>4, <3>2, <3>3, Zenon
  <2>9. WordsAt(address, current.instruction)' /\ Len(current'.instruction) \in Nat
    BY <2>1, <2>2, <2>6, <2>8, SameSteps, NamedNext, Zenon
  <2>10. Before'
    BY <2>1, <2>7, <2>9, Zenon DEF Before
  <2> QED
    BY <2>1, <2>2, <2>6, <2>10, GoesOn, Zenon DEF Working
<1> QED
  BY <1>2, <1>3, Zenon

\* An accepted instruction is recorded and there is no terminal event.
LEMMA Continues ==
  ASSUME Semantics, Shape, Ahead(current.instruction, 0), current.next = vm.tpc,
         vm.pending = FALSE, steps' = Recorded(0), UNCHANGED <<options, offset, current, vm>>,
         place' = "next", Calm', Wire', process' # "none"
  PROVE  Inv'
<1>1. /\ Shape' /\ Len(vm'.executed) = Len(steps') /\ Matches(Len(steps))' /\ AllPassed'
  BY Reported, Zenon
<1>2. vm' = vm /\ current' = current /\ vm.tpc \in Int /\ Len(current.instruction) \in Nat
  BY Zenon DEF Ahead
<1>3. vm'.tpc = current'.next /\ current'.next \in Int /\ vm'.pending = FALSE
  BY <1>2, Zenon
<1>4. Even(current.next)'
  BY <1>1, <1>3, Zenon DEF Even
<1>5. Before'
  BY <1>2, <1>4, Zenon DEF Before
<1> QED
  BY <1>1, <1>5, GoesOn, Zenon DEF Working

\* The end of an iteration.
LEMMA RecordingStep ==
  ASSUME Semantics, Inv, PeekedTerminal \/ RecordStep
  PROVE  Inv'
<1>1. CASE PeekedTerminal
  <2>0. PICK v : v = answer.value
    BY Zenon
  <2>1. /\ place = "peek" /\ ~Failed /\ Consume /\ place' = IF v THEN "finally" ELSE "next"
        /\ termination' = IF v THEN "asl_terminal" ELSE termination
        /\ steps' = Recorded(0) /\ UNCHANGED <<options, offset, current>>
    BY <1>1, <2>0, Zenon DEF PeekedTerminal, Take
  <2>2. Told(v) /\ Calm' /\ Wire' /\ vm' = vm /\ process' # "none"
    BY <2>0, <2>1, Takes, Zenon DEF Requesting
  <2>3. /\ Ahead(current.instruction, current.status) /\ current.status = 0
        /\ current.next = vm.tpc /\ v = vm.pending
    BY <2>1, <2>2, Zenon DEF Told, Before
  <2>4. Ahead(current.instruction, 0) /\ v \in BOOLEAN /\ Shape
    BY <2>3, Zenon DEF Ahead, Inv
  <2>5. CASE v = FALSE
    BY <2>1, <2>2, <2>3, <2>4, <2>5, Continues, Zenon
  <2>6. CASE v = TRUE
    <3>1. place' = "finally" /\ termination' = "asl_terminal" /\ vm'.pending = TRUE
      BY <2>1, <2>2, <2>3, <2>6, Zenon
    <3>2. /\ Shape' /\ Len(vm'.executed) = Len(steps') /\ Matches(Len(steps))' /\ AllPassed'
          /\ steps' # <<>>
      BY <2>1, <2>2, <2>4, Reported, Zenon
    <3>3. Earned'
      BY <3>1, <3>2, Zenon DEF Earned
    <3> QED
      BY <2>2, <3>1, <3>2, <3>3, HasResult, Zenon
  <2> QED
    BY <2>4, <2>5, <2>6, Zenon
<1>2. CASE RecordStep
  <2>0. PICK code : code = current.status
    BY Zenon
  <2>1. /\ place = "stepped" /\ ~MayBeTerminal /\ steps' = Recorded(code)
        /\ UNCHANGED protocol /\ UNCHANGED <<options, offset, current>>
        /\ IF code = 0 THEN termination' = termination /\ place' = "next"
           ELSE termination' = "step_failed" /\ place' = "finally"
    BY <1>2, <2>0, Zenon DEF RecordStep
  <2>2. Before /\ Shape /\ Calm' /\ Wire' /\ vm' = vm /\ process' # "none"
    BY <2>1, Inside, Zenon DEF Working
  <2>3. Ahead(current.instruction, code) /\ (code = 0 => current.next = vm.tpc)
    BY <2>0, <2>1, <2>2, Zenon DEF Before
  <2>4. vm.pending = FALSE
    BY <2>0, <2>1, <2>3, Zenon DEF Ahead, MayBeTerminal
  <2>5. CASE code = 0
    BY <2>1, <2>2, <2>3, <2>4, <2>5, Continues, Zenon
  <2>6. CASE code # 0
    <3>1. place' = "finally" /\ termination' = "step_failed"
      BY <2>1, <2>6, Zenon
    <3>2. /\ Shape' /\ Len(vm'.executed) = Len(steps') /\ Matches(Len(steps))'
          /\ steps' # <<>> /\ steps'[Len(steps')].returncode = 1
      BY <2>1, <2>2, <2>3, <2>6, Reported, Zenon
    <3>3. Earned'
      BY <3>1, <3>2, Zenon DEF Earned
    <3> QED
      BY <2>2, <3>1, <3>2, <3>3, HasResult, Zenon
  <2> QED
    BY <2>5, <2>6, Zenon
<1> QED
  BY <1>1, <1>2, Zenon

\* The next iteration begins at the address ASL goes on at.
LEMMA AdvanceStep ==
  ASSUME Semantics, Inv, Advance
  PROVE  Inv'
<1>1. /\ place = "next" /\ place' = "head" /\ current' = Nothing /\ UNCHANGED protocol
      /\ UNCHANGED <<options, steps, termination>>
      /\ offset' = IF current.next # address + Len(current.instruction)
                   THEN current.next - Base
                   ELSE offset + Len(current.instruction)
  BY Zenon DEF Advance
<1>2. Before /\ Shape /\ Calm' /\ Wire' /\ vm' = vm /\ process' # "none"
  BY <1>1, Inside, Zenon DEF Working
<1>3. Even(current.next) /\ Len(current.instruction) \in Nat
  BY <1>1, <1>2, Zenon DEF Before
<1>4. /\ Len(vm.executed) = Len(steps) /\ Matches(Len(steps)) /\ AllPassed
      /\ vm.tpc = current.next /\ current.next \in Int /\ vm.pending = FALSE
  BY <1>3, Zenon DEF Even
<1>5. options.start \in Int /\ offset \in Int /\ address = Base + offset /\ Base \in Int
  BY <1>2, Address, ElfAssumption DEF Shape
<1>6. offset' \in Int /\ Base + offset' = current.next
  <2>1. PICK n, l, o, a : n = current.next /\ l = Len(current.instruction) /\ o = offset /\ a = address
    BY Zenon
  <2>2. n \in Int /\ l \in Nat /\ o \in Int /\ a = Base + o
    BY <1>3, <1>4, <1>5, <2>1, Zenon
  <2>3. offset' = IF n # a + l THEN n - Base ELSE o + l
    BY <1>1, <2>1, Zenon
  <2>4. offset' \in Int /\ Base + offset' = n
    BY <2>2, <2>3, ElfAssumption
  <2> QED
    BY <2>1, <2>4, Zenon
<1>7. options'.start \in Int
  BY <1>1, <1>5, Zenon
<1>8. address' = Base + offset'
  BY <1>6, <1>7, ElfAssumption DEF address
<1>9. Matches(Len(steps))' /\ AllPassed'
  BY <1>1, <1>2, <1>4, Zenon DEF Matches, AllPassed
<1>10. /\ Len(vm'.executed) = Len(steps') /\ vm'.tpc = address' /\ address' \in Int
       /\ vm'.pending = FALSE
  BY <1>1, <1>2, <1>4, <1>6, <1>8, Zenon
<1>11. Even(address)'
  BY <1>9, <1>10, Zenon DEF Even
<1>12. Before'
  BY <1>1, <1>11, Zenon DEF Before
<1>13. Shape'
  <2>1. Nothing = [instruction |-> Nothing.instruction, status |-> Nothing.status,
                   next |-> Nothing.next]
    BY Zenon DEF Nothing
  <2>2. \A j : WordsAt(steps[j].address, steps[j].instruction)'
                 <=> WordsAt(steps[j].address, steps[j].instruction)
    BY <1>1, Zenon DEF WordsAt
  <2> QED
    BY <1>1, <1>2, <1>6, <2>1, <2>2, Zenon DEF Shape
<1> QED
  BY <1>1, <1>2, <1>12, <1>13, GoesOn, Zenon DEF Working

\* The ends of a run whose request failed, and its last step.
LEMMA EndingStep ==
  ASSUME Semantics, Inv, StepFailed \/ Escape \/ Finally
  PROVE  Inv'
<1>1. CASE StepFailed
  <2>1. /\ place \in {"auto", "step", "peek"} /\ Failed /\ Consume /\ steps' = Recorded(2)
        /\ termination' = HostFailureStatus /\ place' = "finally"
        /\ UNCHANGED <<options, offset, current>>
    BY <1>1, Zenon DEF StepFailed
  <2>2. Calm' /\ Wire' /\ vm' = vm /\ Lost
    BY <2>1, Fails, Zenon DEF Requesting
  <2>3. /\ Matches(Len(steps)) /\ Len(vm.executed) \in {Len(steps), Len(steps) + 1}
        /\ WordsAt(address, current.instruction) /\ Shape
    BY <2>2, Zenon DEF Lost, Inv
  <2>4. /\ Shape' /\ Len(steps) \in Nat /\ Len(steps') = Len(steps) + 1 /\ steps' # <<>>
        /\ steps'[Len(steps) + 1] =
             [address |-> address, instruction |-> current.instruction, returncode |-> 2]
        /\ \A n \in 1..Len(steps) : steps'[n] = steps[n]
    BY <2>1, <2>2, <2>3, Records, Zenon
  <2>5. Matches(Len(steps) - 1)'
    BY <2>1, <2>2, <2>3, StillMatches, Zenon
  <2>6. steps'[Len(steps')].returncode = 2
    BY <2>4
  <2>7. Len(vm'.executed) \in {Len(steps') - 1, Len(steps')}
    BY <2>2, <2>3, <2>4
  <2>8. termination' \in {"step_timeout", "runtime_error"}
    BY <2>1, Zenon DEF HostFailureStatus
  <2>9. Earned'
    BY <2>4, <2>5, <2>6, <2>7, <2>8, Zenon DEF Earned
  <2> QED
    BY <2>1, <2>2, <2>4, <2>9, HasResult, Zenon
<1>2. CASE Escape
  <2>1. /\ place \in Requesting \cup {"started"} /\ Failed /\ Consume /\ place' = "raising"
        /\ UNCHANGED <<options, offset, current, steps, termination>>
    BY <1>2, Zenon DEF Escape, Requesting
  <2>2. Calm' /\ Wire' /\ vm' = vm
    BY <2>1, Fails, Zenon
  <2>3. Shape'
    BY <2>1, <2>2, SameVm, Zenon DEF Inv
  <2> QED
    BY <2>1, <2>2, <2>3, Zenon DEF Inv, PlaceInv, Requesting, Working
<1>3. CASE Finally
  <2>1. /\ place \in {"finally", "raising"} /\ process' = "none"
        /\ place' = IF place = "finally" THEN "done" ELSE "raised"
        /\ UNCHANGED <<vm, call, answer, options, offset, current, steps, termination>>
    BY <1>3, Zenon DEF Finally, Stop, worker
  <2>2. Wire'
    BY <2>1, Zenon DEF Wire
  <2>3. Shape' /\ (Earned' <=> Earned)
    <3>1. Shape'
      BY <2>1, SameVm, Zenon DEF Inv
    <3>2. \A m : Matches(m)' <=> Matches(m)
      BY <2>1, Zenon DEF Matches
    <3>3. AllPassed' <=> AllPassed
      BY <2>1, Zenon DEF AllPassed
    <3>4. Earned' <=> Earned
      BY <2>1, <3>2, <3>3, Zenon DEF Earned
    <3> QED
      BY <3>1, <3>4, Zenon
  <2>4. Calm' /\ (place = "finally" => Earned)
    BY <2>1, Zenon DEF Inv, PlaceInv, Calm
  <2> QED
    BY <2>1, <2>2, <2>3, <2>4, Zenon DEF Inv, PlaceInv, Requesting, Working
<1> QED
  BY <1>1, <1>2, <1>3, Zenon

\* The run begins: a worker is started, or starting it raises.
LEMMA BeginStep ==
  ASSUME Semantics, Inv, NEW o \in Requests, Begin(o)
  PROVE  Inv'
<1> DEFINE src == [start |-> o.start, hosted |-> o.hosted, asks |-> o.asks]
<1>1. /\ place = "new" /\ place' = "started" /\ options' = o /\ offset' = o.start - Base
      /\ Start(src) \/ StartRaises
      /\ UNCHANGED <<current, steps, termination>>
  BY Zenon DEF Begin
<1>2. Calm /\ process = "none" /\ steps = <<>> /\ current = Nothing /\ Shape
  BY <1>1, Zenon DEF Inv, PlaceInv
<1>3. o.start \in Int /\ o.width \in Nat /\ o.budget \in Nat /\ o.start - Base \in Int
  <2>1. o.start \in Starts /\ o.width \in {0, 1, 2} /\ o.budget \in Budgets
    BY Zenon DEF Requests
  <2>2. o.start \in Nat /\ o.budget \in Nat
    BY <2>1, ElfAssumption, Zenon
  <2> QED
    BY <2>1, <2>2, ElfAssumption
<1>4. /\ IsSeq(vm'.executed) /\ vm' = [tpc |-> vm'.tpc, hosted |-> vm'.hosted,
                                       executed |-> vm'.executed, pending |-> vm'.pending]
      => Shape'
  <2>1. \A n : n \notin 1..Len(steps')
    BY <1>1, <1>2
  <2>2. options'.start \in Int /\ options'.width \in Nat /\ options'.budget \in Nat
        /\ offset' \in Int
    BY <1>1, <1>3, Zenon
  <2> QED
    BY <1>1, <1>2, <2>1, <2>2, Zenon DEF Shape
<1>5. CASE StartRaises
  <2>1. /\ answer' = Failure("error") /\ call' = NoCommand /\ vm' = vm /\ process' = "none"
    BY <1>2, <1>5, Zenon DEF StartRaises, worker, Calm
  <2>2. answer' \in Failures /\ Wire'
    BY <2>1, FailureNames, Zenon DEF Wire
  <2>3. Shape'
    BY <1>2, <1>4, <2>1, Zenon DEF Shape
  <2> QED
    BY <1>1, <2>1, <2>2, <2>3, Zenon DEF Inv, PlaceInv, Requesting, Working
<1>6. CASE Start(src)
  <2>1. /\ process' = "live" /\ phase' = "boot" /\ stdin' = <<>> /\ stdout' = <<>>
        /\ call' = NoCommand /\ answer' = NoAnswer /\ vm' = ElfInitial(src)
    BY <1>6, Zenon DEF Start, Spawn, Semantics
  <2>2. vm' = [tpc |-> o.start, hosted |-> o.hosted, executed |-> <<>>, pending |-> FALSE]
    <3>1. src # EmptySource /\ src.start = o.start /\ src.hosted = o.hosted
          /\ o.hosted \in BOOLEAN
      BY Zenon DEF Semantics, Requests
    <3>2. (TRUE /\ o.hosted) = o.hosted
      BY <3>1, Zenon
    <3> HIDE DEF src
    <3> QED
      BY <2>1, <3>1, <3>2, Zenon DEF ElfInitial
  <2>3. /\ vm'.tpc = o.start /\ vm'.executed = <<>> /\ vm'.pending = FALSE
        /\ vm' = [tpc |-> vm'.tpc, hosted |-> vm'.hosted, executed |-> vm'.executed,
                  pending |-> vm'.pending]
    BY <2>2, Zenon
  <2>4. Shape'
    BY <1>4, <2>3, Empty, Zenon
  <2>5. Wire'
    BY <2>1, Zenon DEF Wire
  <2>6. address' = o.start
    BY <1>1, <1>3, ElfAssumption DEF address
  <2>7. /\ Len(vm'.executed) = Len(steps') /\ \A n : n \notin 1..Len(steps')
    BY <1>1, <1>2, <2>3
  <2>8. Even(address)'
    BY <1>3, <2>3, <2>6, <2>7, Zenon DEF Even, Matches, AllPassed
  <2>9. Before'
    BY <1>1, <1>2, <2>8, Zenon DEF Before
  <2> QED
    BY <1>1, <2>1, <2>4, <2>5, <2>9, Zenon DEF Inv, PlaceInv, Requesting, Working
<1> QED
  BY <1>1, <1>5, <1>6, Zenon

\* The invariant holds in the initial state.
LEMMA InvInit ==
  ASSUME Semantics, Init
  PROVE  Inv
<1>1. /\ process = "none" /\ call = NoCommand /\ answer = NoAnswer /\ options = NoOptions
      /\ place = "new" /\ offset = 0 /\ current = Nothing /\ steps = <<>>
      /\ vm = ElfInitial(EmptySource)
  BY Zenon DEF Init, ProtocolInit, Semantics
<1>2. Shape
  <2>1. vm = [tpc |-> Base, hosted |-> FALSE, executed |-> <<>>, pending |-> FALSE]
    BY <1>1, Zenon DEF ElfInitial
  <2>2. /\ vm.executed = <<>>
        /\ vm = [tpc |-> vm.tpc, hosted |-> vm.hosted, executed |-> vm.executed,
                 pending |-> vm.pending]
    BY <2>1, Zenon
  <2>3. current = [instruction |-> current.instruction, status |-> current.status,
                   next |-> current.next]
    BY <1>1, Zenon DEF Nothing
  <2>4. /\ options.start \in Int /\ options.width \in Nat /\ options.budget \in Nat
        /\ offset \in Int
    BY <1>1, ElfAssumption DEF NoOptions
  <2>5. \A n : n \notin 1..Len(steps)
    BY <1>1
  <2> QED
    BY <1>1, <2>2, <2>3, <2>4, <2>5, Empty, Zenon DEF Shape
<1>3. Wire /\ PlaceInv
  BY <1>1, Zenon DEF Wire, PlaceInv, Calm, Requesting, Working
<1> QED
  BY <1>2, <1>3, Zenon DEF Inv

\* Nothing moves.
LEMMA InvStutter ==
  ASSUME Inv, UNCHANGED vars
  PROVE  Inv'
<1>1. UNCHANGED <<run, vm>> /\ UNCHANGED <<process, stdin, stdout, phase, command, call, answer>>
  BY Zenon DEF vars, protocol, worker, pipes
<1>2. UNCHANGED <<options, place, offset, current, steps, termination>>
  BY <1>1, Zenon DEF run
<1>3. /\ Before' <=> Before
      /\ Lost' <=> Lost
      /\ CommandHere' = CommandHere
      /\ \A v : Told(v)' <=> Told(v)
  BY <1>1, SameData, Zenon
<1>4. Wire'
  BY <1>1, <1>2, Zenon DEF Inv, Wire, Doomed
<1>5. ASSUME place \in Requesting PROVE InFlight(CommandHere)'
  <2>1. InFlight(CommandHere)
    BY <1>5, Zenon DEF Inv, PlaceInv
  <2>2. PICK s, a : s = stdout[1].value /\ a = answer.value
    BY Zenon
  <2>3. stdout'[1].value = s /\ answer'.value = a
    BY <1>1, <2>2, Zenon
  <2> QED
    BY <1>1, <1>3, <2>1, <2>2, <2>3, Zenon DEF InFlight
<1> QED
  BY <1>1, <1>4, <1>5, Frame, Zenon

\* Every step preserves the invariant.
LEMMA InvNext ==
  ASSUME Semantics, Inv, [Next]_vars
  PROVE  Inv'
<1>1. CASE \E o \in Requests : Begin(o)
  BY <1>1, BeginStep, Zenon
<1>2. CASE Loop
  BY <1>2, SendingStep, TakeStep, FetchStep, RecordingStep, AdvanceStep, EndingStep, Zenon
     DEF Loop
<1>3. CASE ProtocolNext /\ UNCHANGED run
  BY <1>3, HostStep, WorkerStep, Zenon DEF ProtocolNext
<1>4. CASE UNCHANGED vars
  BY <1>4, InvStutter, Zenon
<1> QED
  BY <1>1, <1>2, <1>3, <1>4, Zenon DEF Next

-----------------------------------------------------------------------------
(* What the invariant says of a result.                                    *)

\* Sequences that agree on their first m elements.
LEMMA SamePrefix ==
  ASSUME NEW s, IsSeq(s), NEW t, IsSeq(t), NEW m \in Nat, m <= Len(s), m <= Len(t),
         \A n \in 1..m : s[n] = t[n]
  PROVE  /\ SubSeq(s, 1, m) = SubSeq(t, 1, m)
         /\ SubSeq(t, 1, Len(t)) = t
<1> DEFINE S == {s[n] : n \in DOMAIN s}
           T == {t[n] : n \in DOMAIN t}
<1>1. s \in Seq(S) /\ t \in Seq(T)
  BY Zenon DEF IsSeq
<1> HIDE DEF S, T
<1>2. SubSeq(s, 1, m) = SubSeq(t, 1, m)
  BY <1>1
<1>3. SubSeq(t, 1, Len(t)) = t
  BY <1>1
<1> QED
  BY <1>2, <1>3, Zenon

\* What a reader of the ASL state reports.
Seen == [n \in 1..Len(vm.executed) |-> Report(vm.executed[n])]

\* It is a sequence of the reports.
LEMMA SeenIsSeq ==
  ASSUME IsSeq(vm.executed)
  PROVE  IsSeq(Seen) /\ Len(vm.executed) \in Nat /\ Len(Seen) = Len(vm.executed)
         /\ \A n \in 1..Len(vm.executed) : Seen[n] = Report(vm.executed[n])
<1>1. PICK e : e = vm.executed
  BY Zenon
<1>2. Len(e) \in Nat
  BY <1>1, OneMore, Zenon
<1>3. Seen = [n \in 1..Len(e) |-> Report(e[n])]
  BY <1>1, Zenon DEF Seen
<1>4. DOMAIN Seen = 1..Len(e) /\ \A n \in 1..Len(e) : Seen[n] = Report(e[n])
  BY <1>3, Zenon
<1>5. Seen \in Seq({Seen[n] : n \in DOMAIN Seen}) /\ Len(Seen) = Len(e)
  BY <1>2, <1>3, <1>4
<1> QED
  BY <1>1, <1>2, <1>4, <1>5, Zenon DEF IsSeq

\* The steps that are decided are the reports.
LEMMA Prefix ==
  ASSUME Shape, NEW m \in Nat, m <= Len(steps), m <= Len(vm.executed), Matches(m)
  PROVE  /\ SubSeq(steps, 1, m) = SubSeq(Seen, 1, m)
         /\ SubSeq(Seen, 1, Len(Seen)) = Seen /\ Len(Seen) = Len(vm.executed)
<1>1. /\ IsSeq(Seen) /\ Len(vm.executed) \in Nat /\ Len(Seen) = Len(vm.executed)
      /\ \A n \in 1..Len(vm.executed) : Seen[n] = Report(vm.executed[n])
  BY SeenIsSeq, Zenon DEF Shape
<1>2. PICK s, t : s = steps /\ t = Seen
  BY Zenon
<1>3. \A n \in 1..m : n \in 1..Len(vm.executed)
  BY <1>1
<1>4. \A n \in 1..m : s[n] = t[n]
  BY <1>1, <1>2, <1>3, Zenon DEF Matches
<1>5. IsSeq(s) /\ IsSeq(t) /\ m <= Len(s) /\ m <= Len(t)
  BY <1>1, <1>2, Zenon DEF Shape
<1>6. SubSeq(s, 1, m) = SubSeq(t, 1, m) /\ SubSeq(t, 1, Len(t)) = t
  BY <1>4, <1>5, SamePrefix
<1> QED
  BY <1>1, <1>2, <1>6, Zenon

\* The invariant makes the report the execution.
LEMMA Executed ==
  ASSUME Semantics, Inv
  PROVE  StepsAreExecuted
<1> DEFINE hostFailed == steps # <<>> /\ steps[Len(steps)].returncode = 2
           decided == SubSeq(steps, 1, Len(steps) - (IF hostFailed THEN 1 ELSE 0))
<1>0. Shape /\ Len(steps) \in Nat /\ Len(vm.executed) \in Nat
  <2>1. IsSeq(steps) /\ IsSeq(vm.executed) /\ Shape
    BY Zenon DEF Inv, Shape
  <2>2. PICK s, t : s = steps /\ t = vm.executed
    BY Zenon
  <2>3. Len(s) \in Nat /\ Len(t) \in Nat
    BY <2>1, <2>2, OneMore, Zenon
  <2> QED
    BY <2>1, <2>2, <2>3, Zenon
<1>1. ASSUME Len(vm.executed) = Len(steps), Matches(Len(steps))
      PROVE  decided = Seen
  <2>1. ~hostFailed
    <3>1. SUFFICES ASSUME steps # <<>> PROVE steps[Len(steps)].returncode # 2
      BY Zenon
    <3>2. Len(steps) \in 1..Len(steps)
      <4>1. Len(steps) # 0
        BY <1>0, <3>1 DEF Shape, IsSeq
      <4> QED
        BY <1>0, <4>1
    <3>3. /\ steps[Len(steps)] = Report(vm.executed[Len(steps)])
          /\ vm.executed[Len(steps)].status \in {0, 1}
      BY <1>1, <3>2, Zenon DEF Matches
    <3>4. steps[Len(steps)].returncode \in {0, 1}
      BY <3>3 DEF Report
    <3> QED
      BY <3>4
  <2>2. PICK m : m = Len(steps)
    BY Zenon
  <2>3. decided = SubSeq(steps, 1, m)
    BY <1>0, <2>1, <2>2
  <2>4. m \in Nat /\ m <= Len(steps) /\ m <= Len(vm.executed) /\ Matches(m)
    BY <1>0, <1>1, <2>2
  <2> QED
    BY <1>0, <1>1, <2>2, <2>3, <2>4, Prefix, Zenon
<1>2. ASSUME hostFailed, Len(vm.executed) \in {Len(steps) - 1, Len(steps)},
             Matches(Len(steps) - 1)
      PROVE  decided = Seen \/ decided = SubSeq(Seen, 1, Len(Seen) - 1)
  <2>2. PICK m : m = Len(steps) - 1
    BY Zenon
  <2>3. decided = SubSeq(steps, 1, m)
    BY <1>2, <2>2, Zenon
  <2>4. m \in Nat /\ m <= Len(steps) /\ m <= Len(vm.executed)
    <3>1. Len(steps) # 0
      BY <1>0, <1>2 DEF Shape, IsSeq
    <3> QED
      BY <1>0, <1>2, <2>2, <3>1
  <2>5. Matches(m)
    BY <1>2, <2>2, Zenon
  <2>6. /\ SubSeq(steps, 1, m) = SubSeq(Seen, 1, m)
        /\ SubSeq(Seen, 1, Len(Seen)) = Seen /\ Len(Seen) = Len(vm.executed)
    BY <1>0, <2>4, <2>5, Prefix, Zenon
  <2>7. m = Len(Seen) \/ m = Len(Seen) - 1
    BY <1>0, <1>2, <2>2, <2>6, Zenon
  <2> QED
    BY <2>3, <2>6, <2>7, Zenon
<1>3. ASSUME place \in {"head", "done"}
      PROVE  decided = Seen \/ (hostFailed /\ decided = SubSeq(Seen, 1, Len(Seen) - 1))
  <2>1. CASE place = "head"
    <3>1. Before
      BY <2>1, Zenon DEF Inv, PlaceInv, Working
    <3>2. Even(address)
      BY <2>1, <3>1, Zenon DEF Before
    <3> QED
      BY <1>1, <3>2, Zenon DEF Even
  <2>2. CASE place = "done"
    <3>1. Earned
      BY <2>2, Zenon DEF Inv, PlaceInv
    <3> QED
      BY <1>1, <1>2, <3>1, Zenon DEF Earned
  <2> QED
    BY <1>3, <2>1, <2>2, Zenon
<1>4. \A n \in 1..Len(steps) : WordsAt(steps[n].address, steps[n].instruction)
  BY <1>0, Zenon DEF Shape
<1> QED
  BY <1>3, <1>4, Zenon DEF StepsAreExecuted, Seen, Report

\* The invariant makes the verdict an earned one.
LEMMA Verdict ==
  ASSUME Semantics, Inv
  PROVE  VerdictIsEarned
<1> SUFFICES ASSUME place = "done"
             PROVE  /\ status = "passed" => vm.pending /\ vm.executed[Len(vm.executed)].status = 0
                    /\ status = "unfinished" => Len(vm.executed) = options.budget /\ ~vm.pending
                    /\ termination = "step_failed" => vm.executed[Len(vm.executed)].status # 0
                    /\ \A n \in 1..Len(vm.executed) : vm.executed[n].status # 0 => status = "failed"
  BY Zenon DEF VerdictIsEarned
<1>1. Earned /\ Shape
  BY Zenon DEF Inv, PlaceInv
<1>2. Len(steps) \in Nat /\ (steps # <<>> => Len(steps) \in 1..Len(steps))
  <2>1. Len(steps) \in Nat
    <3>1. PICK s : s = steps
      BY Zenon
    <3>2. Len(s) \in Nat
      BY <1>1, <3>1, OneMore, Zenon DEF Shape
    <3> QED
      BY <3>1, <3>2, Zenon
  <2>2. steps # <<>> => Len(steps) # 0
    BY <1>1 DEF Shape, IsSeq
  <2> QED
    BY <2>1, <2>2
<1>3. ASSUME Matches(Len(steps)), NEW n \in 1..Len(steps)
      PROVE  steps[n].returncode = vm.executed[n].status
  <2>1. steps[n] = Report(vm.executed[n])
    BY <1>3, Zenon DEF Matches
  <2> QED
    BY <2>1 DEF Report
<1>4. ASSUME termination \in {"max_instructions", "asl_terminal", "step_failed"}
      PROVE  Len(vm.executed) = Len(steps) /\ Matches(Len(steps))
  BY <1>1, <1>4, Zenon DEF Earned
<1>5. ASSUME status = "passed" PROVE vm.pending /\ vm.executed[Len(vm.executed)].status = 0
  <2>1. termination = "asl_terminal"
    BY <1>5, Zenon DEF status
  <2>2. AllPassed /\ steps # <<>> /\ vm.pending = TRUE
    BY <1>1, <2>1, Zenon DEF Earned
  <2>3. Len(steps) \in 1..Len(steps)
    BY <1>2, <2>2, Zenon
  <2>4. Len(vm.executed) = Len(steps) /\ Matches(Len(steps))
    BY <1>4, <2>1, Zenon
  <2>5. steps[Len(steps)].returncode = vm.executed[Len(steps)].status
    BY <1>3, <2>3, <2>4, Zenon
  <2>6. steps[Len(steps)].returncode = 0
    BY <2>2, <2>3, Zenon DEF AllPassed
  <2>7. vm.executed[Len(steps)].status = 0
    BY <2>5, <2>6
  <2> QED
    BY <2>2, <2>4, <2>7, Zenon
<1>6. ASSUME status = "unfinished"
      PROVE  Len(vm.executed) = options.budget /\ ~vm.pending
  <2>1. termination = "max_instructions"
    BY <1>6, Zenon DEF status
  <2>2. Len(steps) = options.budget /\ vm.pending = FALSE
    BY <1>1, <2>1, Zenon DEF Earned
  <2> QED
    BY <1>4, <2>1, <2>2, Zenon
<1>7. ASSUME termination = "step_failed" PROVE vm.executed[Len(vm.executed)].status # 0
  <2>1. steps # <<>> /\ steps[Len(steps)].returncode = 1
    BY <1>1, <1>7, Zenon DEF Earned
  <2>2. Len(vm.executed) = Len(steps) /\ Matches(Len(steps))
    BY <1>4, <1>7, Zenon
  <2>3. steps[Len(steps)].returncode = vm.executed[Len(steps)].status
    BY <1>2, <1>3, <2>1, <2>2, Zenon
  <2>4. vm.executed[Len(steps)].status # 0
    BY <2>1, <2>3
  <2> QED
    BY <2>2, <2>4, Zenon
<1>8. ASSUME NEW n \in 1..Len(vm.executed), vm.executed[n].status # 0 PROVE status = "failed"
  <2>1. SUFFICES ASSUME ~failed, termination \in {"asl_terminal", "max_instructions"}
                 PROVE  FALSE
    BY Zenon DEF status
  <2>2. Len(vm.executed) = Len(steps) /\ Matches(Len(steps))
    BY <1>4, <2>1, Zenon
  <2>3. n \in 1..Len(steps)
    BY <1>8, <2>2, Zenon
  <2>4. steps[n].returncode = vm.executed[n].status
    BY <1>3, <2>2, <2>3, Zenon
  <2>5. steps[n].returncode # 0
    BY <1>8, <2>4, Zenon
  <2>6. steps[n].returncode = 0
    BY <2>1, <2>3, Zenon DEF failed
  <2> QED
    BY <2>5, <2>6, Zenon
<1> QED
  BY <1>5, <1>6, <1>7, <1>8, Zenon

-----------------------------------------------------------------------------
\* The steps a run reports are the instructions the ASL state went through, at the
\* addresses of its TPC, with ASL's verdicts and the words of the image: whatever the
\* image, the jumps and the budget, with or without the bridge, and wherever the worker
\* dies, a request times out or a memory callback raises.
THEOREM ReportIsExecution ==
  ASSUME Semantics
  PROVE  Spec => []StepsAreExecuted
<1>1. Init => Inv
  BY InvInit, Zenon
<1>2. Inv /\ [Next]_vars => Inv'
  BY InvNext, Zenon
<1>3. Inv => StepsAreExecuted
  BY Executed, Zenon
<1> QED
  BY <1>1, <1>2, <1>3, PTL DEF Spec

\* A run is reported as passed only after ASL's terminal event, as unfinished only
\* after the whole budget, as a failed step only when ASL rejected one, and an
\* instruction ASL rejected always makes the run a failed one.
THEOREM EarnedVerdict ==
  ASSUME Semantics
  PROVE  Spec => []VerdictIsEarned
<1>1. Init => Inv
  BY InvInit, Zenon
<1>2. Inv /\ [Next]_vars => Inv'
  BY InvNext, Zenon
<1>3. Inv => VerdictIsEarned
  BY Verdict, Zenon
<1> QED
  BY <1>1, <1>2, <1>3, PTL DEF Spec

=============================================================================
