----------------------------- MODULE HostedRun -----------------------------
(***************************************************************************)
(* run (pto_asl_model/runner.py): one ELF in one fresh ASLRef process.     *)
(* The run checks its inputs, writes a main function in ASL (the harness)  *)
(* that loads the image, executes instructions and prints the result, and  *)
(* decides from the exit code and the printed lines.                       *)
(*                                                                         *)
(* The module is a component: a client says with what configuration and    *)
(* how much time a run begins, and looks at its outcome.  What an          *)
(* instruction does is a choice among Effects; ASLRef exits with the value *)
(* main returns (exit_value of aslref_host_memory.ml).                     *)
(***************************************************************************)
EXTENDS Integers, Sequences, FiniteSets

CONSTANTS
  Effects(_),    \* [kind, next, store] of executing at a TPC
  NoPc, NoStore, NoNote

VARIABLES
  configuration, \* the RunConfiguration, sidecar applied
  image,         \* the parsed ELF
  child,         \* "none", "ready", "running", "exited"
  model,         \* the ASL state and the output of the child
  left,          \* time until the deadline
  outcome        \* its status, and the result and the final TPC if it has a manifest

NoRun == [status |-> "none"]

hosted == <<configuration, image, child, model, left, outcome>>

-----------------------------------------------------------------------------
(* Inputs.                                                                 *)

InSegment(a, s) == s.base <= a /\ a < s.base + s.size
Executable(e, a) == \E n \in 1..Len(e.segments) :
                      InSegment(a, e.segments[n]) /\ "x" \in e.segments[n].flags

\* _checked_range.
InRange(start, size, limit) == start >= 0 /\ size >= 0 /\ start + size <= limit

\* parse_elf: what it requires of the PT_LOAD records, and of the PTO ISA note if
\* identity is required.
ParseElf(e, bytes, identity) ==
  /\ e.segments # <<>> /\ (identity => e.note # NoNote)
  /\ \A n \in 1..Len(e.segments) : InRange(e.segments[n].base, e.segments[n].size, bytes)
  /\ \A n, k \in 1..Len(e.segments) :
       LET s == e.segments[n]
           t == e.segments[k]
       IN n < k => ~(t.base < s.base + s.size /\ s.base < t.base + t.size)
  /\ Executable(e, e.entry)

HasSymbol(e, name) == Cardinality({s \in e.symbols : s.name = name}) = 1
Symbol(e, name) == CHOOSE s \in e.symbols : s.name = name

\* _load_sidecar and _validate_sidecar: the symbols of the ELF, the configuration
\* taken from the sidecar and the golden bytes beside it agree.
ValidSidecar(c, e, sidecar, golden) ==
  /\ c.size > 0 /\ sidecar.entry = e.entry /\ sidecar.segments = e.segments
  /\ \A name \in {"start", "return", "stop", "result", "size"} : HasSymbol(e, name)
  /\ Symbol(e, "start").value = c.start /\ Symbol(e, "return").value = c.return
  /\ c.stop # NoPc /\ Symbol(e, "stop").value = c.stop
  /\ Symbol(e, "result").value = c.address /\ Symbol(e, "result").size = c.size
  /\ Symbol(e, "size").absolute /\ Symbol(e, "size").value = c.size
  /\ \E n \in 1..Len(e.segments) :
       /\ e.segments[n].base <= c.address
       /\ c.address + c.size <= e.segments[n].base + e.segments[n].size
       /\ "w" \in e.segments[n].flags
  /\ Len(golden) = c.size

StartPc(c, e) == IF c.start = 0 THEN e.entry ELSE c.start

\* build_harness, its refusals.
HarnessBuilds(c, e) ==
  /\ c.maxSteps > 0 /\ c.hits > 0
  /\ InRange(c.address, c.size, c.bytes)
  /\ \A n \in 1..Len(e.segments) : InRange(e.segments[n].base, e.segments[n].size, c.bytes)
  /\ Executable(e, StartPc(c, e))
  /\ c.request => c.return # 0

-----------------------------------------------------------------------------
(* The harness.                                                            *)

\* ResetProfileState, the start policy, and WritePhysicalMemoryByte for the image.
HarnessStart(c, e) ==
  [tpc |-> StartPc(c, e), step |-> 0, hits |-> 0, trail |-> <<>>, out |-> <<>>, code |-> 0,
   memory |-> [a \in 0..(c.bytes - 1) |->
                 IF \E n \in 1..Len(e.segments) : InSegment(a, e.segments[n])
                 THEN e.data[a] ELSE 0]]

Byte(n, v) == [kind |-> "byte", index |-> n, value |-> v]
FinalTpc(a) == [kind |-> "tpc", index |-> 0, value |-> a]
StepLimit == [kind |-> "limit", index |-> 0, value |-> 0]

Printed(c, memory, tpc) ==
  [n \in 1..c.size |-> Byte(n - 1, memory[c.address + n - 1])] \o <<FinalTpc(tpc)>>

\* One turn of the loop of main.  A rejected instruction that is the requested
\* service call ends the run with 0, any other one with 2 and diagnostics.
Executed(c, m, x) ==
  [m EXCEPT !.step = m.step + 1,
            !.memory = IF x.store = NoStore THEN m.memory
                       ELSE [m.memory EXCEPT ![x.store[1]] = x.store[2]],
            !.tpc = IF x.kind = "executed" THEN x.next ELSE m.tpc,
            !.trail = IF x.kind = "executed" THEN Append(m.trail, x.next) ELSE m.trail,
            !.hits = IF x.kind = "executed" /\ x.next = c.stop THEN m.hits + 1 ELSE m.hits]

HostRequest(c, x) == c.request /\ x.kind = "service" /\ x.next = c.return

\* Fault variant: the first visit of the stop PC ends the run.
StopAtFirstHit(c, m, x) == c.stop # NoPc /\ x.kind = "executed" /\ x.next = c.stop

\* The stop test is there only when a stop PC was asked for.
StopPc(c, m, x) ==
  c.stop # NoPc /\ x.kind = "executed" /\ x.next = c.stop /\ m.hits + 1 = c.hits

HarnessStep ==
  /\ child = "running" /\ model.step < configuration.maxSteps
  /\ \E x \in Effects(model.tpc) :
       LET c == configuration
           after == Executed(c, model, x)
       IN IF StopPc(c, model, x)
          THEN /\ child' = "exited"
               /\ model' = [after EXCEPT !.out = Printed(c, after.memory, x.next)]
          ELSE IF HostRequest(c, x)
          THEN /\ child' = "exited"
               /\ model' = [after EXCEPT !.out = Printed(c, after.memory, x.next)]
          ELSE IF x.kind = "executed" THEN model' = after /\ UNCHANGED child
          ELSE child' = "exited" /\ model' = [after EXCEPT !.code = 2]
  /\ UNCHANGED <<configuration, image, left, outcome>>

HarnessLimit ==
  /\ child = "running" /\ model.step = configuration.maxSteps
  /\ child' = "exited" /\ model' = [model EXCEPT !.out = <<StepLimit>>, !.code = 3]
  /\ UNCHANGED <<configuration, image, left, outcome>>

\* A dynamic error of ASL, or a signal.
HarnessDies ==
  /\ child = "running"
  /\ child' = "exited" /\ model' = [model EXCEPT !.code = 1]
  /\ UNCHANGED <<configuration, image, left, outcome>>

-----------------------------------------------------------------------------
(* The run.                                                                *)

HostedInit(c, e) ==
  /\ configuration = c /\ image = e /\ child = "none" /\ left = 0 /\ outcome = NoRun
  /\ model = HarnessStart(c, e)

\* Up to the process: any input that does not check raises.
Prepare(c, e, agrees) ==
  /\ child = "none" /\ outcome = NoRun
  /\ configuration' = c /\ image' = e
  /\ IF ParseElf(e, c.bytes, TRUE) /\ agrees /\ HarnessBuilds(c, e)
     THEN child' = "ready" /\ model' = HarnessStart(c, e) /\ UNCHANGED outcome
     ELSE outcome' = [status |-> "raised"] /\ UNCHANGED <<child, model>>
  /\ UNCHANGED left

\* The lock or a checkout is not the one pinned, the runner does not build.
PrepareRaises ==
  /\ child = "none" /\ outcome = NoRun
  /\ outcome' = [status |-> "raised"]
  /\ UNCHANGED <<configuration, image, child, model, left>>

\* _execution_timeout, then _run_aslref.
Launch ==
  /\ child = "ready"
  /\ IF left > 0 THEN child' = "running" /\ UNCHANGED outcome
     ELSE child' = "none" /\ outcome' = [status |-> "timeout"]
  /\ UNCHANGED <<configuration, image, model, left>>

\* Fault variant: the process is waited for without a timeout.
NeverTimesOut == FALSE

TimesOut ==
  /\ child = "running" /\ left = 0
  /\ child' = "none" /\ outcome' = [status |-> "timeout"]
  /\ UNCHANGED <<configuration, image, model, left>>

\* parse_result: every byte of the result once, and one final TPC.
Marked(out, kind) == {n \in 1..Len(out) : out[n].kind = kind}
Parses(out, size) ==
  /\ {out[n].index : n \in Marked(out, "byte")} = 0..(size - 1)
  /\ Cardinality(Marked(out, "byte")) = size
  /\ Cardinality(Marked(out, "tpc")) = 1
Result(out, size) ==
  [n \in 1..size |-> out[CHOOSE k \in Marked(out, "byte") : out[k].index = n - 1].value]

\* The verdict over the exit code and the output.
Verdict(c, m) ==
  IF m.code # 0 THEN [status |-> "raised"]
  ELSE IF Marked(m.out, "limit") # {}
  THEN [status |-> "unfinished", result |-> [n \in 1..c.size |-> 0], tpc |-> NoPc]
  ELSE IF ~Parses(m.out, c.size) THEN [status |-> "raised"]
  ELSE [status |-> IF c.stop # NoPc THEN "passed" ELSE "failed",
        result |-> Result(m.out, c.size),
        tpc |-> m.out[CHOOSE k \in Marked(m.out, "tpc") : TRUE].value]

Reap ==
  /\ child = "exited"
  /\ child' = "none" /\ outcome' = Verdict(configuration, model)
  /\ UNCHANGED <<configuration, image, model, left>>

HarnessProgress == HarnessStep \/ HarnessLimit \/ HarnessDies
RunProgress == Launch \/ Reap \/ TimesOut

-----------------------------------------------------------------------------
\* What a pass establishes.  A stop PC was asked for, and the run ended in one of two
\* ways, no other: the program came to the stop PC for the requested time and no
\* earlier, or (the comment over the verdict asks for the stop PC, the verdict does not)
\* it made the requested service call first.  A run with a request may end in either
\* way.  The result is what the program's memory held at that end.
PassIsEvidence ==
  outcome.status = "passed" =>
    LET c == configuration
        visits == {n \in 1..Len(model.trail) : model.trail[n] = c.stop}
        stopped == /\ Cardinality(visits) = c.hits /\ Len(model.trail) \in visits
                   /\ Len(model.trail) = model.step /\ outcome.tpc = c.stop
        served == /\ c.request /\ Cardinality(visits) < c.hits
                  /\ Len(model.trail) = model.step - 1 /\ outcome.tpc = c.return
    IN /\ c.stop # NoPc
       /\ stopped \/ served
       /\ outcome.result = [n \in 1..c.size |-> model.memory[c.address + n - 1]]
=============================================================================
