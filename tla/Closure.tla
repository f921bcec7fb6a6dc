------------------------------ MODULE Closure ------------------------------
(***************************************************************************)
(* The release closure (pto_asl_model/closure.py): select the AVS cases an *)
(* impact report and a policy call for, compile, link and execute each one *)
(* under a deadline of its own, compare with golden bytes, and publish a   *)
(* lock, a semantic payload and, last, a run envelope.  Anything that goes *)
(* wrong ends the closure without an envelope; the process may also be     *)
(* killed at any point, in the middle of a file.                           *)
(*                                                                         *)
(* The other caller of HostedRun is its command line, which has no sidecar *)
(* and no deadline here.                                                   *)
(***************************************************************************)
EXTENDS HostedRun

CONSTANTS
  Cases,          \* the AVS corpus, a sequence of case records in order of their ids
  Backend,        \* --backend
  Impacts,        \* affected PTO ids an impact report may name
  Mandatory,      \* mandatory case ids of the policy
  CommandLines,   \* [configuration, elf] of pto-asl-run
  ReferenceBytes, \* REFERENCE_MEMORY_BYTES
  MaxOverrun      \* bound on the time of a preflight beyond the deadline

\* Timeouts are numbers of seconds; hits and sizes are integers, checked by the code.
ASSUME ClosureAssumption ==
  /\ Cases \in Seq({Cases[n] : n \in 1..Len(Cases)})
  /\ \A n \in 1..Len(Cases) :
       /\ Cases[n].timeout \in Nat /\ Cases[n].hits \in Int
       /\ \A s \in Cases[n].elf.symbols : s.name = "size" => s.value \in Int
  /\ \A line \in CommandLines : line.configuration.size \in Int /\ line.configuration.hits \in Int

VARIABLES
  caller,         \* "closure" or "cli"
  place,          \* where the closure is
  policy,         \* [affected, mandatory] of the request
  selected,       \* the cases to execute, in order
  index,          \* the case in progress
  tool,           \* its compiler or linker: "none", "running", "done", "failed", "killed"
  files,          \* the files of the output directory
  executed,       \* per case with a manifest: what its execution was (served is a
                  \* history: its last instruction was the service call)
  elapsed,        \* time since the case began
  exitCode        \* of main

closure == <<caller, place, policy, selected, index, tool, files, executed, elapsed, exitCode>>
vars == <<hosted, closure>>

Names == {"lock", "runLock", "payload", "envelope"}

Init ==
  /\ \E line \in CommandLines : HostedInit(line.configuration, line.elf)
  /\ caller \in {"closure", "cli"} /\ place = "start"
  /\ policy = [affected |-> {}, mandatory |-> {}]
  /\ selected = <<>> /\ index = 1 /\ tool = "none"
  /\ files = [f \in Names |-> "absent"] /\ executed = <<>> /\ elapsed = 0 /\ exitCode = -1

Case == selected[index]

\* An exception: main prints it and returns 1.
Fail == place' = "ended" /\ exitCode' = 1

-----------------------------------------------------------------------------
(* Selection.                                                              *)

\* _select_cases: the mandatory cases and every case of an affected id.
SelectCases(affected, mandatory) ==
  {n \in 1..Len(Cases) :
     Cases[n].id \in mandatory \/ affected \cap Cases[n].ptoIds # {}}

Selectable(affected, mandatory) ==
  /\ \A id \in mandatory : \E n \in 1..Len(Cases) : Cases[n].id = id
  /\ \A id \in affected : \E n \in 1..Len(Cases) : id \in Cases[n].ptoIds
  /\ SelectCases(affected, mandatory) # {}
  /\ {Cases[n].backend : n \in SelectCases(affected, mandatory)} = {Backend}

InOrder(ns) ==
  [k \in 1..Cardinality(ns) |->
     Cases[CHOOSE n \in ns : Cardinality({j \in ns : j < n}) = k - 1]]

\* run_closure up to the lock: the request is compared with the impact report.
Plan(reported, requested, mandatory) ==
  /\ caller = "closure" /\ place = "start"
  /\ policy' = [affected |-> requested, mandatory |-> mandatory]
  /\ IF reported = requested /\ Selectable(reported, mandatory)
     THEN /\ selected' = InOrder(SelectCases(reported, mandatory))
          /\ place' = "lock" /\ UNCHANGED exitCode
     ELSE Fail /\ UNCHANGED selected
  /\ UNCHANGED <<hosted, caller, index, tool, files, executed, elapsed>>

\* A checkout is dirty or not the one asked for, a pin or a tool is wrong, the
\* output directory exists.
PlanRaises ==
  /\ caller = "closure" /\ place \in {"start", "lock"} /\ files["lock"] = "absent"
  /\ Fail
  /\ UNCHANGED <<hosted, caller, policy, selected, index, tool, files, executed, elapsed>>

\* write_canonical_json: the file is opened, then written.
WriteFile(f, from, to) ==
  /\ place = from
  /\ \/ files[f] = "absent" /\ files' = [files EXCEPT ![f] = "partial"] /\ UNCHANGED place
     \/ files[f] = "partial" /\ files' = [files EXCEPT ![f] = "whole"] /\ place' = to
  /\ UNCHANGED <<hosted, caller, policy, selected, index, tool, executed, elapsed, exitCode>>

WriteLock == WriteFile("lock", "lock", "runLock")
WriteRunLock == WriteFile("runLock", "runLock", "case")

-----------------------------------------------------------------------------
(* _execute_case.                                                          *)

\* Its deadline is one for all stages.
BeginCase ==
  /\ place = "case" /\ index <= Len(selected)
  /\ left' = Case.timeout /\ elapsed' = 0 /\ place' = "compile" /\ tool' = "none"
  /\ outcome' = NoRun /\ child' = "none"
  /\ UNCHANGED <<configuration, image, model, caller, policy, selected, index, files,
                 executed, exitCode>>

\* Time passes; a process whose time is over is killed without delay.  Nothing cuts
\* the preflight short: it may take MaxOverrun more.
Tick ==
  /\ caller = "closure" /\ place \in {"compile", "link", "sidecar", "preflight", "execute"}
  /\ \/ left > 0
     \/ place \in {"sidecar", "preflight"} /\ elapsed < Case.timeout + MaxOverrun
  /\ left' = (IF left > 0 THEN left - 1 ELSE 0) /\ elapsed' = elapsed + 1
  /\ UNCHANGED <<configuration, image, child, model, outcome, caller, place, policy, selected,
                 index, tool, files, executed, exitCode>>

\* Fault variant: the stage has the whole timeout of the case.
StartToolFresh ==
  /\ place \in {"compile", "link"} /\ tool = "none"
  /\ tool' = "running" /\ left' = Case.timeout
  /\ UNCHANGED <<configuration, image, child, model, outcome, caller, place, policy, selected,
                 index, files, executed, elapsed, exitCode>>

\* _remaining_timeout, then _run_command.
StartTool ==
  /\ place \in {"compile", "link"} /\ tool = "none"
  /\ IF left > 0 THEN tool' = "running" /\ UNCHANGED <<place, exitCode>>
     ELSE Fail /\ UNCHANGED tool
  /\ UNCHANGED <<hosted, caller, policy, selected, index, files, executed, elapsed>>

ToolEnds ==
  /\ tool = "running"
  /\ tool' \in {"done", "failed"}
  /\ UNCHANGED <<hosted, caller, place, policy, selected, index, files, executed, elapsed,
                 exitCode>>

ToolTimesOut ==
  /\ place \in {"compile", "link"} /\ tool = "running" /\ left = 0
  /\ Fail /\ tool' = "killed"
  /\ UNCHANGED <<hosted, caller, policy, selected, index, files, executed, elapsed>>

\* The note of the ELF is the one of the object, which has one.
NoteAsRequired ==
  IF place = "compile" THEN Case.note # NoNote ELSE Case.elf.note = Case.note

\* The exit code, and parse_pto_isa_note of what was built.
ToolDone ==
  /\ place \in {"compile", "link"} /\ tool \in {"done", "failed"}
  /\ tool' = "none"
  /\ IF tool = "done" /\ NoteAsRequired
     THEN place' = (IF place = "compile" THEN "link" ELSE "sidecar") /\ UNCHANGED exitCode
     ELSE Fail
  /\ UNCHANGED <<hosted, caller, policy, selected, index, files, executed, elapsed>>

\* _sidecar, over the linked ELF.
Sidecar(case) ==
  [entry |-> case.elf.entry, segments |-> case.elf.segments,
   start |-> Symbol(case.elf, "start").value, return |-> Symbol(case.elf, "return").value,
   stop |-> Symbol(case.elf, "stop").value, address |-> Symbol(case.elf, "result").value,
   size |-> Symbol(case.elf, "size").value]

\* _load_sidecar over the RunConfiguration of the case.
Configuration(case) ==
  LET s == Sidecar(case)
  IN [start |-> s.start, return |-> s.return, stop |-> s.stop, address |-> s.address,
      size |-> s.size, hits |-> case.hits, maxSteps |-> case.maxSteps,
      request |-> case.request, bytes |-> case.bytes]

\* _sidecar parses the ELF with the reference memory, whatever the case asks for.
HasSidecar(case) ==
  /\ ParseElf(case.elf, ReferenceBytes, FALSE)
  /\ \A name \in {"start", "return", "stop", "result", "size"} : HasSymbol(case.elf, name)

WriteSidecar ==
  /\ place = "sidecar"
  /\ IF HasSidecar(Case) THEN place' = "preflight" /\ UNCHANGED exitCode ELSE Fail
  /\ UNCHANGED <<hosted, caller, policy, selected, index, tool, files, executed, elapsed>>

\* run up to the process.  It waits for git, opam and ocamlopt without a timeout:
\* that it comes to an end is not assumed.
PrepareCase ==
  /\ place = "preflight"
  /\ Prepare(Configuration(Case), Case.elf,
             ValidSidecar(Configuration(Case), Case.elf, Sidecar(Case), Case.golden))
  /\ place' = "execute"
  /\ UNCHANGED <<caller, policy, selected, index, tool, files, executed, elapsed, exitCode>>

PrepareCaseRaises ==
  /\ place = "preflight" /\ PrepareRaises
  /\ place' = "execute"
  /\ UNCHANGED <<caller, policy, selected, index, tool, files, executed, elapsed, exitCode>>

\* run returned: the bytes decide (its status is not looked at), and the manifest
\* of the case is written.  run raised: the closure ends.
CaseEnds ==
  /\ caller = "closure" /\ place = "execute" /\ outcome # NoRun
  /\ IF "result" \in DOMAIN outcome /\ outcome.result = Case.golden
     THEN /\ executed' = Append(executed, [id |-> Case.id, outcome |-> outcome,
                                           golden |-> Case.golden, elapsed |-> elapsed,
                                           served |-> Len(model.trail) < model.step])
          /\ place' = "case" /\ index' = index + 1 /\ UNCHANGED exitCode
     ELSE Fail /\ UNCHANGED <<executed, index>>
  /\ UNCHANGED <<hosted, caller, policy, selected, tool, files, elapsed>>

-----------------------------------------------------------------------------
(* Publication.                                                            *)

Ids(cases) == [n \in 1..Len(cases) |-> cases[n].id]

\* validate_semantic_payload: the manifests are those of the selected cases.
Assemble ==
  /\ place = "case" /\ index > Len(selected)
  /\ IF Ids(executed) = Ids(selected) THEN place' = "payload" /\ UNCHANGED exitCode ELSE Fail
  /\ UNCHANGED <<hosted, caller, policy, selected, index, tool, files, executed, elapsed>>

WritePayload == WriteFile("payload", "payload", "envelope")

\* validate_run_envelope raises over the arguments of the command line.
EnvelopeRaises ==
  /\ place = "envelope" /\ files["envelope"] = "absent"
  /\ Fail
  /\ UNCHANGED <<hosted, caller, policy, selected, index, tool, files, executed, elapsed>>

WriteEnvelope == WriteFile("envelope", "envelope", "published")

Return ==
  /\ place = "published"
  /\ place' = "ended" /\ exitCode' = 0
  /\ UNCHANGED <<hosted, caller, policy, selected, index, tool, files, executed, elapsed>>

Killed ==
  /\ caller = "closure" /\ place # "ended"
  /\ place' = "ended"
  /\ UNCHANGED <<hosted, caller, policy, selected, index, tool, files, executed, elapsed,
                 exitCode>>

-----------------------------------------------------------------------------
(* main of runner.py: no sidecar, and here no --timeout-seconds.           *)

CliBegin(line) ==
  /\ caller = "cli" /\ place = "start"
  /\ child = "none" /\ outcome = NoRun
  /\ configuration' = line.configuration /\ image' = line.elf
  /\ IF ParseElf(line.elf, line.configuration.bytes, TRUE)
           /\ HarnessBuilds(line.configuration, line.elf)
     THEN /\ child' = "ready" /\ model' = HarnessStart(line.configuration, line.elf)
          /\ left' = 1 /\ place' = "execute" /\ UNCHANGED <<outcome, exitCode>>
     ELSE outcome' = [status |-> "raised"] /\ Fail /\ UNCHANGED <<child, model, left>>
  /\ UNCHANGED <<caller, policy, selected, index, tool, files, executed, elapsed>>

CliEnd ==
  /\ caller = "cli" /\ place = "execute" /\ outcome # NoRun
  /\ place' = "ended" /\ exitCode' = IF outcome.status = "passed" THEN 0 ELSE 1
  /\ UNCHANGED <<hosted, caller, policy, selected, index, tool, files, executed, elapsed>>

-----------------------------------------------------------------------------
Thread ==
  \/ WriteLock \/ WriteRunLock \/ BeginCase \/ StartTool \/ ToolTimesOut \/ ToolDone
  \/ WriteSidecar \/ CaseEnds \/ Assemble \/ WritePayload \/ WriteEnvelope
  \/ Return
  \/ place = "execute" /\ RunProgress /\ UNCHANGED closure

Next ==
  \/ \E reported, requested \in Impacts, m \in Mandatory : Plan(reported, requested, m)
  \/ Thread \/ Tick \/ ToolEnds
  \/ PrepareCase \/ PlanRaises \/ PrepareCaseRaises \/ EnvelopeRaises \/ Killed
  \/ place = "execute" /\ HarnessProgress /\ UNCHANGED closure
  \/ \E line \in CommandLines : CliBegin(line)
  \/ CliEnd

\* The closure's thread is scheduled and time passes; nothing is assumed of the
\* compilers, the linker, ASLRef, and of the tools the preflight of a run waits for.
Spec == Init /\ [][Next]_vars /\ WF_vars(Thread) /\ WF_vars(Tick)

-----------------------------------------------------------------------------
\* A whole envelope is earned, also when the closure is killed at any point: the lock
\* and the payload are whole, every mandatory case and every case of an affected id
\* was executed, in order, each passed its run with its own golden bytes, and each
\* within the one deadline of its stages.
EnvelopeIsEarned ==
  files["envelope"] = "whole" =>
    /\ \A f \in Names : files[f] = "whole"
    /\ {executed[n].id : n \in 1..Len(executed)} =
         {Cases[n].id : n \in {k \in 1..Len(Cases) :
            Cases[k].id \in policy.mandatory \/ policy.affected \cap Cases[k].ptoIds # {}}}
    /\ \A n \in 1..Len(executed) :
         /\ executed[n].outcome.status = "passed"
         /\ executed[n].outcome.result = executed[n].golden
         /\ executed[n].id = selected[n].id /\ executed[n].elapsed <= selected[n].timeout

\* "reject publication unless its terminal request contract is observed"
\* (docs/requirements/closure.md): a published case with a service request made it.
PublishedRequestsObserved ==
  files["envelope"] = "whole" =>
    \A n \in 1..Len(executed) : selected[n].request => executed[n].served

\* The deadline of a case bounds all it waits for but the preflight: a closure that
\* has begun ends, whatever compilers, linker and ASLRef do, unless it waits for ever
\* for a preflight tool; main returns 0 only when the envelope is there.
ClosureEnds ==
  caller = "closure" /\ place # "start" ~>
    \/ place = "ended" /\ (exitCode = 0 => files["envelope"] = "whole")
    \/ [](place = "preflight")
=============================================================================
