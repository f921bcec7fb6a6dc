# TLA+ models of the ASL model

These modules model the part of the repository that runs programs on the PTO
ASL semantics and turns runs into evidence: guest memory and stack layout, the
worker process and its protocol, sessions, the single-PE and multi-PE runners,
the runtime adapter, the build caches, the hosted runner and the release
closure. TLC checks them on small instances, and TLAPS proves the main results
for every value of the constants. Source paths are relative to
`src/src/asl_model/`, and `pto/` stands for `src/src/pto_asl_model/`.

## The system

A run loads an ELF image and its stacks (`runtime/config.py`) into a sparse,
checked guest memory (`runtime/memory.py`) behind a host bridge
(`runtime/host_memory.py`). Embedded OCaml workers (`embedded/Worker.ml`,
driven by `embedded/worker.py` over two pipes) interpret the ASL specification.
They ask the host for guest bytes through callbacks and cache what they read.
The worker executable is built on demand into a cache that processes share.

Three clients drive workers. The single-PE runner (`runtime/asl_elf.py`) steps
one program. The multi-PE runner (`runtime/multi_elf.py`) gives each processing
element (PE) a worker and schedules them in rounds. A round is serial, or, with
`parallel_pe_steps`, speculative: all PEs step at once on views of a snapshot
(`runtime/parallel_memory.py`), and the round commits when no later PE read
what an earlier PE wrote; otherwise the whole run is repeated serially. A
session (`session.py`) keeps a history of committed instructions that can be
replayed. The runtime adapter (`runtime/adapter.py`) is independent of workers:
it runs instructions of any backend as transactions.

In `pto/`, the hosted runner (`runner.py`) writes an ASL harness around an ELF,
runs ASLRef on it and judges the output, and the closure (`closure.py`) does
this for every selected case and publishes an envelope.

## Modules

| Module | Models | State and actions |
| --- | --- | --- |
| `GuestMemory` | region tables, permissions, zero-page holes, chunk extents | operators only |
| `ZeroPage` | the cursor scan of `_map_zero_page`, loop body by loop body | `Reject`, `SkipRegion`, `ScanRegion`, `Finish` |
| `HostMemory` | accesses, writes, restore of `HostMemoryBridge` | `regions`, `bytes`, `generation`, `saved` |
| `RuntimeLayout` | `RuntimeLayout.resolve` | operators only; `Refused` is its `ValueError` |
| `HostLoad` | `load_image` in detail, over `HostMemory` and `RuntimeLayout` | adds `image`, `stacks`, and `origin`: the load the bytes come from |
| `HostScan` | the bridge with the scan of `ZeroPage` in its place: an access to an unmapped address adds the holes one by one | `Direct`, `BeginScan`, `ScanStep`, `ScanRejects`, `ScanEnds` |
| `SerialRound` | what a parallel round promises: PEs execute one at a time in PE order | `Submit`, `Exec(p)`, `HostWrite` |
| `ParallelMemory` | `ParallelMemoryCoordinator` and its views over the bridge | `BeginRound`, `View`, accesses, `RaiseConflict`, `Validate`, `ApplyView`, `CloseCommitted`, `Rollback` |
| `MultiPeRun` | `run_image`, `AslWorkerExecutor`, `MemoryCache` | start, `BeginRound`, `BudgetSpent`, steps with `ReadHit`, `ReadMiss`, `Write`, ends of rounds, `Fallback` |
| `WorkerProtocol` | `EmbeddedAslWorker.start/request/stop` and the command loop of the worker process | pipes, process, ASL state; `Request`, `HostReads`, `HostTimesOut`, `Boot`, `ReadCommand`, `AskMemory`, `FinishCommand`, `Die`, ... |
| `Session` | both session classes, and a client without a session, over `WorkerProtocol` | one action per request sent and per answer taken; `StepRejected`, `SendReplay`, `GiveUp`, ... |
| `CommittedHistory` | what `AslSession` promises | `Create`, `Commit`, `Reject`, `Snapshot`, `Restore`, `Fail`, `Destroy` |
| `ElfRun` | `AslElfRunner.run` over `WorkerProtocol` | one action per request and answer of the loop; `RecordStep`, `Advance`, `StepFailed`, `Escape`, `Finally` |
| `RuntimeAdapter` | `RuntimeAdapter`, `InstructionTransaction`, `MemoryTransaction` | load and a load that raises half way, reset, snapshot, restore, begin, staged writes, commit, abort, close |
| `BuildCache` | `_ensure_built`, `_host_memory_runner`, `materialize` as processes that may be killed | lookup, lock, build, renames, launch; in-place copies and writes, which nothing keeps apart |
| `HostedRun` | `pto/runner.py`: input checks, the generated harness, the process, the verdict | `Prepare`, `Launch`, `HarnessStep`, `TimesOut`, `Reap` |
| `Closure` | `pto/closure.py` over `HostedRun`, and the command line of `runner.py` | selection, tools, `Tick`, cases, files, `Killed` |

The `MC*` modules give instances. The `*Proofs` modules hold the theorems about
the module in their name: `HostLoadProofs` (with `HostMemory`,
`RuntimeLayout` and `ZeroPage`), `ParallelMemoryProofs`, `MultiPeProofs`, `SessionProofs`
(with the pipes of `WorkerProtocol`), `ElfRunProofs`, `RuntimeAdapterProofs`,
`BuildCacheProofs` and `ClosureProofs` (with `HostedRun`). `PROJECT.json` maps
definitions to source lines and lists the hazards met while reading the code.

How the modules are composed:

- `HostScan` extends `HostLoad` and `ZeroPage`; its property `ScanIsAtomic` says
  that it implements `HostLoad`, where a zero page is one step.
- `ParallelMemory` uses `HostMemory` by `INSTANCE`: each write of the commit
  loop is a bridge write, with the zero pages it maps.
- `MultiPeRun` restates the commit in one step, which the refinement of
  `SerialRound` by `ParallelMemory` justifies: no other thread runs between the
  steps of a commit. Every address is mapped read-write there; permissions are
  the subject of the modules below it.
- `Session` and `ElfRun` extend `WorkerProtocol`. Its constants `Initial`,
  `Outcomes`, `SourceAsks` and `Asks` say what the interpreter does; each
  client supplies its own (`SessionOutcomes`, `ElfOutcomes`).
- `Closure` extends `HostedRun`.

What is abstracted: an instruction of `MultiPeRun` is any sequence of byte
reads and writes followed by an outcome. In `Session` the ASL state is the
initial source and every instruction executed since, the rejected ones
included. In `ElfRun` it is the program counter, the executed instructions with
their status, and the terminal flag. In `HostedRun` an instruction moves the TPC and may store a
byte. Protocol lines, files and digests are records or model values.
`seen` (`ParallelMemory`), `observed` (`MultiPeRun`), `origin` (`HostLoad`),
`trail` (`HostedRun`), `served` (`Closure`), `met` (`BuildCache`), `taken`
(`RuntimeAdapter`), `to` in a reply line and `executed` are history; so is
`before` of `RuntimeAdapter` but for the state, which the code keeps too.

Facts about the worker that the models rest on and that are easy to miss:

- A memory callback that raises, or a missing one, leaves the worker in the
  middle of its command; it reads the next command line as the memory reply
  and exits.
- An initial source that needs host memory always ends the worker that way:
  its first request is the ping. `MultiPeRun` therefore has no memory access
  before the first step; the start fails instead.
- `request` starts a stopped worker again, without its source; this start may
  raise like any other.
- The length rule of the ASL is total, so a length of 0 (`decode_failed`) never
  comes. `step_auto` reports zeros for an instruction whose fetch is denied.
- After a timeout the killed worker's reply may be in the pipe. `request`
  asks `poll` first, so nobody reads it.

Operators introduced as a *fault variant* are wrong versions of the operator
that follows them. They show that a property can fail: each property of a
passing run has one variant under which TLC finds it violated.

## Runs

| Run | Instance | Shows |
| --- | --- | --- |
| `host_memory` | two pages of four bytes, two unaligned programs with two layouts each (one stack above the image, two at a given top, which one program refuses), the holes mapped one by one, one change, one snapshot | the scan maps exactly the holes of the page (`MapsTheHoles`), `map_region` never raises in it (`NoOverlap`), and it implements the one-step zero page of the other modules (`ScanIsAtomic`); disjoint regions, zero unmapped bytes, usable stacks, stable permissions, and no byte changes without the generation |
| `parallel_memory` | three PEs, a read-only and an unmapped byte of one page, two rounds | isolation, serial reads, commits that never fault, refusals that are final, refinement of `SerialRound` |
| `multi_pe` | two PEs, two-byte chunks, five instructions of at most two accesses in an attempt, in the three modes: serial, serial with a fixed width, speculative | coherent caches across commits, recorded reads in PE order, fair turns, accounted steps, an earned termination, and an end through failed and conflicting rounds and the rerun |
| `warm_cache` | two PEs, two rounds | violated: see Findings |
| `session` | two instructions of which one depends on the other, and which ASLRef runs to exit code 0 more often than ASL accepts them; three committed steps, one memory request per command | the worker holds the committed history (`VmIsHistory`), closed sessions have no worker, replies are paired, `CommittedHistory` is implemented, every operation ends |
| `elf_run` | six words with a long instruction, once cut by the end of the segment, a jump forwards, back and out of the segment on both sides, a rejected one and a terminal one; an address that may not be fetched; budgets 1 and 4 | the recorded steps are the executed ones, the verdict is earned, every run ends with its worker stopped |
| `adapter` | three images, one of which cannot be mapped to its end, with read-only bytes at different places; overlapping writes of one and two bytes, two commits, one snapshot | commit leaves what the transaction showed; a transaction that ends otherwise leaves what there was at its begin; memory is one image with its read-only bytes as loaded (`ReadOnlyStays`) |
| `adapter_commit_raises` | the same | violated: see Findings |
| `adapter_snapshot` | the same | violated: see Findings |
| `build_cache` | four processes, three digests | a published pair stays, a started worker is the one its identity names; a projection heals whatever overlapping or killed writers left (`ProjectionHeals`); kills alone leave no torn runner that is a hit (`KillsLeaveNoTornRunner`) |
| `closure` | seven cases: two that can pass (stop at the second visit; service call), no writable result, another backend, too large, no note, another note; three command lines | a pass is one of the two ends the harness has, with the memory of that end; an envelope is complete and earned within the time limits; the closure ends unless a preflight tool never does |
| `host_exit` | the same | violated: see Findings |

Bounds, and why they are enough to meet the interesting cases:

- Three PEs are the smallest number at which a check against only the
  preceding PE's writes goes wrong. `MaxGeneration` 1 in `parallel_memory` lets
  a second round start on memory an earlier commit changed.
- Five instructions on two PEs give two speculative rounds, so caches filled in
  the first are used in the second, and a last round cut by the budget. Two
  accesses of a PE in an attempt give a read after a write, a write after a read,
  and a cached byte that is used after another PE wrote it; the rerun has two of
  its own. That caches keep to their capacity is proved (`BoundedCaches`).
- Three committed steps give a snapshot, a longer history, a reset below it and
  a different continuation, so an old handle names a history that is gone. The
  second instruction is accepted only right after the first: a trace a rejected
  instruction left in the worker would change a later verdict.
- In `elf_run` the program starts in the middle of the segment, at its start
  or outside it; a jump below the segment reaches the negative-offset slice.
- Four processes: one that builds, one that waits for the lock, one that missed
  before both, one that looks the cache up later; each may be killed anywhere.
- A case has two units of time for compile, link and run, so a deadline falls
  in every stage; a preflight may take one unit more than is left
  (`MaxOverrun`). The harness has four steps, so the second visit of the stop
  PC and the step limit are both met.
- `CHECK_DEADLOCK FALSE` is set where the code ends: after a call, a run, a
  closed session or adapter, started processes, an ended closure.

Fairness, and why the code justifies it:

- `MultiPeRun`: `WF(Next)`. The runner is a sequential loop, its pool waits for
  every step, and a step ends because `_readline` gives up after `timeout_s`.
- `Session` and `ElfRun`: weak fairness of the client's own code and of
  `HostProgress`, the reading side of `request`. Nothing is assumed of the
  worker: it may hang for ever, and then the time limit is what makes
  `HostProgress` enabled. `MaxAsks` bounds the memory requests of one command;
  in the code the limit covers one line, so a worker that keeps asking is not
  stopped by it. `OperationEnds` and `RunEnds` are about the host.
- `Closure`: weak fairness of the closure's thread and of time (`Tick`).
  Nothing is assumed of tools or of the harness, and nothing of the preflight of
  a run (`PrepareCase`): it waits for `git`, `opam` and `ocamlopt` without a
  timeout. `ClosureEnds` therefore says that the closure ends or is in the
  preflight for ever.

## Proofs

The theorems hold for every value of the constants that satisfies the named
assumptions. Most have the form `Spec => []P`, or `Spec => P` for an action
property or a refinement. `LayoutSound` and `LoadedMemorySound` are about
operators: what `resolve` accepts and what a load leaves behind. Facts about finite sets are hypotheses of the lemmas that need
them; they are proved from the library at the end of a module, where it is
instantiated.

**Layout and loads** (`HostLoadProofs`, from `HostMemoryAssumption`,
`ImagesAssumption`, `LayoutAssumption`, `LoadAssumption`, `OutcomesAreImages`).
`LayoutSound`: whatever `resolve` accepts has banks below the limit, apart from
one another and from every segment. The code compares adjacent banks only; that all are apart needs
that banks rise with their stride. `LoadInv` says that the memory, and the
memory of every snapshot, is sound (disjoint regions, zero outside) and holds
the stacks of its `origin`. Soundness of snapshots is what makes it inductive
under `restore`. From it follow `TableDisjoint`, `ZeroOutside`,
`StacksStayUsable`, `GenerationTells` and `PermissionsStay`, for the
specification of `HostLoad`; the run checks them on `HostScan`, with the holes
added one by one.

**Zero pages** (`HostLoadProofs`, from `ScanAssumption`: a table is a finite set
of disjoint regions). `ScanInv` says of the loop in `_map_zero_page` that the
regions behind it end at or below the cursor or cover the rest of the page, that
the cursor is at the start of the page or behind a mapped address, and that
what was added are the holes that end at or below the cursor. The regions ahead
begin no lower than the next one, since the table is sorted, so up to that one
the page is free. `AcrossFree` and `AcrossMapped` say what the cursor's way over
a free run and over a region adds. From it follow `ScanNeverOverlaps` and
`ScanMapsTheHoles`, so the `MapZeroPage` that the other modules use is what the
scan computes, for every table. That `Sorted` sorts is the fact about ranks
that the closure's plan needs too.

**ParallelMemory** (`ParallelMemoryAssumption`). `IInv` adds four facts to the
types. `SnapshotCurrent`: while the generation stands still, the bridge is the
snapshot. `ViewsRecorded`: every byte in `seen` is the snapshot's and its
address is in the read set. `CommitProgress`: during a commit no PE still to
come has read an applied PE's write, every byte outside the applied writes is
the snapshot's, and no write permission has been lost. `RefusalStands`: a
refused round is open and still in conflict. From it follow `Isolation`,
`SerialReads`, `CommitCompletes`, `RefusalIsFinal`, the action property
`MutationsTold` and `Refinement`: a passed validation is `Submit`, a turn of the
commit loop is `Exec(p)`, everything else is a host write or a stutter.

**MultiPeRun** (`MultiPeRunAssumption`). `IInv` is types, `CacheCoherent`,
`Phases` (who runs and whose view holds anything in each phase) and
`GenerationsOld` (no recorded generation is ahead of the bridge's). It gives
`Coherence` and `RecordedReads`. `SInv` describes a round from the inside: the
PEs that have had their turn are the earlier ones, by one instruction. It gives
`FairTurns` and `HonestResult`. Two theorems count. `BoundedCaches`: the cache
of a worker keeps to its capacity, since bytes are added only where they fit
or after the cache was cleared. `StepsAddUp`: the steps reported are the
instructions the PEs have counted, as pairs of a PE and a number, and the one
step that failed; a round adds one pair for each PE that has had its turn.

**Worker pipes and sessions** (`SessionAssumption`, and `Semantics`: the
interpreter is the session's). `PipeInv` says what lies in the pipes in each
phase of the worker: at most the line of the request in progress, or one reply
to it, or, for a worker that was left in the middle of a command, nothing it
would take for a memory reply. It gives `Pairing`, for the direct client too.
`SessionInv` ties the place in the operation to the command that is under way
and to the ASL state: after `index` replayed steps the state is the source and
the first `index` of the target, unless an answer that will make the session
give up is waiting. It gives `WorkerHoldsHistory`, `NothingLeftRunning` and
`Refinement`: an operation is one step of `CommittedHistory`, at the moment its
result is known, and requests and replays are stutters.

**ElfRun** (`ElfAssumption`, and `Semantics`: the interpreter is the one of
`ElfOutcomes`). The invariant joins three things: the pipes (as for sessions),
the place in the loop, and how far the recorded steps are behind the ASL state.
`Even`: every executed instruction is recorded and the offset is ASL's TPC.
`Ahead`: one more is executed, and what the runner holds of it is what ASL did.
`Told` says that an answer on its way reports the state ASL is in, and `Lost`
that a request without an answer was executed or was not. From it follow
`ReportIsExecution` and `EarnedVerdict`.

**RuntimeAdapter** (`AdapterAssumption`). `AppliedIsOverlay` says that the
replay of the staged writes, one after the other, gives the bytes that a read
through the transaction showed: at each address the last write that covers it.
It is shown for every prefix of the writes by the first prefix at which it would
fail. With `Shape` (the memory, the memory it began with and the snapshots hold
a byte for every address, and the staged writes are a sequence) it gives
`CommitsTheView`. `Untouched` says that an open transaction has changed nothing
since `before`; it gives `UndoneIsUndone`. `Holds` says that the memory, the one
`reset` goes back to and those of the snapshots each hold an image, and that
every staged write lies in writable bytes of the memory it will be applied to.
With `AppliedIsOverlay` it gives `ReadOnlyIsKept`.

**HostedRun and Closure** (`ClosureAssumption`: timeouts, hits and sizes are
integers). `RunInv` follows the child process. While it runs, the harness has
counted the visits of the stop PC and has not come to the last one. Once it has
exited with 0, the lines it printed are those of its memory, and it stopped at
the last visit or in the service call. `ReadBack` says that the parser takes
from these lines what was printed. So a pass is `Evidence`. `ClosureInv` orders
the files: each is whole before the closure goes on, and nothing but the end
follows the envelope. It keeps what is left and what has passed of a case's
time together equal to its timeout as long as some is left and while a process
runs (a preflight that overran leaves nothing, and no process is started), and
says that the executions so far are
those of the first cases of the plan. That the plan has every selected case
once is a fact about ranks: an injection into an interval of the same size is
onto. From both follows `EarnedEnvelope`.

**BuildCache** (`DigestAssumption`). `Inv`: at most one process is between lock
and release; a process that relies on the pair it has checked keeps it; so a
published pair is not touched again (`Publication`) and a started worker is the
one its identity names (`Launch`), for any number of processes and crashes.
For the caches without a lock, `MetInv` says that two processes at work at once
have met. `ProfileInv` and `RunnerInv` say what the cache holds for a process
that has met nobody, and while nobody has met anybody: who rewrites the runner
has found no whole identity, and an identity is written after a whole copy.
They give `Healing` and `KillsAreSafe`. Neither says anything of a user that
overlaps a writer: such a user can be handed a torn file, and for the runner
this can last, since a whole identity hides a copy that was cut.

Only model-checked: liveness (`RunEnds`, `OperationEnds`, `ClosureEnds`), which
is out of the prover's reach, and `ScanIsAtomic`, whose two halves (what the
scan computes, and what `HostLoad` does with it) are proved.

## Findings

- **Warm caches escape the conflict check** (`warm_cache`, `PeOrderObserved`).
  Reads a worker's own cache answers are in no read set. When both PEs read a
  byte in one round, and in the next PE 0 writes it and PE 1 reads it, the
  round commits with PE 1 having read the old byte. `RecordedReads` shows
  that reads which do reach the view are handled right.
- **A commit that raises has written** (`adapter_commit_raises`,
  `FailedStepIsUndone`). `InstructionTransaction.commit` applies the staged
  writes before it converts the final state. A final state that does not
  convert raises with the new bytes in guest memory and the old state.
  `runtime/README.md` promises that an exception leaves both unchanged.
  `UndoneLeavesNoTrace` shows the promise for rejected results, for
  exceptions of the backend itself and for a close in the middle of a step.
- **A snapshot is not a restore point across a load** (`adapter_snapshot`,
  `RestorePoint`). `snapshot` hands out the adapter's own state object, and
  `load` assigns the entry point and the stack pointer into it. After snapshot
  and load, `restore` puts back the old memory and image with the new program
  counter. `runtime/protocol.py` calls the class a "Complete restore point for
  runtime-owned state."
- **A request case is published without its request** (`host_exit`,
  `PublishedRequestsObserved`). The harness of a case with a host request also
  ends at the stop PC, `run` reports both ends as passed, and the closure looks
  at the bytes only. `docs/requirements/closure.md` asks it to "reject publication
  unless its terminal request contract is observed".

Met while modelling, and followed by the models:

- `record_outcome` of the multi-PE runner counts a terminal encoding as the end
  of a PE when ASL reported no terminal event. `runtime/README.md` says that a
  backend "is never considered finished based on an ELF filename or a guessed
  instruction", and `docs/smoke.md` that `complete` is true only for a terminal
  event. `MultiPeRun` has an outcome of its own for it (`encoding`), and
  `ResultHonest` claims no more than the code establishes.
- The `step_instruction` of the process session throws away the status of
  `ExecutePTOInstruction`: an instruction that ASL rejects is committed when
  ASLRef exits with 0. `KeepsPromise` is stated with that notion of accepted.
- The comment over the verdict of `pto/runner.py` asks for "a harness that
  reached" the stop PC; a run that ends in its service call passes too.
  `PassIsEvidence` names both ends.
- The peeks after a step of the single-PE runner are outside its handlers, so a
  worker that dies there makes `run` raise; a comment in the handler says that
  host failures do not escape. The worker is stopped in either case.
- A branch below the segment makes the fetch offset of the single-PE runner
  negative, and Python's slice takes bytes from the end of the segment.
- `reset` after a restore goes back to the memory of the last load, whatever
  image was restored.
- A load that raises half way leaves the old state and image over a part of the
  new program.
- The `unfinished` status of the hosted runner is never reported: the step
  limit ends the harness with exit code 3, and `run` raises on it.

## Not modelled

- The ASL semantics, the ASLRef interpreter and its type checker.
- ELF parsing (`runtime/elf.py`, `pto/elf_note.py`) and profile substitution:
  sequential text and byte processing. Models start from what they return.
- `state.py` and `pto/state.py` (data classes and validation), `backend.py`,
  `cases.py`, `runner.py` and `artifact.py` (sequential calls whose results are
  compared), `cli.py`, `client.cpp` and `tools/` (arguments and launching).
- In the multi-PE runner: the worker scopes `single`, `core` and `spmd`,
  injected policies and executors, metrics. The `if not scheduled` branch is
  never taken: the check at the end of a round leaves the loop first.
- In the bridge: a mirrored worker, which no caller in the package sets. Refused
  accesses raise and change nothing; an instruction then fails, which is among
  the outcomes. One page size is used for bridge and coordinator, as by default.
- In the closure and the hosted runner: the contents of locks, manifests and
  schemas beyond the conditions named in the modules; the registers of the
  start policy; a command line with a sidecar; overlapping closures.
- The loop limit of the worker is not counted: the modelled worker may die
  before any command.
