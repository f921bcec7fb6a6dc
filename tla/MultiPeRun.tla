----------------------------- MODULE MultiPeRun -----------------------------
(***************************************************************************)
(* A multi-PE run (runtime/multi_elf.py): AslMultiPeElfRunner.run_image    *)
(* over AslWorkerExecutor in its per-pe scope, one embedded worker with    *)
(* its own byte cache (embedded/Worker.ml) per PE, and the shared host     *)
(* memory.  Rounds are round-robin over the active PEs.  A round is either *)
(* serial, each PE stepping on the central memory in PE order, or, with    *)
(* parallel_pe_steps, speculative: the PEs step at the same time on views  *)
(* of a snapshot, and the round is committed, or given up for a complete   *)
(* serial rerun.                                                           *)
(*                                                                         *)
(* The instructions are whatever the ASL interpreter does: a step is any   *)
(* sequence of byte reads and writes, then an outcome.  Addresses and      *)
(* permissions of the bridge are ParallelMemory's and HostMemory's; here   *)
(* every address is mapped rw.                                             *)
(***************************************************************************)
EXTENDS Integers, FiniteSets

CONSTANTS
  PE, Addr, Byte, NoByte,
  Image,            \* bytes of the loaded image
  Chunk,            \* Chunk[a]: what a mem_read_chunk at a returns
  CacheCapacity,    \* max_cached_bytes
  MaxInstructions,  \* max_instructions
  MaxAccesses       \* bound on the accesses of a PE in one attempt

ASSUME MultiPeRunAssumption ==
  /\ PE \subseteq Nat /\ PE # {} /\ IsFiniteSet(PE)
  /\ IsFiniteSet(Addr) /\ NoByte \notin Byte
  /\ Image \in [Addr -> Byte]
  /\ Chunk \in [Addr -> SUBSET Addr] /\ \A a \in Addr : a \in Chunk[a]
  /\ CacheCapacity \in Nat /\ \A a \in Addr : Cardinality(Chunk[a]) <= CacheCapacity
  /\ MaxInstructions \in Nat \ {0} /\ MaxAccesses \in Nat

VARIABLES
  phase,        \* "start", "loop", "serial", "parallel", "done"
  mode,         \* how this attempt steps: "fixed" when length_bits is given (the
                \* host fetches, and never in parallel), else "parallel" with
                \* parallel_pe_steps and "serial" without, as in the rerun
  termination,  \* termination of the result
  steps,        \* len(steps)
  active, finished, count,     \* PeContext of each PE
  todo,         \* PEs of the round still to be recorded
  scheduled,    \* the PEs of the current round
  running,      \* PEs whose worker is executing
  outcome,      \* outcome of each PE's step in a parallel round
  bytes, generation,           \* the bridge
  cache, gen,   \* MemoryCache of each worker, _worker_memory_generation
  snap,         \* snapshot of the parallel round, the image outside one
  reads, writes,  \* view of each PE; in a serial step, what the step wrote
                \* (these and the next are cleared when a step is recorded)
  observed,     \* history: <<address, value>> the step read, own writes apart
  accesses      \* accesses of each PE in this attempt

control == <<phase, mode, termination, steps, todo, scheduled>>
contexts == <<active, finished, count>>
memory == <<bytes, generation, snap>>
workers == <<cache, gen>>
views == <<reads, writes, observed, accesses>>
vars == <<control, contexts, memory, workers, views, running, outcome>>

NoBytes == [a \in Addr |-> NoByte]
Modes == {"serial", "fixed", "parallel"}

\* An executed instruction raised ASL's terminal event ("finished"), or has a
\* terminal encoding of the completion policy but raised none ("encoding"), or
\* neither ("committed").
Failures == {"rejected", "runtime_error", "step_timeout"}
Outcomes == {"committed", "encoding", "finished"} \cup Failures

\* record_outcome sets finished for a terminal encoding without an event too.
Ends(o) == o \in {"encoding", "finished"}

First(S) == CHOOSE p \in S : \A q \in S : p <= q
Last(S) == CHOOSE p \in S : \A q \in S : q <= p

-----------------------------------------------------------------------------
(* The memory a worker sees, and its cache.                                *)

InRound == phase = "parallel"

\* What the host answers PE p for an address: its view, or the bridge.
HostByte(p, a) ==
  CASE ~InRound -> bytes[a]
    [] InRound /\ writes[p][a] = NoByte -> snap[a]
    [] OTHER -> writes[p][a]

Cached(p) == { a \in Addr : cache[p][a] # NoByte }

\* load_response: a chunk that does not fit empties the cache first.
CacheAfterChunk(p, A) ==
  LET kept == IF Cardinality(Cached(p)) + Cardinality(A) > CacheCapacity
              THEN NoBytes ELSE cache[p]
  IN  [a \in Addr |-> IF a \in A THEN HostByte(p, a) ELSE kept[a]]

\* MemoryCache.write: a full cache is emptied first, for a new address only.
CacheAfterWrite(p, a, v) ==
  LET kept == IF a \notin Cached(p) /\ Cardinality(Cached(p)) >= CacheCapacity
              THEN NoBytes ELSE cache[p]
  IN  [kept EXCEPT ![a] = v]

Observe(p, a, v) ==
  observed' = [observed EXCEPT ![p] =
                 IF writes[p][a] = NoByte THEN @ \cup {<<a, v>>} ELSE @]

MayAccess(p) == p \in running /\ accesses[p] < MaxAccesses
CountAccess(p) == accesses' = [accesses EXCEPT ![p] = @ + 1]

\* HostReadMemoryByte on a cached address: the host is not asked.
ReadHit(p, a) ==
  /\ MayAccess(p) /\ a \in Cached(p)
  /\ Observe(p, a, cache[p][a]) /\ CountAccess(p)
  /\ UNCHANGED <<control, contexts, memory, workers, running, outcome, reads, writes>>

\* HostReadMemoryByte on any other address: the chunk is read through the
\* callback, and recorded by the view in a parallel round.
ReadMiss(p, a) ==
  /\ MayAccess(p) /\ a \notin Cached(p)
  /\ cache' = [cache EXCEPT ![p] = CacheAfterChunk(p, Chunk[a])]
  /\ reads' = [reads EXCEPT ![p] = IF InRound THEN @ \cup Chunk[a] ELSE @]
  /\ Observe(p, a, HostByte(p, a)) /\ CountAccess(p)
  /\ UNCHANGED <<control, contexts, memory, gen, running, outcome, writes>>

\* HostWriteMemoryByte: the host first, then the worker's own cache.
Write(p, a, v) ==
  /\ MayAccess(p)
  /\ writes' = [writes EXCEPT ![p][a] = v]
  /\ bytes' = IF InRound THEN bytes ELSE [bytes EXCEPT ![a] = v]
  /\ generation' = IF InRound THEN generation ELSE generation + 1
  /\ cache' = [cache EXCEPT ![p] = CacheAfterWrite(p, a, v)]
  /\ CountAccess(p)
  /\ UNCHANGED <<control, contexts, snap, gen, running, outcome, reads, observed>>

Access(p) ==
  \E a \in Addr :
    \/ ReadHit(p, a)
    \/ ReadMiss(p, a)
    \/ \E v \in Byte : Write(p, a, v)

-----------------------------------------------------------------------------
(* AslWorkerExecutor.start                                                 *)

Init ==
  /\ mode \in Modes
  /\ phase = "start" /\ termination = "none" /\ steps = 0
  /\ active = PE /\ finished = {} /\ count = [p \in PE |-> 0]
  /\ todo = {} /\ scheduled = {} /\ running = {}
  /\ outcome = [p \in PE |-> "none"]
  /\ bytes = Image /\ generation = 0 /\ snap = Image
  /\ cache = [p \in PE |-> NoBytes] /\ gen = [p \in PE |-> 0]
  /\ reads = [p \in PE |-> {}] /\ writes = [p \in PE |-> NoBytes]
  /\ observed = [p \in PE |-> {}] /\ accesses = [p \in PE |-> 0]

ClearView(p) ==
  /\ reads' = [reads EXCEPT ![p] = {}]
  /\ writes' = [writes EXCEPT ![p] = NoBytes]
  /\ observed' = [observed EXCEPT ![p] = {}]
  /\ UNCHANGED accesses

\* start_context for every PE: all workers answered their first ping.
FinishStart ==
  /\ phase = "start"
  /\ gen' = [p \in PE |-> generation]
  /\ phase' = "loop"
  /\ UNCHANGED <<mode, termination, steps, todo, scheduled, contexts, memory,
                 cache, views, running, outcome>>

\* A worker cannot be started: all are stopped and run_image raises.  So ends
\* an initial source that asks for guest memory: the worker takes the ping for
\* the answer and exits, after a write the host has already carried out.
StartFails ==
  /\ phase = "start"
  /\ phase' = "done" /\ termination' = "raised"
  /\ \/ UNCHANGED memory
     \/ /\ \E a \in Addr, v \in Byte : bytes' = [bytes EXCEPT ![a] = v]
        /\ generation' = generation + 1 /\ UNCHANGED snap
  /\ UNCHANGED <<mode, steps, todo, scheduled, contexts, workers, views, running, outcome>>

-----------------------------------------------------------------------------
(* The main loop of run_image.                                             *)

\* Fault variants: the last active PEs; all active PEs, whatever the budget.
ScheduleLast ==
  { p \in active : Cardinality({ q \in active : q > p }) < MaxInstructions - steps }
ScheduleUncut == active

\* _schedule_contexts, cut to the instructions that are left.
Schedule ==
  { p \in active : Cardinality({ q \in active : q < p }) < MaxInstructions - steps }

BeginRound ==
  /\ phase = "loop" /\ steps < MaxInstructions
  /\ scheduled' = Schedule /\ todo' = Schedule
  /\ IF mode = "parallel" /\ Cardinality(Schedule) > 1
     THEN phase' = "parallel" /\ snap' = bytes
     ELSE phase' = "serial" /\ UNCHANGED snap
  /\ UNCHANGED <<mode, termination, steps, contexts, bytes, generation, workers,
                 views, running, outcome>>

\* The while condition fails: the budget is spent.
BudgetSpent ==
  /\ phase = "loop" /\ steps >= MaxInstructions
  /\ phase' = "done" /\ termination' = "max_instructions"
  /\ UNCHANGED <<mode, steps, todo, scheduled, contexts, memory, workers, views,
                 running, outcome>>

\* Fault variant: a moved generation is recorded but the cache is kept.
SyncKeepsCache(p) == gen' = [gen EXCEPT ![p] = generation] /\ UNCHANGED cache

\* _synchronize_worker_memory
Sync(p) ==
  IF gen[p] = generation
  THEN UNCHANGED <<cache, gen>>
  ELSE /\ cache' = [cache EXCEPT ![p] = NoBytes]
       /\ gen' = [gen EXCEPT ![p] = generation]

\* step_next up to the worker's step_auto: in a serial round the next PE in
\* order, in a parallel round every scheduled PE on a thread of its own.
StepBegin(p) ==
  /\ phase \in {"serial", "parallel"} /\ p \in todo \ running /\ outcome[p] = "none"
  /\ phase = "serial" => running = {} /\ p = First(todo)
  /\ Sync(p)
  /\ running' = running \cup {p}
  /\ UNCHANGED <<control, contexts, memory, views, outcome>>

\* The generation is recorded after a decided step; a host failure raises first.
RecordGeneration(p, o) ==
  gen' = IF o \in {"runtime_error", "step_timeout"} THEN gen
         ELSE [gen EXCEPT ![p] = generation]

\* Fault variant: the status of the step is reported as it is.
TerminationRaw(o) == o

\* The termination record_outcome reports for a failed step.
TerminationOf(o) == IF o = "rejected" THEN "step_failed" ELSE o

\* Fault variant: the run ends as soon as one context is inactive.
EndRoundAny(left) ==
  IF left # PE THEN phase' = "done" /\ termination' = "all_finished"
  ELSE phase' = "loop" /\ UNCHANGED termination

\* After a round: all contexts inactive ends the run, else the loop goes on.
EndRound(left) ==
  IF left = {} THEN phase' = "done" /\ termination' = "all_finished"
  ELSE phase' = "loop" /\ UNCHANGED termination

\* Serial round: the step returns and record_outcome follows at once.
SerialStepOk(p, o) ==
  /\ phase = "serial" /\ p \in running /\ o \notin Failures
  /\ RecordGeneration(p, o)
  /\ count' = [count EXCEPT ![p] = @ + 1] /\ steps' = steps + 1
  /\ active' = IF Ends(o) THEN active \ {p} ELSE active
  /\ finished' = IF Ends(o) THEN finished \cup {p} ELSE finished
  /\ running' = {} /\ todo' = todo \ {p}
  /\ ClearView(p)
  /\ IF todo' = {} THEN EndRound(active') ELSE UNCHANGED <<phase, termination>>
  /\ UNCHANGED <<mode, scheduled, memory, cache, outcome>>

SerialStepFails(p, o) ==
  /\ phase = "serial" /\ p \in running /\ o \in Failures
  /\ RecordGeneration(p, o)
  /\ steps' = steps + 1 /\ active' = active \ {p}
  /\ running' = {} /\ phase' = "done" /\ termination' = TerminationOf(o)
  /\ ClearView(p)
  /\ UNCHANGED <<mode, todo, scheduled, count, finished, memory, cache, outcome>>

\* With a fixed width the host fetches from the image, and may find no
\* instruction at the PE's pc: _failed_fetch_result.
FetchFails(p) ==
  /\ phase = "serial" /\ mode = "fixed" /\ running = {} /\ p = First(todo)
  /\ steps' = steps + 1 /\ active' = active \ {p}
  /\ phase' = "done" /\ termination' = "step_failed"
  /\ UNCHANGED <<mode, todo, scheduled, count, finished, memory, workers, views,
                 running, outcome>>

\* Parallel round: the step returns to the pool.
ParallelStepEnd(p, o) ==
  /\ phase = "parallel" /\ p \in running
  /\ RecordGeneration(p, o)
  /\ outcome' = [outcome EXCEPT ![p] = o]
  /\ running' = running \ {p}
  /\ UNCHANGED <<control, contexts, memory, cache, views>>

-----------------------------------------------------------------------------
(* The end of a parallel round.                                            *)

Written(p) == { a \in Addr : writes[p][a] # NoByte }

RoundComplete ==
  phase = "parallel" /\ \A p \in scheduled : outcome[p] # "none"

Failed == { p \in scheduled : outcome[p] \in Failures }

\* Fault variant: the reads of the earlier PE against the writes of the later.
ConflictReversed == \E p, q \in scheduled : p < q /\ Written(q) \cap reads[p] # {}

\* ParallelMemoryCoordinator.commit: an earlier PE wrote what a later one read.
Conflict == \E p, q \in scheduled : q < p /\ Written(q) \cap reads[p] # {}

\* The first PE failed: its failure is what a serial round would have met first.
FirstFails ==
  LET p == First(scheduled)
  IN  /\ RoundComplete /\ p \in Failed
      /\ steps' = steps + 1 /\ active' = active \ {p}
      /\ phase' = "done" /\ termination' = TerminationOf(outcome[p])
      /\ UNCHANGED <<mode, todo, scheduled, count, finished, memory, workers, views,
                     running, outcome>>

\* The byte after all writes in PE order: the last PE's byte wins.
Merged(a) ==
  LET W == { p \in scheduled : a \in Written(p) }
  IN  IF W = {} THEN bytes[a] ELSE writes[Last(W)][a]

CommitRound ==
  /\ RoundComplete /\ Failed = {} /\ ~Conflict
  /\ bytes' = [a \in Addr |-> Merged(a)]
  /\ generation' = generation +
       Cardinality({ w \in scheduled \X Addr : w[2] \in Written(w[1]) })
  /\ count' = [p \in PE |-> IF p \in scheduled THEN count[p] + 1 ELSE count[p]]
  /\ steps' = steps + Cardinality(scheduled)
  /\ finished' = finished \cup { p \in scheduled : Ends(outcome[p]) }
  /\ active' = active \ { p \in scheduled : Ends(outcome[p]) }
  /\ todo' = {} /\ snap' = Image /\ outcome' = [p \in PE |-> "none"]
  /\ reads' = [p \in PE |-> {}] /\ writes' = [p \in PE |-> NoBytes]
  /\ observed' = [p \in PE |-> {}]
  /\ EndRound(active')
  /\ UNCHANGED <<mode, scheduled, workers, running, accesses>>

\* A later PE failed, or the commit raised: the workers are discarded and
\* run_image runs again from the image, serially.
Rerun(m) ==
  /\ RoundComplete
  /\ \/ Failed # {} /\ First(scheduled) \notin Failed
     \/ Failed = {} /\ Conflict
  /\ mode' = m
  /\ phase' = "start" /\ termination' = "none" /\ steps' = 0
  /\ active' = PE /\ finished' = {} /\ count' = [p \in PE |-> 0]
  /\ todo' = {} /\ scheduled' = {} /\ running' = {}
  /\ outcome' = [p \in PE |-> "none"]
  /\ bytes' = Image /\ generation' = 0 /\ snap' = Image
  /\ cache' = [p \in PE |-> NoBytes] /\ gen' = [p \in PE |-> 0]
  /\ reads' = [p \in PE |-> {}] /\ writes' = [p \in PE |-> NoBytes]
  /\ observed' = [p \in PE |-> {}] /\ accesses' = [p \in PE |-> 0]

\* Fault variant: parallel_pe_steps is left on for the rerun.
FallbackAgain == Rerun(mode)

Fallback == Rerun("serial")

Next ==
  \/ FinishStart \/ StartFails \/ BeginRound \/ BudgetSpent
  \/ FirstFails \/ CommitRound \/ Fallback
  \/ \E p \in PE :
       \/ StepBegin(p) \/ FetchFails(p) \/ Access(p)
       \/ \E o \in Outcomes : SerialStepOk(p, o) \/ SerialStepFails(p, o) \/ ParallelStepEnd(p, o)

Spec == Init /\ [][Next]_vars

\* The runner's own code runs on, and a worker's step ends: the embedded worker
\* answers or its request times out.
FairSpec == Spec /\ WF_vars(Next)

-----------------------------------------------------------------------------
(* Properties.                                                             *)

\* The variables of run_image and of the workers keep their types.
TypeOK ==
  /\ phase \in {"start", "loop", "serial", "parallel", "done"}
  /\ mode \in Modes
  /\ termination \in {"none", "all_finished", "max_instructions", "step_failed",
                      "runtime_error", "step_timeout", "raised"}
  /\ steps \in Nat /\ count \in [PE -> Nat]
  /\ active \subseteq PE /\ finished \subseteq PE
  /\ todo \subseteq PE /\ scheduled \subseteq PE /\ running \subseteq PE
  /\ outcome \in [PE -> Outcomes \cup {"none"}]
  /\ bytes \in [Addr -> Byte] /\ snap \in [Addr -> Byte] /\ generation \in Nat
  /\ cache \in [PE -> [Addr -> Byte \cup {NoByte}]] /\ gen \in [PE -> Nat]
  /\ reads \in [PE -> SUBSET Addr] /\ writes \in [PE -> [Addr -> Byte \cup {NoByte}]]
  /\ observed \in [PE -> SUBSET (Addr \X Byte)] /\ accesses \in [PE -> Nat]

Agrees(p) == \A a \in Cached(p) : cache[p][a] = HostByte(p, a)

\* The generation protocol of _synchronize_worker_memory is enough: a worker
\* that executes, or that would be let through without clearing its cache,
\* holds exactly the bytes the host would answer, whoever wrote them, whatever
\* the cache evicted, and across committed rounds.
CacheCoherent ==
  \A p \in PE :
    p \in running \/ (phase \in {"loop", "serial", "parallel"} /\ gen[p] = generation)
      => Agrees(p)

\* A worker never holds more than max_cached_bytes.
CacheBounded == \A p \in PE : Cardinality(Cached(p)) <= CacheCapacity

\* The value PE p would read at a in a serial round: the last write of the
\* PEs before it, or the round's snapshot.
PeOrderByte(p, a) ==
  LET W == { q \in scheduled : q < p /\ a \in Written(q) }
  IN  IF W = {} THEN snap[a] ELSE writes[Last(W)][a]

Commits == RoundComplete /\ Failed = {} /\ ~Conflict

\* What a round that will commit read through its views is what a serial round
\* in PE order would have read: commit_parallel_round is reached only then.
RecordedReadsInOrder ==
  Commits => \A p \in scheduled : \A r \in observed[p] :
               r[1] \in reads[p] => r[2] = PeOrderByte(p, r[1])

\* The same of everything the PEs read, bytes answered by a worker's own
\* cache included: "rather than changing PE-order behavior" (README.md).
PeOrderObserved ==
  Commits => \A p \in scheduled : \A r \in observed[p] : r[2] = PeOrderByte(p, r[1])

\* Round-robin: no active PE is ever more than one instruction ahead of
\* another, and then it is the one earlier in PE order, also when the budget
\* cuts the last round short and when rounds are committed in parallel.
RoundRobin ==
  \A p, q \in active : p < q => count[p] - count[q] \in {0, 1}

\* The report: every step of it is an instruction of some PE's count, or the
\* one failed step of the PE that ended the run; and it keeps to the budget.
StepsAccounted ==
  /\ steps <= MaxInstructions
  /\ steps = Cardinality({ c \in PE \X (1..MaxInstructions) : c[2] <= count[c[1]] })
             + Cardinality(PE \ (active \cup finished))

\* The termination is earned.  "all_finished": every PE, none excepted by a
\* round cut short, a rollback or a rerun, executed an instruction that raised
\* ASL's terminal event or has a terminal encoding (record_outcome asks for no
\* event; a rejected one never counts).  The budget: it was spent with work
\* left.  A failure: exactly one PE failed, and no PE was dropped beside it.
ResultHonest ==
  /\ termination = "all_finished" => finished = PE
  /\ termination = "max_instructions" => steps = MaxInstructions /\ active # {}
  /\ termination \in {"step_failed", "runtime_error", "step_timeout"} =>
       Cardinality(PE \ (active \cup finished)) = 1

\* Every run ends, with a result or an exception: rounds end whatever PEs fail
\* or conflict in them, and a speculative attempt that is given up is rerun at
\* most once, because the rerun is serial.
RunEnds == <>(phase = "done")
=============================================================================
