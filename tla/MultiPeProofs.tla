--------------------------- MODULE MultiPeProofs ----------------------------
(***************************************************************************)
(* Every step of a multi-PE run keeps the types, keeps the worker caches   *)
(* coherent with the host and within their capacity, and keeps what the    *)
(* views record the snapshot's; the scheduler is round-robin within its    *)
(* instruction budget and accounts for every step.  The facts about finite *)
(* sets the steps need are hypotheses (FiniteFacts, CutFacts, TallyFacts,  *)
(* CacheFacts), proved in the last part.                                   *)
(***************************************************************************)
EXTENDS MultiPeRun, TLAPS

\* What the steps below take from the theory of finite sets; proved from
\* MultiPeRunAssumption as FiniteFactsHold.
FiniteFacts ==
  /\ \A S \in SUBSET PE :
       /\ Cardinality(S) \in Nat
       /\ S # {} => Last(S) \in S /\ First(S) \in S /\ \A q \in S : First(S) <= q
       /\ \A p \in S : Cardinality(S \ {p}) = Cardinality(S) - 1
  /\ Cardinality({}) = 0 /\ \A p \in PE : Cardinality({p}) = 1
  /\ \A S \in SUBSET (PE \X Addr) : Cardinality(S) \in Nat /\ (Cardinality(S) = 0 => S = {})

-----------------------------------------------------------------------------
(* Type correctness.                                                        *)

\* The initial state of a run is well typed.
LEMMA TypeInit == Init => TypeOK
BY MultiPeRunAssumption DEF Init, TypeOK, NoBytes, Outcomes

\* What the host answers is a byte.
LEMMA HostByteType ==
  ASSUME TypeOK, NEW p \in PE, NEW a \in Addr
  PROVE  HostByte(p, a) \in Byte
BY DEF TypeOK, HostByte

\* The result of a committed round is a byte at every address.
LEMMA MergedType ==
  ASSUME FiniteFacts, TypeOK, NEW a \in Addr
  PROVE  Merged(a) \in Byte
<1> DEFINE W == { p \in scheduled : a \in Written(p) }
<1> W \subseteq PE
  BY Zenon DEF TypeOK
<1> W # {} => Last(W) \in W
  BY Zenon DEF FiniteFacts
<1> ASSUME W # {} PROVE writes[Last(W)][a] \in Byte
  BY DEF Written, TypeOK
<1> QED
  BY Zenon DEF Merged, TypeOK

\* The number of bytes a round writes is a natural number, and zero only when
\* no scheduled PE wrote.
LEMMA RoundWrites ==
  ASSUME FiniteFacts, TypeOK
  PROVE  LET n == Cardinality({ w \in scheduled \X Addr : w[2] \in Written(w[1]) })
         IN  n \in Nat /\ (n = 0 => \A p \in scheduled : Written(p) = {})
<1> DEFINE S == { w \in scheduled \X Addr : w[2] \in Written(w[1]) }
<1>1. S \in SUBSET (PE \X Addr)
  BY Zenon DEF TypeOK
<1>2. Cardinality(S) \in Nat /\ (Cardinality(S) = 0 => S = {})
  BY <1>1, Zenon DEF FiniteFacts
<1>3. ASSUME S = {}, NEW p \in scheduled, NEW a \in Written(p) PROVE FALSE
  <2>1. <<p, a>> \in S
    BY Zenon DEF Written
  <2> QED
    BY <2>1, <1>3, Zenon
<1> QED
  BY <1>2, <1>3, Zenon

\* One access of a running worker keeps the types.
LEMMA TypeAccess ==
  ASSUME TypeOK, NEW p \in PE, Access(p)
  PROVE  TypeOK'
<1> PICK a \in Addr : ReadHit(p, a) \/ ReadMiss(p, a) \/ \E v \in Byte : Write(p, a, v)
  BY Zenon DEF Access
<1> USE DEF control, contexts, memory, workers, CountAccess, MayAccess
<1>1. CASE ReadHit(p, a)
  BY <1>1 DEF ReadHit, TypeOK, Observe, Cached
<1>2. CASE ReadMiss(p, a)
  <2> CacheAfterChunk(p, Chunk[a]) \in [Addr -> Byte \cup {NoByte}]
    BY HostByteType DEF CacheAfterChunk, TypeOK, NoBytes
  <2> Chunk[a] \subseteq Addr /\ HostByte(p, a) \in Byte
    BY MultiPeRunAssumption, HostByteType, Zenon
  <2>3. cache' \in [PE -> [Addr -> Byte \cup {NoByte}]]
    BY <1>2, Zenon DEF ReadMiss, TypeOK
  <2>4. observed' \in [PE -> SUBSET (Addr \X Byte)]
    BY <1>2 DEF ReadMiss, TypeOK, Observe
  <2>5. reads' \in [PE -> SUBSET Addr]
    BY <1>2, Zenon DEF ReadMiss, TypeOK
  <2> QED
    BY <1>2, <2>3, <2>4, <2>5 DEF ReadMiss, TypeOK
<1>3. ASSUME NEW v \in Byte, Write(p, a, v) PROVE TypeOK'
  <2> CacheAfterWrite(p, a, v) \in [Addr -> Byte \cup {NoByte}]
    BY Zenon DEF CacheAfterWrite, TypeOK, NoBytes
  <2>2. /\ cache' \in [PE -> [Addr -> Byte \cup {NoByte}]]
        /\ writes' \in [PE -> [Addr -> Byte \cup {NoByte}]]
    BY <1>3, Zenon DEF Write, TypeOK
  <2>4. bytes' \in [Addr -> Byte] /\ generation' \in Nat
    BY <1>3 DEF Write, TypeOK
  <2> QED
    BY <1>3, <2>2, <2>4 DEF Write, TypeOK
<1> QED
  BY <1>1, <1>2, <1>3, Zenon

\* Every step of a run keeps the types.
LEMMA TypeStep ==
  ASSUME FiniteFacts, TypeOK, [Next]_vars
  PROVE  TypeOK'
<1> USE DEF control, contexts, memory, workers, views, Outcomes, Failures, ClearView, NoBytes
<1>1. CASE FinishStart
  BY <1>1, Zenon DEF FinishStart, TypeOK
<1>2. CASE StartFails
  <2>1. /\ snap' = snap /\ generation' \in {generation, generation + 1}
        /\ bytes' = bytes \/ \E a \in Addr, v \in Byte : bytes' = [bytes EXCEPT ![a] = v]
    BY <1>2, Zenon DEF StartFails
  <2>2. bytes \in [Addr -> Byte] /\ generation \in Nat
    BY Zenon DEF TypeOK
  <2>3. bytes' \in [Addr -> Byte]
    BY <2>1, <2>2, Zenon
  <2>4. generation' \in Nat
    BY <2>1, <2>2
  <2> QED
    BY <1>2, <2>1, <2>3, <2>4, Zenon DEF StartFails, TypeOK
<1>3. CASE BeginRound
  BY <1>3, Zenon DEF BeginRound, Schedule, TypeOK
<1>4. CASE BudgetSpent
  BY <1>4, Zenon DEF BudgetSpent, TypeOK
<1>5. CASE FirstFails
  <2>1. outcome[First(scheduled)] \in Failures
    BY <1>5, Zenon DEF FirstFails, Failed
  <2>2. termination' \in {"step_failed", "runtime_error", "step_timeout"}
    BY <1>5, <2>1, Zenon DEF FirstFails, TerminationOf
  <2> QED
    BY <1>5, <2>2 DEF FirstFails, TypeOK
<1>6. CASE CommitRound
  <2>1. bytes' \in [Addr -> Byte]
    BY <1>6, MergedType, Zenon DEF CommitRound
  <2>2. generation' \in Nat
    BY <1>6, RoundWrites DEF CommitRound, TypeOK
  <2>3. steps' \in Nat /\ count' \in [PE -> Nat]
    <3>1. Cardinality(scheduled) \in Nat
      BY Zenon DEF FiniteFacts, TypeOK
    <3> QED
      BY <1>6, <3>1, SMTT(30) DEF CommitRound, TypeOK
  <2>4. phase' \in {"done", "loop"} /\ termination' \in {termination, "all_finished"}
    BY <1>6, Zenon DEF CommitRound, EndRound
  <2> QED
    BY <1>6, <2>1, <2>2, <2>3, <2>4, MultiPeRunAssumption, Zenon DEF CommitRound, TypeOK
<1>7. CASE Fallback
  BY <1>7, MultiPeRunAssumption, Zenon DEF Fallback, Rerun, Modes, TypeOK
<1>8. ASSUME NEW p \in PE,
             StepBegin(p) \/ FetchFails(p)
      PROVE  TypeOK'
  <2>3. CASE StepBegin(p)
    <3>1. cache' \in [PE -> [Addr -> Byte \cup {NoByte}]] /\ gen' \in [PE -> Nat]
      <4>1. CASE gen[p] = generation
        BY <2>3, <4>1, Zenon DEF StepBegin, Sync, TypeOK
      <4>2. CASE gen[p] # generation
        <5>1. /\ cache' = [cache EXCEPT ![p] = NoBytes]
              /\ gen' = [gen EXCEPT ![p] = generation]
          BY <2>3, <4>2, Zenon DEF StepBegin, Sync
        <5>2. NoBytes \in [Addr -> Byte \cup {NoByte}]
          BY Zenon
        <5> HIDE DEF NoBytes
        <5> QED
          BY <5>1, <5>2, Zenon DEF TypeOK
      <4> QED
        BY <4>1, <4>2, Zenon
    <3> QED
      BY <2>3, <3>1, Zenon DEF StepBegin, TypeOK
  <2>4. CASE FetchFails(p)
    BY <2>4 DEF FetchFails, TypeOK
  <2> QED
    BY <1>8, <2>3, <2>4, Zenon
<1>9. ASSUME NEW p \in PE, Access(p) PROVE TypeOK'
  BY <1>9, TypeAccess, Zenon
<1>10. ASSUME NEW p \in PE, NEW o \in Outcomes,
              SerialStepOk(p, o) \/ SerialStepFails(p, o) \/ ParallelStepEnd(p, o)
       PROVE  TypeOK'
  <2>1. CASE SerialStepOk(p, o)
    BY <1>10, <2>1 DEF SerialStepOk, RecordGeneration, EndRound, TypeOK
  <2>2. CASE SerialStepFails(p, o)
    BY <1>10, <2>2, SMTT(30) DEF SerialStepFails, RecordGeneration, TerminationOf, TypeOK
  <2>3. CASE ParallelStepEnd(p, o)
    BY <1>10, <2>3, Zenon DEF ParallelStepEnd, RecordGeneration, TypeOK
  <2> QED
    BY <1>10, <2>1, <2>2, <2>3, Zenon
<1>11. CASE UNCHANGED vars
  BY <1>11, Zenon DEF vars, TypeOK
<1> QED
  BY <1>1, <1>2, <1>3, <1>4, <1>5, <1>6, <1>7, <1>8, <1>9, <1>10, <1>11, Zenon DEF Next

-----------------------------------------------------------------------------
(* The inductive invariant of coherence.                                    *)

ViewClear(p) == writes[p] = NoBytes /\ reads[p] = {} /\ observed[p] = {}

\* Who runs, and whose view holds anything, in each phase.
Phases ==
  /\ phase = "start" => \A p \in PE : Cached(p) = {}
  /\ phase \in {"start", "loop", "done"} => running = {}
  /\ phase = "serial" => \A p, q \in running : p = q
  /\ phase \in {"start", "loop", "serial"} => \A p \in PE \ running : ViewClear(p)
  /\ phase # "parallel" => outcome = [p \in PE |-> "none"] \/ phase = "done"
  /\ phase = "parallel" =>
       /\ snap = bytes /\ todo = scheduled /\ running \subseteq scheduled
       /\ \A p \in PE \ scheduled : ViewClear(p)
       /\ \A p \in PE : outcome[p] = "none" /\ p \notin running => ViewClear(p)
       /\ \A p \in running : outcome[p] = "none"
       /\ \A p \in PE : \A r \in observed[p] : r[2] = snap[r[1]]

GenerationsOld == \A p \in PE : gen[p] <= generation

\* The conjuncts beside TypeOK, and the whole.
Coherent == CacheCoherent /\ Phases /\ GenerationsOld
IInv == TypeOK /\ Coherent

\* A run begins with empty caches and views.
LEMMA InvInit == Init => Coherent
<1> SUFFICES ASSUME Init PROVE Coherent
  BY Zenon
<1> \A p \in PE : Cached(p) = {} /\ ViewClear(p)
  BY Zenon DEF Init, Cached, ViewClear, NoBytes
<1>1. Phases
  BY MultiPeRunAssumption, Zenon DEF Init, Phases
<1>2. CacheCoherent /\ GenerationsOld
  BY MultiPeRunAssumption DEF Init, CacheCoherent, Agrees, GenerationsOld
<1> QED
  BY <1>1, <1>2, Zenon DEF Coherent

\* An access moves no control state; it changes the bridge only outside a
\* round, and then it moves the generation.
LEMMA AccessFrame ==
  ASSUME TypeOK, NEW p \in PE, Access(p)
  PROVE  /\ p \in running /\ gen' = gen
         /\ generation' \in {generation, generation + 1}
         /\ generation' = generation => bytes' = bytes
         /\ phase = "parallel" => generation' = generation
         /\ UNCHANGED <<phase, todo, scheduled, snap, running, outcome>>
<1> PICK a \in Addr : ReadHit(p, a) \/ ReadMiss(p, a) \/ \E v \in Byte : Write(p, a, v)
  BY Zenon DEF Access
<1> generation \in Nat
  BY Zenon DEF TypeOK
<1> QED
  BY SMTT(30) DEF ReadHit, ReadMiss, Write, MayAccess, InRound, control, contexts, memory, workers

\* An access of p touches no cache and no view but p's.
LEMMA AccessOthers ==
  ASSUME TypeOK, NEW p \in PE, Access(p), NEW q \in PE, q # p
  PROVE  /\ cache'[q] = cache[q]
         /\ writes'[q] = writes[q] /\ reads'[q] = reads[q] /\ observed'[q] = observed[q]
<1> PICK a \in Addr : ReadHit(p, a) \/ ReadMiss(p, a) \/ \E v \in Byte : Write(p, a, v)
  BY Zenon DEF Access
<1> /\ cache \in [PE -> [Addr -> Byte \cup {NoByte}]] /\ reads \in [PE -> SUBSET Addr]
    /\ writes \in [PE -> [Addr -> Byte \cup {NoByte}]]
    /\ observed \in [PE -> SUBSET (Addr \X Byte)]
  BY Zenon DEF TypeOK
<1>1. CASE ReadHit(p, a)
  BY <1>1, Zenon DEF ReadHit, Observe, workers
<1>2. CASE ReadMiss(p, a)
  BY <1>2, Zenon DEF ReadMiss, Observe
<1>3. CASE \E v \in Byte : Write(p, a, v)
  BY <1>3, Zenon DEF Write
<1> QED
  BY <1>1, <1>2, <1>3, Zenon

\* A worker's own accesses keep its cache in agreement with what the host
\* would answer it.
LEMMA AccessAgrees ==
  ASSUME TypeOK, NEW p \in PE, Agrees(p), Access(p)
  PROVE  Agrees(p)'
<1> PICK a \in Addr : ReadHit(p, a) \/ ReadMiss(p, a) \/ \E v \in Byte : Write(p, a, v)
  BY Zenon DEF Access
<1> /\ cache \in [PE -> [Addr -> Byte \cup {NoByte}]] /\ bytes \in [Addr -> Byte]
    /\ writes \in [PE -> [Addr -> Byte \cup {NoByte}]]
  BY Zenon DEF TypeOK
<1>1. CASE ReadHit(p, a)
  BY <1>1, Zenon DEF ReadHit, Agrees, Cached, HostByte, InRound, control, memory, workers
<1>2. CASE ReadMiss(p, a)
  <2>1. \A b \in Addr : HostByte(p, b)' = HostByte(p, b)
    BY <1>2, Zenon DEF ReadMiss, HostByte, InRound, control, memory
  <2>2. cache'[p] = CacheAfterChunk(p, Chunk[a])
    BY <1>2, Zenon DEF ReadMiss
  <2>3. ASSUME NEW b \in Addr, cache'[p][b] # NoByte
        PROVE  cache'[p][b] = HostByte(p, b)
    BY <2>2, <2>3, Zenon DEF CacheAfterChunk, Agrees, Cached, NoBytes
  <2> QED
    BY <2>1, <2>3, Zenon DEF Agrees, Cached
<1>3. ASSUME NEW v \in Byte, Write(p, a, v) PROVE Agrees(p)'
  <2>1. /\ writes' = [writes EXCEPT ![p][a] = v] /\ phase' = phase /\ snap' = snap
        /\ bytes' = IF InRound THEN bytes ELSE [bytes EXCEPT ![a] = v]
    BY <1>3, Zenon DEF Write, control
  <2>2. writes'[p][a] = v /\ \A b \in Addr \ {a} : writes'[p][b] = writes[p][b]
    BY <2>1
  <2>3. (~InRound => bytes'[a] = v) /\ \A b \in Addr \ {a} : bytes'[b] = bytes[b]
    BY <2>1, Zenon
  <2>4. HostByte(p, a)' = v
    BY <2>1, <2>2, <2>3, MultiPeRunAssumption, Zenon DEF HostByte, InRound
  <2>5. \A b \in Addr \ {a} : HostByte(p, b)' = HostByte(p, b)
    BY <2>1, <2>2, <2>3, Zenon DEF HostByte, InRound
  <2>6. cache'[p] = CacheAfterWrite(p, a, v)
    BY <1>3, Zenon DEF Write
  <2>7. /\ cache'[p][a] = v
        /\ \A b \in Addr \ {a} : cache'[p][b] \in {NoByte, cache[p][b]}
    BY <2>6, Zenon DEF CacheAfterWrite, NoBytes
  <2> QED
    BY <2>4, <2>5, <2>7, Zenon DEF Agrees, Cached
<1> QED
  BY <1>1, <1>2, <1>3, Zenon

\* In a round, a byte a PE reads and has not written is the snapshot's.
LEMMA AccessObserves ==
  ASSUME TypeOK, NEW p \in PE, Access(p), Agrees(p), phase = "parallel",
         \A r \in observed[p] : r[2] = snap[r[1]]
  PROVE  \A r \in observed'[p] : r[2] = snap[r[1]]
<1> PICK a \in Addr : ReadHit(p, a) \/ ReadMiss(p, a) \/ \E v \in Byte : Write(p, a, v)
  BY Zenon DEF Access
<1> observed \in [PE -> SUBSET (Addr \X Byte)]
  BY Zenon DEF TypeOK
<1>0. writes[p][a] = NoByte => HostByte(p, a) = snap[a]
  BY Zenon DEF HostByte, InRound
<1>1. CASE ReadHit(p, a)
  <2>1. cache[p][a] = HostByte(p, a)
    BY <1>1, Zenon DEF ReadHit, Agrees
  <2> QED
    BY <1>0, <1>1, <2>1, SMTT(30) DEF ReadHit, Observe
<1>2. CASE ReadMiss(p, a)
  BY <1>0, <1>2, SMTT(60) DEF ReadMiss, Observe
<1>3. CASE \E v \in Byte : Write(p, a, v)
  BY <1>3, Zenon DEF Write
<1> QED
  BY <1>1, <1>2, <1>3, Zenon

\* An access of a running worker keeps the invariant.
LEMMA InvAccess ==
  ASSUME NEW p \in PE
  PROVE  IInv /\ TypeOK' /\ Access(p) => Coherent'
<1>0. HAVE IInv /\ TypeOK' /\ Access(p)
<1>1. TypeOK /\ CacheCoherent /\ Phases /\ GenerationsOld
  BY <1>0, Zenon DEF IInv, Coherent
<1>2. /\ p \in running /\ gen' = gen
      /\ generation' \in {generation, generation + 1}
      /\ generation' = generation => bytes' = bytes
      /\ phase = "parallel" => generation' = generation
      /\ UNCHANGED <<phase, todo, scheduled, snap, running, outcome>>
  BY <1>0, <1>1, AccessFrame, Zenon
<1>3. generation \in Nat /\ gen \in [PE -> Nat] /\ running \subseteq PE
  BY <1>1, Zenon DEF TypeOK
<1>4. phase \in {"serial", "parallel"}
  BY <1>1, <1>2, Zenon DEF Phases, TypeOK
<1>5. Agrees(p) /\ Agrees(p)'
  BY <1>0, <1>1, <1>2, AccessAgrees, Zenon DEF CacheCoherent
<1>6. \A q \in PE \ {p} : /\ cache'[q] = cache[q]
                          /\ writes'[q] = writes[q] /\ reads'[q] = reads[q]
                          /\ observed'[q] = observed[q]
  BY <1>0, <1>1, AccessOthers, Zenon
<1>7. ASSUME NEW q \in PE, q # p, generation' = generation, Agrees(q) PROVE Agrees(q)'
  BY <1>2, <1>6, <1>7, Zenon DEF Agrees, Cached, HostByte, InRound
<1>8. GenerationsOld'
  BY <1>1, <1>2, <1>3 DEF GenerationsOld
<1>9. CacheCoherent'
  <2> SUFFICES ASSUME NEW q \in PE, q # p,
                      q \in running' \/ (phase' \in {"loop", "serial", "parallel"}
                                         /\ gen'[q] = generation')
               PROVE  Agrees(q)'
    BY <1>5, Zenon DEF CacheCoherent
  <2>1. CASE generation' = generation
    BY <1>1, <1>2, <1>7, <2>1, Zenon DEF CacheCoherent
  <2>2. CASE generation' # generation
    BY <1>1, <1>2, <1>3, <1>4, <2>2 DEF Phases, GenerationsOld
  <2> QED
    BY <2>1, <2>2, Zenon
<1>10. Phases'
  <2>1. CASE phase = "serial"
    BY <1>1, <1>2, <1>6, <2>1, SMTT(30) DEF Phases, ViewClear
  <2>2. CASE phase = "parallel"
    <3>1. \A r \in observed'[p] : r[2] = snap[r[1]]
      <4>1. \A r \in observed[p] : r[2] = snap[r[1]]
        BY <1>1, <2>2, Zenon DEF Phases
      <4> QED
        BY <1>0, <1>1, <1>5, <2>2, <4>1, AccessObserves, Zenon
    <3>2. p \in scheduled /\ outcome[p] = "none"
      BY <1>1, <1>2, <2>2, Zenon DEF Phases
    <3> QED
      BY <1>1, <1>2, <1>6, <2>2, <3>1, <3>2, SMTT(30) DEF Phases, ViewClear
  <2> QED
    BY <1>4, <2>1, <2>2, Zenon
<1> QED
  BY <1>8, <1>9, <1>10, Zenon DEF Coherent

\* A generation recorded for a worker is the current one, so none is newer.
LEMMA GenerationsMove ==
  ASSUME GenerationsOld, generation \in Nat, gen \in [PE -> Nat], generation' = generation,
         \A q \in PE : gen'[q] \in {gen[q], generation}
  PROVE  GenerationsOld'
BY DEF GenerationsOld

\* The start of the workers keeps the invariant: no worker has read anything
\* when the generation is recorded for it.
LEMMA InvStart ==
  ASSUME IInv, TypeOK', FinishStart \/ StartFails
  PROVE  Coherent'
<1> TypeOK /\ CacheCoherent /\ Phases /\ GenerationsOld
  BY Zenon DEF IInv, Coherent
<1> USE DEF control, contexts, memory, workers, views
<1>2. phase = "start" /\ cache' = cache /\ outcome' = outcome /\ running' = running
  BY Zenon DEF FinishStart, StartFails
<1>3. phase' \in {"loop", "done"} /\ running' = {}
  BY <1>2, Zenon DEF FinishStart, StartFails, Phases
<1>4. \A p \in PE : Agrees(p)'
  BY <1>2, Zenon DEF Phases, Agrees, Cached
<1>5. CacheCoherent'
  BY <1>4, Zenon DEF CacheCoherent
<1>6. GenerationsOld'
  <2>1. CASE FinishStart
    BY <2>1, SMTT(30) DEF GenerationsOld, TypeOK, FinishStart
  <2>2. CASE StartFails
    BY <2>2, SMTT(30) DEF GenerationsOld, TypeOK, StartFails
  <2> QED
    BY <2>1, <2>2, Zenon
<1>7. Phases'
  <2>1. CASE FinishStart
    BY <1>2, <1>3, <2>1, Zenon DEF FinishStart, Phases, ViewClear
  <2>2. CASE StartFails
    BY <1>2, <1>3, <2>2, Zenon DEF StartFails, Phases
  <2> QED
    BY <2>1, <2>2, Zenon
<1> QED
  BY <1>5, <1>6, <1>7, Zenon DEF Coherent

\* Opening a round, or ending the loop, keeps the invariant.
LEMMA InvBegin ==
  ASSUME IInv, TypeOK', BeginRound \/ BudgetSpent
  PROVE  Coherent'
<1> TypeOK /\ CacheCoherent /\ Phases /\ GenerationsOld
  BY Zenon DEF IInv, Coherent
<1> USE DEF control, contexts, memory, workers, views
<1>2. /\ phase = "loop" /\ cache' = cache /\ bytes' = bytes /\ gen' = gen
      /\ generation' = generation /\ outcome' = outcome /\ running' = running
      /\ writes' = writes /\ reads' = reads /\ observed' = observed
      /\ phase' # "start"
  BY Zenon DEF BeginRound, BudgetSpent
<1>3. phase' = "parallel" => snap' = bytes /\ todo' = scheduled' /\ scheduled' \subseteq PE
  BY <1>2, Zenon DEF BeginRound, BudgetSpent, TypeOK
<1>4. running = {} /\ \A p \in PE : ViewClear(p)
  BY <1>2, Zenon DEF Phases
<1>5. \A p \in PE : Agrees(p) => Agrees(p)'
  BY <1>2, <1>3, <1>4 DEF Agrees, Cached, HostByte, InRound, ViewClear, NoBytes
<1>6. CacheCoherent' /\ GenerationsOld'
  BY <1>2, <1>4, <1>5, Zenon DEF CacheCoherent, GenerationsOld
<1>7. \A p \in PE : ViewClear(p)'
  BY <1>2, <1>4, Zenon DEF ViewClear
<1>8. outcome = [p \in PE |-> "none"]
  BY <1>2, Zenon DEF Phases
<1>9. \A p \in PE : observed'[p] = {}
  BY <1>7, Zenon DEF ViewClear
<1>10. Phases'
  BY <1>2, <1>3, <1>4, <1>7, <1>8, <1>9, Zenon DEF Phases
<1> QED
  BY <1>6, <1>10, Zenon DEF Coherent

\* _synchronize_worker_memory keeps the invariant: the worker that starts has
\* a cache of the current generation, or an empty one.
LEMMA InvStepBegin ==
  ASSUME IInv, TypeOK', NEW p \in PE, StepBegin(p)
  PROVE  Coherent'
<1> TypeOK /\ CacheCoherent /\ Phases /\ GenerationsOld
  BY Zenon DEF IInv, Coherent
<1> USE DEF control, contexts, memory, workers, views
<1>2. /\ phase \in {"serial", "parallel"} /\ p \in todo /\ p \notin running
      /\ outcome[p] = "none" /\ (phase = "serial" => running = {})
      /\ running' = running \cup {p}
      /\ UNCHANGED <<phase, todo, scheduled, bytes, generation, snap, reads, writes,
                     observed, outcome>>
  BY Zenon DEF StepBegin
<1>3. /\ gen'[p] = generation
      /\ \A q \in PE \ {p} : gen'[q] = gen[q] /\ cache'[q] = cache[q]
      /\ \/ gen[p] = generation /\ cache'[p] = cache[p]
         \/ cache'[p] = NoBytes
  <2>1. Sync(p)
    BY Zenon DEF StepBegin
  <2>2. CASE gen[p] = generation
    BY <2>1, <2>2, Zenon DEF Sync
  <2>3. CASE gen[p] # generation
    <3>1. /\ cache' = [cache EXCEPT ![p] = NoBytes]
          /\ gen' = [gen EXCEPT ![p] = generation]
      BY <2>1, <2>3, Zenon DEF Sync
    <3> QED
      BY <3>1, Zenon DEF TypeOK
  <2> QED
    BY <2>2, <2>3, Zenon
<1>4. Agrees(p)'
  <2>1. CASE gen[p] = generation /\ cache'[p] = cache[p]
    BY <1>2, <2>1, Zenon DEF CacheCoherent, Agrees, Cached, HostByte, InRound
  <2>2. CASE cache'[p] = NoBytes
    BY <2>2, Zenon DEF Agrees, Cached, NoBytes
  <2> QED
    BY <1>3, <2>1, <2>2, Zenon
<1>5. ASSUME NEW q \in PE, q # p, Agrees(q) PROVE Agrees(q)'
  BY <1>2, <1>3, <1>5, Zenon DEF Agrees, Cached, HostByte, InRound
<1>6. CacheCoherent'
  BY <1>2, <1>3, <1>4, <1>5, Zenon DEF CacheCoherent
<1>7. GenerationsOld'
  <2>1. \A q \in PE : gen'[q] \in {gen[q], generation}
    BY <1>3, Zenon
  <2> QED
    BY <1>2, <2>1, GenerationsMove, Zenon DEF TypeOK
<1>8. Phases'
  BY <1>2, Zenon DEF Phases, ViewClear
<1> QED
  BY <1>6, <1>7, <1>8, Zenon DEF Coherent

\* The end of a serial step, or a failed fetch, keeps the invariant.
LEMMA InvSerialEnd ==
  ASSUME IInv, TypeOK', NEW p \in PE, NEW o \in Outcomes,
         SerialStepOk(p, o) \/ SerialStepFails(p, o) \/ FetchFails(p)
  PROVE  Coherent'
<1> TypeOK /\ CacheCoherent /\ Phases /\ GenerationsOld
  BY Zenon DEF IInv, Coherent
<1> USE DEF control, contexts, memory, workers, views
<1>2. /\ phase = "serial" /\ phase' \in {"serial", "loop", "done"} /\ running' = {}
      /\ UNCHANGED <<scheduled, bytes, generation, snap, cache, outcome>>
  BY Zenon DEF SerialStepOk, SerialStepFails, FetchFails, EndRound
<1>3. \A q \in PE \ running : ViewClear(q)
  BY <1>2, Zenon DEF Phases
<1>4. \A q \in PE : Agrees(q)' = Agrees(q)
  BY <1>2, Zenon DEF Agrees, Cached, HostByte, InRound
<1>5. CASE FetchFails(p)
  BY <1>2, <1>4, <1>5, Zenon DEF Coherent, FetchFails, CacheCoherent, GenerationsOld, Phases
<1>6. CASE SerialStepOk(p, o) \/ SerialStepFails(p, o)
  <2>1. p \in running /\ ClearView(p) /\ RecordGeneration(p, o)
    BY <1>6, Zenon DEF SerialStepOk, SerialStepFails
  <2>2. /\ gen'[p] \in {gen[p], generation}
        /\ \A q \in PE \ {p} : gen'[q] = gen[q]
    BY <2>1, Zenon DEF RecordGeneration, TypeOK
  <2>3. GenerationsOld'
    <3>1. \A q \in PE : gen'[q] \in {gen[q], generation}
      BY <2>2, Zenon
    <3> QED
      BY <1>2, <3>1, GenerationsMove, Zenon DEF TypeOK
  <2>4. CacheCoherent'
    BY <1>2, <1>4, <2>1, <2>2, Zenon DEF CacheCoherent
  <2>5. \A q \in PE : q = p \/ q \notin running
    BY <1>2, <2>1, Zenon DEF Phases
  <2>6. \A q \in PE : ViewClear(q)'
    BY <1>3, <2>1, <2>5, Zenon DEF ClearView, ViewClear, TypeOK
  <2>7. Phases'
    BY <1>2, <2>6, Zenon DEF Phases
  <2> QED
    BY <2>3, <2>4, <2>7, Zenon DEF Coherent
<1> QED
  BY <1>5, <1>6, Zenon

\* The end of a step on a view keeps the invariant.
LEMMA InvParallelEnd ==
  ASSUME IInv, TypeOK', NEW p \in PE, NEW o \in Outcomes, ParallelStepEnd(p, o)
  PROVE  Coherent'
<1> TypeOK /\ CacheCoherent /\ Phases /\ GenerationsOld
  BY Zenon DEF IInv, Coherent
<1> USE DEF control, contexts, memory, workers, views
<1>2. /\ phase = "parallel" /\ p \in running /\ running' = running \ {p}
      /\ UNCHANGED <<phase, todo, scheduled, bytes, generation, snap, cache, reads, writes,
                     observed>>
  BY Zenon DEF ParallelStepEnd
<1>3. outcome'[p] # "none" /\ \A q \in PE \ {p} : outcome'[q] = outcome[q]
  BY Zenon DEF ParallelStepEnd, TypeOK, Outcomes, Failures
<1>4. gen'[p] \in {gen[p], generation} /\ \A q \in PE \ {p} : gen'[q] = gen[q]
  BY Zenon DEF ParallelStepEnd, RecordGeneration, TypeOK
<1>5. \A q \in PE : Agrees(q)' = Agrees(q)
  BY <1>2, Zenon DEF Agrees, Cached, HostByte, InRound
<1>6. CacheCoherent'
  BY <1>2, <1>4, <1>5, Zenon DEF CacheCoherent
<1>7. GenerationsOld'
  <2>1. \A q \in PE : gen'[q] \in {gen[q], generation}
    BY <1>4, Zenon
  <2> QED
    BY <1>2, <2>1, GenerationsMove, Zenon DEF TypeOK
<1>8. \A q \in PE : ViewClear(q)' = ViewClear(q)
  BY <1>2, Zenon DEF ViewClear
<1>9. \A q \in PE : outcome'[q] = "none" /\ q \notin running' => ViewClear(q)'
  BY <1>2, <1>3, <1>8, Zenon DEF Phases
<1>10. \A q \in running' : outcome'[q] = "none"
  BY <1>2, <1>3, Zenon DEF Phases, TypeOK
<1>11. Phases'
  BY <1>2, <1>8, <1>9, <1>10, Zenon DEF Phases
<1> QED
  BY <1>6, <1>7, <1>11, Zenon DEF Coherent

\* The end of a round keeps the invariant.  A committed round that wrote
\* anything moves the generation past every recorded one, so that no cache
\* filled from a view survives it; one that wrote nothing leaves every cache
\* as good as it was.
LEMMA InvRoundEnd ==
  ASSUME FiniteFacts, IInv, TypeOK', FirstFails \/ CommitRound \/ Fallback
  PROVE  Coherent'
<1> TypeOK /\ CacheCoherent /\ Phases /\ GenerationsOld
  BY Zenon DEF IInv, Coherent
<1> USE DEF control, contexts, memory, workers, views
<1>2. phase = "parallel" /\ \A p \in scheduled : outcome[p] # "none"
  BY Zenon DEF FirstFails, CommitRound, Fallback, Rerun, RoundComplete
<1>3. running = {}
  BY <1>2, Zenon DEF Phases
<1>4. CASE FirstFails
  <2>1. phase' = "done" /\ running' = {} /\ gen' = gen /\ generation' = generation
    BY <1>3, <1>4, Zenon DEF FirstFails
  <2>2. CacheCoherent' /\ GenerationsOld' /\ Phases'
    BY <2>1, Zenon DEF CacheCoherent, GenerationsOld, Phases
  <2> QED
    BY <2>2, Zenon DEF Coherent
<1>5. CASE Fallback
  <2>1. \A p \in PE : Cached(p)' = {} /\ ViewClear(p)'
    BY <1>5, Zenon DEF Fallback, Rerun, Cached, ViewClear, NoBytes
  <2> QED
    BY <1>5, <2>1, MultiPeRunAssumption, SMTT(60)
       DEF Coherent, Fallback, Rerun, Phases, CacheCoherent, GenerationsOld, Agrees
<1>6. CASE CommitRound
  <2> DEFINE n == Cardinality({ w \in scheduled \X Addr : w[2] \in Written(w[1]) })
  <2>1. n \in Nat /\ (n = 0 => \A p \in scheduled : Written(p) = {})
    BY RoundWrites, Zenon
  <2>2. generation' = generation + n
    BY <1>6, Zenon DEF CommitRound
  <2>3. /\ phase' \in {"loop", "done"} /\ running' = {} /\ gen' = gen /\ cache' = cache
        /\ bytes' = [a \in Addr |-> Merged(a)]
        /\ outcome' = [p \in PE |-> "none"]
    BY <1>3, <1>6, Zenon DEF CommitRound, EndRound
  <2> HIDE DEF n
  <2>4. GenerationsOld'
    BY <2>1, <2>2, <2>3 DEF GenerationsOld, TypeOK
  <2>5. ASSUME n = 0, NEW p \in PE, Agrees(p) PROVE Agrees(p)'
    <3>1. \A q \in scheduled : Written(q) = {}
      BY <2>1, <2>5, Zenon
    <3>2. bytes' = bytes
      BY <2>3, <3>1, Zenon DEF Merged, TypeOK
    <3>3. writes[p] = NoBytes
      <4>1. CASE p \in scheduled
        BY <3>1, <4>1, Zenon DEF Written, TypeOK, NoBytes
      <4>2. CASE p \notin scheduled
        BY <1>2, <4>2, Zenon DEF Phases, ViewClear
      <4> QED
        BY <4>1, <4>2, Zenon
    <3>4. \A a \in Addr : HostByte(p, a)' = HostByte(p, a)
      BY <1>2, <2>3, <3>2, <3>3, Zenon DEF HostByte, InRound, NoBytes, Phases
    <3> QED
      BY <2>3, <2>5, <3>4, Zenon DEF Agrees, Cached
  <2>6. CacheCoherent'
    <3> SUFFICES ASSUME NEW p \in PE, gen'[p] = generation' PROVE Agrees(p)'
      BY <2>3, Zenon DEF CacheCoherent
    <3>1. n = 0 /\ gen[p] = generation
      BY <2>1, <2>2, <2>3, SMTT(30) DEF GenerationsOld, TypeOK
    <3> QED
      BY <1>2, <2>5, <3>1, Zenon DEF CacheCoherent
  <2>7. \A p \in PE : ViewClear(p)'
    BY <1>6, Zenon DEF CommitRound, ViewClear
  <2>8. Phases'
    BY <2>3, <2>7, Zenon DEF Phases
  <2> QED
    BY <2>4, <2>6, <2>8, Zenon DEF Coherent
<1> QED
  BY <1>4, <1>5, <1>6, Zenon

\* Every step of a run keeps the invariant.
LEMMA InvStep ==
  ASSUME FiniteFacts, IInv, [Next]_vars
  PROVE  IInv'
<1>0. TypeOK'
  BY TypeStep, Zenon DEF IInv
<1>1. CASE Next
  <2>1. ASSUME NEW p \in PE, FetchFails(p) PROVE Coherent'
    <3>1. "committed" \in Outcomes
      BY Zenon DEF Outcomes
    <3> QED
      BY <1>0, <2>1, <3>1, InvSerialEnd, Zenon
  <2>2. ASSUME NEW p \in PE, NEW o \in Outcomes,
               SerialStepOk(p, o) \/ SerialStepFails(p, o) \/ ParallelStepEnd(p, o)
        PROVE  Coherent'
    BY <1>0, <2>2, InvSerialEnd, InvParallelEnd, Zenon
  <2>3. ASSUME NEW p \in PE, StepBegin(p) \/ Access(p) PROVE Coherent'
    BY <1>0, <2>3, InvAccess, InvStepBegin, Zenon
  <2>4. CASE FinishStart \/ StartFails \/ BeginRound \/ BudgetSpent
    BY <1>0, <2>4, InvStart, InvBegin, Zenon DEF IInv
  <2>5. CASE FirstFails \/ CommitRound \/ Fallback
    BY <1>0, <2>5, InvRoundEnd, Zenon DEF IInv
  <2> QED
    BY <1>0, <1>1, <2>1, <2>2, <2>3, <2>4, <2>5, Zenon DEF Next, IInv
<1>2. CASE UNCHANGED vars
  BY <1>0, <1>2 DEF IInv, Coherent, vars, control, contexts, memory, workers, views,
     CacheCoherent, Phases, GenerationsOld, Agrees, Cached, HostByte, InRound, ViewClear
<1> QED
  BY <1>1, <1>2, Zenon

\* 1 for a PE that has had its turn in the round, 0 for the others.
Turned(p) == IF p \in scheduled \ todo THEN 1 ELSE 0

\* Inside a round: the PEs whose turn is over precede those still to come,
\* the scheduled ones are the first active ones, and either all active PEs
\* are scheduled or the round spends the budget exactly.
RoundShape ==
  /\ todo \subseteq scheduled /\ todo \subseteq active
  /\ \A p \in scheduled \ todo, q \in todo : p < q
  /\ \A p \in active, q \in scheduled : p < q => p \in scheduled
  /\ \A p, q \in active : count[p] - count[q] = Turned(p) - Turned(q)
  /\ steps + Cardinality(todo) <= MaxInstructions
  /\ active \subseteq scheduled \/ steps + Cardinality(todo) = MaxInstructions
  /\ phase = "parallel" => todo = scheduled

RoundOpen == todo # {} /\ RoundShape

AllTurned == todo = {}

\* Between rounds: level counts, or no budget left.
LevelOrSpent ==
  /\ steps <= MaxInstructions
  /\ steps < MaxInstructions => \A p, q \in active : count[p] = count[q]

\* Whose worker may be executing in each phase.
Runners ==
  /\ phase \in {"start", "loop"} => running = {}
  /\ phase = "serial" => \A p \in running : p = First(todo)
  /\ phase = "parallel" => \A p \in running : p \in scheduled /\ outcome[p] = "none"

SInv ==
  /\ TypeOK /\ Runners
  /\ active \cap finished = {}
  /\ phase # "done" => termination = "none" /\ active \cup finished = PE
  /\ phase = "start" => active = PE /\ steps = 0 /\ \A p \in PE : count[p] = 0
  /\ phase = "loop" =>
       active # {} /\ LevelOrSpent
  /\ phase \in {"serial", "parallel"} => RoundOpen
  /\ RoundRobin /\ ResultHonest

\* What is taken from the theory of finite sets about cutting a set of PEs to
\* its first k members; proved as CutFactsHold below.
Cut(S, k) == { p \in S : Cardinality({ q \in S : q < p }) < k }

CutFacts ==
  \A S \in SUBSET PE, k \in Nat \ {0} : S # {} =>
    /\ Cut(S, k) # {} /\ Cut(S, k) \subseteq S
    /\ \A p \in S, q \in Cut(S, k) : p < q => p \in Cut(S, k)
    /\ Cardinality(Cut(S, k)) <= k
    /\ S \subseteq Cut(S, k) \/ Cardinality(Cut(S, k)) = k

\* _schedule_contexts with its cut: the first active PEs, as many as the
\* budget allows, or all of them.
LEMMA ScheduleFacts ==
  ASSUME CutFacts, TypeOK, active # {}, steps < MaxInstructions
  PROVE  /\ Schedule # {} /\ Schedule \subseteq active
         /\ \A p \in active, q \in Schedule : p < q => p \in Schedule
         /\ Cardinality(Schedule) <= MaxInstructions - steps
         /\ active \subseteq Schedule \/ Cardinality(Schedule) = MaxInstructions - steps
<1>1. steps \in Nat /\ active \in SUBSET PE
  BY Zenon DEF TypeOK
<1>2. MaxInstructions - steps \in Nat \ {0}
  BY <1>1, MultiPeRunAssumption
<1>3. Schedule = Cut(active, MaxInstructions - steps)
  BY Zenon DEF Schedule, Cut
<1> QED
  BY <1>1, <1>2, <1>3, Zenon DEF CutFacts

\* Steps that move no scheduling state keep the scheduler's invariant.
LEMMA SchedFrame ==
  ASSUME SInv, TypeOK',
         UNCHANGED <<phase, termination, steps, active, finished, count, todo, scheduled>>,
         Runners'
  PROVE  SInv'
BY DEF SInv, RoundOpen, RoundShape, RoundRobin, ResultHonest, Turned, LevelOrSpent

\* The start of the workers, and the rerun after a fallback.
LEMMA SchedStart ==
  ASSUME SInv, TypeOK',
         FinishStart \/ StartFails \/ Fallback
  PROVE  SInv'
<1> USE DEF control, contexts, memory, workers, views
<1>1. CASE FinishStart
  <2>1. /\ phase' = "loop" /\ running = {}
        /\ UNCHANGED <<termination, steps, active, finished, count, running>>
    BY <1>1, Zenon DEF FinishStart, SInv, Runners
  <2>2. active = PE /\ PE # {} /\ steps = 0 /\ 0 <= MaxInstructions
    BY <1>1, MultiPeRunAssumption, SMTT(30) DEF FinishStart, SInv
  <2>3. \A p, q \in active : count[p] = count[q]
    BY <1>1, Zenon DEF FinishStart, SInv
  <2>4. termination = "none" /\ active \cup finished = PE
    BY <1>1, Zenon DEF FinishStart, SInv
  <2>5. active' # {} /\ LevelOrSpent'
    <3>1. active' # {} /\ steps' <= MaxInstructions
      BY <2>1, <2>2, Zenon
    <3>2. \A p, q \in active' : count'[p] = count'[q]
      BY <2>1, <2>3, Zenon
    <3> QED
      BY <3>1, <3>2, Zenon DEF LevelOrSpent
  <2>6. RoundRobin' /\ Runners'
    BY <2>1, Zenon DEF SInv, RoundRobin, Runners
  <2> QED
    BY <2>1, <2>4, <2>5, <2>6, Zenon DEF SInv, ResultHonest
<1>2. CASE StartFails
  BY <1>2, Zenon DEF StartFails, SInv, RoundRobin, ResultHonest, Runners
<1>3. CASE Fallback
  BY <1>3, SMTT(30) DEF Fallback, Rerun, SInv, RoundRobin, ResultHonest, Runners
<1> QED
  BY <1>1, <1>2, <1>3, Zenon

\* Opening a round schedules the first active PEs; the loop ends only when
\* the budget is spent with a PE still active.
LEMMA SchedBegin ==
  ASSUME FiniteFacts, CutFacts, SInv, TypeOK', BeginRound \/ BudgetSpent
  PROVE  SInv'
<1> USE DEF control, contexts, memory, workers, views
<1>1. CASE BudgetSpent
  <2>1. steps = MaxInstructions /\ active # {}
    BY <1>1, MultiPeRunAssumption, SMTT(60) DEF BudgetSpent, SInv, TypeOK, LevelOrSpent
  <2> QED
    BY <1>1, <2>1, Zenon DEF BudgetSpent, SInv, RoundRobin, ResultHonest, Runners
<1>2. CASE BeginRound
  <2>1. /\ phase = "loop" /\ steps < MaxInstructions /\ phase' \in {"serial", "parallel"}
        /\ todo' = Schedule /\ scheduled' = Schedule
        /\ UNCHANGED <<termination, steps, active, finished, count, running>>
    BY <1>2, Zenon DEF BeginRound
  <2>2. /\ Schedule # {} /\ Schedule \subseteq active
        /\ \A p \in active, q \in Schedule : p < q => p \in Schedule
        /\ Cardinality(Schedule) <= MaxInstructions - steps
        /\ active \subseteq Schedule \/ Cardinality(Schedule) = MaxInstructions - steps
    BY <2>1, ScheduleFacts, Zenon DEF SInv
  <2>3. Cardinality(Schedule) \in Nat
    BY <2>2, Zenon DEF FiniteFacts, SInv, TypeOK
  <2>4. /\ steps + Cardinality(Schedule) <= MaxInstructions
        /\ active \subseteq Schedule \/ steps + Cardinality(Schedule) = MaxInstructions
    BY <2>2, <2>3, MultiPeRunAssumption, SMTT(30) DEF SInv, TypeOK
  <2>5. \A p, q \in active : count[p] - count[q] = 0
    BY <2>1, SMTT(30) DEF SInv, TypeOK, LevelOrSpent
  <2>6. running' = {} /\ Runners'
    BY <2>1, Zenon DEF SInv, Runners
  <2>7. RoundOpen'
    BY <2>1, <2>2, <2>4, <2>5, SMTT(30) DEF RoundOpen, RoundShape, Turned
  <2> QED
    BY <2>1, <2>6, <2>7, Zenon DEF SInv, RoundRobin, ResultHonest
<1> QED
  BY <1>1, <1>2, Zenon

\* In a round the PEs ahead are the earlier ones, by one instruction.
LEMMA ShapeRoundRobin == TypeOK /\ RoundShape => RoundRobin
<1> SUFFICES ASSUME TypeOK, RoundShape, NEW p \in active, NEW q \in active, p < q
             PROVE  count[p] - count[q] \in {0, 1}
  BY Zenon DEF RoundRobin
<1>1. count[p] - count[q] = Turned(p) - Turned(q)
  BY Zenon DEF RoundShape
<1>2. ~(p \notin scheduled \ todo /\ q \in scheduled \ todo)
  <2> SUFFICES ASSUME p \notin scheduled \ todo, q \in scheduled \ todo PROVE FALSE
    BY Zenon
  <2>1. p \in todo
    BY Zenon DEF RoundShape
  <2>2. q < p
    BY <2>1, Zenon DEF RoundShape
  <2>3. p \in Nat /\ q \in Nat
    BY MultiPeRunAssumption, Zenon DEF TypeOK
  <2> QED
    BY <2>2, <2>3, SMTT(30)
<1> QED
  BY <1>1, <1>2 DEF Turned

\* When the last turn of a round is recorded, the counts are level again or
\* the budget is spent.
LEMMA ShapeAfterRound ==
  FiniteFacts /\ TypeOK /\ RoundShape /\ AllTurned => LevelOrSpent
<1> SUFFICES ASSUME FiniteFacts, TypeOK, RoundShape, todo = {}
             PROVE  LevelOrSpent
  BY Zenon DEF AllTurned
<1>1. Cardinality(todo) = 0 /\ steps \in Nat /\ MaxInstructions \in Nat
  BY MultiPeRunAssumption, Zenon DEF TypeOK, FiniteFacts
<1>2. steps <= MaxInstructions
  BY <1>1 DEF RoundShape
<1>3. ASSUME steps < MaxInstructions, NEW p \in active, NEW q \in active
      PROVE  count[p] = count[q]
  <2>1. active \subseteq scheduled
    BY <1>1, <1>3 DEF RoundShape
  <2>2. Turned(p) = 1 /\ Turned(q) = 1
    BY <2>1, Zenon DEF Turned
  <2>3. count[p] - count[q] = 0
    BY <2>2, SMTT(30) DEF RoundShape
  <2>4. count[p] \in Nat /\ count[q] \in Nat
    BY Zenon DEF TypeOK
  <2> QED
    BY <2>3, <2>4, SMTT(30)
<1> QED
  BY <1>2, <1>3, Zenon DEF LevelOrSpent

\* The failure of one PE ends the run and leaves just that PE unfinished and
\* inactive.
LEMMA SchedFails ==
  ASSUME FiniteFacts, SInv, TypeOK', NEW p \in active, phase # "done",
         phase' = "done", termination' \in {"step_failed", "runtime_error", "step_timeout"},
         active' = active \ {p}, UNCHANGED <<finished, count>>
  PROVE  SInv'
<1>1. PE \ (active' \cup finished') = {p}
  BY SMTT(30) DEF SInv, TypeOK
<1>2. p \in PE
  BY Zenon DEF SInv, TypeOK
<1>3. Cardinality({p}) = 1
  BY <1>2, Zenon DEF FiniteFacts
<1>4. Cardinality(PE \ (active' \cup finished')) = 1
  BY <1>1, <1>3, Zenon
<1> QED
  BY <1>4, Zenon DEF SInv, RoundRobin, ResultHonest, Runners

\* A recorded round goes on with level counts, or ends the run with every PE
\* finished.
LEMMA SchedEndRound ==
  ASSUME FiniteFacts, SInv, TypeOK', RoundShape', todo' = {}, EndRound(active'), running' = {},
         termination = "none", active' \cap finished' = {}, active' \cup finished' = PE
  PROVE  SInv'
<1>1. RoundRobin'
  BY ShapeRoundRobin, PTL
<1>2. AllTurned'
  BY Zenon DEF AllTurned
<1>3. LevelOrSpent'
  BY <1>2, ShapeAfterRound, PTL
<1>4. CASE active' = {}
  BY <1>1, <1>4, Zenon DEF EndRound, SInv, ResultHonest, Runners
<1>5. CASE active' # {}
  BY <1>1, <1>3, <1>5, Zenon DEF EndRound, SInv, ResultHonest, Runners
<1> QED
  BY <1>4, <1>5, Zenon

\* A recorded serial step passes the turn to the next PE.
LEMMA SchedSerialOk ==
  ASSUME FiniteFacts, SInv, TypeOK', NEW p \in PE, NEW o \in Outcomes, SerialStepOk(p, o)
  PROVE  SInv'
<1> USE DEF control, contexts, memory, workers, views
<1>1. /\ phase = "serial" /\ todo # {} /\ RoundShape /\ p = First(todo)
      /\ termination = "none" /\ active \cup finished = PE /\ active \cap finished = {}
  BY Zenon DEF SerialStepOk, SInv, Runners, RoundOpen
<1>2. p \in todo /\ \A q \in todo : p <= q
  BY <1>1, Zenon DEF FiniteFacts, SInv, TypeOK
<1>3. /\ todo' = todo \ {p} /\ scheduled' = scheduled /\ running' = {}
      /\ steps' = steps + 1 /\ count' = [count EXCEPT ![p] = @ + 1]
      /\ active' \in {active, active \ {p}}
  BY Zenon DEF SerialStepOk
<1>4. active' \cap finished' = {} /\ active' \cup finished' = PE
  BY <1>1, Zenon DEF SerialStepOk
<1>5. p \in active /\ p \in scheduled
  BY <1>1, <1>2, Zenon DEF RoundShape
<1>6. steps' + Cardinality(todo') = steps + Cardinality(todo)
  <2>2. Cardinality(todo) \in Nat /\ Cardinality(todo') = Cardinality(todo) - 1
    BY <1>2, <1>3, Zenon DEF FiniteFacts, SInv, TypeOK
  <2> QED
    BY <2>2, <1>3, SMTT(30) DEF SInv, TypeOK
<1>7. /\ Turned(p)' = Turned(p) + 1
      /\ \A q \in active : q # p => Turned(q)' = Turned(q)
  BY <1>2, <1>3, <1>5, SMTT(30) DEF Turned
<1>8. \A a, b \in active' : count'[a] - count'[b] = Turned(a)' - Turned(b)'
  <2> SUFFICES ASSUME NEW a \in active, NEW b \in active
               PROVE  count'[a] - count'[b] = Turned(a)' - Turned(b)'
    BY <1>3, Zenon
  <2>1. count[a] - count[b] = Turned(a) - Turned(b)
    BY <1>1, Zenon DEF RoundShape
  <2>2. count[a] \in Nat /\ count[b] \in Nat /\ Turned(a) \in Nat /\ Turned(b) \in Nat
    BY Zenon DEF SInv, TypeOK, Turned
  <2>3. count'[a] = (IF a = p THEN count[a] + 1 ELSE count[a])
    BY <1>3, Zenon DEF SInv, TypeOK
  <2>4. count'[b] = (IF b = p THEN count[b] + 1 ELSE count[b])
    BY <1>3, Zenon DEF SInv, TypeOK
  <2>5. Turned(a)' = (IF a = p THEN Turned(a) + 1 ELSE Turned(a))
    BY <1>7, Zenon
  <2>6. Turned(b)' = (IF b = p THEN Turned(b) + 1 ELSE Turned(b))
    BY <1>7, Zenon
  <2> QED
    BY <2>1, <2>2, <2>3, <2>4, <2>5, <2>6, SMTT(30)
<1>9. \A a \in scheduled' \ todo', b \in todo' : a < b
  <2> SUFFICES ASSUME NEW a \in scheduled, a \notin todo \/ a = p,
                      NEW b \in todo, b # p
               PROVE  a < b
    BY <1>3, Zenon
  <2>1. CASE a = p
    <3>1. p \in Nat /\ b \in Nat /\ p <= b
      BY <1>2, MultiPeRunAssumption, Zenon DEF SInv, TypeOK
    <3> QED
      BY <2>1, <3>1, SMTT(30)
  <2>2. CASE a # p
    BY <2>2, <1>1, Zenon DEF RoundShape
  <2> QED
    BY <2>1, <2>2, Zenon
<1>10. RoundShape'
  <2>1. todo' \subseteq scheduled' /\ todo' \subseteq active'
    BY <1>1, <1>3, Zenon DEF RoundShape
  <2>2. \A a \in active', b \in scheduled' : a < b => a \in scheduled'
    BY <1>1, <1>3, Zenon DEF RoundShape
  <2>3. /\ steps' + Cardinality(todo') <= MaxInstructions
        /\ active' \subseteq scheduled' \/ steps' + Cardinality(todo') = MaxInstructions
    BY <1>1, <1>3, <1>6, Zenon DEF RoundShape
  <2>4. phase' # "parallel"
    BY <1>1, Zenon DEF SerialStepOk, EndRound
  <2> QED
    BY <1>8, <1>9, <2>1, <2>2, <2>3, <2>4, Zenon DEF RoundShape
<1>11. CASE todo' = {}
  <2>1. EndRound(active')
    BY <1>11, Zenon DEF SerialStepOk
  <2> QED
    BY <1>1, <1>3, <1>4, <1>10, <1>11, <2>1, SchedEndRound, Zenon
<1>12. CASE todo' # {}
  <2>1. phase' = "serial" /\ termination' = "none"
    BY <1>1, <1>12, Zenon DEF SerialStepOk
  <2>2. RoundRobin'
    BY <1>10, ShapeRoundRobin, PTL
  <2> QED
    BY <1>3, <1>4, <1>10, <1>12, <2>1, <2>2, Zenon DEF SInv, RoundOpen, ResultHonest, Runners
<1> QED
  BY <1>11, <1>12, Zenon

\* A committed round records one turn of every scheduled PE.
LEMMA SchedCommit ==
  ASSUME FiniteFacts, SInv, TypeOK', CommitRound
  PROVE  SInv'
<1> USE DEF control, contexts, memory, workers, views
<1>1. /\ phase = "parallel" /\ RoundShape /\ todo = scheduled
      /\ termination = "none" /\ active \cup finished = PE /\ active \cap finished = {}
  BY Zenon DEF CommitRound, RoundComplete, SInv, RoundOpen, RoundShape
<1>2. running = {}
  BY <1>1, Zenon DEF CommitRound, RoundComplete, SInv, Runners
<1>3. /\ todo' = {} /\ scheduled' = scheduled /\ running' = {}
      /\ steps' = steps + Cardinality(todo)
      /\ count' = [p \in PE |-> IF p \in scheduled THEN count[p] + 1 ELSE count[p]]
      /\ active' \subseteq active
      /\ EndRound(active') /\ phase' # "parallel"
  BY <1>1, <1>2, Zenon DEF CommitRound, EndRound
<1>4. active' \cap finished' = {} /\ active' \cup finished' = PE
  BY <1>1, Zenon DEF CommitRound, RoundShape
<1>5. Cardinality(todo) \in Nat /\ Cardinality(todo') = 0
  BY <1>3, Zenon DEF FiniteFacts, SInv, TypeOK
<1>6. steps' + Cardinality(todo') = steps + Cardinality(todo)
  BY <1>3, <1>5, SMTT(30) DEF SInv, TypeOK
<1>7. \A a, b \in active' : count'[a] - count'[b] = Turned(a)' - Turned(b)'
  <2> SUFFICES ASSUME NEW a \in active, NEW b \in active
               PROVE  count'[a] - count'[b] = Turned(a)' - Turned(b)'
    BY <1>3, Zenon
  <2>1. count[a] - count[b] = 0 /\ count[a] \in Nat /\ count[b] \in Nat
    BY <1>1, SMTT(60) DEF RoundShape, Turned, SInv, TypeOK
  <2>2. /\ count'[a] = (IF a \in scheduled THEN count[a] + 1 ELSE count[a])
        /\ count'[b] = (IF b \in scheduled THEN count[b] + 1 ELSE count[b])
    BY <1>3, Zenon DEF SInv, TypeOK
  <2>3. /\ Turned(a)' = (IF a \in scheduled THEN 1 ELSE 0)
        /\ Turned(b)' = (IF b \in scheduled THEN 1 ELSE 0)
    BY <1>3, Zenon DEF Turned
  <2> QED
    BY <2>1, <2>2, <2>3, SMTT(60)
<1>8. RoundShape'
  <2>1. \A a \in active', b \in scheduled' : a < b => a \in scheduled'
    BY <1>1, <1>3, Zenon DEF RoundShape
  <2>2. /\ steps' + Cardinality(todo') <= MaxInstructions
        /\ active' \subseteq scheduled' \/ steps' + Cardinality(todo') = MaxInstructions
    BY <1>1, <1>3, <1>6, Zenon DEF RoundShape
  <2> QED
    BY <1>3, <1>7, <2>1, <2>2, Zenon DEF RoundShape
<1> QED
  BY <1>1, <1>3, <1>4, <1>8, SchedEndRound, Zenon

\* Every step of a run keeps the scheduler's invariant.
LEMMA SchedStep ==
  ASSUME FiniteFacts, CutFacts, SInv, [Next]_vars
  PROVE  SInv'
<1> USE DEF control, contexts, memory, workers, views
<1>1. TypeOK'
  BY TypeStep, Zenon DEF SInv
<1>2. CASE UNCHANGED vars
  <2>1. Runners'
    BY <1>2, Zenon DEF vars, SInv, Runners
  <2> QED
    BY <1>1, <1>2, <2>1, SchedFrame, Zenon DEF vars
<1>3. CASE FirstFails
  <2>1. First(scheduled) \in scheduled /\ outcome[First(scheduled)] \in Failures
    BY <1>3, Zenon DEF FirstFails, Failed
  <2>2. First(scheduled) \in active /\ phase = "parallel"
    BY <1>3, <2>1, Zenon DEF FirstFails, RoundComplete, SInv, RoundOpen, RoundShape
  <2>3. termination' \in {"step_failed", "runtime_error", "step_timeout"}
    BY <1>3, <2>1, Zenon DEF FirstFails, TerminationOf, Failures
  <2> QED
    BY <1>1, <1>3, <2>2, <2>3, SchedFails, Zenon DEF FirstFails
<1>4. ASSUME phase = "serial" PROVE First(todo) \in active /\ First(todo) \in todo
  <2>1. todo # {} /\ todo \subseteq active /\ todo \subseteq PE
    BY <1>4, Zenon DEF SInv, RoundOpen, RoundShape, TypeOK
  <2> QED
    BY <2>1, Zenon DEF FiniteFacts
<1>5. ASSUME NEW p \in PE, FetchFails(p) PROVE SInv'
  BY <1>1, <1>4, <1>5, SchedFails, Zenon DEF FetchFails
<1>6. ASSUME NEW p \in PE, StepBegin(p) PROVE SInv'
  <2>1. Runners'
    BY <1>6, Zenon DEF StepBegin, SInv, Runners, RoundOpen, RoundShape
  <2> QED
    BY <1>1, <1>6, <2>1, SchedFrame, Zenon DEF StepBegin
<1>7. ASSUME NEW p \in PE, Access(p) PROVE SInv'
  <2>1. UNCHANGED <<phase, termination, steps, active, finished, count, todo, scheduled,
                   running, outcome>>
    BY <1>7, Zenon DEF Access, ReadHit, ReadMiss, Write
  <2>2. Runners'
    BY <2>1, Zenon DEF SInv, Runners
  <2> QED
    BY <1>1, <2>1, <2>2, SchedFrame, Zenon
<1>8. ASSUME NEW p \in PE, NEW o \in Outcomes, SerialStepFails(p, o) PROVE SInv'
  <2>1. phase = "serial" /\ p \in active
    BY <1>4, <1>8, Zenon DEF SerialStepFails, SInv, Runners
  <2>2. termination' \in {"step_failed", "runtime_error", "step_timeout"}
    BY <1>8, Zenon DEF SerialStepFails, TerminationOf, Failures
  <2> QED
    BY <1>1, <1>8, <2>1, <2>2, SchedFails, Zenon DEF SerialStepFails
<1>9. ASSUME NEW p \in PE, NEW o \in Outcomes, ParallelStepEnd(p, o) PROVE SInv'
  <2>1. Runners'
    BY <1>9, Zenon DEF ParallelStepEnd, SInv, Runners, TypeOK
  <2> QED
    BY <1>1, <1>9, <2>1, SchedFrame, Zenon DEF ParallelStepEnd
<1> QED
  BY <1>1, <1>2, <1>3, <1>5, <1>6, <1>7, <1>8, <1>9, SchedStart, SchedBegin, SchedCommit,
     SchedSerialOk, Zenon DEF Next

\* The initial state satisfies the scheduler's invariant.
LEMMA SchedInit == Init => SInv
BY TypeInit DEF Init, SInv, Runners, RoundRobin, ResultHonest

-----------------------------------------------------------------------------
(* The capacity of the workers' caches.                                     *)

\* What is taken from the theory of finite sets about sets of addresses;
\* proved as CacheFactsHold below.
CacheFacts ==
  /\ \A A, B \in SUBSET Addr :
       /\ Cardinality(A) \in Nat
       /\ Cardinality(A \cup B) <= Cardinality(A) + Cardinality(B)
       /\ A \subseteq B => Cardinality(A) <= Cardinality(B)
  /\ Cardinality({}) = 0 /\ \A a \in Addr : Cardinality({a}) = 1

\* A chunk fits: beside what the cache holds, or alone after load_response
\* emptied it.
LEMMA ChunkFits ==
  ASSUME CacheFacts, TypeOK, NEW p \in PE, NEW a \in Addr,
         Cardinality(Cached(p)) <= CacheCapacity,
         cache'[p] = CacheAfterChunk(p, Chunk[a])
  PROVE  Cardinality(Cached(p)') <= CacheCapacity
<1>1. /\ Chunk[a] \in SUBSET Addr /\ Cached(p) \in SUBSET Addr /\ Cached(p)' \in SUBSET Addr
      /\ Cardinality(Chunk[a]) <= CacheCapacity /\ CacheCapacity \in Nat
  BY MultiPeRunAssumption, Zenon DEF Cached
<1>2. Cached(p) \cup Chunk[a] \in SUBSET Addr
  BY <1>1, Zenon
<1>3. /\ Cardinality(Chunk[a]) \in Nat /\ Cardinality(Cached(p)) \in Nat
      /\ Cardinality(Cached(p)') \in Nat /\ Cardinality(Cached(p) \cup Chunk[a]) \in Nat
      /\ Cardinality(Cached(p) \cup Chunk[a]) <= Cardinality(Cached(p)) + Cardinality(Chunk[a])
  BY <1>1, <1>2, Zenon DEF CacheFacts
<1>4. CASE Cardinality(Cached(p)) + Cardinality(Chunk[a]) > CacheCapacity
  <2>1. Cached(p)' \subseteq Chunk[a]
    BY <1>4, Zenon DEF Cached, CacheAfterChunk, NoBytes
  <2>2. Cardinality(Cached(p)') <= Cardinality(Chunk[a])
    BY <1>1, <2>1, Zenon DEF CacheFacts
  <2> HIDE DEF Cached
  <2> QED
    BY <1>1, <1>3, <2>2
<1>5. CASE ~(Cardinality(Cached(p)) + Cardinality(Chunk[a]) > CacheCapacity)
  <2>1. Cached(p)' \subseteq Cached(p) \cup Chunk[a]
    BY <1>5, Zenon DEF Cached, CacheAfterChunk
  <2>2. Cardinality(Cached(p)') <= Cardinality(Cached(p) \cup Chunk[a])
    BY <1>1, <1>2, <2>1, Zenon DEF CacheFacts
  <2> QED
    BY <1>1, <1>3, <1>5, <2>2
<1> QED
  BY <1>4, <1>5, Zenon

\* A written byte fits: the address is cached already, or there is room for
\* it, if need be after MemoryCache.write emptied the cache.
LEMMA ByteFits ==
  ASSUME CacheFacts, TypeOK, NEW p \in PE, NEW a \in Addr, NEW v \in Byte,
         Cardinality(Cached(p)) <= CacheCapacity,
         cache'[p] = CacheAfterWrite(p, a, v)
  PROVE  Cardinality(Cached(p)') <= CacheCapacity
<1>0. cache[p] \in [Addr -> Byte \cup {NoByte}]
  BY Zenon DEF TypeOK
<1>1. /\ Chunk[a] \in SUBSET Addr /\ Cached(p) \in SUBSET Addr /\ Cached(p)' \in SUBSET Addr
      /\ {a} \in SUBSET Chunk[a] /\ {a} \in SUBSET Addr
      /\ Cardinality(Chunk[a]) <= CacheCapacity /\ CacheCapacity \in Nat
  BY MultiPeRunAssumption, Zenon DEF Cached
<1>2. Cached(p) \cup {a} \in SUBSET Addr
  BY <1>1, Zenon
<1>3. /\ Cardinality(Chunk[a]) \in Nat /\ Cardinality(Cached(p)) \in Nat
      /\ Cardinality(Cached(p)') \in Nat /\ Cardinality(Cached(p) \cup {a}) \in Nat
      /\ Cardinality(Cached(p) \cup {a}) <= Cardinality(Cached(p)) + Cardinality({a})
      /\ Cardinality({a}) = 1 /\ Cardinality({a}) <= Cardinality(Chunk[a])
  BY <1>1, <1>2, Zenon DEF CacheFacts
<1>4. CASE a \in Cached(p)
  <2>1. Cached(p)' \subseteq Cached(p)
    <3>1. cache'[p] = [cache[p] EXCEPT ![a] = v]
      BY <1>4, Zenon DEF CacheAfterWrite
    <3>2. \A b \in Addr \ {a} : cache'[p][b] = cache[p][b]
      BY <1>0, <3>1, Zenon
    <3> QED
      BY <3>2, <1>4, Zenon DEF Cached
  <2>2. Cardinality(Cached(p)') <= Cardinality(Cached(p))
    BY <1>1, <2>1, Zenon DEF CacheFacts
  <2> QED
    BY <1>1, <1>3, <2>2
<1>5. CASE a \notin Cached(p) /\ Cardinality(Cached(p)) >= CacheCapacity
  <2>1. Cached(p)' \subseteq {a}
    BY <1>5, Zenon DEF Cached, CacheAfterWrite, NoBytes
  <2>2. Cardinality(Cached(p)') <= Cardinality({a})
    BY <1>1, <2>1, Zenon DEF CacheFacts
  <2> QED
    BY <1>1, <1>3, <2>2
<1>6. CASE a \notin Cached(p) /\ ~(Cardinality(Cached(p)) >= CacheCapacity)
  <2>1. Cached(p)' \subseteq Cached(p) \cup {a}
    <3>1. cache'[p] = [cache[p] EXCEPT ![a] = v]
      BY <1>6, Zenon DEF CacheAfterWrite
    <3>2. \A b \in Addr \ {a} : cache'[p][b] = cache[p][b]
      BY <1>0, <3>1, Zenon
    <3> QED
      BY <3>2, Zenon DEF Cached
  <2>2. Cardinality(Cached(p)') <= Cardinality(Cached(p) \cup {a})
    BY <1>1, <1>2, <2>1, Zenon DEF CacheFacts
  <2> QED
    BY <1>1, <1>3, <1>6, <2>2
<1> QED
  BY <1>4, <1>5, <1>6, Zenon

\* An empty cache is within any capacity.
LEMMA EmptyFits ==
  ASSUME CacheFacts, NEW p \in PE, cache'[p] = NoBytes
  PROVE  Cardinality(Cached(p)') <= CacheCapacity
<1>1. Cached(p)' = {}
  BY Zenon DEF Cached, NoBytes
<1>2. Cardinality(Cached(p)') = 0
  BY <1>1, Zenon DEF CacheFacts
<1> QED
  BY <1>2, MultiPeRunAssumption

\* Every step keeps the caches within their capacity.
LEMMA BoundedStep ==
  ASSUME CacheFacts, TypeOK, CacheBounded, [Next]_vars
  PROVE  CacheBounded'
<1> USE DEF control, contexts, memory, workers, views
<1>0. cache \in [PE -> [Addr -> Byte \cup {NoByte}]]
  BY Zenon DEF TypeOK
<1>1. ASSUME UNCHANGED cache PROVE CacheBounded'
  BY <1>1, Zenon DEF CacheBounded, Cached
<1>2. ASSUME NEW p \in PE, \A q \in PE \ {p} : cache'[q] = cache[q],
             Cardinality(Cached(p)') <= CacheCapacity
      PROVE  CacheBounded'
  BY <1>2, Zenon DEF CacheBounded, Cached
<1>3. ASSUME NEW p \in PE, NEW f, cache' = [cache EXCEPT ![p] = f]
      PROVE  cache'[p] = f /\ \A q \in PE \ {p} : cache'[q] = cache[q]
  BY <1>0, <1>3, Zenon
<1>4. ASSUME NEW p \in PE, Access(p) PROVE CacheBounded'
  <2>1. Cardinality(Cached(p)) <= CacheCapacity
    BY Zenon DEF CacheBounded
  <2>2. PICK a \in Addr : ReadHit(p, a) \/ ReadMiss(p, a) \/ \E v \in Byte : Write(p, a, v)
    BY <1>4, Zenon DEF Access
  <2>3. CASE ReadHit(p, a)
    BY <2>3, <1>1, Zenon DEF ReadHit
  <2>4. CASE ReadMiss(p, a)
    <3>1. cache' = [cache EXCEPT ![p] = CacheAfterChunk(p, Chunk[a])]
      BY <2>4, Zenon DEF ReadMiss
    <3> QED
      BY <1>2, <1>3, <2>1, <3>1, ChunkFits, Zenon
  <2>5. ASSUME NEW v \in Byte, Write(p, a, v) PROVE CacheBounded'
    <3>1. cache' = [cache EXCEPT ![p] = CacheAfterWrite(p, a, v)]
      BY <2>5, Zenon DEF Write
    <3> QED
      BY <1>2, <1>3, <2>1, <3>1, ByteFits, Zenon
  <2> QED
    BY <2>2, <2>3, <2>4, <2>5, Zenon
<1>5. ASSUME NEW p \in PE, StepBegin(p) PROVE CacheBounded'
  <2>1. Sync(p)
    BY <1>5, Zenon DEF StepBegin
  <2>2. UNCHANGED cache \/ cache' = [cache EXCEPT ![p] = NoBytes]
    BY <2>1, Zenon DEF Sync
  <2> QED
    BY <1>1, <1>2, <1>3, <2>2, EmptyFits, Zenon
<1>6. CASE Fallback
  <2>1. \A p \in PE : cache'[p] = NoBytes
    BY <1>6, Zenon DEF Fallback, Rerun
  <2> QED
    BY <2>1, EmptyFits, Zenon DEF CacheBounded
<1>7. CASE FinishStart \/ StartFails \/ BeginRound \/ BudgetSpent \/ FirstFails \/ CommitRound
  BY <1>1, <1>7, Zenon DEF FinishStart, StartFails, BeginRound, BudgetSpent, FirstFails, CommitRound
<1>8. ASSUME NEW p \in PE, NEW o \in Outcomes,
             FetchFails(p) \/ SerialStepOk(p, o) \/ SerialStepFails(p, o) \/ ParallelStepEnd(p, o)
      PROVE  CacheBounded'
  BY <1>1, <1>8, Zenon DEF FetchFails, SerialStepOk, SerialStepFails, ParallelStepEnd
<1>9. CASE UNCHANGED vars
  BY <1>1, <1>9, Zenon DEF vars
<1>10. "committed" \in Outcomes
  BY Zenon DEF Outcomes
<1> QED
  BY <1>4, <1>5, <1>6, <1>7, <1>8, <1>9, <1>10, Zenon DEF Next

-----------------------------------------------------------------------------
(* The account of the steps.                                                *)

\* The instructions of all PEs' counts, as StepsAccounted lists them, and the
\* counts after one more instruction of each PE of S.
Cells(f) == { c \in PE \X (1..MaxInstructions) : c[2] <= f[c[1]] }
Bumped(f, S) == [p \in PE |-> IF p \in S THEN f[p] + 1 ELSE f[p]]

\* What is taken from the theory of finite sets about them; proved as
\* TallyFactsHold below.
TallyFacts ==
  /\ Cardinality(Cells([p \in PE |-> 0])) = 0
  /\ \A f \in [PE -> Nat] :
       /\ Cardinality(Cells(f)) \in Nat
       /\ \A p \in PE : f[p] <= MaxInstructions => f[p] <= Cardinality(Cells(f))
       /\ \A S \in SUBSET PE :
            (\A p \in S : f[p] < MaxInstructions) =>
              Cardinality(Cells(Bumped(f, S))) = Cardinality(Cells(f)) + Cardinality(S)

\* The account, with every count within the budget.
AInv == StepsAccounted /\ \A p \in PE : count[p] <= MaxInstructions

\* Every step recorded so far is an instruction of a count, while the run
\* goes on.
LEMMA AllCounted ==
  ASSUME FiniteFacts, TallyFacts, SInv, AInv, phase # "done"
  PROVE  /\ steps = Cardinality(Cells(count)) /\ steps \in Nat /\ steps <= MaxInstructions
         /\ \A p \in PE : count[p] <= steps
<1>1. PE \ (active \cup finished) = {} /\ count \in [PE -> Nat] /\ steps \in Nat
  BY Zenon DEF SInv, TypeOK
<1>2. Cardinality(PE \ (active \cup finished)) = 0
  BY <1>1, Zenon DEF FiniteFacts
<1>3. /\ Cardinality(Cells(count)) \in Nat
      /\ \A p \in PE : count[p] <= Cardinality(Cells(count))
  BY <1>1, Zenon DEF TallyFacts, AInv
<1>4. /\ steps = Cardinality(Cells(count)) + Cardinality(PE \ (active \cup finished))
      /\ steps <= MaxInstructions
  BY Zenon DEF AInv, StepsAccounted, Cells
<1>5. steps = Cardinality(Cells(count))
  BY <1>2, <1>3, <1>4
<1> QED
  BY <1>1, <1>3, <1>4, <1>5, Zenon

\* An instruction of each PE of S, recorded within the budget, is accounted.
LEMMA TallyOk ==
  ASSUME FiniteFacts, TallyFacts, SInv, AInv, phase # "done",
         NEW S \in SUBSET PE, S # {}, steps + Cardinality(S) <= MaxInstructions,
         count' = Bumped(count, S), steps' = steps + Cardinality(S),
         active' \cup finished' = PE
  PROVE  AInv'
<1>1. /\ steps = Cardinality(Cells(count)) /\ steps \in Nat /\ steps <= MaxInstructions
      /\ \A p \in PE : count[p] <= steps
  BY AllCounted, Zenon
<1>2. Cardinality(S) \in Nat /\ \A p \in S : Cardinality(S \ {p}) = Cardinality(S) - 1
  BY Zenon DEF FiniteFacts
<1>3. PICK x \in S : TRUE
  BY Zenon
<1>4. Cardinality(S) >= 1
  <2>1. Cardinality(S \ {x}) \in Nat /\ Cardinality(S \ {x}) = Cardinality(S) - 1
    BY <1>2, Zenon DEF FiniteFacts
  <2> QED
    BY <1>2, <2>1
<1>5. MaxInstructions \in Nat
  BY MultiPeRunAssumption, Zenon
<1>6. count \in [PE -> Nat]
  BY Zenon DEF SInv, TypeOK
<1>7. \A p \in PE : count[p] < MaxInstructions /\ count[p] + 1 <= MaxInstructions
  BY <1>1, <1>2, <1>4, <1>5, <1>6
<1>8. Cardinality(Cells(count')) = Cardinality(Cells(count)) + Cardinality(S)
  BY <1>6, <1>7, Zenon DEF TallyFacts
<1>9. Cardinality(PE \ (active' \cup finished')) = 0
  <2>1. PE \ (active' \cup finished') = {}
    BY Zenon
  <2> QED
    BY <2>1, Zenon DEF FiniteFacts
<1>10. \A p \in PE : count'[p] <= MaxInstructions
  BY <1>5, <1>6, <1>7 DEF Bumped
<1>11. steps' = Cardinality(Cells(count')) + Cardinality(PE \ (active' \cup finished'))
  BY <1>1, <1>2, <1>8, <1>9
<1> QED
  BY <1>10, <1>11, Zenon DEF AInv, StepsAccounted, Cells

\* The one failed step is the one that no count holds.
LEMMA TallyFailed ==
  ASSUME FiniteFacts, TallyFacts, SInv, AInv, phase # "done", NEW p \in active,
         steps < MaxInstructions, steps' = steps + 1,
         active' = active \ {p}, UNCHANGED <<finished, count>>
  PROVE  AInv'
<1>1. /\ steps = Cardinality(Cells(count)) /\ steps \in Nat
  BY AllCounted, Zenon
<1>2. PE \ (active' \cup finished') = {p} /\ p \in PE
  BY Zenon DEF SInv, TypeOK
<1>3. Cardinality({p}) = 1
  BY <1>2, Zenon DEF FiniteFacts
<1>4. Cardinality(PE \ (active' \cup finished')) = 1
  BY <1>2, <1>3, Zenon
<1>5. /\ steps' = Cardinality(Cells(count')) + Cardinality(PE \ (active' \cup finished'))
      /\ steps' <= MaxInstructions
  BY <1>1, <1>4, MultiPeRunAssumption
<1> QED
  BY <1>5, Zenon DEF AInv, StepsAccounted, Cells

\* While a round is open there is an instruction left for each PE to come.
LEMMA BudgetLeft ==
  ASSUME FiniteFacts, SInv, phase \in {"serial", "parallel"}
  PROVE  /\ steps < MaxInstructions /\ phase # "done" /\ todo \subseteq active
         /\ steps + 1 <= MaxInstructions /\ steps + Cardinality(todo) <= MaxInstructions
         /\ todo # {} /\ First(todo) \in todo /\ (phase = "parallel" => todo = scheduled)
<1>1. /\ todo # {} /\ todo \subseteq active /\ steps + Cardinality(todo) <= MaxInstructions
      /\ steps \in Nat /\ todo \in SUBSET PE /\ (phase = "parallel" => todo = scheduled)
  BY Zenon DEF SInv, RoundOpen, RoundShape, TypeOK
<1>2. PICK p \in todo : TRUE
  BY <1>1, Zenon
<1>3. /\ Cardinality(todo) \in Nat /\ Cardinality(todo \ {p}) \in Nat
      /\ Cardinality(todo \ {p}) = Cardinality(todo) - 1 /\ First(todo) \in todo
  BY <1>1, Zenon DEF FiniteFacts
<1>4. steps < MaxInstructions /\ steps + 1 <= MaxInstructions
  BY <1>1, <1>3, MultiPeRunAssumption
<1>5. phase # "done"
  BY Zenon
<1> QED
  BY <1>1, <1>3, <1>4, <1>5, Zenon

\* Every step of a run keeps the account.
LEMMA TallyStep ==
  ASSUME FiniteFacts, TallyFacts, SInv, AInv, [Next]_vars
  PROVE  AInv'
<1> USE DEF control, contexts, memory, workers, views
<1>1. ASSUME UNCHANGED <<steps, count, active, finished>> PROVE AInv'
  BY <1>1, Zenon DEF AInv, StepsAccounted
<1>2. ASSUME NEW p \in PE, NEW o \in Outcomes, SerialStepOk(p, o) PROVE AInv'
  <2>1. phase = "serial" /\ phase # "done" /\ active \cup finished = PE /\ p \in PE
    BY <1>2, Zenon DEF SerialStepOk, SInv
  <2>2. {p} \in SUBSET PE /\ {p} # {} /\ Cardinality({p}) = 1
    BY Zenon DEF FiniteFacts
  <2>3. steps + Cardinality({p}) <= MaxInstructions
    BY <2>1, <2>2, BudgetLeft, Zenon
  <2>4. active' \cup finished' = PE
    BY <1>2, <2>1, Zenon DEF SerialStepOk
  <2>5. count' = [count EXCEPT ![p] = @ + 1] /\ steps' = steps + Cardinality({p})
    BY <1>2, <2>2, Zenon DEF SerialStepOk
  <2>6. count \in [PE -> Nat]
    BY Zenon DEF SInv, TypeOK
  <2>7. count' = Bumped(count, {p})
    BY <2>5, <2>6, Zenon DEF Bumped
  <2> QED
    BY <2>1, <2>2, <2>3, <2>4, <2>5, <2>7, TallyOk, Zenon
<1>3. CASE CommitRound
  <2>1. phase = "parallel" /\ phase # "done" /\ active \cup finished = PE
    BY <1>3, Zenon DEF CommitRound, RoundComplete, SInv
  <2>2. scheduled = todo /\ steps + Cardinality(scheduled) <= MaxInstructions /\ scheduled # {}
    BY <2>1, BudgetLeft, Zenon
  <2>3. scheduled \in SUBSET PE
    BY Zenon DEF SInv, TypeOK
  <2>4. active' \cup finished' = PE
    BY <1>3, <2>1, <2>3, Zenon DEF CommitRound
  <2>5. count' = Bumped(count, scheduled) /\ steps' = steps + Cardinality(scheduled)
    BY <1>3, Zenon DEF CommitRound, Bumped
  <2> QED
    BY <2>1, <2>2, <2>3, <2>4, <2>5, TallyOk, Zenon
<1>4. ASSUME NEW p \in PE, NEW o \in Outcomes, SerialStepFails(p, o) PROVE AInv'
  <2>1. phase = "serial" /\ p = First(todo)
    BY <1>4, Zenon DEF SerialStepFails, SInv, Runners
  <2>2. p \in active /\ steps < MaxInstructions /\ phase # "done"
    BY <2>1, BudgetLeft, Zenon
  <2>3. steps' = steps + 1 /\ active' = active \ {p} /\ UNCHANGED <<finished, count>>
    BY <1>4, Zenon DEF SerialStepFails
  <2> QED
    BY <2>2, <2>3, TallyFailed, Zenon
<1>5. ASSUME NEW p \in PE, FetchFails(p) PROVE AInv'
  <2>1. /\ phase = "serial" /\ p = First(todo)
        /\ steps' = steps + 1 /\ active' = active \ {p} /\ UNCHANGED <<finished, count>>
    BY <1>5, Zenon DEF FetchFails
  <2>2. p \in active /\ steps < MaxInstructions /\ phase # "done"
    BY <2>1, BudgetLeft, Zenon
  <2> QED
    BY <2>1, <2>2, TallyFailed, Zenon
<1>6. CASE FirstFails
  <2>1. /\ phase = "parallel" /\ steps' = steps + 1 /\ UNCHANGED <<finished, count>>
        /\ active' = active \ {First(scheduled)}
    BY <1>6, Zenon DEF FirstFails, RoundComplete
  <2>2. First(scheduled) \in active /\ steps < MaxInstructions /\ phase # "done"
    BY <2>1, BudgetLeft, Zenon
  <2> QED
    BY <2>1, <2>2, TallyFailed, Zenon
<1>7. CASE Fallback
  <2>1. /\ steps' = 0 /\ count' = [p \in PE |-> 0] /\ PE \ (active' \cup finished') = {}
    BY <1>7, Zenon DEF Fallback, Rerun
  <2>2. Cardinality(PE \ (active' \cup finished')) = 0 /\ Cardinality(Cells(count')) = 0
    BY <2>1, Zenon DEF FiniteFacts, TallyFacts
  <2>3. steps' = Cardinality(Cells(count')) + Cardinality(PE \ (active' \cup finished'))
    BY <2>1, <2>2
  <2>4. steps' <= MaxInstructions /\ \A p \in PE : count'[p] <= MaxInstructions
    BY <2>1, MultiPeRunAssumption
  <2> QED
    BY <2>3, <2>4, Zenon DEF AInv, StepsAccounted, Cells
<1>8. CASE FinishStart \/ StartFails \/ BeginRound \/ BudgetSpent
  BY <1>1, <1>8, Zenon DEF FinishStart, StartFails, BeginRound, BudgetSpent
<1>9. ASSUME NEW p \in PE, NEW o \in Outcomes, StepBegin(p) \/ ParallelStepEnd(p, o)
      PROVE  AInv'
  BY <1>1, <1>9, Zenon DEF StepBegin, ParallelStepEnd
<1>10. ASSUME NEW p \in PE, Access(p) PROVE AInv'
  BY <1>1, <1>10, Zenon DEF Access, ReadHit, ReadMiss, Write
<1>11. CASE UNCHANGED vars
  BY <1>1, <1>11, Zenon DEF vars
<1>12. "committed" \in Outcomes
  BY Zenon DEF Outcomes
<1> QED
  BY <1>2, <1>3, <1>4, <1>5, <1>6, <1>7, <1>8, <1>9, <1>10, <1>11, <1>12, Zenon DEF Next

\* The initial state accounts for no step and caches nothing.
LEMMA TallyInit ==
  ASSUME FiniteFacts, TallyFacts, CacheFacts, Init
  PROVE  AInv /\ CacheBounded
<1>1. /\ steps = 0 /\ count = [p \in PE |-> 0] /\ PE \ (active \cup finished) = {}
      /\ \A p \in PE : Cached(p) = {}
  BY Zenon DEF Init, Cached, NoBytes
<1>2. /\ Cardinality(PE \ (active \cup finished)) = 0 /\ Cardinality(Cells(count)) = 0
      /\ Cardinality({}) = 0
  BY <1>1, Zenon DEF FiniteFacts, TallyFacts
<1>3. steps = Cardinality(Cells(count)) + Cardinality(PE \ (active \cup finished))
  BY <1>1, <1>2
<1>4. /\ steps <= MaxInstructions /\ \A p \in PE : count[p] <= MaxInstructions
      /\ 0 <= CacheCapacity
  BY <1>1, MultiPeRunAssumption
<1> QED
  BY <1>1, <1>2, <1>3, <1>4, Zenon DEF AInv, StepsAccounted, Cells, CacheBounded

-----------------------------------------------------------------------------
(* The facts about finite sets.  The library is brought in only here: with  *)
(* its theorems in scope every obligation becomes several times larger.    *)
FST == INSTANCE FiniteSetTheorems

\* The library's notions of a finite set and of its size are the module's.
LEMMA SameFinite == \A S : FST!IsFiniteSet(S) <=> IsFiniteSet(S)
BY Zenon DEF IsFiniteSet, FST!IsFiniteSet

LEMMA SameCardinality == \A S : FST!Cardinality(S) = Cardinality(S)
BY Zenon DEF Cardinality, FST!Cardinality, IsFiniteSet, FST!IsFiniteSet

\* The size of a finite set is a natural number, zero for the empty set only,
\* one for a singleton.
LEMMA SizeIsNat ==
  /\ \A S : IsFiniteSet(S) => Cardinality(S) \in Nat /\ (Cardinality(S) = 0 => S = {})
  /\ IsFiniteSet({}) /\ Cardinality({}) = 0
  /\ \A x : IsFiniteSet({x}) /\ Cardinality({x}) = 1
BY SameFinite, SameCardinality, FST!FS_CardinalityType, FST!FS_EmptySet, FST!FS_Singleton, Zenon

\* A subset of a finite set is finite, and smaller unless it is the set.
LEMMA SizeOfSubset ==
  ASSUME NEW S, IsFiniteSet(S), NEW T \in SUBSET S
  PROVE  /\ IsFiniteSet(T) /\ Cardinality(T) <= Cardinality(S)
         /\ Cardinality(S) = Cardinality(T) => S = T
BY SameFinite, SameCardinality, FST!FS_Subset, Zenon

\* A new element adds one to the size of a set, and one less takes one away.
LEMMA SizeOneMore ==
  ASSUME NEW S, IsFiniteSet(S), NEW x
  PROVE  /\ x \notin S => /\ IsFiniteSet(S \cup {x})
                           /\ Cardinality(S \cup {x}) = Cardinality(S) + 1
         /\ x \in S => Cardinality(S \ {x}) = Cardinality(S) - 1
BY SameFinite, SameCardinality, FST!FS_AddElement, FST!FS_RemoveElement, Zenon

\* The size of a union.
LEMMA SizeOfUnion ==
  ASSUME NEW S, IsFiniteSet(S), NEW T, IsFiniteSet(T)
  PROVE  /\ IsFiniteSet(S \cup T) /\ IsFiniteSet(S \cap T)
         /\ Cardinality(S \cup T) = Cardinality(S) + Cardinality(T) - Cardinality(S \cap T)
<1>1. FST!IsFiniteSet(S) /\ FST!IsFiniteSet(T)
  BY SameFinite, Zenon
<1>2. FST!IsFiniteSet(S \cap T)
  BY <1>1, FST!FS_Intersection, Zenon
<1>3. /\ FST!IsFiniteSet(S \cup T)
      /\ FST!Cardinality(S \cup T) =
           FST!Cardinality(S) + FST!Cardinality(T) - FST!Cardinality(S \cap T)
  BY <1>1, FST!FS_Union, Zenon
<1> QED
  BY <1>2, <1>3, SameFinite, SameCardinality, Zenon

\* A one-to-one image is as large as the set.
LEMMA SizeOfImage ==
  ASSUME NEW S, NEW T, NEW f \in [S -> T], \A x, y \in S : f[x] = f[y] => x = y
  PROVE  /\ IsFiniteSet(T) => Cardinality(S) <= Cardinality(T)
         /\ IsFiniteSet(S) /\ (\A t \in T : \E x \in S : f[x] = t) =>
              IsFiniteSet(T) /\ Cardinality(T) = Cardinality(S)
<1>1. f \in FST!Injection(S, T)
  BY Zenon DEF FST!Injection, FST!IsInjective
<1>2. (\A t \in T : \E x \in S : f[x] = t) => FST!ExistsBijection(S, T)
  BY <1>1, Zenon DEF FST!ExistsBijection, FST!Bijection, FST!Surjection
<1> QED
  BY <1>1, <1>2, SameFinite, SameCardinality, FST!FS_Injection, FST!FS_Bijection, Zenon

\* Intervals and products are finite.
LEMMA FiniteProducts ==
  /\ \A n \in Nat : IsFiniteSet(1..n) /\ Cardinality(1..n) = n
  /\ \A S, T : IsFiniteSet(S) /\ IsFiniteSet(T) => IsFiniteSet(S \X T)
<1>1. ASSUME NEW n \in Nat PROVE IsFiniteSet(1..n) /\ Cardinality(1..n) = n
  <2>1. n \in Int /\ 1 \in Int /\ (IF 1 > n THEN 0 ELSE n - 1 + 1) = n
    OBVIOUS
  <2> QED
    BY <2>1, SameFinite, SameCardinality, FST!FS_Interval, Zenon
<1> QED
  BY <1>1, SameFinite, FST!FS_Product, Zenon

\* A nonempty set of naturals has a least element.
LEMMA LeastExists ==
  ASSUME NEW S, S \subseteq Nat, S # {}
  PROVE  First(S) \in S /\ \A q \in S : First(S) <= q
<1> DEFINE R == FST!OpToRel(<, Nat)
<1>1. FST!IsWellFoundedOn(R, Nat)
  BY FST!NatLessThanWellFounded, Zenon
<1>2. \E x \in S : \A y \in S : ~(<<y, x>> \in R)
  <2> HIDE DEF R
  <2> QED
    BY <1>1, FST!WFMin, Zenon
<1>3. PICK x \in S : \A y \in S : ~(<<y, x>> \in R)
  BY <1>2, Zenon
<1>4. ASSUME NEW y \in S PROVE x <= y
  <2>1. x \in Nat /\ y \in Nat
    BY Zenon
  <2>2. ~(y < x)
    BY <1>3, <2>1, Zenon DEF FST!OpToRel
  <2> QED
    BY <2>1, <2>2
<1> QED
  BY <1>4, Zenon DEF First

\* A nonempty finite set of naturals has a greatest element: the one with
\* the fewest elements above it.
LEMMA GreatestExists ==
  ASSUME NEW S, S \subseteq Nat, IsFiniteSet(S), S # {}
  PROVE  Last(S) \in S /\ \A q \in S : q <= Last(S)
<1> DEFINE Above(p) == { q \in S : p < q }
           Sizes == { Cardinality(Above(p)) : p \in S }
<1>1. \A p \in S : IsFiniteSet(Above(p)) /\ Cardinality(Above(p)) \in Nat
  BY SizeOfSubset, SizeIsNat, Zenon
<1>2. First(Sizes) \in Sizes /\ \A n \in Sizes : First(Sizes) <= n
  <2>1. Sizes \subseteq Nat /\ Sizes # {}
    BY <1>1, Zenon
  <2> QED
    BY <2>1, LeastExists, Zenon
<1>3. PICK p \in S : First(Sizes) = Cardinality(Above(p))
  BY <1>2, Zenon
<1>4. ASSUME NEW q \in S, p < q PROVE FALSE
  <2> p \in Nat /\ q \in Nat
    BY Zenon
  <2>0. ASSUME NEW r \in S, q < r PROVE p < r
    BY <2>0, <1>4
  <2>1. Above(q) \subseteq Above(p) /\ q \in Above(p) /\ q \notin Above(q)
    <3>1. Above(q) \subseteq Above(p)
      BY <2>0, Zenon
    <3>2. q \in Above(p)
      BY <1>4, Zenon
    <3>3. ~(q < q)
      OBVIOUS
    <3> QED
      BY <3>1, <3>2, <3>3, Zenon
  <2>2. Cardinality(Above(q)) < Cardinality(Above(p))
    <3> HIDE DEF Above
    <3>1. /\ Cardinality(Above(q)) <= Cardinality(Above(p))
          /\ Cardinality(Above(p)) = Cardinality(Above(q)) => Above(p) = Above(q)
      BY <2>1, <1>1, SizeOfSubset, Zenon
    <3> QED
      BY <3>1, <2>1, <1>1
  <2>3. Cardinality(Above(p)) <= Cardinality(Above(q))
    BY <1>2, <1>3, Zenon
  <2> QED
    BY <2>2, <2>3, <1>1
<1>5. \A q \in S : q <= p
  BY <1>4
<1> QED
  BY <1>5, Zenon DEF Last

\* The first k members of a set of PEs are a nonempty initial part of it, of
\* k members or all.
LEMMA CutIsPrefix ==
  ASSUME NEW S \in SUBSET PE, NEW k \in Nat \ {0}, S # {}
  PROVE  /\ Cut(S, k) # {} /\ Cut(S, k) \subseteq S
         /\ \A p \in S, q \in Cut(S, k) : p < q => p \in Cut(S, k)
         /\ Cardinality(Cut(S, k)) <= k
         /\ S \subseteq Cut(S, k) \/ Cardinality(Cut(S, k)) = k
<1> DEFINE Below(p) == { q \in S : q < p }
           C == Cut(S, k)
<1>1. k \in Nat \ {0}
  BY Zenon
<1>2. S \subseteq Nat /\ IsFiniteSet(S)
  BY MultiPeRunAssumption, SizeOfSubset, Zenon
<1>3. \A p \in S : /\ IsFiniteSet(Below(p)) /\ Cardinality(Below(p)) \in Nat
                       /\ Below(p) \subseteq S /\ p \notin Below(p)
  BY <1>2, SizeOfSubset, SizeIsNat
<1>4. C = { p \in S : Cardinality(Below(p)) < k }
  BY Zenon DEF Cut
<1>5. IsFiniteSet(C) /\ C \subseteq S /\ Cardinality(C) \in Nat
  BY <1>2, <1>4, SizeOfSubset, SizeIsNat, Zenon
<1>6. ASSUME NEW p \in S, NEW q \in S, p < q
      PROVE  Below(p) \subseteq Below(q) /\ Cardinality(Below(p)) <= Cardinality(Below(q))
  <2>1. ASSUME NEW r \in S, r < p PROVE r < q
    BY <1>2, <1>6, <2>1
  <2>2. Below(p) \subseteq Below(q)
    BY <2>1, Zenon
  <2> HIDE DEF Below
  <2> QED
    BY <2>2, <1>3, SizeOfSubset, Zenon
<1>7. \A p \in S, q \in C : p < q => p \in C
  <2> SUFFICES ASSUME NEW p \in S, NEW q \in C, p < q PROVE p \in C
    BY Zenon
  <2>1. q \in S /\ Cardinality(Below(q)) < k
    BY <1>4
  <2>2. Cardinality(Below(p)) <= Cardinality(Below(q))
    BY <2>1, <1>6
  <2>3. Cardinality(Below(p)) < k
    BY <2>1, <2>2, <1>1, <1>3
  <2> QED
    BY <2>3, <1>4, Zenon
<1>8. C # {}
  <2>1. First(S) \in S /\ \A q \in S : First(S) <= q
    BY <1>2, LeastExists, Zenon
  <2>2. Below(First(S)) = {}
    <3> SUFFICES ASSUME NEW q \in S, q < First(S) PROVE FALSE
      BY Zenon
    <3>1. q \in Nat /\ First(S) \in Nat /\ First(S) <= q
      BY <2>1, <1>2, Zenon
    <3> QED
      BY <3>1
  <2>3. Cardinality(Below(First(S))) = 0
    BY <2>2, SizeIsNat
  <2> QED
    BY <2>1, <2>3, <1>1, <1>4
<1>9. Cardinality(C) <= k
  <2>1. PICK m \in C : \A q \in C : q <= m
    BY <1>2, <1>5, <1>8, GreatestExists, Zenon
  <2>2. C \subseteq Below(m) \cup {m}
    <3> SUFFICES ASSUME NEW q \in C, q # m PROVE q \in S /\ q < m
      BY Zenon
    <3>1. q \in Nat /\ m \in Nat /\ q \in S /\ q <= m
      BY <1>2, <1>5, <2>1, Zenon
    <3> QED
      BY <3>1
  <2>3. m \in S /\ Cardinality(Below(m)) < k
    BY <1>4
  <2>4. IsFiniteSet(Below(m)) /\ m \notin Below(m) /\ Cardinality(Below(m)) \in Nat
    BY <2>3, <1>3
  <2> HIDE DEF Below
  <2>5. /\ IsFiniteSet(Below(m) \cup {m})
        /\ Cardinality(Below(m) \cup {m}) = Cardinality(Below(m)) + 1
    BY <2>4, SizeOneMore, Zenon
  <2>6. Cardinality(C) <= Cardinality(Below(m) \cup {m})
    BY <2>2, <2>5, SizeOfSubset
  <2> QED
    BY <2>3, <2>4, <2>5, <2>6, <1>1, <1>5
<1>10. ASSUME ~(S \subseteq C) PROVE Cardinality(C) >= k
  <2> DEFINE U == S \ C
  <2>1. First(U) \in U /\ \A q \in U : First(U) <= q
    <3>1. U \subseteq Nat /\ U # {}
      BY <1>2, <1>10, Zenon
    <3> QED
      BY <3>1, LeastExists, Zenon
  <2>2. First(U) \in S /\ ~(Cardinality(Below(First(U))) < k)
    BY <2>1, <1>4, Zenon
  <2>3. Below(First(U)) \subseteq C
    <3> SUFFICES ASSUME NEW q \in S, q < First(U) PROVE q \in C
      BY Zenon
    <3>1. q \in Nat /\ First(U) \in Nat
      BY <2>2, <1>2, Zenon
    <3>2. ~(First(U) <= q)
      BY <3>1
    <3> QED
      BY <2>1, <3>2
  <2>4. Cardinality(Below(First(U))) \in Nat
    BY <2>2, <1>3
  <2> HIDE DEF Below, U
  <2>5. Cardinality(Below(First(U))) <= Cardinality(C)
    BY <2>3, <1>5, SizeOfSubset, Zenon
  <2> QED
    BY <2>2, <2>4, <2>5, <1>1, <1>5
<1> QED
  BY <1>1, <1>5, <1>7, <1>8, <1>9, <1>10

\* What the schedule takes from the theory of finite sets holds.
LEMMA CutFactsHold == CutFacts
BY CutIsPrefix, Zenon DEF CutFacts

\* What the steps take from the theory of finite sets holds.
LEMMA FiniteFactsHold == FiniteFacts
<1>1. ASSUME NEW S \in SUBSET PE
      PROVE  /\ Cardinality(S) \in Nat
             /\ S # {} => Last(S) \in S /\ First(S) \in S /\ \A q \in S : First(S) <= q
             /\ \A p \in S : Cardinality(S \ {p}) = Cardinality(S) - 1
  <2>1. S \subseteq Nat /\ IsFiniteSet(S)
    BY MultiPeRunAssumption, SizeOfSubset, Zenon
  <2>2. Cardinality(S) \in Nat
    BY <2>1, SizeIsNat, Zenon
  <2>3. S # {} => Last(S) \in S /\ First(S) \in S /\ \A q \in S : First(S) <= q
    BY <2>1, LeastExists, GreatestExists, Zenon
  <2>4. \A p \in S : Cardinality(S \ {p}) = Cardinality(S) - 1
    BY <2>1, SizeOneMore, Zenon
  <2> QED
    BY <2>2, <2>3, <2>4, Zenon
<1>2. Cardinality({}) = 0 /\ \A p \in PE : Cardinality({p}) = 1
  BY SizeIsNat, Zenon
<1>3. ASSUME NEW S \in SUBSET (PE \X Addr)
      PROVE  Cardinality(S) \in Nat /\ (Cardinality(S) = 0 => S = {})
  <2>1. IsFiniteSet(PE \X Addr)
    BY MultiPeRunAssumption, FiniteProducts, Zenon
  <2>2. IsFiniteSet(S)
    BY <2>1, SizeOfSubset, Zenon
  <2> QED
    BY <2>2, SizeIsNat, Zenon
<1> QED
  BY <1>1, <1>2, <1>3, Zenon DEF FiniteFacts

\* What the bound on the caches takes from the theory of finite sets holds.
LEMMA CacheFactsHold == CacheFacts
<1>1. ASSUME NEW A \in SUBSET Addr, NEW B \in SUBSET Addr
      PROVE  /\ Cardinality(A) \in Nat
             /\ Cardinality(A \cup B) <= Cardinality(A) + Cardinality(B)
             /\ A \subseteq B => Cardinality(A) <= Cardinality(B)
  <2>1. IsFiniteSet(A) /\ IsFiniteSet(B)
    BY MultiPeRunAssumption, SizeOfSubset, Zenon
  <2>2. IsFiniteSet(A \cap B)
    BY <2>1, SizeOfUnion, Zenon
  <2>3. /\ Cardinality(A) \in Nat /\ Cardinality(B) \in Nat /\ Cardinality(A \cap B) \in Nat
    BY <2>1, <2>2, SizeIsNat, Zenon
  <2>4. Cardinality(A \cup B) = Cardinality(A) + Cardinality(B) - Cardinality(A \cap B)
    BY <2>1, SizeOfUnion, Zenon
  <2>5. A \subseteq B => Cardinality(A) <= Cardinality(B)
    BY <2>1, SizeOfSubset, Zenon
  <2> QED
    BY <2>3, <2>4, <2>5
<1>2. Cardinality({}) = 0 /\ \A a \in Addr : Cardinality({a}) = 1
  BY SizeIsNat, Zenon
<1> QED
  BY <1>1, <1>2, Zenon DEF CacheFacts

\* What the account of the steps takes from the theory of finite sets holds.
LEMMA TallyFactsHold == TallyFacts
<1>1. ASSUME NEW f \in [PE -> Nat] PROVE IsFiniteSet(Cells(f)) /\ Cardinality(Cells(f)) \in Nat
  <2>1. IsFiniteSet(PE) /\ IsFiniteSet(1..MaxInstructions)
    BY MultiPeRunAssumption, FiniteProducts, Zenon
  <2>2. IsFiniteSet(PE \X (1..MaxInstructions))
    BY <2>1, FiniteProducts, Zenon
  <2>3. Cells(f) \in SUBSET (PE \X (1..MaxInstructions))
    BY Zenon DEF Cells
  <2>4. IsFiniteSet(Cells(f))
    BY <2>2, <2>3, SizeOfSubset, Zenon
  <2> QED
    BY <2>4, SizeIsNat, Zenon
<1>2. Cardinality(Cells([p \in PE |-> 0])) = 0
  <2>1. Cells([p \in PE |-> 0]) = {}
    BY DEF Cells
  <2> QED
    BY <2>1, SizeIsNat, Zenon
<1>3. ASSUME NEW f \in [PE -> Nat], NEW p \in PE, f[p] <= MaxInstructions
      PROVE  f[p] <= Cardinality(Cells(f))
  <2> DEFINE I == 1..f[p]
             row == [k \in I |-> <<p, k>>]
  <2>1. f[p] \in Nat /\ MaxInstructions \in Nat
    BY MultiPeRunAssumption, Zenon
  <2>2. \A k \in 1..f[p] : <<p, k>> \in Cells(f)
    BY <1>3, <2>1 DEF Cells
  <2>3. row \in [I -> Cells(f)] /\ \A i, j \in I : row[i] = row[j] => i = j
    BY <2>2, Zenon
  <2>4. IsFiniteSet(Cells(f))
    BY <1>1, Zenon
  <2> HIDE DEF row, I
  <2>5. Cardinality(I) <= Cardinality(Cells(f))
    BY <2>3, <2>4, SizeOfImage, Zenon
  <2>6. Cardinality(I) = f[p]
    BY <2>1, FiniteProducts, Zenon DEF I
  <2> QED
    BY <2>5, <2>6, Zenon
<1>4. ASSUME NEW f \in [PE -> Nat], NEW S \in SUBSET PE, \A p \in S : f[p] < MaxInstructions
      PROVE  Cardinality(Cells(Bumped(f, S))) = Cardinality(Cells(f)) + Cardinality(S)
  <2> DEFINE New == { <<p, f[p] + 1>> : p \in S }
             next == [p \in S |-> <<p, f[p] + 1>>]
  <2>1. MaxInstructions \in Nat /\ \A p \in PE : f[p] \in Nat
    BY MultiPeRunAssumption, Zenon
  <2>2. Cells(Bumped(f, S)) = Cells(f) \cup New
    <3>1. ASSUME NEW p \in PE, NEW n \in 1..MaxInstructions
          PROVE  <<p, n>> \in Cells(Bumped(f, S)) <=> <<p, n>> \in Cells(f) \cup New
      <4>1. <<p, n>> \in Cells(Bumped(f, S)) <=> n <= IF p \in S THEN f[p] + 1 ELSE f[p]
        BY Zenon DEF Cells, Bumped
      <4>2. <<p, n>> \in Cells(f) <=> n <= f[p]
        BY Zenon DEF Cells
      <4>3. <<p, n>> \in New <=> p \in S /\ n = f[p] + 1
        BY Zenon
      <4>4. n \in Nat /\ f[p] \in Nat
        BY <2>1
      <4> QED
        BY <4>1, <4>2, <4>3, <4>4
    <3>2. \A p \in S : f[p] + 1 \in 1..MaxInstructions /\ p \in PE
      BY <1>4, <2>1
    <3>3. ASSUME NEW c \in New PROVE \E p \in PE, n \in 1..MaxInstructions : c = <<p, n>>
      BY <3>2, <3>3, Zenon
    <3>4. ASSUME NEW g, NEW c \in Cells(g)
          PROVE  \E p \in PE, n \in 1..MaxInstructions : c = <<p, n>>
      BY <3>4 DEF Cells
    <3> HIDE DEF New
    <3>5. ASSUME NEW c, c \in Cells(Bumped(f, S)) \/ c \in Cells(f) \cup New
          PROVE  c \in Cells(Bumped(f, S)) <=> c \in Cells(f) \cup New
      <4>1. \E p \in PE, n \in 1..MaxInstructions : c = <<p, n>>
        BY <3>3, <3>4, <3>5, Zenon
      <4>2. PICK p \in PE : \E n \in 1..MaxInstructions : c = <<p, n>>
        BY <4>1, Zenon
      <4>3. PICK n \in 1..MaxInstructions : c = <<p, n>>
        BY <4>2, Zenon
      <4>4. <<p, n>> \in Cells(Bumped(f, S)) <=> <<p, n>> \in Cells(f) \cup New
        BY <3>1, Zenon
      <4> QED
        BY <4>3, <4>4, Zenon
    <3> QED
      BY <3>5, Zenon
  <2>3. Cells(f) \cap New = {}
    <3> SUFFICES ASSUME NEW p \in S, <<p, f[p] + 1>> \in Cells(f) PROVE FALSE
      BY Zenon
    <3>1. f[p] + 1 <= f[p] /\ f[p] \in Nat
      BY <2>1, Zenon DEF Cells
    <3> QED
      BY <3>1
  <2>4. IsFiniteSet(S)
    BY MultiPeRunAssumption, SizeOfSubset, Zenon
  <2>5. /\ next \in [S -> New] /\ \A p, q \in S : next[p] = next[q] => p = q
        /\ \A c \in New : \E p \in S : next[p] = c
    BY Zenon
  <2> HIDE DEF next, New
  <2>6. IsFiniteSet(New) /\ Cardinality(New) = Cardinality(S)
    BY <2>4, <2>5, SizeOfImage, Zenon
  <2>7. Cardinality(Cells(f) \cup New) =
          Cardinality(Cells(f)) + Cardinality(New) - Cardinality({})
    <3>1. IsFiniteSet(Cells(f))
      BY <1>1, Zenon
    <3>2. Cardinality(Cells(f) \cup New) =
            Cardinality(Cells(f)) + Cardinality(New) - Cardinality(Cells(f) \cap New)
      BY <3>1, <2>6, SizeOfUnion, Zenon
    <3> QED
      BY <3>2, <2>3, Zenon
  <2>8. Cardinality({}) = 0 /\ Cardinality(Cells(f)) \in Nat /\ Cardinality(S) \in Nat
    BY <1>1, <2>4, SizeIsNat, Zenon
  <2> QED
    BY <2>2, <2>6, <2>7, <2>8
<1> QED
  BY <1>1, <1>2, <1>3, <1>4, Zenon DEF TallyFacts

-----------------------------------------------------------------------------
(* The theorems.                                                            *)

\* All invariants of a multi-PE run together.
RunInv == IInv /\ SInv /\ AInv /\ CacheBounded

\* The invariants hold throughout every run.
LEMMA Invariance == Spec => []RunInv
<1>1. Init => RunInv
  BY TypeInit, InvInit, SchedInit, TallyInit, FiniteFactsHold, TallyFactsHold, CacheFactsHold, Zenon DEF RunInv, IInv
<1>2. RunInv /\ [Next]_vars => RunInv'
  BY InvStep, SchedStep, TallyStep, BoundedStep, FiniteFactsHold, CutFactsHold,
     TallyFactsHold, CacheFactsHold, Zenon DEF RunInv, IInv
<1> QED
  BY <1>1, <1>2, PTL DEF Spec

\* The variables of run_image and of the workers keep their types.
THEOREM TypeCorrect == Spec => []TypeOK
<1>1. RunInv => TypeOK
  BY Zenon DEF RunInv, IInv
<1> QED
  BY <1>1, Invariance, PTL

\* The generation check of _synchronize_worker_memory keeps every worker cache
\* coherent with the host, in serial and in speculative rounds, for any number
\* of PEs, any chunking and any cache capacity.
THEOREM Coherence == Spec => []CacheCoherent
<1>1. RunInv => CacheCoherent
  BY Zenon DEF RunInv, IInv, Coherent
<1> QED
  BY <1>1, Invariance, PTL

\* No worker's cache outgrows max_cached_bytes, whatever the chunks and the
\* writes of its steps: it is emptied in time, and what is then put into it
\* fits.
THEOREM BoundedCaches == Spec => []CacheBounded
<1>1. RunInv => CacheBounded
  BY Zenon DEF RunInv
<1> QED
  BY <1>1, Invariance, PTL

\* Whatever a committing round read through its views, it would have read in
\* a serial round in PE order.
THEOREM RecordedReads == Spec => []RecordedReadsInOrder
<1>1. RunInv => RecordedReadsInOrder
  <2> SUFFICES ASSUME RunInv, Commits, NEW p \in scheduled, NEW r \in observed[p],
                      r[1] \in reads[p]
               PROVE  r[2] = PeOrderByte(p, r[1])
    BY Zenon DEF RecordedReadsInOrder
  <2>1. p \in PE /\ phase = "parallel"
    BY Zenon DEF RunInv, IInv, TypeOK, Commits, RoundComplete
  <2>2. r[2] = snap[r[1]]
    BY <2>1, Zenon DEF RunInv, IInv, Coherent, Phases
  <2>3. { q \in scheduled : q < p /\ r[1] \in Written(q) } = {}
    BY Zenon DEF Commits, Conflict
  <2> QED
    BY <2>2, <2>3, Zenon DEF PeOrderByte
<1> QED
  BY <1>1, Invariance, PTL

\* The scheduling of run_image is round-robin, in serial and in committed
\* speculative rounds, for any number of PEs and any budget.
THEOREM FairTurns == Spec => []RoundRobin
<1>1. RunInv => RoundRobin
  BY Zenon DEF RunInv, SInv
<1> QED
  BY <1>1, Invariance, PTL

\* The report accounts for every step of the run, and never for more than
\* max_instructions of them.
THEOREM StepsAddUp == Spec => []StepsAccounted
<1>1. RunInv => StepsAccounted
  BY Zenon DEF RunInv, AInv
<1> QED
  BY <1>1, Invariance, PTL

\* The termination run_image reports is earned: all_finished by an executed
\* instruction of every PE that raised the terminal event or has a terminal
\* encoding, the budget by its last instruction, a failure by exactly one PE.
THEOREM HonestResult == Spec => []ResultHonest
<1>1. RunInv => ResultHonest
  BY Zenon DEF RunInv, SInv
<1> QED
  BY <1>1, Invariance, PTL

=============================================================================
