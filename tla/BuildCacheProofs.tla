-------------------------- MODULE BuildCacheProofs --------------------------
(***************************************************************************)
(* The cache of the embedded worker, for any number of processes and       *)
(* builds.  The invariant has three parts: the types; who is in the locked *)
(* part of _ensure_built holds the lock (LockInv); and what a process may  *)
(* rely on at each place although the files change under it (CacheInv).    *)
(* For the two caches that are written in place, MetInv says that a writer *)
(* was disturbed only by company it met, and ProfileInv and RunnerInv what *)
(* is left to rely on without it.                                          *)
(***************************************************************************)
EXTENDS BuildCache, TLAPS

Place ==
  {"read", "hash", "lock", "build", "publish", "copying", "describe", "describing",
   "start", "running", "failed"}
Known == Digest \cup {None}

TypeInv ==
  /\ cache \in {"worker", "runner", "profile"}
  /\ executable \in Known /\ metadata \in Known
  /\ holder \in Process \cup {None}
  /\ pc \in [Process -> Place]
  /\ stage \in [Process -> {"check", "recheck", "verify"}]
  /\ seen \in [Process -> Known] /\ mine \in [Process -> Known]
  /\ identity \in [Process -> Known] /\ launched \in [Process -> Known]
  /\ file \in {"none", "partial", "whole"} /\ runnable \in BOOLEAN
  /\ record \in {"none", "partial", "whole"}
  /\ disturbed \subseteq Process /\ met \subseteq Process

Locked(p) ==
  \/ pc[p] \in {"build", "publish", "describe"}
  \/ pc[p] \in {"read", "hash"} /\ stage[p] # "check"

LockInv == cache = "worker" => \A p \in Process : Locked(p) => holder = p

Relies(p) ==
  /\ pc[p] \in {"build", "publish"} => ~Published
  /\ pc[p] = "publish" => mine[p] \in Digest
  /\ pc[p] = "describe" => executable = mine[p] /\ mine[p] \in Digest
  /\ pc[p] = "hash" => \/ seen[p] = metadata /\ metadata # None
                       \/ Published /\ stage[p] = "check"
  /\ pc[p] = "start" => Published /\ identity[p] = executable

CacheInv == cache = "worker" => \A p \in Process : Relies(p)

LaunchInv ==
  \A p \in Process :
    launched[p] # None =>
      cache = "worker" /\ pc[p] = "running" /\ launched[p] = identity[p]

Inv == TypeInv /\ LockInv /\ CacheInv /\ LaunchInv

-----------------------------------------------------------------------------
\* Every step of the three caches keeps the types of their state.
LEMMA TypeStep == TypeInv /\ [Next]_vars => TypeInv'
<1> SUFFICES ASSUME TypeInv, [Next]_vars PROVE TypeInv'
  BY Zenon
<1> USE DEF TypeInv, Known, Place, Goto, At, InPlace
<1>1. CASE UNCHANGED vars
  BY <1>1 DEF vars, worker, inplace
<1>2. ASSUME NEW p \in Process, EnsureBuilt(p) PROVE TypeInv'
  <2>1. CASE ReadMetadata(p)
    BY <2>1 DEF ReadMetadata, Miss, OnMiss, inplace
  <2>2. CASE HashExecutable(p)
    BY <2>2 DEF HashExecutable, Miss, OnMiss, Release, inplace
  <2>3. CASE Lock(p)
    BY <2>3, Zenon DEF Lock, inplace
  <2>4. CASE Build(p)
    BY <2>4 DEF Build, inplace
  <2>5. CASE ReplaceExecutable(p)
    BY <2>5, Zenon DEF ReplaceExecutable, inplace
  <2>6. CASE ReplaceMetadata(p)
    BY <2>6, Zenon DEF ReplaceMetadata, inplace
  <2>7. CASE Popen(p)
    BY <2>7, Zenon DEF Popen, inplace
  <2>8. CASE Crash(p)
    BY <2>8, Zenon DEF Crash, Release, inplace
  <2> QED
    BY <1>2, <2>1, <2>2, <2>3, <2>4, <2>5, <2>6, <2>7, <2>8, Zenon DEF EnsureBuilt
<1>3. ASSUME NEW p \in Process, WriteInPlace(p) PROVE TypeInv'
  <2> USE DEF worker, inplace, Others, AtWork
  <2>1. CASE RunnerCheck(p) \/ MaterializeCheck(p)
    <3>1. PICK hit : Check(p, hit)
      BY <2>1, Zenon DEF RunnerCheck, MaterializeCheck
    <3> QED
      BY <3>1 DEF Check
  <2>2. CASE RunnerCopy(p)
    BY <2>2 DEF RunnerCopy
  <2>3. CASE RunnerCopied(p)
    BY <2>3 DEF RunnerCopied
  <2>4. CASE RunnerDescribe(p)
    BY <2>4 DEF RunnerDescribe
  <2>5. CASE RunnerDescribed(p)
    BY <2>5 DEF RunnerDescribed
  <2>6. CASE MaterializeTruncate(p)
    BY <2>6 DEF MaterializeTruncate
  <2>7. CASE MaterializeWrite(p)
    BY <2>7 DEF MaterializeWrite
  <2>8. CASE UseInPlace(p) \/ KillInPlace(p)
    BY <2>8 DEF UseInPlace, KillInPlace
  <2> QED
    BY <1>3, <2>1, <2>2, <2>3, <2>4, <2>5, <2>6, <2>7, <2>8, Zenon DEF WriteInPlace
<1> QED
  BY <1>1, <1>2, <1>3, Zenon DEF Next

\* The in-place caches leave the state of the worker cache alone.
LEMMA InPlaceLeavesWorker ==
  ASSUME NEW p \in Process, WriteInPlace(p)
  PROVE  cache # "worker" /\ cache' = cache /\ UNCHANGED worker
BY Zenon DEF WriteInPlace, RunnerCheck, RunnerCopy, RunnerCopied, RunnerDescribe,
       RunnerDescribed, MaterializeCheck, MaterializeTruncate, MaterializeWrite,
       UseInPlace, KillInPlace, InPlace, Check

\* And _ensure_built leaves the in-place caches alone.
LEMMA WorkerLeavesInPlace ==
  ASSUME NEW p \in Process, EnsureBuilt(p)
  PROVE  cache = "worker" /\ cache' = cache /\ UNCHANGED inplace
BY Zenon DEF EnsureBuilt, ReadMetadata, HashExecutable, Lock, Build, ReplaceExecutable,
       ReplaceMetadata, Popen, Crash, At

-----------------------------------------------------------------------------
\* The locked part of _ensure_built is executed by the holder of build.lock only.
LEMMA LockStep ==
  ASSUME Inv, NEW p \in Process, EnsureBuilt(p)
  PROVE  LockInv'
<1> SUFFICES ASSUME NEW q \in Process, Locked(q)' PROVE holder' = q
  BY Zenon DEF LockInv
<1> USE DEF Inv, TypeInv, LockInv, Locked, Goto, At
<1>0. cache = "worker"
  BY WorkerLeavesInPlace, Zenon
<1>n. None \notin Process
  BY DigestAssumption, Zenon
<1>1. CASE ReadMetadata(p)
  BY <1>0, <1>1, Zenon DEF ReadMetadata, Miss, OnMiss
<1>2. CASE HashExecutable(p)
  BY <1>0, <1>2, Zenon DEF HashExecutable, Miss, OnMiss, Release
<1>3. CASE Lock(p)
  BY <1>0, <1>n, <1>3, Zenon DEF Lock
<1>4. CASE Build(p) \/ ReplaceExecutable(p) \/ ReplaceMetadata(p) \/ Popen(p)
  BY <1>0, <1>4, Zenon DEF Build, ReplaceExecutable, ReplaceMetadata, Popen
<1>5. CASE Crash(p)
  BY <1>0, <1>5, Zenon DEF Crash, Release
<1> QED
  BY <1>1, <1>2, <1>3, <1>4, <1>5, Zenon DEF EnsureBuilt

\* What each process relies on survives a step of any process: the files change
\* only under the lock, and not once they agree.
LEMMA CacheStep ==
  ASSUME Inv, NEW p \in Process, EnsureBuilt(p)
  PROVE  CacheInv'
<1> SUFFICES ASSUME NEW q \in Process PROVE Relies(q)'
  BY Zenon DEF CacheInv
<1>0. cache = "worker" /\ Relies(q) /\ Relies(p)
  BY WorkerLeavesInPlace, Zenon DEF Inv, CacheInv
<1>h. (Locked(q) => holder = q) /\ (Locked(p) => holder = p)
  BY <1>0, Zenon DEF Inv, LockInv
<1>n. None \notin Digest
  BY DigestAssumption, Zenon
<1> USE DEF Inv, TypeInv, Relies, Published, Goto, At
<1>1. CASE ReadMetadata(p)
  BY <1>0, <1>1, Zenon DEF ReadMetadata, Miss, OnMiss
<1>2. CASE HashExecutable(p)
  BY <1>0, <1>2 DEF HashExecutable, Miss, OnMiss
<1>3. CASE Lock(p)
  BY <1>0, <1>3, Zenon DEF Lock
<1>4. CASE Build(p)
  BY <1>0, <1>4, Zenon DEF Build
<1>5. CASE ReplaceExecutable(p)
  BY <1>0, <1>h, <1>5, Zenon DEF ReplaceExecutable, Locked
<1>6. CASE ReplaceMetadata(p)
  BY <1>0, <1>h, <1>n, <1>6, Zenon DEF ReplaceMetadata, Locked
<1>7. CASE Popen(p) \/ Crash(p)
  BY <1>0, <1>7, Zenon DEF Popen, Crash
<1> QED
  BY <1>1, <1>2, <1>3, <1>4, <1>5, <1>6, <1>7, Zenon DEF EnsureBuilt

\* Only start launches, and what it launches is what it was told.
LEMMA LaunchStep ==
  ASSUME Inv, NEW p \in Process, EnsureBuilt(p)
  PROVE  LaunchInv'
<1> SUFFICES ASSUME NEW q \in Process, launched'[q] # None
             PROVE  cache' = "worker" /\ pc'[q] = "running" /\ launched'[q] = identity'[q]
  BY Zenon DEF LaunchInv
<1>0. cache = "worker" /\ cache' = "worker" /\ Relies(p)
  BY WorkerLeavesInPlace, Zenon DEF Inv, CacheInv
<1> USE DEF Inv, TypeInv, LaunchInv, Goto, At
<1>1. CASE ReadMetadata(p)
  BY <1>0, <1>1, Zenon DEF ReadMetadata, Miss
<1>2. CASE HashExecutable(p)
  BY <1>0, <1>2, Zenon DEF HashExecutable, Miss
<1>3. CASE Lock(p) \/ Build(p) \/ ReplaceExecutable(p) \/ ReplaceMetadata(p) \/ Crash(p)
  BY <1>0, <1>3 DEF Lock, Build, ReplaceExecutable, ReplaceMetadata, Crash
<1>4. CASE Popen(p)
  BY <1>0, <1>4, Zenon DEF Popen, Relies
<1> QED
  BY <1>1, <1>2, <1>3, <1>4, Zenon DEF EnsureBuilt

\* The invariant holds at the start, whatever earlier processes left in the target
\* directory, and every step keeps it.
THEOREM Invariance == Spec => []Inv
<1>1. Init => Inv
  <2>1. ASSUME Init PROVE TypeInv
    <3>1. None \in Known /\ "read" \in Place /\ runnable = FALSE
      BY <2>1, Zenon DEF Init, Known, Place
    <3>2. executable \in Known /\ metadata \in Known
      BY <2>1, Zenon DEF Init, Known
    <3>3. /\ pc \in [Process -> Place] /\ stage \in [Process -> {"check", "recheck", "verify"}]
          /\ seen \in [Process -> Known] /\ mine \in [Process -> Known]
          /\ identity \in [Process -> Known] /\ launched \in [Process -> Known]
      BY <2>1, <3>1, Zenon DEF Init
    <3> QED
      BY <2>1, <3>2, <3>3, Zenon DEF Init, TypeInv
  <2>2. Init => LaunchInv
    BY Zenon DEF Init, LaunchInv
  <2>3. Init => \A p \in Process : pc[p] = "read" /\ stage[p] = "check"
    BY Zenon DEF Init
  <2>4. Init => LockInv /\ CacheInv
    BY <2>3 DEF LockInv, Locked, CacheInv, Relies
  <2> QED
    BY <2>1, <2>2, <2>4, Zenon DEF Inv
<1>2. Inv /\ [Next]_vars => Inv'
  <2> SUFFICES ASSUME Inv, [Next]_vars PROVE Inv'
    BY Zenon
  <2>1. TypeInv'
    BY TypeStep, Zenon DEF Inv
  <2>2. CASE UNCHANGED vars
    BY <2>1, <2>2, Zenon DEF Inv, vars, worker, LockInv, Locked, CacheInv, Relies, Published,
                      LaunchInv
  <2>3. ASSUME NEW p \in Process, EnsureBuilt(p) PROVE Inv'
    BY <2>1, <2>3, LockStep, CacheStep, LaunchStep, Zenon DEF Inv
  <2>4. ASSUME NEW p \in Process, WriteInPlace(p) PROVE Inv'
    <3>1. cache # "worker" /\ cache' # "worker" /\ launched' = launched
      BY <2>4, InPlaceLeavesWorker, Zenon DEF worker
    <3>2. LaunchInv'
      BY <3>1, Zenon DEF Inv, LaunchInv
    <3> QED
      BY <2>1, <3>1, <3>2, Zenon DEF Inv, LockInv, CacheInv
  <2> QED
    BY <2>2, <2>3, <2>4, Zenon DEF Next
<1> QED
  BY <1>1, <1>2, PTL DEF Spec

\* start launches the executable whose digest the recorded identity names, for every
\* number of processes, builds and crashes.
THEOREM Launch == Spec => []LaunchedIsIdentity
<1>1. Inv => LaunchedIsIdentity
  BY Zenon DEF Inv, LaunchInv, LaunchedIsIdentity
<1> QED
  BY <1>1, Invariance, PTL

\* Once the two files of the worker agree, no process replaces either again.
THEOREM Publication == Spec => PublishedStays
<1>1. Inv /\ [Next]_vars =>
        [Published => executable' = executable /\ metadata' = metadata]_vars
  <2> SUFFICES ASSUME Inv, Published, Next
               PROVE  executable' = executable /\ metadata' = metadata
    BY Zenon
  <2>1. ASSUME NEW p \in Process, EnsureBuilt(p)
        PROVE  executable' = executable /\ metadata' = metadata
    <3>1. cache = "worker" /\ Relies(p)
      BY <2>1, WorkerLeavesInPlace, Zenon DEF Inv, CacheInv
    <3>2. CASE ReadMetadata(p) \/ HashExecutable(p) \/ Lock(p) \/ Build(p) \/ Popen(p) \/ Crash(p)
      BY <3>2, Zenon DEF ReadMetadata, HashExecutable, Lock, Build, Popen, Crash
    <3>3. CASE ReplaceExecutable(p)
      BY <3>1, <3>3, Zenon DEF ReplaceExecutable, At, Relies
    <3>4. CASE ReplaceMetadata(p)
      BY <3>1, <3>4, Zenon DEF ReplaceMetadata, At, Relies, Published
    <3> QED
      BY <2>1, <3>2, <3>3, <3>4, Zenon DEF EnsureBuilt
  <2>2. ASSUME NEW p \in Process, WriteInPlace(p)
        PROVE  executable' = executable /\ metadata' = metadata
    BY <2>2, InPlaceLeavesWorker, Zenon DEF worker
  <2> QED
    BY <2>1, <2>2, Zenon DEF Next
<1> QED
  BY <1>1, Invariance, PTL DEF Spec, PublishedStays
-----------------------------------------------------------------------------
(* The caches that are written in place.                                   *)

Active(p) == pc[p] \notin {"read", "running", "failed"}

\* Two users at work at once have met, and only who has met another was disturbed.
MetInv ==
  cache # "worker" =>
    /\ \A p, q \in Process : p # q /\ Active(p) /\ Active(q) => p \in met
    /\ disturbed \subseteq met

\* A process alone with a projection it is handed finds it complete.
ProfileInv ==
  cache = "profile" =>
    \A p \in Process : pc[p] = "start" /\ p \notin met => file = "whole"

\* Without company, an identity of the runner describes a complete executable, and who
\* rewrites the executable has found no identity.
RunnerInv ==
  cache = "runner" /\ met = {} =>
    /\ record = "whole" => file = "whole" /\ runnable
    /\ \A p \in Process :
         /\ Active(p) /\ pc[p] # "start" => record # "whole"
         /\ pc[p] \in {"describe", "describing", "start"} => file = "whole" /\ runnable

\* Whoever another process finds at work has met it from then on.
LEMMA MetStep ==
  ASSUME TypeInv, MetInv, NEW p \in Process, WriteInPlace(p)
  PROVE  MetInv'
<1>0. cache # "worker" /\ cache' = cache
  BY InPlaceLeavesWorker, Zenon
<1>1. CASE RunnerCheck(p) \/ MaterializeCheck(p)
  <2>1. PICK hit : Check(p, hit)
    BY <1>1, Zenon DEF RunnerCheck, MaterializeCheck
  <2>2. /\ pc' = [pc EXCEPT ![p] = IF hit THEN "start" ELSE "build"]
        /\ met' = (IF AtWork(p) = {} THEN met ELSE met \cup AtWork(p) \cup {p})
        /\ disturbed' = disturbed
    BY <2>1, Zenon DEF Check, Goto
  <2>3. met \subseteq met' /\ AtWork(p) \subseteq met' /\ (AtWork(p) # {} => p \in met')
    BY <2>2
  <2>4. ASSUME NEW q \in Process, NEW o \in Process, q # o, Active(q)', Active(o)'
        PROVE  q \in met'
    <3>1. \A x \in Process : x # p => (Active(x)' <=> Active(x))
      BY <2>2, Zenon DEF TypeInv, Active
    <3>2. \A x \in Process : x # p /\ Active(x) => x \in AtWork(p)
      BY Zenon DEF AtWork, Active
    <3> QED
      BY <1>0, <2>3, <2>4, <3>1, <3>2, Zenon DEF MetInv
  <2> QED
    BY <1>0, <2>2, <2>3, <2>4, Zenon DEF MetInv
<1>2. CASE ~(RunnerCheck(p) \/ MaterializeCheck(p))
  <2>1. /\ met' = met /\ \A q \in Process : Active(q)' => Active(q)
    BY <1>2, Zenon DEF WriteInPlace, RunnerCopy, RunnerCopied, RunnerDescribe,
       RunnerDescribed, MaterializeTruncate, MaterializeWrite, UseInPlace, KillInPlace,
       InPlace, Goto, TypeInv, Active, inplace
  <2>2. disturbed' \subseteq met
    <3>0. disturbed \subseteq met
      BY <1>0, Zenon DEF MetInv
    <3>1. ASSUME NEW place \in {"copying", "describing"}, Active(p)
          PROVE  /\ Others(p, place) \subseteq met
                 /\ Others(p, place) # {} => p \in met
      <4>1. \A q \in Others(p, place) : q \in Process /\ q # p /\ pc[q] = place
        BY Zenon DEF Others
      <4>2. \A q \in Others(p, place) : Active(q)
        BY <4>1 DEF Active
      <4> QED
        BY <1>0, <3>1, <4>1, <4>2, Zenon DEF MetInv
    <3>2. CASE RunnerCopy(p)
      <4>1. Active(p)
        BY <3>2, Zenon DEF RunnerCopy, InPlace, Active
      <4>2. disturbed' = IF Others(p, "copying") = {} THEN disturbed
                         ELSE disturbed \cup Others(p, "copying") \cup {p}
        BY <3>2, Zenon DEF RunnerCopy
      <4> QED
        BY <3>0, <3>1, <4>1, <4>2, Zenon
    <3>3. CASE RunnerDescribe(p)
      <4>1. Active(p) /\ disturbed' = (disturbed \cup Others(p, "describing")) \ {p}
        BY <3>3, Zenon DEF RunnerDescribe, InPlace, Active
      <4> QED
        BY <3>0, <3>1, <4>1, Zenon
    <3>4. CASE MaterializeTruncate(p)
      <4>1. Active(p) /\ disturbed' = (disturbed \cup Others(p, "copying")) \ {p}
        BY <3>4, Zenon DEF MaterializeTruncate, InPlace, Active
      <4> QED
        BY <3>0, <3>1, <4>1, Zenon
    <3>5. CASE ~(RunnerCopy(p) \/ RunnerDescribe(p) \/ MaterializeTruncate(p))
      <4>1. disturbed' = disturbed
        BY <1>2, <3>5, Zenon DEF WriteInPlace, RunnerCopied, RunnerDescribed,
           MaterializeWrite, UseInPlace, KillInPlace, inplace
      <4> QED
        BY <3>0, <4>1, Zenon
    <3> QED
      BY <3>2, <3>3, <3>4, <3>5, Zenon
  <2> QED
    BY <1>0, <2>1, <2>2, Zenon DEF MetInv
<1> QED
  BY <1>1, <1>2, Zenon

\* A user that is alone compares or completes the projection itself, and nobody
\* writes between that and its use.
LEMMA ProfileStep ==
  ASSUME TypeInv, MetInv, ProfileInv, NEW p \in Process, WriteInPlace(p)
  PROVE  ProfileInv'
<1>0. cache' = cache
  BY InPlaceLeavesWorker, Zenon
<1> SUFFICES ASSUME cache = "profile", NEW q \in Process, pc'[q] = "start", q \notin met'
             PROVE  file' = "whole"
  BY <1>0, Zenon DEF ProfileInv
<1>m. \A o \in Process : o # q /\ Active(o) /\ Active(q) => q \in met
  BY Zenon DEF MetInv
<1>d. disturbed \subseteq met
  BY Zenon DEF MetInv
<1> USE DEF InPlace, Goto
<1>1. CASE MaterializeCheck(p)
  <2>1. /\ pc' = [pc EXCEPT ![p] = IF file = "whole" THEN "start" ELSE "build"]
        /\ file' = file /\ met \subseteq met'
    BY <1>1, Zenon DEF MaterializeCheck, Check
  <2>2. CASE q = p
    BY <2>1, <2>2 DEF TypeInv
  <2>3. CASE q # p
    BY <2>1, <2>3, Zenon DEF TypeInv, ProfileInv
  <2> QED
    BY <2>2, <2>3, Zenon
<1>2. CASE MaterializeTruncate(p)
  <2>1. met' = met /\ pc[p] = "build" /\ pc' = [pc EXCEPT ![p] = "copying"]
    BY <1>2, Zenon DEF MaterializeTruncate
  <2>2. q # p /\ pc[q] = "start"
    BY <2>1 DEF TypeInv
  <2>3. Active(q) /\ Active(p)
    BY <2>1, <2>2 DEF Active
  <2> QED
    BY <1>m, <2>1, <2>2, <2>3, Zenon
<1>3. CASE MaterializeWrite(p)
  <2>1. /\ met' = met /\ pc[p] = "copying" /\ pc' = [pc EXCEPT ![p] = "start"]
        /\ file' \in IF p \in disturbed THEN {file, "whole"} ELSE {"whole"}
    BY <1>3, Zenon DEF MaterializeWrite
  <2>2. CASE q = p
    BY <1>d, <2>1, <2>2, Zenon
  <2>3. CASE q # p
    BY <2>1, <2>3, Zenon DEF TypeInv, ProfileInv
  <2> QED
    BY <2>2, <2>3, Zenon
<1>4. CASE UseInPlace(p) \/ KillInPlace(p)
  <2>1. met' = met /\ file' = file /\ pc[q] = "start"
    BY <1>4 DEF UseInPlace, KillInPlace, inplace, TypeInv
  <2> QED
    BY <2>1, Zenon DEF ProfileInv
<1> QED
  BY <1>1, <1>2, <1>3, <1>4, Zenon DEF WriteInPlace, RunnerCheck, RunnerCopy, RunnerCopied,
     RunnerDescribe, RunnerDescribed

\* A check, a write or a kill of one user keeps what the others rely on.
LEMMA RunnerStep ==
  ASSUME TypeInv, MetInv, RunnerInv, NEW p \in Process, WriteInPlace(p)
  PROVE  RunnerInv'
<1>0. cache' = cache
  BY InPlaceLeavesWorker, Zenon
<1>1. met' = {} => met = {}
  <2>1. CASE RunnerCheck(p) \/ MaterializeCheck(p)
    <3>1. met' = IF AtWork(p) = {} THEN met ELSE met \cup AtWork(p) \cup {p}
      BY <2>1, Zenon DEF RunnerCheck, MaterializeCheck, Check
    <3> QED
      BY <3>1, Zenon
  <2>2. CASE ~(RunnerCheck(p) \/ MaterializeCheck(p))
    BY <2>2, Zenon DEF WriteInPlace, RunnerCopy, RunnerCopied, RunnerDescribe,
       RunnerDescribed, MaterializeTruncate, MaterializeWrite, UseInPlace, KillInPlace, inplace
  <2> QED
    BY <2>1, <2>2, Zenon
<1> SUFFICES ASSUME cache = "runner", met' = {}, met = {} PROVE RunnerInv'
  BY <1>0, <1>1, Zenon DEF RunnerInv
<1>2. /\ p \notin disturbed
      /\ \A q \in Process : q # p /\ Active(p) => ~Active(q)
  BY Zenon DEF MetInv
<1> USE DEF TypeInv, RunnerInv, Active, Goto, InPlace
<1>3. CASE RunnerCheck(p)
  BY <1>3, Zenon DEF RunnerCheck, Check
<1>4. CASE RunnerCopy(p)
  BY <1>2, <1>4, Zenon DEF RunnerCopy
<1>5. CASE RunnerCopied(p)
  BY <1>2, <1>5, Zenon DEF RunnerCopied
<1>6. CASE RunnerDescribe(p)
  BY <1>2, <1>6, Zenon DEF RunnerDescribe
<1>7. CASE RunnerDescribed(p)
  BY <1>2, <1>7, Zenon DEF RunnerDescribed
<1>8. CASE UseInPlace(p)
  BY <1>8, Zenon DEF UseInPlace, inplace
<1>9. CASE KillInPlace(p)
  BY <1>9, Zenon DEF KillInPlace, inplace
<1> QED
  BY <1>3, <1>4, <1>5, <1>6, <1>7, <1>8, <1>9, Zenon DEF WriteInPlace, MaterializeCheck,
     MaterializeTruncate, MaterializeWrite

InPlaceInv == MetInv /\ ProfileInv /\ RunnerInv

\* The three hold in every state, for any number of users and kills.
LEMMA InPlaceInvariance == Spec => []InPlaceInv
<1>1. Init => InPlaceInv
  <2> SUFFICES ASSUME Init PROVE InPlaceInv
    BY Zenon
  <2>1. /\ \A p \in Process : pc[p] = "read"
        /\ record = "none" /\ disturbed = {} /\ met = {}
    BY Zenon DEF Init
  <2> QED
    BY <2>1 DEF InPlaceInv, MetInv, ProfileInv, RunnerInv, Active
<1>2. Inv /\ InPlaceInv /\ [Next]_vars => InPlaceInv'
  <2> SUFFICES ASSUME Inv, InPlaceInv, [Next]_vars PROVE InPlaceInv'
    BY Zenon
  <2>1. CASE UNCHANGED vars
    BY <2>1, Zenon DEF vars, inplace, InPlaceInv, MetInv, ProfileInv, RunnerInv, Active
  <2>2. ASSUME NEW p \in Process, EnsureBuilt(p) PROVE InPlaceInv'
    <3>1. cache' = "worker"
      BY <2>2, WorkerLeavesInPlace, Zenon
    <3> QED
      BY <3>1 DEF InPlaceInv, MetInv, ProfileInv, RunnerInv
  <2>3. ASSUME NEW p \in Process, WriteInPlace(p) PROVE InPlaceInv'
    BY <2>3, MetStep, ProfileStep, RunnerStep, Zenon DEF Inv, InPlaceInv
  <2> QED
    BY <2>1, <2>2, <2>3, Zenon DEF Next
<1> QED
  BY <1>1, <1>2, Invariance, PTL DEF Spec

\* A process that is alone with the profile cache from its check to its use is handed a
\* complete projection, for every number of users that overlapped or were killed before.
THEOREM Healing == Spec => []ProjectionHeals
<1>1. InPlaceInv => ProjectionHeals
  BY Zenon DEF InPlaceInv, ProfileInv, ProjectionHeals
<1> QED
  BY <1>1, InPlaceInvariance, PTL

\* Until two users of the runner overlap, no kill at any point of any build makes it
\* hand out an incomplete executable.
THEOREM KillsAreSafe == Spec => []KillsLeaveNoTornRunner
<1>1. InPlaceInv => KillsLeaveNoTornRunner
  <2> SUFFICES ASSUME InPlaceInv, cache = "runner", met = {}, NEW p \in Process,
                      pc[p] = "start"
               PROVE  file = "whole" /\ runnable
    BY Zenon DEF KillsLeaveNoTornRunner
  <2> QED
    BY DEF InPlaceInv, RunnerInv
<1> QED
  BY <1>1, InPlaceInvariance, PTL
=============================================================================
