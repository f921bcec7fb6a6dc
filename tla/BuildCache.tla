----------------------------- MODULE BuildCache -----------------------------
(***************************************************************************)
(* Three caches of built files that processes share through the file       *)
(* system: the embedded worker (EmbeddedAslWorker._ensure_built), which is *)
(* locked and published by two renames; the host-memory runner of the      *)
(* hosted model (_host_memory_runner) and the profile projections          *)
(* (AslModelProfile.materialize), which are written in place and without   *)
(* a lock.  A process may be killed at any point; the kernel then drops    *)
(* its lock.                                                               *)
(*                                                                         *)
(* A build is its digest.  Two builds of one cache key may differ; two     *)
(* projections, and two identities, of one key do not.                     *)
(***************************************************************************)
EXTENDS Naturals

CONSTANTS
  Process,
  Digest,      \* SHA-256 of the executables that builds produce
  None

ASSUME DigestAssumption == None \notin Digest /\ None \notin Process

VARIABLES
  cache,       \* the cache in use: "worker", "runner" or "profile"
  executable,  \* digest of target/aslref-worker
  metadata,    \* worker_sha256 of target/identity.json
  holder,      \* holder of build.lock
  pc, stage,   \* of each process; stage is the use of _cached_identity
  seen,        \* the digest it read from identity.json
  mine,        \* the digest it built
  identity,    \* the identity _ensure_built returned to it
  launched,    \* the executable its Popen opened
  file,        \* in-place artifact: "none", "partial" (cut or mixed), "whole"
  runnable,    \* it has the x bit
  record,      \* identity.json of the runner: "none", "partial", "whole"
  disturbed,   \* writers of a file that another process wrote meanwhile
  met          \* processes that were at work on the in-place caches while another
               \* was, for the properties only

worker == <<executable, metadata, holder, stage, seen, mine, identity, launched>>
inplace == <<file, runnable, record, disturbed, met>>
vars == <<cache, worker, pc, inplace>>

\* Whatever killed processes left in the target directory.
Init ==
  /\ cache \in {"worker", "runner", "profile"}
  /\ executable \in Digest \cup {None} /\ metadata \in Digest \cup {None}
  /\ holder = None
  /\ pc = [p \in Process |-> "read"] /\ stage = [p \in Process |-> "check"]
  /\ seen = [p \in Process |-> None] /\ mine = [p \in Process |-> None]
  /\ identity = [p \in Process |-> None] /\ launched = [p \in Process |-> None]
  /\ file \in IF cache = "profile" THEN {"none", "partial", "whole"} ELSE {"none"}
  /\ runnable = FALSE /\ record = "none"
  /\ disturbed = {} /\ met = {}

Goto(p, place) == pc' = [pc EXCEPT ![p] = place]
Release(p) == holder' = IF holder = p THEN None ELSE holder

-----------------------------------------------------------------------------
(* _ensure_built: check, lock, check again, build, publish, check.         *)

At(p, place) == cache = "worker" /\ pc[p] = place

\* Where a miss of _cached_identity leads.
OnMiss(p) ==
  CASE stage[p] = "check" -> "lock" [] stage[p] = "recheck" -> "build" [] OTHER -> "failed"

Miss(p) ==
  /\ Goto(p, OnMiss(p))
  /\ holder' = IF stage[p] = "verify" THEN None ELSE holder
  /\ UNCHANGED <<identity, seen>>

\* _cached_identity reads identity.json, then hashes the executable: two looks
\* at files that a process holding the lock may be replacing.
ReadMetadata(p) ==
  /\ At(p, "read")
  /\ \/ (executable = None \/ metadata = None) /\ Miss(p)
     \/ /\ executable # None /\ metadata # None
        /\ seen' = [seen EXCEPT ![p] = metadata] /\ Goto(p, "hash")
        /\ UNCHANGED <<holder, identity>>
  /\ UNCHANGED <<cache, executable, metadata, stage, mine, launched, inplace>>

\* Fault variant: the executable is not hashed.
HashExecutableUnchecked(p) ==
  /\ At(p, "hash")
  /\ identity' = [identity EXCEPT ![p] = seen[p]] /\ Goto(p, "start") /\ Release(p)
  /\ UNCHANGED <<cache, executable, metadata, stage, seen, mine, launched, inplace>>

HashExecutable(p) ==
  /\ At(p, "hash")
  /\ \/ executable # seen[p] /\ Miss(p)
     \/ /\ executable = seen[p]
        /\ identity' = [identity EXCEPT ![p] = seen[p]] /\ Goto(p, "start") /\ Release(p)
        /\ UNCHANGED seen
  /\ UNCHANGED <<cache, executable, metadata, stage, mine, launched, inplace>>

\* Fault variant: the cache is not checked again under the lock.
LockAndBuild(p) ==
  /\ At(p, "lock") /\ holder = None
  /\ holder' = p /\ Goto(p, "build") /\ stage' = [stage EXCEPT ![p] = "recheck"]
  /\ UNCHANGED <<cache, executable, metadata, seen, mine, identity, launched, inplace>>

Lock(p) ==
  /\ At(p, "lock") /\ holder = None
  /\ holder' = p /\ Goto(p, "read") /\ stage' = [stage EXCEPT ![p] = "recheck"]
  /\ UNCHANGED <<cache, executable, metadata, seen, mine, identity, launched, inplace>>

\* The build in a directory of its own; a compiler failure is a Crash.
Build(p) ==
  /\ At(p, "build")
  /\ \E d \in Digest : mine' = [mine EXCEPT ![p] = d]
  /\ Goto(p, "publish")
  /\ UNCHANGED <<cache, executable, metadata, holder, stage, seen, identity, launched, inplace>>

ReplaceExecutable(p) ==
  /\ At(p, "publish")
  /\ executable' = mine[p] /\ Goto(p, "describe")
  /\ UNCHANGED <<cache, metadata, holder, stage, seen, mine, identity, launched, inplace>>

ReplaceMetadata(p) ==
  /\ At(p, "describe")
  /\ metadata' = mine[p] /\ Goto(p, "read") /\ stage' = [stage EXCEPT ![p] = "verify"]
  /\ UNCHANGED <<cache, executable, holder, seen, mine, identity, launched, inplace>>

\* start launches the path, whatever lies there by then.
Popen(p) ==
  /\ At(p, "start")
  /\ launched' = [launched EXCEPT ![p] = executable] /\ Goto(p, "running")
  /\ UNCHANGED <<cache, executable, metadata, holder, stage, seen, mine, identity, inplace>>

\* The process is killed, or a step of it raises.
Crash(p) ==
  /\ cache = "worker" /\ pc[p] \notin {"running", "failed"}
  /\ Goto(p, "failed") /\ Release(p)
  /\ UNCHANGED <<cache, executable, metadata, stage, seen, mine, identity, launched, inplace>>

EnsureBuilt(p) ==
  \/ ReadMetadata(p) \/ HashExecutable(p) \/ Lock(p) \/ Build(p)
  \/ ReplaceExecutable(p) \/ ReplaceMetadata(p) \/ Popen(p) \/ Crash(p)

-----------------------------------------------------------------------------
(* _host_memory_runner: no lock, the executable is copied over the old one *)
(* and then its identity is written.                                       *)

InPlace(p, place, kind) == cache = kind /\ pc[p] = place

\* The other processes at a place, and those between their check and their use.
Others(p, place) == {q \in Process \ {p} : pc[q] = place}
AtWork(p) == {q \in Process \ {p} : pc[q] \notin {"read", "running", "failed"}}

\* A process looks at the cache and goes on.
Check(p, hit) ==
  /\ Goto(p, IF hit THEN "start" ELSE "build")
  /\ met' = IF AtWork(p) = {} THEN met ELSE met \cup AtWork(p) \cup {p}
  /\ UNCHANGED <<cache, worker, file, runnable, record, disturbed>>

\* Fault variant: a file under the name of the executable is a hit.
RunnerCheckExists(p) == InPlace(p, "read", "runner") /\ Check(p, file # "none")

\* An identity.json equal to the expected identity is enough: the executable
\* itself is not hashed.
RunnerCheck(p) ==
  InPlace(p, "read", "runner") /\ Check(p, file # "none" /\ runnable /\ record = "whole")

\* copy2 truncates the file and keeps its mode until the copy is complete.  Two
\* copies at once may mix two builds.
RunnerCopy(p) ==
  LET others == Others(p, "copying")
  IN /\ InPlace(p, "build", "runner")
     /\ file' = "partial" /\ Goto(p, "copying")
     /\ disturbed' = IF others = {} THEN disturbed ELSE disturbed \cup others \cup {p}
     /\ UNCHANGED <<cache, worker, runnable, record, met>>

RunnerCopied(p) ==
  /\ InPlace(p, "copying", "runner")
  /\ file' \in IF p \in disturbed THEN {"partial", "whole"} ELSE {"whole"}
  /\ runnable' = TRUE /\ Goto(p, "describe")
  /\ UNCHANGED <<cache, worker, record, disturbed, met>>

\* write_text truncates: who was writing the same text goes on behind a gap.
RunnerDescribe(p) ==
  /\ InPlace(p, "describe", "runner")
  /\ record' = "partial" /\ Goto(p, "describing")
  /\ disturbed' = (disturbed \cup Others(p, "describing")) \ {p}
  /\ UNCHANGED <<cache, worker, file, runnable, met>>

RunnerDescribed(p) ==
  /\ InPlace(p, "describing", "runner")
  /\ record' \in IF p \in disturbed THEN {record, "whole"} ELSE {"whole"}
  /\ Goto(p, "start")
  /\ UNCHANGED <<cache, worker, file, runnable, disturbed, met>>

(* materialize: the projection is compared and, unless equal, rewritten.   *)

\* Fault variant: an existing projection is not read.
MaterializeCheckExists(p) == InPlace(p, "read", "profile") /\ Check(p, file # "none")

MaterializeCheck(p) == InPlace(p, "read", "profile") /\ Check(p, file = "whole")

MaterializeTruncate(p) ==
  /\ InPlace(p, "build", "profile")
  /\ file' = "partial" /\ Goto(p, "copying")
  /\ disturbed' = (disturbed \cup Others(p, "copying")) \ {p}
  /\ UNCHANGED <<cache, worker, runnable, record, met>>

MaterializeWrite(p) ==
  /\ InPlace(p, "copying", "profile")
  /\ file' \in IF p \in disturbed THEN {file, "whole"} ELSE {"whole"}
  /\ Goto(p, "start")
  /\ UNCHANGED <<cache, worker, runnable, record, disturbed, met>>

\* The artifact is opened by the process that asked for it; or it is killed.
UseInPlace(p) ==
  /\ cache # "worker" /\ pc[p] = "start" /\ Goto(p, "running")
  /\ UNCHANGED <<cache, worker, inplace>>

KillInPlace(p) ==
  /\ cache # "worker" /\ pc[p] \notin {"running", "failed"} /\ Goto(p, "failed")
  /\ UNCHANGED <<cache, worker, inplace>>

WriteInPlace(p) ==
  \/ RunnerCheck(p) \/ RunnerCopy(p) \/ RunnerCopied(p) \/ RunnerDescribe(p)
  \/ RunnerDescribed(p) \/ MaterializeCheck(p) \/ MaterializeTruncate(p)
  \/ MaterializeWrite(p) \/ UseInPlace(p) \/ KillInPlace(p)

Next == \E p \in Process : EnsureBuilt(p) \/ WriteInPlace(p)

Spec == Init /\ [][Next]_vars

-----------------------------------------------------------------------------
Published == executable # None /\ executable = metadata

\* Once the executable and the metadata of the embedded worker agree, nobody
\* replaces either again: neither a process that missed the cache before, nor one
\* that waited for the lock, nor one that starts over after a crash.
PublishedStays ==
  [][Published => executable' = executable /\ metadata' = metadata]_vars

\* The worker that start launches is the executable whose digest the recorded
\* identity names, although start looks at the path again after the lock is gone.
LaunchedIsIdentity ==
  \A p \in Process : launched[p] # None => launched[p] = identity[p]

\* materialize hands out a complete projection to every process that was alone with
\* the cache from its check to its use, whatever users that overlapped, or were killed
\* in the middle of a write, left there before: it compares the content, not the name.
ProjectionHeals ==
  cache = "profile" =>
    \A p \in Process : pc[p] = "start" /\ p \notin met => file = "whole"

\* As long as no two users of the runner have overlapped, kills alone, at any point of
\* any number of builds, never make it hand out an incomplete executable: its identity
\* is written last, and only a cache without one is written again.  (After an overlap
\* this is lost for good: a copy that is killed under another's identity stays a hit.)
KillsLeaveNoTornRunner ==
  cache = "runner" /\ met = {} =>
    \A p \in Process : pc[p] = "start" => file = "whole" /\ runnable
=============================================================================
