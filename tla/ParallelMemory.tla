--------------------------- MODULE ParallelMemory ---------------------------
(***************************************************************************)
(* One parallel multi-PE round (runtime/parallel_memory.py): a coordinator *)
(* over a snapshot of the host bridge, one isolated view per PE, and a     *)
(* commit that validates read sets against the writes of earlier PEs       *)
(* before it touches the bridge.                                           *)
(*                                                                         *)
(* The workers of the PEs call their views from threads of a pool, so the  *)
(* accesses of different PEs interleave freely.  Commit runs on one thread *)
(* but not in one instant: the validation is a step (Validate) and so is   *)
(* each view's turn in the loop that writes to the bridge (ApplyView).     *)
(*                                                                         *)
(* seen is a history variable: the bytes a PE read from the snapshot, that *)
(* is, not from its own buffered writes.                                   *)
(***************************************************************************)
EXTENDS GuestMemory

CONSTANTS
  PE,            \* PE identifiers, numbers
  Addr, Byte,    \* guest addresses and byte values
  NoByte,        \* "no buffered write at this address"
  PageSize, Policy,
  Image,         \* the loaded image: [regions, bytes]
  ChunkSizes,    \* sizes that read_chunk and write_chunk are called with
  MaxGeneration  \* no round and no host write begins beyond this generation

VARIABLES
  regions, bytes, generation,  \* the bridge
  status,      \* "idle" (no open coordinator), "open", "applying"
  base,        \* snapshot, _regions and _initial_generation of the round
  views,       \* PEs that have a view
  reads,       \* _reads of each view
  writes,      \* _writes of each view
  seen,        \* history: <<address, value>> pairs read from the snapshot
  applied,     \* views whose writes the commit loop has applied
  refused      \* commit() has raised ParallelMemoryConflict in this round

bridgeVars == <<regions, bytes, generation>>
roundVars == <<status, base, views, reads, writes, seen, applied, refused>>
vars == <<bridgeVars, roundVars>>

Bridge == INSTANCE HostMemory WITH Images <- {Image}, saved <- {}

ASSUME ParallelMemoryAssumption ==
  /\ PE \subseteq Nat
  /\ IsFiniteSet(Addr)
  /\ NoByte \notin Byte
  /\ ChunkSizes \subseteq Nat \ {0}
  /\ Addr \subseteq Nat
  /\ PageSize \in Nat \ {0}
  /\ Policy \in {"deny", "zero"}
  /\ MaxGeneration \in Nat
  /\ Image.regions \subseteq Bridge!Region
  /\ Image.bytes \in [Addr -> Byte]

NoWrites == [a \in Addr |-> NoByte]

\* Fault variant: the PEs applied in the last commit are not forgotten.
FreshKeepsApplied(snapshot) ==
  /\ base' = snapshot
  /\ views' = {} /\ refused' = FALSE
  /\ reads' = [p \in PE |-> {}]
  /\ writes' = [p \in PE |-> NoWrites]
  /\ seen' = [p \in PE |-> {}]
  /\ UNCHANGED applied

\* A coordinator without views, over the given snapshot.
Fresh(snapshot) ==
  /\ base' = snapshot
  /\ views' = {} /\ applied' = {} /\ refused' = FALSE
  /\ reads' = [p \in PE |-> {}]
  /\ writes' = [p \in PE |-> NoWrites]
  /\ seen' = [p \in PE |-> {}]

Loaded == [regions |-> Image.regions, bytes |-> Image.bytes, generation |-> 0]

Init ==
  /\ regions = Image.regions /\ bytes = Image.bytes /\ generation = 0
  /\ status = "idle"
  /\ base = Loaded
  /\ views = {} /\ applied = {} /\ refused = FALSE
  /\ reads = [p \in PE |-> {}]
  /\ writes = [p \in PE |-> NoWrites]
  /\ seen = [p \in PE |-> {}]

\* ParallelMemoryCoordinator(bridge)
BeginRound ==
  /\ status = "idle" /\ generation <= MaxGeneration
  /\ status' = "open"
  /\ Fresh([regions |-> regions, bytes |-> bytes, generation |-> generation])
  /\ UNCHANGED bridgeVars

\* coordinator.view(p): at most one per PE.
View(p) ==
  /\ status = "open" /\ p \notin views
  /\ views' = views \cup {p}
  /\ UNCHANGED <<bridgeVars, status, base, reads, writes, seen, applied, refused>>

\* _check_access of the snapshot's table.
Allowed(a, permission) == Permits(base.regions, Policy, a, permission)

\* read_byte at each address of A: recorded whether or not the view's own
\* buffered write answers it.
ReadBytes(p, A) ==
  /\ reads' = [reads EXCEPT ![p] = @ \cup A]
  /\ seen' = [seen EXCEPT ![p] =
       @ \cup { <<a, base.bytes[a]>> : a \in { b \in A : writes[p][b] = NoByte } }]
  /\ UNCHANGED <<bridgeVars, status, base, views, writes, applied, refused>>

ReadByte(p, a) ==
  /\ status = "open" /\ p \in views
  /\ Allowed(a, "r")
  /\ ReadBytes(p, {a})

\* read_chunk: forward from a, not beyond its region or its hole.
ReadChunk(p, a, n) ==
  /\ status = "open" /\ p \in views
  /\ Allowed(a, "r")
  /\ ReadBytes(p, { b \in Addr :
       a <= b /\ b < a + n /\ b < ChunkEnd(base.regions, a, PageSize) })

\* Fault variant: the write goes through to the bridge at once.
WriteByteThrough(p, a, v) ==
  /\ status = "open" /\ p \in views
  /\ Allowed(a, "w")
  /\ writes' = [writes EXCEPT ![p][a] = v]
  /\ bytes' = [bytes EXCEPT ![a] = v]
  /\ UNCHANGED <<regions, generation, status, base, views, reads, seen, applied, refused>>

\* Fault variant: the permission is left to the bridge at commit.
WriteByteUnchecked(p, a, v) ==
  /\ status = "open" /\ p \in views
  /\ writes' = [writes EXCEPT ![p][a] = v]
  /\ UNCHANGED <<bridgeVars, status, base, views, reads, seen, applied, refused>>

WriteByte(p, a, v) ==
  /\ status = "open" /\ p \in views
  /\ Allowed(a, "w")
  /\ writes' = [writes EXCEPT ![p][a] = v]
  /\ UNCHANGED <<bridgeVars, status, base, views, reads, seen, applied, refused>>

Written(p) == { a \in Addr : writes[p][a] # NoByte }

\* Fault variant: only the writes of the immediately preceding view count.
LastWritersOnly(p) ==
  UNION { Written(q) : q \in { r \in views : r < p /\ \A s \in views : s < p => s <= r } }

\* prior_writers when the validation loop reaches p.
PriorWriters(p) == UNION { Written(q) : q \in { r \in views : r < p } }

Conflict ==
  \/ generation # base.generation
  \/ \E p \in views : PriorWriters(p) \cap reads[p] # {}

\* Fault variant: the read sets are dropped with the exception.
RaiseConflictForgets ==
  /\ status = "open" /\ Conflict
  /\ refused' = TRUE
  /\ reads' = [p \in PE |-> {}]
  /\ UNCHANGED <<bridgeVars, status, base, views, writes, seen, applied>>

\* commit() up to the end of the validation loop: it raises ...
RaiseConflict ==
  /\ status = "open" /\ Conflict
  /\ refused' = TRUE
  /\ UNCHANGED <<bridgeVars, status, base, views, reads, writes, seen, applied>>

\* ... or goes on to the loop that writes.
Validate ==
  /\ status = "open" /\ ~Conflict
  /\ status' = "applying"
  /\ UNCHANGED <<bridgeVars, base, views, reads, writes, seen, applied, refused>>

\* Fault variant: the views are visited in creation order, which may be any.
AnyTurn(p) == status = "applying" /\ p \in views \ applied

\* The views are visited in ascending PE order.
Turn(p) ==
  /\ status = "applying" /\ p \in views \ applied
  /\ \A q \in views \ applied : p <= q

\* bridge.write_byte for every buffered write of p, in address order: each
\* bumps generation and maps the page of an unmapped address.
ApplyView(p) ==
  /\ Turn(p)
  /\ \A a \in Written(p) : Bridge!Writable(a)
  /\ bytes' = [a \in Addr |-> IF writes[p][a] = NoByte THEN bytes[a] ELSE writes[p][a]]
  /\ regions' = regions \cup
       UNION { Holes(regions, a, PageSize) : a \in { b \in Written(p) : ~Mapped(regions, b) } }
  /\ generation' = generation + Cardinality(Written(p))
  /\ applied' = applied \cup {p}
  /\ UNCHANGED <<status, base, views, reads, writes, seen, refused>>

\* Every view is closed, then the coordinator, and the executor drops it.
CloseCommitted ==
  /\ status = "applying" /\ applied = views
  /\ status' = "idle"
  /\ Fresh(Loaded)
  /\ UNCHANGED bridgeVars

\* Fault variant: rollback flushes buffered writes instead of clearing them.
RollbackFlushes ==
  /\ status = "open"
  /\ status' = "idle"
  /\ Fresh(Loaded)
  /\ bytes' = [a \in Addr |-> IF \E p \in views : writes[p][a] # NoByte
                              THEN writes[CHOOSE p \in views : writes[p][a] # NoByte][a]
                              ELSE bytes[a]]
  /\ UNCHANGED <<regions, generation>>

Rollback ==
  /\ status = "open"
  /\ status' = "idle"
  /\ Fresh(Loaded)
  /\ UNCHANGED bridgeVars

\* Any other writer of the bridge: the steps of a serial round, the host.  A
\* commit is not interrupted: the runner's thread is the only one left.
HostWrite(a, v) ==
  /\ status # "applying" /\ generation < MaxGeneration
  /\ Bridge!WriteByte(a, v)
  /\ UNCHANGED roundVars

\* A new run, or the serial rerun after a conflict, reloads the image.
Reload ==
  /\ status = "idle"
  /\ Bridge!LoadImage(Image)
  /\ UNCHANGED roundVars

Access(p) ==
  \E a \in Addr :
    \/ ReadByte(p, a)
    \/ \E n \in ChunkSizes : ReadChunk(p, a, n)
    \/ \E v \in Byte : WriteByte(p, a, v)

Commit == RaiseConflict \/ Validate \/ CloseCommitted \/ \E p \in PE : ApplyView(p)

Next ==
  \/ BeginRound
  \/ \E p \in PE : View(p) \/ Access(p)
  \/ Commit
  \/ Rollback
  \/ Reload
  \/ \E a \in Addr, v \in Byte : HostWrite(a, v)

Spec == Init /\ [][Next]_vars

-----------------------------------------------------------------------------
TypeOK ==
  /\ regions \subseteq Bridge!Region
  /\ bytes \in [Addr -> Byte]
  /\ generation \in Nat
  /\ status \in {"idle", "open", "applying"}
  /\ base \in [regions : SUBSET Bridge!Region, bytes : [Addr -> Byte], generation : Nat]
  /\ views \subseteq PE /\ applied \subseteq views
  /\ reads \in [PE -> SUBSET Addr]
  /\ writes \in [PE -> [Addr -> Byte \cup {NoByte}]]
  /\ seen \in [PE -> SUBSET (Addr \X Byte)]
  /\ refused \in BOOLEAN

\* "The coordinator delays all mutations of the host bridge": while a round is
\* open the bridge is the snapshot, unless somebody else wrote to it, which
\* the generation then tells.
OpenRoundIsolated ==
  status = "open" /\ generation = base.generation => bytes = base.bytes

\* Serial PE order: when the commit loop reaches a PE, the central memory, with
\* the writes of all earlier PEs in it, still holds every byte the PE read from
\* the snapshot.  The PE might as well have executed at that moment.
ReadsStillCurrent ==
  \A p \in PE : Turn(p) => \A o \in seen[p] : bytes[o[1]] = o[2]

\* A commit that has passed validation is never stopped half way by a refused
\* write: each write that is left is one the bridge accepts, whatever zero
\* pages the earlier writes mapped.
CommitNeverFaults ==
  status = "applying" =>
    \A p \in views \ applied : \A a \in Written(p) : Bridge!Writable(a)

\* A round that raised ParallelMemoryConflict is lost for good: more accesses
\* and another commit() cannot get its writes into the bridge.
RefusedNeverApplied == refused => status # "applying"

\* Once a round is open only the turns of a validated commit change the bridge
\* without telling: any other change of a byte is visible in the generation,
\* and conflict, rollback and the views' accesses change none.
OnlyCommitMutates ==
  [][bytes' # bytes /\ status # "idle" =>
       status = "applying" \/ generation' > base.generation]_vars

\* The PEs whose turn in the commit loop is still to come.
Queue ==
  [p \in (IF status = "applying" THEN views \ applied ELSE {}) |->
     [seen |-> seen[p], writes |-> writes[p]]]

Serial == INSTANCE SerialRound WITH queue <- Queue

\* "deterministic PE-order execution": every behaviour of the coordinator and
\* its views is, byte for byte, one in which the PEs of each committed round
\* execute one after the other on the central memory.
ImplementsSerialRound == Serial!Spec
=============================================================================
