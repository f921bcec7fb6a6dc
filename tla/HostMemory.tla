----------------------------- MODULE HostMemory -----------------------------
(***************************************************************************)
(* HostMemoryBridge (runtime/host_memory.py) over GuestMemory: the central *)
(* guest memory of a run.  Accesses are one byte wide or forward chunks;   *)
(* an access to an unmapped address faults under the policy "deny" and     *)
(* maps the holes of its page under the policy "zero".  Every write bumps  *)
(* generation, the number worker caches are validated against.             *)
(*                                                                         *)
(* A byte that was never written reads as zero, so the sparse dictionary   *)
(* of the code is a total function here.  A refused access raises          *)
(* MemoryAccessError and changes nothing; it is not an action.  HostLoad   *)
(* adds load_image in detail and the specification.                        *)
(***************************************************************************)
EXTENDS GuestMemory

CONSTANTS
  Addr,          \* guest addresses
  Byte,          \* byte values, 0 among them
  PageSize,      \* page_size
  Policy,        \* unmapped_policy: "deny" or "zero"
  Images,        \* loadable images: [regions, bytes]
  MaxGeneration  \* bound on generation, for finite instances

ASSUME HostMemoryAssumption ==
  /\ Addr \subseteq Nat
  /\ 0 \in Byte
  /\ PageSize \in Nat \ {0}
  /\ Policy \in {"deny", "zero"}
  /\ MaxGeneration \in Nat

ASSUME ImagesAssumption ==
  \A image \in Images :
    /\ image.regions \subseteq Region
    /\ PairwiseDisjoint(image.regions)
    /\ image.bytes \in [Addr -> Byte]
    /\ \A a \in Addr : ~Mapped(image.regions, a) => image.bytes[a] = 0

VARIABLES
  regions,     \* memory.regions
  bytes,       \* memory._bytes
  generation,  \* generation
  saved        \* snapshots handed out and not yet forgotten by callers

vars == <<regions, bytes, generation, saved>>

Readable(a) == Permits(regions, Policy, a, "r")
Writable(a) == Permits(regions, Policy, a, "w")

\* The table after an access to the address: unchanged when it is mapped.
Touch(a) ==
  IF Mapped(regions, a) THEN regions ELSE MapZeroPage(regions, a, PageSize)

\* load_image: a fresh GuestMemory, generation back to zero.
LoadImage(image) ==
  /\ regions' = image.regions
  /\ bytes' = image.bytes
  /\ generation' = 0
  /\ UNCHANGED saved

\* read_byte and read_chunk: the only effect is the zero page they may map.
ReadByte(a) ==
  /\ Readable(a)
  /\ regions' = Touch(a)
  /\ UNCHANGED <<bytes, generation, saved>>

ReadChunk(a) == ReadByte(a)

\* Fault variant: the write is not counted.
WriteByteQuiet(a, v) ==
  /\ Writable(a)
  /\ regions' = Touch(a)
  /\ bytes' = [bytes EXCEPT ![a] = v]
  /\ UNCHANGED <<generation, saved>>

WriteByte(a, v) ==
  /\ Writable(a)
  /\ regions' = Touch(a)
  /\ bytes' = [bytes EXCEPT ![a] = v]
  /\ generation' = generation + 1
  /\ UNCHANGED saved

\* Fault variant: the region table comes back, the bytes do not.
RestoreTable(snapshot) ==
  /\ regions' = snapshot.regions
  /\ generation' = generation + 1
  /\ UNCHANGED <<bytes, saved>>

Restore(snapshot) ==
  /\ regions' = snapshot.regions
  /\ bytes' = snapshot.bytes
  /\ generation' = generation + 1
  /\ UNCHANGED saved

Access == \E a \in Addr : ReadByte(a) \/ ReadChunk(a)

Load == \E image \in Images : LoadImage(image)

-----------------------------------------------------------------------------
\* However loads, zero pages and restores follow one another, the regions of
\* the table are pairwise disjoint, so the first-match search of
\* GuestMemory._check does not depend on the order of the table.
RegionsDisjoint == PairwiseDisjoint(regions)

\* read_byte answers 0 for an unmapped address without looking at the stored
\* bytes; no stored byte contradicts it, now or after the page is mapped.
UnmappedIsZero ==
  \A a \in Addr : ~Mapped(regions, a) => bytes[a] = 0

\* The contract the worker caches rely on: as long as generation stands
\* still, and no new image is loaded, no byte changes.
GenerationGuardsBytes ==
  [][bytes' # bytes => generation' # generation \/ Load]_vars

\* An access never changes what an already mapped address permits: zero pages
\* fill holes only and a permission fault stays one.
PermissionsKept ==
  [][\/ \A a \in Addr, p \in Permission :
          Mapped(regions, a) => (Check(regions', a, p) <=> Check(regions, a, p))
     \/ Load
     \/ \E snapshot \in saved : Restore(snapshot)]_vars
=============================================================================
