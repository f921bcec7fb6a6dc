---------------------------- MODULE GuestMemory ----------------------------
(***************************************************************************)
(* Region tables of the sparse guest address space (runtime/memory.py) and *)
(* the on-demand zero page of the host bridge (runtime/host_memory.py).    *)
(*                                                                         *)
(* A region is a record [base, size, permissions]; its name is left out.   *)
(* A region table is a set of regions.  The code keeps a list sorted by    *)
(* base, which for pairwise disjoint regions is the same thing.            *)
(***************************************************************************)
EXTENDS Integers, FiniteSets

Permission == {"r", "w", "x"}

Region == [base : Nat, size : Nat \ {0}, permissions : SUBSET Permission]

End(region) == region.base + region.size

Covers(region, address) == region.base <= address /\ address < End(region)

Mapped(regions, address) == \E region \in regions : Covers(region, address)

\* GuestMemory._check for a one-byte access, without the zero policy.
Check(regions, address, permission) ==
  \E region \in regions :
    Covers(region, address) /\ permission \in region.permissions

\* One-byte access under the unmapped policy: a mapped address needs the
\* permission, an unmapped one needs the policy "zero".
Permits(regions, policy, address, permission) ==
  \/ Check(regions, address, permission)
  \/ ~Mapped(regions, address) /\ policy = "zero"

\* The overlap test of map_region.
Overlap(region, other) == region.base < End(other) /\ other.base < End(region)

PairwiseDisjoint(regions) ==
  \A region, other \in regions : region # other => ~Overlap(region, other)

PageBase(address, pageSize) == address - (address % pageSize)

ZeroRegion(from, to) ==
  [base |-> from, size |-> to - from, permissions |-> {"r", "w"}]

(***************************************************************************)
(* What _map_zero_page adds to the table: one rw region for each maximal   *)
(* run of unmapped addresses of the page that holds the address.           *)
(***************************************************************************)
Holes(regions, address, pageSize) ==
  LET lo == PageBase(address, pageSize)
      hi == lo + pageSize
      Free(a) == lo <= a /\ a < hi /\ ~Mapped(regions, a)
      IsHole(from, to) ==
        /\ from < to
        /\ \A a \in from..(to - 1) : Free(a)
        /\ ~Free(from - 1)
        /\ ~Free(to)
  IN  { ZeroRegion(p[1], p[2]) :
          p \in { q \in (lo..hi) \X (lo..hi) : IsHole(q[1], q[2]) } }

MapZeroPage(regions, address, pageSize) ==
  regions \cup Holes(regions, address, pageSize)

\* Forward extent of a chunk read: the end of the region that holds the
\* address, or, in an unmapped hole, the page end or the next region.
ChunkEnd(regions, address, pageSize) ==
  IF Mapped(regions, address)
  THEN CHOOSE e \in { End(r) : r \in { s \in regions : Covers(s, address) } } : TRUE
  ELSE LET pageEnd == PageBase(address, pageSize) + pageSize
           stops   == {pageEnd} \cup { r.base : r \in { s \in regions : s.base > address } }
       IN  CHOOSE e \in stops : \A f \in stops : e <= f
=============================================================================
