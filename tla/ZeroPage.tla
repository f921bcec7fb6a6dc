------------------------------ MODULE ZeroPage ------------------------------
(***************************************************************************)
(* The cursor scan of HostMemoryBridge._map_zero_page, step by step, and   *)
(* what it must compute.  GuestMemory!Holes is the declarative form that   *)
(* the state machines use; here the scan of the code is compared with it,  *)
(* for any region table.  HostScan puts it in its place in the bridge.     *)
(***************************************************************************)
EXTENDS GuestMemory

CONSTANTS
  Limit,        \* addresses are 0..(Limit-1)
  PageLength,   \* page_size of the bridge
  Inputs        \* region tables given to the scan

\* A table is what map_region leaves: regions of some size that share no address.
ASSUME ScanAssumption ==
  /\ Limit \in Nat
  /\ PageLength \in Nat \ {0}
  /\ \A table \in Inputs :
       /\ IsFiniteSet(table) /\ table \subseteq Region
       /\ PairwiseDisjoint(table)

VARIABLES
  before,       \* the table at entry (never changed by the loop itself)
  address,      \* the faulting address
  index,        \* loop position in the sorted table
  cursor,       \* first address of the page not yet accounted for
  added,        \* regions mapped so far by this call
  outcome       \* "scanning", "mapped", "overlap" (existing mapping)

scanVars == <<before, address, index, cursor, added, outcome>>

\* The regions by rising base: the n-th is the one with n - 1 below it.
Sorted(table) ==
  [n \in 1..Cardinality(table) |->
     CHOOSE r \in table : Cardinality({s \in table : s.base < r.base}) = n - 1]

Least(a, b) == IF a <= b THEN a ELSE b
Greatest(a, b) == IF a >= b THEN a ELSE b

PageEnd == PageBase(address, PageLength) + PageLength

Init ==
  /\ before \in Inputs
  /\ address \in 0..(Limit - 1)
  /\ index = 1
  /\ cursor = PageBase(address, PageLength)
  /\ added = {}
  /\ outcome = "scanning"

\* The address lies in an existing mapping: a permission fault stays a fault.
Reject ==
  /\ outcome = "scanning" /\ index = 1
  /\ Mapped(before, address)
  /\ outcome' = "overlap"
  /\ UNCHANGED <<before, address, index, cursor, added>>

\* "if region.end <= base: continue"
SkipRegion ==
  /\ outcome = "scanning" /\ ~Mapped(before, address)
  /\ index <= Cardinality(before)
  /\ End(Sorted(before)[index]) <= PageBase(address, PageLength)
  /\ index' = index + 1
  /\ UNCHANGED <<before, address, cursor, added, outcome>>

\* Fault variant: the cursor moves to the region's base, not past its end.
CursorAtBase(region) == Greatest(cursor, Least(region.base, PageEnd))

\* One loop body: map the hole before the region, move the cursor past it.
CursorAfter(region) == Greatest(cursor, Least(End(region), PageEnd))

\* Fault variant: holes before a region are left out.
NoHoleBefore(region) == {}

HoleBefore(region) ==
  LET holeEnd == Least(region.base, PageEnd)
  IN  IF cursor < holeEnd THEN {ZeroRegion(cursor, holeEnd)} ELSE {}

ScanRegion ==
  LET region == Sorted(before)[index]
  IN  /\ outcome = "scanning" /\ ~Mapped(before, address)
      /\ index <= Cardinality(before)
      /\ End(region) > PageBase(address, PageLength)
      /\ region.base < PageEnd
      /\ added' = added \cup HoleBefore(region)
      /\ cursor' = CursorAfter(region)
      /\ index' = index + 1
      /\ UNCHANGED <<before, address, outcome>>

\* Fault variant: the rest of the page is mapped only after an exhausted table.
RestWhenExhausted ==
  IF cursor < PageEnd /\ index > Cardinality(before)
  THEN {ZeroRegion(cursor, PageEnd)} ELSE {}

\* Fault variants: the whole page; the page from the faulting address on.
RestWholePage == {ZeroRegion(PageBase(address, PageLength), PageEnd)}
RestFromAddress == {ZeroRegion(address, PageEnd)}

RestOfPage == IF cursor < PageEnd THEN {ZeroRegion(cursor, PageEnd)} ELSE {}

\* The loop ends, at the first region beyond the page or at the table's end;
\* what is left of the page is mapped.
Finish ==
  /\ outcome = "scanning" /\ ~Mapped(before, address)
  /\ \/ index > Cardinality(before)
     \/ /\ index <= Cardinality(before)
        /\ Sorted(before)[index].base >= PageEnd
        /\ End(Sorted(before)[index]) > PageBase(address, PageLength)
  /\ added' = added \cup RestOfPage
  /\ outcome' = "mapped"
  /\ UNCHANGED <<before, address, index, cursor>>

Next == Reject \/ SkipRegion \/ ScanRegion \/ Finish

Spec == Init /\ [][Next]_scanVars

-----------------------------------------------------------------------------
\* map_region never raises "overlapping guest region" inside the scan: at no
\* step does a hole overlap an existing region or an earlier hole.
NoOverlap == PairwiseDisjoint(before \cup added)

\* When the scan returns, it has mapped exactly the unmapped runs of the page,
\* so no mapped byte changed its permissions and none of the page is missing.
MapsTheHoles ==
  outcome = "mapped" => added = Holes(before, address, PageLength)
=============================================================================
