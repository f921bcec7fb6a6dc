------------------------ MODULE ParallelMemoryProofs ------------------------
(***************************************************************************)
(* Proofs about ParallelMemory, for any PEs, addresses, bytes, region      *)
(* table, policy and page size.                                            *)
(***************************************************************************)
EXTENDS ParallelMemory, TLAPS

-----------------------------------------------------------------------------
(* Lemmas about the operators of GuestMemory.                              *)

\* The first address of the page that holds an address is an address.
LEMMA PageBaseNat ==
  ASSUME NEW a \in Nat, NEW n \in Nat \ {0}
  PROVE  PageBase(a, n) \in Nat
BY DEF PageBase

\* Every region a zero page adds is a readable and writable region.
LEMMA HolesAreRW ==
  ASSUME NEW table, NEW a \in Nat, NEW n \in Nat \ {0},
         NEW hole \in Holes(table, a, n)
  PROVE  hole \in Bridge!Region /\ hole.permissions = {"r", "w"}
<1> DEFINE lo == PageBase(a, n)
<1>1. lo \in Nat
  BY PageBaseNat, Zenon
<1>2. PICK f \in lo..(lo + n), t \in lo..(lo + n) :
        f < t /\ hole = ZeroRegion(f, t)
  BY <1>1, Zenon DEF Holes
<1>3. f \in Nat /\ t - f \in Nat \ {0}
  BY <1>1, <1>2
<1> QED
  BY <1>2, <1>3, Zenon DEF ZeroRegion, Bridge!Region, Bridge!Permission

\* The bridge instance and this module read the same region operators.
LEMMA SameHoles ==
  ASSUME NEW table, NEW a, NEW n
  PROVE  Bridge!MapZeroPage(table, a, n) = table \cup Holes(table, a, n)
BY Zenon DEF Bridge!MapZeroPage, Bridge!Holes, Holes, Bridge!PageBase, PageBase,
       Bridge!Mapped, Mapped, Bridge!Covers, Covers, Bridge!End, End,
       Bridge!ZeroRegion, ZeroRegion

\* The bridge accepts a write exactly where its own table permits one.
LEMMA SameWritable ==
  ASSUME NEW a
  PROVE  /\ Bridge!Writable(a) = Permits(regions, Policy, a, "w")
         /\ Bridge!Writable(a)' = Permits(regions', Policy, a, "w")
BY Zenon DEF Bridge!Writable, Bridge!Permits, Permits, Bridge!Check, Check,
       Bridge!Mapped, Mapped, Bridge!Covers, Covers, Bridge!End, End

\* Adding readable and writable regions to a table never takes a write
\* permission away: an address that was unmapped, and writable by the zero
\* policy, is still unmapped or lies in one of the new regions.
LEMMA WritableMonotone ==
  ASSUME NEW table, NEW new, NEW a,
         \A r \in new : "w" \in r.permissions,
         Permits(table, Policy, a, "w")
  PROVE  Permits(table \cup new, Policy, a, "w")
BY Zenon DEF Permits, Check, Mapped

-----------------------------------------------------------------------------
(* The inductive invariant.                                                *)

\* While a round is open nothing is applied, and an unmoved generation means
\* an unmoved bridge.
SnapshotCurrent ==
  status = "open" =>
    /\ applied = {}
    /\ base.generation <= generation
    /\ generation = base.generation => bytes = base.bytes /\ regions = base.regions

\* What a view observed came from the snapshot and was recorded; what it
\* buffered passed the snapshot's permission check; a PE without a view has
\* done neither.
ViewsRecorded ==
  \A p \in PE :
    /\ \A o \in seen[p] : o[1] \in reads[p] /\ o[2] = base.bytes[o[1]]
    /\ \A a \in Written(p) : p \in views /\ Allowed(a, "w")

\* The commit loop: validation found no conflict, an ascending prefix of the
\* views has been applied, the bridge differs from the snapshot only where
\* an applied view wrote, and no write permission has been lost.
CommitProgress ==
  status = "applying" =>
    /\ \A p, q \in views : q < p => Written(q) \cap reads[p] = {}
    /\ \A p \in applied, q \in views \ applied : p < q
    /\ \A a \in Addr : bytes[a] # base.bytes[a] => \E q \in applied : a \in Written(q)
    /\ \A a \in Addr : Allowed(a, "w") => Bridge!Writable(a)

\* A refused round is open and still in conflict.
RefusalStands == refused => status = "open" /\ Conflict

IInv == TypeOK /\ SnapshotCurrent /\ ViewsRecorded /\ CommitProgress /\ RefusalStands

-----------------------------------------------------------------------------
\* The initial state is well typed.
LEMMA TypeInit == Init => TypeOK
<1> SUFFICES ASSUME Init PROVE TypeOK
  BY Zenon
<1>1. /\ Image.regions \subseteq Bridge!Region
      /\ Image.bytes \in [Addr -> Byte]
  BY ParallelMemoryAssumption, Zenon
<1>2. base \in [regions : SUBSET Bridge!Region, bytes : [Addr -> Byte], generation : Nat]
  BY <1>1, Zenon DEF Init, Loaded
<1>3. /\ reads \in [PE -> SUBSET Addr]
      /\ writes \in [PE -> [Addr -> Byte \cup {NoByte}]]
      /\ seen \in [PE -> SUBSET (Addr \X Byte)]
  BY Zenon DEF Init, NoWrites
<1> QED
  BY <1>1, <1>2, <1>3, Zenon DEF Init, TypeOK

\* What the steps take from the theory of finite sets: the number of addresses
\* a view has written, by which its turn moves the generation, is a number.
\* Proved as SizeFactHolds below.
SizeFact == \A S \in SUBSET Addr : Cardinality(S) \in Nat

\* Every step of the bridge, the views and the commit loop keeps the types.
LEMMA TypeStep ==
  ASSUME SizeFact, TypeOK, [Next]_vars
  PROVE  TypeOK'
<1> USE ParallelMemoryAssumption
<1>1. CASE BeginRound
  BY <1>1, Zenon DEF BeginRound, Fresh, TypeOK, NoWrites, bridgeVars
<1>2. ASSUME NEW p \in PE, View(p) PROVE TypeOK'
  BY <1>2, Zenon DEF View, TypeOK, bridgeVars
<1>3. ASSUME NEW p \in PE, NEW A \in SUBSET Addr, ReadBytes(p, A) PROVE TypeOK'
  <2>1. { <<a, base.bytes[a]>> : a \in { b \in A : writes[p][b] = NoByte } }
          \subseteq Addr \X Byte
    <3>1. \A a \in Addr : base.bytes[a] \in Byte
      BY Zenon DEF TypeOK
    <3> QED
      BY <3>1
  <2>2. seen' \in [PE -> SUBSET (Addr \X Byte)]
    BY <1>3, <2>1, Zenon DEF ReadBytes, TypeOK
  <2> QED
    BY <1>3, <2>2, Zenon DEF ReadBytes, TypeOK, bridgeVars
<1>4. ASSUME NEW p \in PE, NEW a \in Addr, ReadByte(p, a) PROVE TypeOK'
  BY <1>4, <1>3, Zenon DEF ReadByte
<1>5. ASSUME NEW p \in PE, NEW a \in Addr, NEW n \in ChunkSizes, ReadChunk(p, a, n)
      PROVE  TypeOK'
  <2> DEFINE A == { b \in Addr :
                      a <= b /\ b < a + n /\ b < ChunkEnd(base.regions, a, PageSize) }
  <2>1. A \in SUBSET Addr /\ ReadBytes(p, A)
    BY <1>5, Zenon DEF ReadChunk
  <2> QED
    BY <2>1, <1>3, Zenon
<1>6. ASSUME NEW p \in PE, NEW a \in Addr, NEW v \in Byte, WriteByte(p, a, v)
      PROVE  TypeOK'
  BY <1>6, Zenon DEF WriteByte, TypeOK, bridgeVars
<1>7. CASE RaiseConflict
  BY <1>7, Zenon DEF RaiseConflict, TypeOK, bridgeVars
<1>8. CASE Validate
  BY <1>8, Zenon DEF Validate, TypeOK, bridgeVars
<1>9. ASSUME NEW p \in PE, ApplyView(p) PROVE TypeOK'
  <2>1. regions' \subseteq Bridge!Region
    <3> SUFFICES ASSUME NEW r \in regions' \ regions PROVE r \in Bridge!Region
      BY Zenon DEF TypeOK
    <3>1. PICK a \in Written(p) : r \in Holes(regions, a, PageSize)
      BY <1>9, Zenon DEF ApplyView
    <3>2. a \in Nat
      BY <3>1, Zenon DEF Written
    <3> QED
      BY <3>1, <3>2, HolesAreRW, Zenon
  <2>2. bytes' \in [Addr -> Byte]
    BY <1>9 DEF ApplyView, TypeOK
  <2>3. generation' \in Nat
    <3>1. Cardinality(Written(p)) \in Nat
      BY Zenon DEF SizeFact, Written
    <3>2. generation' = generation + Cardinality(Written(p)) /\ generation \in Nat
      BY <1>9, Zenon DEF ApplyView, TypeOK
    <3> QED
      BY <3>1, <3>2
  <2>4. applied' \subseteq views'
    BY <1>9, Zenon DEF ApplyView, Turn, TypeOK
  <2> QED
    BY <1>9, <2>1, <2>2, <2>3, <2>4, Zenon DEF ApplyView, TypeOK
<1>10. CASE CloseCommitted
  BY <1>10, Zenon DEF CloseCommitted, Fresh, Loaded, TypeOK, NoWrites, bridgeVars
<1>11. CASE Rollback
  BY <1>11, Zenon DEF Rollback, Fresh, Loaded, TypeOK, NoWrites, bridgeVars
<1>12. CASE Reload
  BY <1>12, Zenon DEF Reload, Bridge!LoadImage, TypeOK, roundVars
<1>13. ASSUME NEW a \in Addr, NEW v \in Byte, HostWrite(a, v) PROVE TypeOK'
  <2>1. regions' \subseteq Bridge!Region
    <3> SUFFICES ASSUME NEW r \in regions' \ regions PROVE r \in Bridge!Region
      BY Zenon DEF TypeOK
    <3>1. r \in Holes(regions, a, PageSize)
      BY <1>13, SameHoles, Zenon DEF HostWrite, Bridge!WriteByte, Bridge!Touch
    <3>2. a \in Nat
      BY Zenon
    <3> QED
      BY <3>1, <3>2, HolesAreRW, Zenon
  <2> QED
    BY <1>13, <2>1 DEF HostWrite, Bridge!WriteByte, TypeOK, roundVars
<1>14. CASE UNCHANGED vars
  BY <1>14, Zenon DEF vars, bridgeVars, roundVars, TypeOK
<1> QED
  BY <1>1, <1>2, <1>4, <1>5, <1>6, <1>7, <1>8, <1>9, <1>10, <1>11, <1>12, <1>13, <1>14, Zenon
     DEF Next, Access, Commit

-----------------------------------------------------------------------------
\* An idle coordinator over a freshly loaded image satisfies the invariant.
LEMMA InvInit == Init => IInv
<1> SUFFICES ASSUME Init PROVE IInv
  BY Zenon
<1>1. TypeOK
  BY TypeInit, Zenon
<1>2. SnapshotCurrent /\ CommitProgress /\ RefusalStands
  BY Zenon DEF Init, SnapshotCurrent, CommitProgress, RefusalStands
<1>3. ViewsRecorded
  BY Zenon DEF Init, ViewsRecorded, Written, NoWrites
<1> QED
  BY <1>1, <1>2, <1>3, Zenon DEF IInv

\* A new or a dropped coordinator has recorded nothing.
LEMMA FreshRecorded ==
  ASSUME NEW s, Fresh(s)
  PROVE  ViewsRecorded' /\ ~refused'
BY Zenon DEF Fresh, ViewsRecorded, Written, NoWrites

\* Reading through a view.
LEMMA ReadPreserves ==
  ASSUME IInv, status = "open", NEW p \in PE, p \in views, NEW A \in SUBSET Addr,
         ReadBytes(p, A)
  PROVE  SnapshotCurrent' /\ ViewsRecorded' /\ CommitProgress' /\ RefusalStands'
<1> USE DEF IInv
<1>1. SnapshotCurrent'
  BY Zenon DEF ReadBytes, SnapshotCurrent, bridgeVars
<1>2. ViewsRecorded'
  <2> SUFFICES ASSUME NEW q \in PE
               PROVE  /\ \A o \in seen'[q] : o[1] \in reads'[q] /\ o[2] = base'.bytes[o[1]]
                      /\ \A a \in Written(q)' : q \in views' /\ Allowed(a, "w")'
    BY Zenon DEF ViewsRecorded
  <2>1. \A a \in Written(q)' : q \in views' /\ Allowed(a, "w")'
    BY Zenon DEF ReadBytes, ViewsRecorded, Written, Allowed
  <2>2. ASSUME NEW o \in seen'[q]
        PROVE  o[1] \in reads'[q] /\ o[2] = base'.bytes[o[1]]
    <3>1. CASE o \in seen[q]
      BY <3>1, Zenon DEF ReadBytes, ViewsRecorded, TypeOK
    <3>2. CASE o \notin seen[q]
      <4>1. q = p /\ \E a \in A : o = <<a, base.bytes[a]>>
        BY <3>2, <2>2, Zenon DEF ReadBytes, TypeOK
      <4> QED
        BY <4>1 DEF ReadBytes, TypeOK
    <3> QED
      BY <3>1, <3>2, Zenon
  <2> QED
    BY <2>1, <2>2, Zenon
<1>3. CommitProgress'
  BY Zenon DEF ReadBytes, CommitProgress
<1>4. RefusalStands'
  <2>1. Conflict => Conflict'
    <3> SUFFICES ASSUME NEW r \in views, PriorWriters(r) \cap reads[r] # {}
                 PROVE  PriorWriters(r)' \cap reads'[r] # {}
      BY Zenon DEF Conflict, ReadBytes, bridgeVars
    <3>1. PriorWriters(r)' = PriorWriters(r)
      BY DEF PriorWriters, Written, ReadBytes
    <3>2. reads[r] \subseteq reads'[r]
      BY Zenon DEF ReadBytes, TypeOK
    <3> QED
      BY <3>1, <3>2, Zenon
  <2> QED
    BY <2>1, Zenon DEF RefusalStands, ReadBytes
<1> QED
  BY <1>1, <1>2, <1>3, <1>4, Zenon

\* Buffering a write: the permission check comes first, and a conflict that is
\* there stays there.
LEMMA WritePreserves ==
  ASSUME IInv, NEW p \in PE, NEW b \in Addr, NEW v \in Byte, WriteByte(p, b, v)
  PROVE  SnapshotCurrent' /\ ViewsRecorded' /\ CommitProgress' /\ RefusalStands'
<1> USE DEF IInv
<1>0. /\ NoByte \notin Byte
      /\ \A q \in PE : Written(q)' = IF q = p THEN Written(q) \cup {b} ELSE Written(q)
  BY ParallelMemoryAssumption DEF WriteByte, Written, TypeOK
<1>1. SnapshotCurrent'
  BY Zenon DEF WriteByte, SnapshotCurrent, bridgeVars
<1>2. ViewsRecorded'
  BY <1>0, Zenon DEF WriteByte, ViewsRecorded, Allowed
<1>3. CommitProgress'
  BY Zenon DEF WriteByte, CommitProgress
<1>4. RefusalStands'
  <2>1. Conflict => Conflict'
    <3> SUFFICES ASSUME NEW r \in views, PriorWriters(r) \cap reads[r] # {}
                 PROVE  PriorWriters(r)' \cap reads'[r] # {}
      BY Zenon DEF Conflict, WriteByte, bridgeVars
    <3>1. PriorWriters(r) \subseteq PriorWriters(r)'
      BY <1>0 DEF PriorWriters, WriteByte, TypeOK
    <3> QED
      BY <3>1, Zenon DEF WriteByte
  <2> QED
    BY <2>1, Zenon DEF RefusalStands, WriteByte
<1> QED
  BY <1>1, <1>2, <1>3, <1>4, Zenon

\* A new view can only add conflicts.
LEMMA ViewPreserves ==
  ASSUME IInv, NEW p \in PE, View(p)
  PROVE  SnapshotCurrent' /\ ViewsRecorded' /\ CommitProgress' /\ RefusalStands'
<1> USE DEF IInv
<1>1. SnapshotCurrent' /\ CommitProgress'
  BY Zenon DEF View, SnapshotCurrent, CommitProgress, bridgeVars
<1>2. ViewsRecorded'
  BY Zenon DEF View, ViewsRecorded, Written, Allowed
<1>3. RefusalStands'
  <2>1. Conflict => Conflict'
    <3> SUFFICES ASSUME NEW r \in views, PriorWriters(r) \cap reads[r] # {}
                 PROVE  PriorWriters(r)' \cap reads'[r] # {}
      BY Zenon DEF Conflict, View, bridgeVars
    <3>1. PriorWriters(r) \subseteq PriorWriters(r)'
      BY DEF PriorWriters, Written, View
    <3> QED
      BY <3>1, Zenon DEF View
  <2> QED
    BY <2>1, Zenon DEF RefusalStands, View
<1> QED
  BY <1>1, <1>2, <1>3, Zenon

\* Validation establishes the facts the commit loop runs on.
LEMMA ValidatePreserves ==
  ASSUME IInv, Validate
  PROVE  SnapshotCurrent' /\ ViewsRecorded' /\ CommitProgress' /\ RefusalStands'
<1> USE DEF IInv
<1>1. SnapshotCurrent'
  BY Zenon DEF Validate, SnapshotCurrent
<1>2. ViewsRecorded'
  BY Zenon DEF Validate, ViewsRecorded, Written, Allowed
<1>3. generation = base.generation /\ bytes = base.bytes /\ regions = base.regions
  BY Zenon DEF Validate, Conflict, SnapshotCurrent
<1>4. \A p, q \in views : q < p => Written(q) \cap reads[p] = {}
  BY Zenon DEF Validate, Conflict, PriorWriters
<1>5. applied = {}
  BY Zenon DEF Validate, SnapshotCurrent
<1>6. CommitProgress'
  <2>1. \A p, q \in views' : q < p => Written(q)' \cap reads'[p] = {}
    BY <1>4, Zenon DEF Validate, Written
  <2>2. \A a \in Addr : bytes'[a] = base'.bytes[a]
    BY <1>3, Zenon DEF Validate, bridgeVars
  <2>3. \A a \in Addr : Allowed(a, "w")' => Bridge!Writable(a)'
    BY <1>3, SameWritable, Zenon DEF Validate, bridgeVars, Allowed
  <2> QED
    BY <1>5, <2>1, <2>2, <2>3, Zenon DEF CommitProgress, Validate
<1>7. RefusalStands'
  BY Zenon DEF Validate, RefusalStands
<1> QED
  BY <1>1, <1>2, <1>6, <1>7, Zenon

\* One turn of the commit loop.
LEMMA ApplyPreserves ==
  ASSUME IInv, NEW p \in PE, ApplyView(p)
  PROVE  SnapshotCurrent' /\ ViewsRecorded' /\ CommitProgress' /\ RefusalStands'
<1> USE ParallelMemoryAssumption DEF IInv
<1>0. /\ status = "applying" /\ p \in views \ applied
      /\ \A q \in PE : Written(q)' = Written(q)
      /\ \A a \in Addr : Allowed(a, "w")' = Allowed(a, "w")
  BY Zenon DEF ApplyView, Turn, Written, Allowed
<1>1. SnapshotCurrent'
  BY Zenon DEF ApplyView, Turn, SnapshotCurrent
<1>2. ViewsRecorded'
  BY <1>0, Zenon DEF ApplyView, ViewsRecorded, Written
<1>3. CommitProgress'
  <2>1. \A r, q \in views' : q < r => Written(q)' \cap reads'[r] = {}
    BY <1>0, Zenon DEF ApplyView, CommitProgress, TypeOK
  <2>2. ASSUME NEW r \in applied', NEW q \in views' \ applied' PROVE r < q
    <3>1. q \in views \ applied /\ q # p
      BY <2>2, Zenon DEF ApplyView
    <3>2. CASE r \in applied
      BY <3>1, <3>2, <1>0, Zenon DEF CommitProgress
    <3>3. CASE r = p
      BY <3>1, <3>3 DEF ApplyView, Turn, TypeOK
    <3> QED
      BY <3>2, <3>3, Zenon DEF ApplyView
  <2>3. ASSUME NEW a \in Addr, bytes'[a] # base'.bytes[a]
        PROVE  \E q \in applied' : a \in Written(q)'
    <3>1. CASE a \in Written(p)
      BY <3>1, <1>0, Zenon DEF ApplyView
    <3>2. CASE a \notin Written(p)
      <4>1. bytes'[a] = bytes[a] /\ base' = base
        BY <3>2, Zenon DEF ApplyView, Written
      <4>2. PICK q \in applied : a \in Written(q)
        BY <4>1, <2>3, <1>0, Zenon DEF CommitProgress
      <4> QED
        BY <4>2, <1>0 DEF ApplyView, TypeOK
    <3> QED
      BY <3>1, <3>2, Zenon
  <2>4. ASSUME NEW a \in Addr, Allowed(a, "w")' PROVE Bridge!Writable(a)'
    <3> DEFINE new == UNION { Holes(regions, c, PageSize) :
                                c \in { d \in Written(p) : ~Mapped(regions, d) } }
    <3>1. Permits(regions, Policy, a, "w")
      BY <2>4, <1>0, SameWritable, Zenon DEF CommitProgress
    <3>2. \A r \in new : "w" \in r.permissions
      <4> SUFFICES ASSUME NEW c \in Written(p), NEW r \in Holes(regions, c, PageSize)
                   PROVE  "w" \in r.permissions
        BY Zenon
      <4>1. c \in Nat
        BY Zenon DEF Written
      <4> QED
        BY <4>1, HolesAreRW, Zenon
    <3>3. regions' = regions \cup new
      BY Zenon DEF ApplyView
    <3> HIDE DEF new
    <3>4. Permits(regions \cup new, Policy, a, "w")
      BY <3>1, <3>2, WritableMonotone, Zenon
    <3> QED
      BY <3>3, <3>4, SameWritable, Zenon
  <2> QED
    BY <2>1, <2>2, <2>3, <2>4, Zenon DEF CommitProgress
<1>4. RefusalStands'
  BY <1>0, Zenon DEF ApplyView, RefusalStands
<1> QED
  BY <1>1, <1>2, <1>3, <1>4, Zenon

\* A write from outside moves the generation away from the snapshot's.
LEMMA HostWritePreserves ==
  ASSUME IInv, NEW b \in Addr, NEW v \in Byte, HostWrite(b, v)
  PROVE  SnapshotCurrent' /\ ViewsRecorded' /\ CommitProgress' /\ RefusalStands'
<1> USE DEF IInv
<1>1. generation' = generation + 1 /\ UNCHANGED roundVars /\ status # "applying"
  BY Zenon DEF HostWrite, Bridge!WriteByte
<1>2. SnapshotCurrent'
  <2> SUFFICES ASSUME status' = "open"
               PROVE  /\ applied' = {} /\ base'.generation <= generation'
                      /\ generation' # base'.generation
    BY Zenon DEF SnapshotCurrent
  <2>1. base'.generation <= generation /\ applied' = {}
    BY <1>1, Zenon DEF SnapshotCurrent, roundVars
  <2>2. generation \in Nat /\ base'.generation \in Nat
    BY <1>1, Zenon DEF TypeOK, roundVars
  <2> QED
    BY <1>1, <2>1, <2>2
<1>3. ViewsRecorded'
  BY <1>1, Zenon DEF roundVars, ViewsRecorded, Written, Allowed
<1>4. CommitProgress'
  BY <1>1, Zenon DEF roundVars, CommitProgress
<1>5. RefusalStands'
  <2>1. CASE refused
    <3>1. status = "open" /\ base.generation <= generation
      BY <2>1, Zenon DEF RefusalStands, SnapshotCurrent
    <3>2. generation' # base'.generation
      BY <3>1, <1>1 DEF TypeOK, roundVars
    <3> QED
      BY <3>1, <3>2, <1>1, Zenon DEF RefusalStands, Conflict, roundVars
  <2>2. CASE ~refused
    BY <2>2, <1>1, Zenon DEF RefusalStands, roundVars
  <2> QED
    BY <2>1, <2>2, Zenon
<1> QED
  BY <1>2, <1>3, <1>4, <1>5, Zenon

-----------------------------------------------------------------------------
\* Every step keeps the inductive invariant, one case per action.
LEMMA InvStep ==
  ASSUME SizeFact, IInv, [Next]_vars
  PROVE  IInv'
<1> DEFINE Goal == SnapshotCurrent' /\ ViewsRecorded' /\ CommitProgress' /\ RefusalStands'
<1>0. TypeOK'
  BY TypeStep, Zenon DEF IInv
<1>1. CASE BeginRound
  <2>1. ViewsRecorded' /\ ~refused'
    BY <1>1, FreshRecorded, Zenon DEF BeginRound
  <2>2. SnapshotCurrent'
    BY <1>1 DEF BeginRound, Fresh, SnapshotCurrent, IInv, TypeOK, bridgeVars
  <2>3. CommitProgress'
    BY <1>1, Zenon DEF BeginRound, CommitProgress
  <2> QED
    BY <2>1, <2>2, <2>3, <1>0, Zenon DEF IInv, RefusalStands
<1>2. ASSUME NEW p \in PE, View(p) PROVE Goal
  BY <1>2, ViewPreserves, Zenon
<1>3. ASSUME NEW p \in PE, NEW a \in Addr, ReadByte(p, a) PROVE Goal
  BY <1>3, ReadPreserves, Zenon DEF ReadByte
<1>4. ASSUME NEW p \in PE, NEW a \in Addr, NEW n \in ChunkSizes, ReadChunk(p, a, n)
      PROVE  Goal
  <2> DEFINE A == { b \in Addr :
                      a <= b /\ b < a + n /\ b < ChunkEnd(base.regions, a, PageSize) }
  <2>1. /\ A \in SUBSET Addr /\ ReadBytes(p, A)
        /\ status = "open" /\ p \in views
    BY <1>4, Zenon DEF ReadChunk
  <2> HIDE DEF A
  <2> QED
    BY <2>1, ReadPreserves, Zenon
<1>5. ASSUME NEW p \in PE, NEW a \in Addr, NEW v \in Byte, WriteByte(p, a, v)
      PROVE  Goal
  BY <1>5, WritePreserves, Zenon
<1>6. CASE RaiseConflict
  <2>1. SnapshotCurrent' /\ CommitProgress'
    BY <1>6, Zenon DEF RaiseConflict, IInv, SnapshotCurrent, CommitProgress, bridgeVars
  <2>2. ViewsRecorded'
    BY <1>6, Zenon DEF RaiseConflict, IInv, ViewsRecorded, Written, Allowed
  <2>3. RefusalStands'
    BY <1>6 DEF RaiseConflict, RefusalStands, Conflict, PriorWriters, Written, bridgeVars
  <2> QED
    BY <2>1, <2>2, <2>3, <1>0, Zenon DEF IInv
<1>7. CASE Validate
  BY <1>0, <1>7, ValidatePreserves, Zenon DEF IInv
<1>8. ASSUME NEW p \in PE, ApplyView(p) PROVE Goal
  BY <1>8, ApplyPreserves, Zenon
<1>9. CASE CloseCommitted \/ Rollback
  <2>1. status' = "idle" /\ ViewsRecorded' /\ ~refused'
    BY <1>9, FreshRecorded, Zenon DEF CloseCommitted, Rollback
  <2> QED
    BY <2>1, <1>0, Zenon DEF IInv, SnapshotCurrent, CommitProgress, RefusalStands
<1>10. CASE Reload
  <2>1. UNCHANGED roundVars /\ status = "idle"
    BY <1>10, Zenon DEF Reload
  <2>2. ViewsRecorded'
    BY <2>1, Zenon DEF roundVars, IInv, ViewsRecorded, Written, Allowed
  <2> QED
    BY <2>1, <2>2, <1>0, Zenon
       DEF roundVars, IInv, SnapshotCurrent, CommitProgress, RefusalStands
<1>11. ASSUME NEW a \in Addr, NEW v \in Byte, HostWrite(a, v) PROVE Goal
  BY <1>11, HostWritePreserves, Zenon
<1>12. CASE UNCHANGED vars
  <2>1. SnapshotCurrent' /\ RefusalStands'
    BY <1>12 DEF vars, bridgeVars, roundVars, IInv, SnapshotCurrent, RefusalStands,
                 Conflict, PriorWriters, Written
  <2>2. ViewsRecorded'
    BY <1>12, Zenon DEF vars, roundVars, IInv, ViewsRecorded, Written, Allowed
  <2>3. CommitProgress'
    BY <1>12, SameWritable, Zenon
       DEF vars, bridgeVars, roundVars, IInv, CommitProgress, Written, Allowed
  <2> QED
    BY <2>1, <2>2, <2>3, <1>0, Zenon DEF IInv
<1>13. Goal => IInv'
  BY <1>0, Zenon DEF IInv
<1> HIDE DEF Goal
<1> QED
  BY <1>1, <1>2, <1>3, <1>4, <1>5, <1>6, <1>7, <1>8, <1>9, <1>10, <1>11, <1>12, <1>13, Zenon
     DEF Next, Access, Commit

\* The bytes a PE holds at its turn are the ones it read: an applied view that
\* changed one of them would be an earlier writer of an address the PE
\* read, which validation excludes.
LEMMA TurnReads == IInv => ReadsStillCurrent
<1> SUFFICES ASSUME IInv, NEW p \in PE, Turn(p), NEW o \in seen[p]
             PROVE  bytes[o[1]] = o[2]
  BY Zenon DEF ReadsStillCurrent
<1>1. o[1] \in Addr /\ o[1] \in reads[p] /\ o[2] = base.bytes[o[1]]
  BY Zenon DEF IInv, ViewsRecorded, TypeOK
<1>2. \A q \in applied : q < p /\ q \in views /\ p \in views
  BY Zenon DEF IInv, CommitProgress, Turn, TypeOK
<1>3. \A q \in applied : o[1] \notin Written(q)
  BY <1>1, <1>2, Zenon DEF IInv, CommitProgress, Turn
<1> QED
  BY <1>1, <1>3, Zenon DEF IInv, CommitProgress, Turn

-----------------------------------------------------------------------------
(* The refinement: Validate submits the round, each ApplyView is the turn  *)
(* of one PE, and every other step leaves the queue empty.                 *)

\* A freshly loaded memory with nothing submitted is initial in SerialRound.
LEMMA RefineInit == Init => Serial!Init
<1> SUFFICES ASSUME Init PROVE Serial!Init
  BY Zenon
<1>1. Queue = [p \in {} |-> {}]
  BY Zenon DEF Init, Queue
<1>2. bytes \in [Addr -> Byte]
  BY ParallelMemoryAssumption, Zenon DEF Init
<1> QED
  BY <1>1, <1>2, Zenon DEF Serial!Init

\* A passed validation submits the views of the round.
LEMMA RefineValidate ==
  ASSUME IInv, Validate
  PROVE  Serial!Submit
<1>1. DOMAIN Queue = {}
  BY Zenon DEF Validate, Queue
<1>2. bytes' = bytes
  BY Zenon DEF Validate, bridgeVars
<1>3. Queue' = [p \in views |-> [seen |-> seen[p], writes |-> writes[p]]]
  <2>1. applied = {}
    BY Zenon DEF IInv, SnapshotCurrent, Validate
  <2> QED
    BY <2>1, Zenon DEF Queue, Validate
<1>4. \A p \in views : [seen |-> seen[p], writes |-> writes[p]] \in Serial!Outcome
  BY Zenon DEF IInv, TypeOK, Serial!Outcome
<1>5. views \in SUBSET PE
  BY Zenon DEF IInv, TypeOK
<1>6. Queue' \in [views -> Serial!Outcome]
  BY <1>3, <1>4, Zenon
<1> QED
  BY <1>1, <1>2, <1>5, <1>6, Zenon DEF Serial!Submit

\* A turn of the commit loop is the serial execution of that PE.
LEMMA RefineApply ==
  ASSUME IInv, NEW p \in PE, ApplyView(p)
  PROVE  Serial!Exec(p)
<1>1. /\ status = "applying" /\ p \in views \ applied
      /\ \A q \in views \ applied : p <= q
  BY Zenon DEF ApplyView, Turn
<1>2. /\ DOMAIN Queue = views \ applied
      /\ Queue[p].seen = seen[p] /\ Queue[p].writes = writes[p]
  BY <1>1, Zenon DEF Queue
<1>3. \A o \in Queue[p].seen : bytes[o[1]] = o[2]
  BY <1>2, TurnReads, Zenon DEF ReadsStillCurrent, ApplyView
<1>4. bytes' = Serial!Overlay(bytes, Queue[p].writes)
  BY <1>2, Zenon DEF ApplyView, Serial!Overlay
<1>5. Queue' = [q \in DOMAIN Queue \ {p} |-> Queue[q]]
  <2>1. /\ status' = "applying" /\ views' \ applied' = (views \ applied) \ {p}
        /\ seen' = seen /\ writes' = writes
    BY <1>1, Zenon DEF ApplyView
  <2>2. Queue' = [q \in (views \ applied) \ {p} |-> [seen |-> seen[q], writes |-> writes[q]]]
    BY <2>1, Zenon DEF Queue
  <2>3. \A q \in views \ applied : Queue[q] = [seen |-> seen[q], writes |-> writes[q]]
    BY <1>1, Zenon DEF Queue
  <2> QED
    BY <1>2, <2>2, <2>3, Zenon
<1> QED
  BY <1>1, <1>2, <1>3, <1>4, <1>5, Zenon DEF Serial!Exec

\* A write from outside a commit, or a reload, is a host write.
LEMMA RefineHost ==
  ASSUME IInv, TypeOK', Reload \/ \E a \in Addr, v \in Byte : HostWrite(a, v)
  PROVE  Serial!HostWrite
<1>1. status # "applying" /\ UNCHANGED roundVars
  BY Zenon DEF Reload, HostWrite
<1>2. DOMAIN Queue = {} /\ Queue' = Queue
  BY <1>1, Zenon DEF Queue, roundVars
<1>3. bytes' \in [Addr -> Byte]
  BY Zenon DEF TypeOK
<1> QED
  BY <1>2, <1>3, Zenon DEF Serial!HostWrite

\* A step outside the commit loop that leaves the bytes alone.
LEMMA RefineStutter ==
  ASSUME bytes' = bytes,
         status # "applying" \/ views \ applied = {}, status' # "applying"
  PROVE  UNCHANGED <<bytes, Queue>>
<1>1. Queue = [p \in {} |-> [seen |-> seen[p], writes |-> writes[p]]]
  BY Zenon DEF Queue
<1>2. Queue' = [p \in {} |-> [seen |-> seen'[p], writes |-> writes'[p]]]
  BY Zenon DEF Queue
<1> QED
  BY <1>1, <1>2, Zenon

\* Every step is a step of SerialRound or leaves its variables alone.
LEMMA RefineStep ==
  ASSUME IInv, TypeOK', [Next]_vars
  PROVE  [Serial!Next]_<<bytes, Queue>>
<1>1. CASE Validate
  BY <1>1, RefineValidate, Zenon DEF Serial!Next
<1>2. ASSUME NEW p \in PE, ApplyView(p) PROVE Serial!Next
  BY <1>2, RefineApply, Zenon DEF Serial!Next
<1>3. CASE Reload \/ \E a \in Addr, v \in Byte : HostWrite(a, v)
  BY <1>3, RefineHost, Zenon DEF Serial!Next
<1>4. CASE BeginRound \/ RaiseConflict \/ CloseCommitted \/ Rollback
  BY <1>4, RefineStutter, Zenon
     DEF BeginRound, RaiseConflict, CloseCommitted, Rollback, bridgeVars
<1>5. ASSUME NEW p \in PE, View(p) \/ Access(p) PROVE UNCHANGED <<bytes, Queue>>
  <2>1. bytes' = bytes /\ status = "open" /\ status' = "open"
    BY <1>5, Zenon DEF View, Access, ReadByte, ReadChunk, ReadBytes, WriteByte, bridgeVars
  <2> QED
    BY <2>1, RefineStutter, Zenon
<1>6. CASE UNCHANGED vars
  BY <1>6, Zenon DEF vars, bridgeVars, roundVars, Queue
<1> QED
  BY <1>1, <1>2, <1>3, <1>4, <1>5, <1>6, Zenon DEF Next, Commit

\* Once a round is open, a step that changes a byte is a turn of a validated
\* commit, or moves the generation beyond the snapshot's.
LEMMA MutationIsTold ==
  ASSUME IInv, [Next]_vars, bytes' # bytes, status # "idle", status # "applying"
  PROVE  generation' > base.generation
<1>1. status = "open" /\ base.generation <= generation
  BY Zenon DEF IInv, TypeOK, SnapshotCurrent
<1>2. generation \in Nat /\ base.generation \in Nat
  BY Zenon DEF IInv, TypeOK
<1>3. ASSUME NEW p \in PE, View(p) \/ Access(p) PROVE bytes' = bytes
  BY <1>3, Zenon DEF View, Access, ReadByte, ReadChunk, ReadBytes, WriteByte, bridgeVars
<1>4. BeginRound \/ RaiseConflict \/ Validate \/ CloseCommitted \/ Rollback => bytes' = bytes
  BY Zenon DEF BeginRound, RaiseConflict, Validate, CloseCommitted, Rollback, bridgeVars
<1>5. ~Reload /\ \A p \in PE : ~ApplyView(p)
  BY <1>1, Zenon DEF Reload, ApplyView, Turn
<1>6. UNCHANGED vars => bytes' = bytes
  BY Zenon DEF vars, bridgeVars
<1>7. PICK a \in Addr, v \in Byte : HostWrite(a, v)
  BY <1>3, <1>4, <1>5, <1>6, Zenon DEF Next, Commit
<1>8. generation' = generation + 1
  BY <1>7, Zenon DEF HostWrite, Bridge!WriteByte
<1> QED
  BY <1>1, <1>2, <1>8

-----------------------------------------------------------------------------
(* The theorems.  The library is brought in only here: with its theorems in *)
(* scope every obligation becomes several times larger.                    *)
FST == INSTANCE FiniteSetTheorems

\* A set of addresses has a natural number of members.
LEMMA SizeFactHolds == SizeFact
<1> SUFFICES ASSUME NEW S \in SUBSET Addr PROVE Cardinality(S) \in Nat
  BY Zenon DEF SizeFact
<1>1. FST!IsFiniteSet(Addr)
  BY ParallelMemoryAssumption, Zenon DEF IsFiniteSet, FST!IsFiniteSet
<1>2. FST!IsFiniteSet(S)
  BY <1>1, FST!FS_Subset, Zenon
<1>3. FST!Cardinality(S) \in Nat
  BY <1>2, FST!FS_CardinalityType, Zenon
<1> QED
  BY <1>3, Zenon DEF Cardinality, FST!Cardinality

\* The inductive invariant holds in every reachable state.
LEMMA Invariance == Spec => []IInv
<1>1. IInv /\ [Next]_vars => IInv'
  BY InvStep, SizeFactHolds, Zenon
<1> QED
  BY <1>1, InvInit, PTL DEF Spec

\* Every reachable state is well typed.
THEOREM TypeCorrect == Spec => []TypeOK
<1>1. IInv => TypeOK
  BY Zenon DEF IInv
<1> QED
  BY <1>1, Invariance, PTL

\* The bridge is untouched while a round is open (OpenRoundIsolated).
THEOREM Isolation == Spec => []OpenRoundIsolated
<1>1. IInv => OpenRoundIsolated
  BY Zenon DEF IInv, SnapshotCurrent, OpenRoundIsolated
<1> QED
  BY <1>1, Invariance, PTL

\* Serial PE order of the bytes read (ReadsStillCurrent), for any number of
\* PEs and addresses.
THEOREM SerialReads == Spec => []ReadsStillCurrent
BY TurnReads, Invariance, PTL

\* A validated commit runs to its end (CommitNeverFaults).
THEOREM CommitCompletes == Spec => []CommitNeverFaults
<1>1. IInv => CommitNeverFaults
  BY Zenon DEF IInv, ViewsRecorded, CommitProgress, CommitNeverFaults, TypeOK, Written
<1> QED
  BY <1>1, Invariance, PTL

\* A refused round never reaches the bridge (RefusedNeverApplied).
THEOREM RefusalIsFinal == Spec => []RefusedNeverApplied
<1>1. IInv => RefusedNeverApplied
  BY Zenon DEF IInv, RefusalStands, RefusedNeverApplied
<1> QED
  BY <1>1, Invariance, PTL

\* Nothing but the turns of a validated commit changes a byte of the bridge
\* behind an open round's back (OnlyCommitMutates).
THEOREM MutationsTold == Spec => OnlyCommitMutates
<1>1. IInv /\ [Next]_vars =>
        [bytes' # bytes /\ status # "idle" =>
           status = "applying" \/ generation' > base.generation]_vars
  BY MutationIsTold, Zenon
<1> QED
  BY <1>1, Invariance, PTL DEF Spec, OnlyCommitMutates

\* The round implements serial execution in PE order (ImplementsSerialRound),
\* for every set of PEs, memory and permission table.
THEOREM Refinement == Spec => ImplementsSerialRound
<1>1. IInv => TypeOK
  BY Zenon DEF IInv
<1> QED
  BY <1>1, RefineInit, RefineStep, Invariance, PTL DEF Spec, ImplementsSerialRound, Serial!Spec
=============================================================================
