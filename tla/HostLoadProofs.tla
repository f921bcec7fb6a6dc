--------------------------- MODULE HostLoadProofs ---------------------------
(***************************************************************************)
(* The stack layout and the table of the host bridge, for every program,   *)
(* every argument of load_image, every page size and address space; and    *)
(* the scan of _map_zero_page (module ZeroPage), for every table.          *)
(***************************************************************************)
EXTENDS HostLoad, ZeroPage, WellFoundedInduction, TLAPS

-----------------------------------------------------------------------------
(* Arithmetic.                                                             *)

\* A set of natural numbers that is not empty has a least element.
LEMMA LeastElement ==
  ASSUME NEW T \in SUBSET Nat, T # {}
  PROVE  \E x \in T : \A y \in T : x <= y
<1>1. \E x \in T : \A y \in T : ~ (<<y, x>> \in OpToRel(<, Nat))
  BY NatLessThanWellFounded, WFMin, Zenon
<1>2. \E x \in T : \A y \in T : ~(y < x)
  BY <1>1, Zenon DEF OpToRel
<1> QED
  BY <1>2

\* Banks that lie i and j strides above the same base are a stride apart.
LEMMA StridesApart ==
  ASSUME NEW i \in Nat, NEW j \in Nat, i < j, NEW stride \in Nat
  PROVE  i * stride + stride <= j * stride
<1>1. PICK k \in Nat : j = i + 1 + k
  <2>1. j - i - 1 \in Nat /\ j = i + 1 + (j - i - 1)
    OBVIOUS
  <2> QED
    BY <2>1, Zenon
<1>2. j * stride = i * stride + stride + k * stride
  BY <1>1, SMT
<1>3. k * stride >= 0
  BY <1>1, SMT
<1> QED
  BY <1>2, <1>3

\* The page of an address begins at or below it and ends above it.
LEMMA PageOf ==
  ASSUME NEW a \in Nat, NEW n \in Nat \ {0}
  PROVE  /\ PageBase(a, n) \in Nat
         /\ PageBase(a, n) <= a /\ a < PageBase(a, n) + n
BY DEF PageBase

-----------------------------------------------------------------------------
(* The layout.                                                             *)

\* What resolve accepts: banks inside the address space, away from every segment
\* and from one another, each with its initial stack pointer inside.
BanksSound(segments, o, banks) ==
  /\ \A bank \in banks :
       /\ BankRegion(bank) \in Region
       /\ bank.base + bank.size <= AddressLimit
       /\ bank.base < StackPointer(bank, o) /\ StackPointer(bank, o) <= bank.base + bank.size
       /\ \A s \in segments : ~Overlap(BankRegion(bank), s)
  /\ \A left, right \in banks : left # right => ~Overlap(BankRegion(left), BankRegion(right))

\* The top of the first bank is an integer, given or computed from the image.
LEMMA TopIsInt ==
  ASSUME NEW segments \in SUBSET Region, NEW o, IsOptions(o),
         \E last \in segments : \A s \in segments : End(s) <= End(last)
  PROVE  StackSize(o) \in Int /\ Stride(o) \in Int /\ StackTop(segments, o, PageSize) \in Int
<1>1. StackSize(o) \in Int /\ Stride(o) \in Int
  BY LayoutAssumption DEF IsOptions, StackSize, Stride
<1>2. ImageEnd(segments) \in Int
  BY DEF ImageEnd, End, Region
<1>3. \A v \in Int : AlignUp(v, PageSize) \in Int
  BY HostMemoryAssumption DEF AlignUp
<1>4. ImageEnd(segments) + o.gap + StackSize(o) \in Int
  BY <1>1, <1>2 DEF IsOptions
<1> QED
  BY <1>1, <1>3, <1>4, Zenon DEF IsOptions, StackTop

\* A layout that resolve returns is sound, whatever the arguments: the overflow,
\* overlap and stride checks cover every pair of banks, not only neighbours.
THEOREM LayoutSound ==
  ASSUME NEW segments \in SUBSET Region, NEW o, IsOptions(o),
         \E last \in segments : \A s \in segments : End(s) <= End(last),
         Resolve(segments, o, PageSize) # Refused
  PROVE  BanksSound(segments, o, Resolve(segments, o, PageSize))
<1> DEFINE top == StackTop(segments, o, PageSize)
           size == StackSize(o)
           stride == Stride(o)
<1>1. CASE o.policy = "disabled"
  BY <1>1, Zenon DEF Resolve, BanksSound
<1>2. CASE o.policy # "disabled"
  <2>1. size \in Int /\ stride \in Int /\ top \in Int
    BY TopIsInt, Zenon
  <2>2. /\ Resolve(segments, o, PageSize) = Banks(top, o)
        /\ o.count > 0 /\ o.redZone >= 0 /\ size > 0 /\ o.redZone < size
        /\ stride >= size /\ Fits(segments, Banks(top, o))
    BY <1>2, Zenon DEF Resolve, WellFormed
  <2>3. stride \in Nat /\ size \in Nat \ {0}
    BY <2>1, <2>2
  <2>4. ASSUME NEW bank \in Banks(top, o)
        PROVE  \E i \in Nat : bank = Bank(top, o, i)
    BY <2>4 DEF Banks, IsOptions
  <2>5. ASSUME NEW i \in Nat
        PROVE  i * stride \in Int
    BY <2>3, <2>5
  <2>6. ASSUME NEW bank \in Banks(top, o)
        PROVE  /\ BankRegion(bank) \in Region
               /\ bank.base + bank.size <= AddressLimit
               /\ bank.base < StackPointer(bank, o)
               /\ StackPointer(bank, o) <= bank.base + bank.size
               /\ \A s \in segments : ~Overlap(BankRegion(bank), s)
    <3>1. PICK i \in Nat : bank = Bank(top, o, i)
      BY <2>4, Zenon
    <3> DEFINE b == i * stride
    <3>2. b \in Int
      BY <2>5, Zenon
    <3>3. bank.base = top - size + b /\ bank.size = size /\ bank.top = top + b
      BY <3>1, Zenon DEF Bank
    <3>4. bank.base >= 0 /\ bank.base + bank.size <= AddressLimit
      BY <2>2, Zenon DEF Fits
    <3>5. \A s \in segments : ~(bank.base < End(s) /\ bank.base + bank.size > s.base)
      BY <2>2, Zenon DEF Fits
    <3> HIDE DEF b, top, size, stride
    <3>6. BankRegion(bank) \in Region
      BY <2>1, <2>3, <3>2, <3>3, <3>4 DEF BankRegion, Region, Permission
    <3>7. bank.base < StackPointer(bank, o) /\ StackPointer(bank, o) <= bank.base + bank.size
      BY <2>1, <2>2, <3>2, <3>3 DEF StackPointer, IsOptions
    <3>8. \A s \in segments : ~Overlap(BankRegion(bank), s)
      BY <2>1, <3>2, <3>3, <3>5, Zenon DEF BankRegion, Overlap, End, Region
    <3> QED
      BY <3>4, <3>6, <3>7, <3>8, Zenon
  <2>7. ASSUME NEW i \in Nat, NEW j \in Nat, i < j
        PROVE  ~Overlap(BankRegion(Bank(top, o, i)), BankRegion(Bank(top, o, j)))
    <3> DEFINE b == i * stride
               c == j * stride
    <3>1. b + stride <= c
      BY <2>3, <2>7, StridesApart, Zenon
    <3>2. b \in Int /\ c \in Int
      BY <2>5, Zenon
    <3>3. /\ BankRegion(Bank(top, o, i)).base = top - size + b
          /\ BankRegion(Bank(top, o, i)).size = size
          /\ BankRegion(Bank(top, o, j)).base = top - size + c
      BY Zenon DEF BankRegion, Bank
    <3> HIDE DEF b, c, top, size, stride
    <3> QED
      BY <2>1, <2>2, <3>1, <3>2, <3>3 DEF Overlap, End
  <2>8. ASSUME NEW left \in Banks(top, o), NEW right \in Banks(top, o), left # right
        PROVE  ~Overlap(BankRegion(left), BankRegion(right))
    <3>1. PICK i \in Nat : left = Bank(top, o, i)
      BY <2>4, Zenon
    <3>2. PICK j \in Nat : right = Bank(top, o, j)
      BY <2>4, Zenon
    <3>3. i < j \/ j < i
      BY <2>8, <3>1, <3>2
    <3>4. CASE i < j
      BY <2>7, <3>1, <3>2, <3>4, Zenon
    <3>5. CASE j < i
      BY <2>7, <3>1, <3>2, <3>5, Zenon DEF Overlap
    <3> QED
      BY <3>3, <3>4, <3>5, Zenon
  <2> QED
    BY <2>2, <2>6, <2>8, Zenon DEF BanksSound
<1> QED
  BY <1>1, <1>2, Zenon

-----------------------------------------------------------------------------
(* The zero page.                                                          *)

\* Every region a zero page adds is a region, and all of its addresses were free.
LEMMA HoleIsFree ==
  ASSUME NEW table, NEW a \in Nat, NEW n \in Nat \ {0}, NEW hole \in Holes(table, a, n)
  PROVE  /\ hole \in Region
         /\ \A b \in Nat : Covers(hole, b) => ~Mapped(table, b)
<1> DEFINE lo == PageBase(a, n)
<1>1. lo \in Nat
  BY PageOf, Zenon
<1>2. PICK f \in lo..(lo + n), t \in lo..(lo + n) :
        /\ f < t /\ hole = ZeroRegion(f, t)
        /\ \A b \in f..(t - 1) : ~Mapped(table, b)
  BY <1>1, Zenon DEF Holes
<1>3. hole \in Region
  BY <1>1, <1>2 DEF ZeroRegion, Region, Permission
<1>4. ASSUME NEW b \in Nat, Covers(hole, b) PROVE b \in f..(t - 1)
  BY <1>1, <1>2, <1>4 DEF ZeroRegion, Covers, End
<1> QED
  BY <1>2, <1>3, <1>4, Zenon

\* Two holes of a page that share an address are the same hole: each is maximal.
LEMMA HolesApart ==
  ASSUME NEW table, NEW a \in Nat, NEW n \in Nat \ {0},
         NEW hole \in Holes(table, a, n), NEW other \in Holes(table, a, n), hole # other
  PROVE  ~Overlap(hole, other)
<1> DEFINE lo == PageBase(a, n)
           Free(b) == lo <= b /\ b < lo + n /\ ~Mapped(table, b)
<1>1. lo \in Nat
  BY PageOf, Zenon
<1>2. PICK f \in lo..(lo + n), t \in lo..(lo + n) :
        /\ f < t /\ hole = ZeroRegion(f, t)
        /\ \A b \in f..(t - 1) : Free(b)
        /\ ~Free(f - 1) /\ ~Free(t)
  BY <1>1, Zenon DEF Holes
<1>3. PICK g \in lo..(lo + n), u \in lo..(lo + n) :
        /\ g < u /\ other = ZeroRegion(g, u)
        /\ \A b \in g..(u - 1) : Free(b)
        /\ ~Free(g - 1) /\ ~Free(u)
  BY <1>1, Zenon DEF Holes
<1> HIDE DEF Free, lo
<1>4. SUFFICES ASSUME f < u, g < t PROVE FALSE
  BY <1>1, <1>2, <1>3 DEF Overlap, End, ZeroRegion
<1>5. f = g
  <2>1. ~(f < g)
    <3>1. f < g => g - 1 \in f..(t - 1)
      BY <1>1, <1>4
    <3> QED
      BY <1>2, <1>3, <3>1, Zenon
  <2>2. ~(g < f)
    <3>1. g < f => f - 1 \in g..(u - 1)
      BY <1>1, <1>4
    <3> QED
      BY <1>2, <1>3, <3>1, Zenon
  <2> QED
    BY <1>1, <2>1, <2>2
<1>6. t = u
  <2>1. ~(t < u)
    <3>1. t < u => t \in g..(u - 1)
      BY <1>1, <1>4
    <3> QED
      BY <1>2, <1>3, <3>1, Zenon
  <2>2. ~(u < t)
    <3>1. u < t => u \in f..(t - 1)
      BY <1>1, <1>4
    <3> QED
      BY <1>2, <1>3, <3>1, Zenon
  <2> QED
    BY <1>1, <2>1, <2>2
<1> QED
  BY <1>2, <1>3, <1>5, <1>6, Zenon

\* A zero page leaves a disjoint table disjoint.
LEMMA ZeroPageDisjoint ==
  ASSUME NEW table \in SUBSET Region, PairwiseDisjoint(table),
         NEW a \in Nat, NEW n \in Nat \ {0}
  PROVE  /\ MapZeroPage(table, a, n) \subseteq Region
         /\ PairwiseDisjoint(MapZeroPage(table, a, n))
<1>1. ASSUME NEW r \in table, NEW hole \in Holes(table, a, n), Overlap(r, hole)
      PROVE  FALSE
  <2>1. hole \in Region /\ r \in Region
    BY HoleIsFree, Zenon
  <2>2. PICK b \in Nat : Covers(r, b) /\ Covers(hole, b)
    <3>1. CASE r.base <= hole.base
      BY <1>1, <2>1, <3>1 DEF Overlap, Covers, End, Region
    <3>2. CASE hole.base <= r.base
      BY <1>1, <2>1, <3>2 DEF Overlap, Covers, End, Region
    <3> QED
      BY <2>1, <3>1, <3>2 DEF Region
  <2>3. ~Mapped(table, b)
    BY <2>2, HoleIsFree, Zenon
  <2> QED
    BY <2>2, <2>3, Zenon DEF Mapped
<1>2. MapZeroPage(table, a, n) \subseteq Region
  BY HoleIsFree, Zenon DEF MapZeroPage
<1>3. ASSUME NEW r \in MapZeroPage(table, a, n), NEW s \in MapZeroPage(table, a, n), r # s
      PROVE  ~Overlap(r, s)
  <2>1. CASE r \in table /\ s \in table
    BY <1>3, <2>1, Zenon DEF PairwiseDisjoint
  <2>2. CASE r \in table /\ s \in Holes(table, a, n)
    BY <1>1, <2>2, Zenon
  <2>3. CASE s \in table /\ r \in Holes(table, a, n)
    BY <1>1, <2>3, Zenon DEF Overlap
  <2>4. CASE r \in Holes(table, a, n) /\ s \in Holes(table, a, n)
    BY <1>3, <2>4, HolesApart, Zenon
  <2> QED
    BY <1>3, <2>1, <2>2, <2>3, <2>4, Zenon DEF MapZeroPage
<1> QED
  BY <1>2, <1>3, Zenon DEF PairwiseDisjoint

\* An address that faulted is mapped by the zero page it got: the run of free
\* addresses around it has a first and a last one.
LEMMA ZeroPageMaps ==
  ASSUME NEW table, NEW a \in Nat, NEW n \in Nat \ {0}, ~Mapped(table, a)
  PROVE  Mapped(MapZeroPage(table, a, n), a)
<1> DEFINE lo == PageBase(a, n)
           hi == lo + n
           Free(b) == lo <= b /\ b < hi /\ ~Mapped(table, b)
           Below == {f \in lo..a : \A b \in f..a : Free(b)}
           Above == {t \in (a + 1)..hi : ~Free(t)}
<1>1. lo \in Nat /\ hi \in Nat /\ lo <= a /\ a < hi
  BY PageOf
<1>2. Free(a)
  BY <1>1, Zenon
<1>3. PICK f \in Below : \A g \in Below : f <= g
  <2>1. a \in Below
    <3>1. a \in lo..a /\ a..a = {a}
      BY <1>1
    <3> QED
      BY <1>2, <3>1, Zenon
  <2>2. Below \in SUBSET Nat
    BY <1>1
  <2> QED
    BY <2>1, <2>2, LeastElement, Zenon
<1>4. PICK t \in Above : \A u \in Above : t <= u
  <2>1. hi \in Above
    BY <1>1
  <2>2. Above \in SUBSET Nat
    BY <1>1
  <2> QED
    BY <2>1, <2>2, LeastElement, Zenon
<1>5. f \in lo..a /\ t \in (a + 1)..hi /\ f \in Nat /\ t \in Nat
  BY <1>1
<1>6. ~Free(f - 1)
  <2> SUFFICES ASSUME Free(f - 1) PROVE FALSE
    BY Zenon
  <2>1. f - 1 \in lo..a
    BY <1>1, <1>5
  <2>2. ASSUME NEW b \in (f - 1)..a PROVE Free(b)
    <3>1. b = f - 1 \/ b \in f..a
      BY <1>5
    <3> QED
      BY <3>1, Zenon
  <2>3. f - 1 \in Below
    BY <2>1, <2>2, Zenon
  <2> QED
    BY <1>3, <1>5, <2>3
<1>7. ASSUME NEW b \in f..(t - 1) PROVE Free(b)
  <2>1. b \in f..a \/ (b \in (a + 1)..hi /\ b < t)
    BY <1>1, <1>5
  <2>2. CASE b \in f..a
    BY <2>2, Zenon
  <2>3. CASE b \in (a + 1)..hi /\ b < t
    <3>1. b \notin Above
      BY <1>4, <1>5, <2>3
    <3> QED
      BY <2>3, <3>1, Zenon
  <2> QED
    BY <2>1, <2>2, <2>3, Zenon
<1>8. ~Free(t)
  BY Zenon
<1>9. ZeroRegion(f, t) \in Holes(table, a, n)
  <2>1. <<f, t>> \in (lo..hi) \X (lo..hi) /\ f < t
    BY <1>1, <1>5
  <2> QED
    BY <1>6, <1>7, <1>8, <2>1 DEF Holes
<1>10. Covers(ZeroRegion(f, t), a)
  BY <1>5 DEF Covers, ZeroRegion, End
<1> QED
  BY <1>9, <1>10, Zenon DEF Mapped, MapZeroPage
-----------------------------------------------------------------------------
(* The bridge.                                                             *)

\* A table of disjoint regions whose unmapped addresses hold zero.
SoundMemory(table, contents) ==
  /\ table \subseteq Region /\ PairwiseDisjoint(table)
  /\ contents \in [Addr -> Byte]
  /\ \A a \in Addr : ~Mapped(table, a) => contents[a] = 0

\* The stacks of a completed load are regions of the table.
HasStacks(table, load) ==
  load # NoImage =>
    /\ load \in Programs \X Options /\ Loads(load[1], load[2])
    /\ \A bank \in Layout(load[1], load[2]) : BankRegion(bank) \in table

LoadInv ==
  /\ SoundMemory(regions, bytes) /\ HasStacks(regions, origin) /\ generation \in Nat
  /\ \A s \in saved : SoundMemory(s.regions, s.bytes) /\ HasStacks(s.regions, s.origin)
  /\ image # NoImage =>
       /\ image \in Programs \X Options /\ Loads(image[1], image[2])
       /\ stacks \subseteq Layout(image[1], image[2])

\* The layout of a program that loads is sound.
LEMMA LayoutOfProgram ==
  ASSUME NEW program \in Programs, NEW o \in Options, Loads(program, o)
  PROVE  BanksSound(program.segments, o, Layout(program, o))
<1>1. IsProgram(program) /\ IsOptions(o)
  BY LoadAssumption, Zenon
<1>2. /\ program.segments \in SUBSET Region
      /\ \E last \in program.segments : \A s \in program.segments : End(s) <= End(last)
  BY <1>1, Zenon DEF IsProgram
<1>3. CASE Requested(o) = o
  <2>1. Resolve(program.segments, o, PageSize) # Refused
    BY <1>3, Zenon DEF Loads, Layout
  <2> QED
    BY <1>1, <1>2, <1>3, <2>1, LayoutSound, Zenon DEF Layout
<1>4. CASE Requested(o) # o
  <2>1. Requested(o).policy = "disabled"
    BY <1>1, <1>4, Zenon DEF Requested, IsOptions
  <2>2. Layout(program, o) = {}
    BY <2>1, Zenon DEF Loads, Layout, Resolve
  <2> QED
    BY <2>2, Zenon DEF BanksSound
<1> QED
  BY <1>3, <1>4, Zenon

\* Whatever the program and the arguments, load_image builds a sound memory, also
\* when resolve raises and the stacks are missing.
THEOREM LoadedMemorySound ==
  ASSUME NEW program \in Programs, NEW o \in Options
  PROVE  SoundMemory(Outcome(program, o).regions, Outcome(program, o).bytes)
<1> DEFINE banks == IF Loads(program, o) THEN Layout(program, o) ELSE {}
           table == program.segments \cup {BankRegion(b) : b \in banks}
<1>1. IsProgram(program)
  BY LoadAssumption, Zenon
<1>2. Outcome(program, o).regions = table /\ Outcome(program, o).bytes = program.data
  BY Zenon DEF Outcome
<1>3. BanksSound(program.segments, o, banks)
  <2>1. CASE Loads(program, o)
    BY <2>1, LayoutOfProgram, Zenon
  <2>2. CASE ~Loads(program, o)
    BY <2>2, Zenon DEF BanksSound
  <2> QED
    BY <2>1, <2>2, Zenon
<1> HIDE DEF banks
<1>4. table \subseteq Region
  BY <1>1, <1>3, Zenon DEF IsProgram, BanksSound
<1>5. ASSUME NEW r \in table, NEW s \in table, r # s PROVE ~Overlap(r, s)
  <2>1. CASE r \in program.segments /\ s \in program.segments
    BY <1>1, <1>5, <2>1, Zenon DEF IsProgram, PairwiseDisjoint
  <2>2. ASSUME NEW b \in banks, r = BankRegion(b), s \in program.segments
        PROVE  ~Overlap(r, s)
    BY <1>3, <2>2, Zenon DEF BanksSound
  <2>3. ASSUME NEW b \in banks, s = BankRegion(b), r \in program.segments
        PROVE  ~Overlap(r, s)
    BY <1>3, <2>3, Zenon DEF BanksSound, Overlap
  <2>4. ASSUME NEW b \in banks, NEW c \in banks, r = BankRegion(b), s = BankRegion(c)
        PROVE  ~Overlap(r, s)
    BY <1>3, <1>5, <2>4, Zenon DEF BanksSound
  <2> QED
    BY <1>5, <2>1, <2>2, <2>3, <2>4, Zenon
<1>6. \A a \in Addr : ~Mapped(table, a) => program.data[a] = 0
  BY <1>1, Zenon DEF IsProgram, Mapped
<1> QED
  BY <1>1, <1>2, <1>4, <1>5, <1>6, Zenon DEF SoundMemory, PairwiseDisjoint, IsProgram

\* An access leaves a sound memory sound, maps what it touches and takes no region
\* away.
LEMMA TouchSound ==
  ASSUME SoundMemory(regions, bytes), NEW a \in Addr
  PROVE  /\ Touch(a) \subseteq Region /\ PairwiseDisjoint(Touch(a))
         /\ regions \subseteq Touch(a) /\ Mapped(Touch(a), a)
<1>1. a \in Nat /\ PageSize \in Nat \ {0}
  BY HostMemoryAssumption, Zenon
<1>2. CASE Mapped(regions, a)
  BY <1>2, Zenon DEF Touch, SoundMemory
<1>3. CASE ~Mapped(regions, a)
  <2>1. Touch(a) = MapZeroPage(regions, a, PageSize)
    BY <1>3, Zenon DEF Touch
  <2>2. regions \subseteq MapZeroPage(regions, a, PageSize)
    BY Zenon DEF MapZeroPage
  <2>3. regions \in SUBSET Region /\ PairwiseDisjoint(regions)
    BY Zenon DEF SoundMemory
  <2> QED
    BY <1>1, <1>3, <2>1, <2>2, <2>3, ZeroPageDisjoint, ZeroPageMaps, Zenon
<1> QED
  BY <1>2, <1>3, Zenon

\* Every operation of the bridge keeps its invariant.
LEMMA LoadStep == LoadInv /\ [NextLoad]_loadVars => LoadInv'
<1> SUFFICES ASSUME LoadInv, [NextLoad]_loadVars PROVE LoadInv'
  BY Zenon
<1>1. CASE UNCHANGED loadVars
  BY <1>1, Zenon DEF loadVars, LoadInv
<1>2. ASSUME NEW program \in Programs, NEW o \in Options, LoadProgram(program, o)
      PROVE  LoadInv'
  <2> DEFINE loaded == <<program, o>>
  <2>1. /\ regions' = Outcome(program, o).regions /\ bytes' = Outcome(program, o).bytes
        /\ generation' = 0 /\ saved' = saved
        /\ stacks' = IF Loads(program, o) THEN Layout(program, o) ELSE {}
        /\ image' = IF Loads(program, o) THEN loaded ELSE image
        /\ origin' = IF Loads(program, o) THEN loaded ELSE NoImage
    BY <1>2, Zenon DEF LoadProgram, LoadImage
  <2>2. SoundMemory(regions', bytes')
    BY <2>1, LoadedMemorySound, Zenon
  <2>3. loaded \in Programs \X Options /\ loaded[1] = program /\ loaded[2] = o
    BY Zenon
  <2>4. HasStacks(regions', origin')
    <3>1. CASE Loads(program, o)
      <4>1. \A bank \in Layout(program, o) : BankRegion(bank) \in regions'
        BY <2>1, <3>1, Zenon DEF Outcome
      <4> QED
        BY <2>1, <2>3, <3>1, <4>1, Zenon DEF HasStacks
    <3>2. CASE ~Loads(program, o)
      BY <2>1, <3>2, Zenon DEF HasStacks
    <3> QED
      BY <3>1, <3>2, Zenon
  <2>5. image' # NoImage => /\ image' \in Programs \X Options /\ Loads(image'[1], image'[2])
                            /\ stacks' \subseteq Layout(image'[1], image'[2])
    <3>1. CASE Loads(program, o)
      BY <2>1, <2>3, <3>1, Zenon
    <3>2. CASE ~Loads(program, o)
      BY <2>1, <3>2, Zenon DEF LoadInv
    <3> QED
      BY <3>1, <3>2, Zenon
  <2> HIDE DEF loaded
  <2> QED
    BY <2>1, <2>2, <2>4, <2>5, Zenon DEF LoadInv
<1>3. ASSUME NEW a \in Addr, ReadByte(a) \/ ReadChunk(a), UNCHANGED <<image, stacks, origin>>
      PROVE  LoadInv'
  <2>1. regions' = Touch(a) /\ UNCHANGED <<bytes, generation, saved, image, stacks, origin>>
    BY <1>3, Zenon DEF ReadByte, ReadChunk
  <2>2. SoundMemory(regions, bytes) /\ HasStacks(regions, origin)
    BY Zenon DEF LoadInv
  <2>3. SoundMemory(regions', bytes')
    BY <2>1, <2>2, TouchSound, Zenon DEF SoundMemory, Mapped
  <2>4. HasStacks(regions', origin')
    BY <2>1, <2>2, TouchSound, Zenon DEF HasStacks
  <2> QED
    BY <2>1, <2>3, <2>4, Zenon DEF LoadInv
<1>4. ASSUME NEW a \in Addr, NEW v \in Byte, WriteByte(a, v),
             UNCHANGED <<image, stacks, origin>>
      PROVE  LoadInv'
  <2>1. /\ regions' = Touch(a) /\ bytes' = [bytes EXCEPT ![a] = v]
        /\ generation' = generation + 1
        /\ UNCHANGED <<saved, image, stacks, origin>>
    BY <1>4, Zenon DEF WriteByte
  <2>2. SoundMemory(regions, bytes) /\ HasStacks(regions, origin)
    BY Zenon DEF LoadInv
  <2>3. SoundMemory(regions', bytes')
    <3>1. /\ regions' \subseteq Region /\ PairwiseDisjoint(regions')
          /\ regions \subseteq regions' /\ Mapped(regions', a)
      BY <2>1, <2>2, TouchSound, Zenon
    <3>2. bytes' \in [Addr -> Byte]
      BY <2>1, <2>2, Zenon DEF SoundMemory
    <3>3. ASSUME NEW b \in Addr, ~Mapped(regions', b) PROVE bytes'[b] = 0
      <4>1. b # a /\ ~Mapped(regions, b)
        BY <3>1, <3>3, Zenon DEF Mapped
      <4> QED
        BY <2>1, <2>2, <4>1, Zenon DEF SoundMemory
    <3> QED
      BY <3>1, <3>2, <3>3, Zenon DEF SoundMemory
  <2>4. HasStacks(regions', origin')
    BY <2>1, <2>2, TouchSound, Zenon DEF HasStacks
  <2> QED
    BY <2>1, <2>3, <2>4 DEF LoadInv
<1>5. ASSUME NEW snapshot \in saved, RestoreLoaded(snapshot) PROVE LoadInv'
  BY <1>5 DEF RestoreLoaded, Restore, LoadInv
<1>6. CASE SnapshotLoaded
  BY <1>6 DEF SnapshotLoaded, LoadInv
<1> QED
  BY <1>1, <1>2, <1>3, <1>4, <1>5, <1>6, Zenon DEF NextLoad, Access

\* The invariant of the bridge, from its construction on.
THEOREM LoadInvariance == SpecLoad => []LoadInv
<1>1. InitLoad => LoadInv
  <2> SUFFICES ASSUME InitLoad PROVE LoadInv
    BY Zenon
  <2>1. SoundMemory(regions, bytes)
    BY HostMemoryAssumption, Zenon DEF InitLoad, SoundMemory, PairwiseDisjoint
  <2> QED
    BY <2>1, Zenon DEF InitLoad, LoadInv, HasStacks
<1> QED
  BY <1>1, LoadStep, PTL DEF SpecLoad

\* The regions of the table stay pairwise disjoint through every sequence of loads,
\* accesses, zero pages, snapshots and restores.
THEOREM TableDisjoint == SpecLoad => []RegionsDisjoint
<1>1. LoadInv => RegionsDisjoint
  BY Zenon DEF LoadInv, SoundMemory, RegionsDisjoint
<1> QED
  BY <1>1, LoadInvariance, PTL

\* No stored byte lies at an unmapped address unless it is zero.
THEOREM ZeroOutside == SpecLoad => []UnmappedIsZero
<1>1. LoadInv => UnmappedIsZero
  BY Zenon DEF LoadInv, SoundMemory, UnmappedIsZero
<1> QED
  BY <1>1, LoadInvariance, PTL

\* While the memory comes from the last completed load, the stack of every PE is a
\* region and its stack pointer lies inside it.
THEOREM StacksStayUsable == SpecLoad => []StacksUsable
<1>1. LoadInv => StacksUsable
  <2> SUFFICES ASSUME LoadInv, image # NoImage, origin = image, NEW bank \in stacks
               PROVE  /\ BankRegion(bank) \in regions
                      /\ bank.base >= 0 /\ bank.base + bank.size <= AddressLimit
                      /\ bank.base < StackPointer(bank, image[2])
                      /\ StackPointer(bank, image[2]) <= bank.base + bank.size
    BY Zenon DEF StacksUsable
  <2>1. /\ image[1] \in Programs /\ image[2] \in Options /\ Loads(image[1], image[2])
        /\ bank \in Layout(image[1], image[2])
    BY Zenon DEF LoadInv
  <2>2. BankRegion(bank) \in regions
    BY <2>1, Zenon DEF LoadInv, HasStacks
  <2>3. BanksSound(image[1].segments, image[2], Layout(image[1], image[2]))
    BY <2>1, LayoutOfProgram, Zenon
  <2>4. BankRegion(bank) \in Region => bank.base >= 0
    BY DEF BankRegion, Region
  <2> QED
    BY <2>1, <2>2, <2>3, <2>4, Zenon DEF BanksSound
<1> QED
  BY <1>1, LoadInvariance, PTL

\* A byte changes only with generation or by a new image, so a worker that sees the
\* generation it recorded may keep its cache.
THEOREM GenerationTells == SpecLoad => GenerationGuardsBytes
<1>1. LoadInv /\ [NextLoad]_loadVars =>
        [bytes' # bytes => generation' # generation \/ Load]_vars
  <2> SUFFICES ASSUME LoadInv, NextLoad, bytes' # bytes
               PROVE  generation' # generation \/ Load
    BY Zenon DEF loadVars
  <2>1. generation \in Nat
    BY Zenon DEF LoadInv
  <2>2. ASSUME NEW program \in Programs, NEW o \in Options, LoadProgram(program, o)
        PROVE  Load
    BY <2>2, OutcomesAreImages DEF LoadProgram, Load
  <2>3. ASSUME NEW a \in Addr, NEW v \in Byte, WriteByte(a, v) PROVE generation' # generation
    BY <2>1, <2>3 DEF WriteByte
  <2>4. ASSUME NEW snapshot \in saved, RestoreLoaded(snapshot) PROVE generation' # generation
    BY <2>1, <2>4 DEF RestoreLoaded, Restore
  <2> QED
    BY <2>2, <2>3, <2>4, Zenon DEF NextLoad, Access, ReadByte, ReadChunk, SnapshotLoaded
<1> QED
  BY <1>1, LoadInvariance, PTL DEF SpecLoad, GenerationGuardsBytes

\* A zero page changes nothing about an address that is already mapped.
LEMMA TouchKeepsMapped ==
  ASSUME NEW a \in Addr, NEW b \in Addr, NEW p \in Permission, Mapped(regions, b)
  PROVE  Check(Touch(a), b, p) <=> Check(regions, b, p)
<1>1. a \in Nat /\ b \in Nat /\ PageSize \in Nat \ {0}
  BY HostMemoryAssumption, Zenon
<1>2. \A hole \in Holes(regions, a, PageSize) : ~Covers(hole, b)
  BY <1>1, HoleIsFree, Zenon
<1> QED
  BY <1>2, Zenon DEF Touch, MapZeroPage, Check

\* Reads and writes never change what a mapped address permits.
THEOREM PermissionsStay == SpecLoad => PermissionsKept
<1> DEFINE Same == \A a \in Addr, p \in Permission :
                     Mapped(regions, a) => (Check(regions', a, p) <=> Check(regions, a, p))
           Kept == Same \/ Load \/ \E snapshot \in saved : Restore(snapshot)
<1>1. [NextLoad]_loadVars => [Kept]_vars
  <2> SUFFICES ASSUME NextLoad PROVE Kept
    BY Zenon DEF loadVars, vars
  <2>1. ASSUME NEW program \in Programs, NEW o \in Options, LoadProgram(program, o)
        PROVE  Load
    BY <2>1, OutcomesAreImages DEF LoadProgram, Load
  <2>2. ASSUME NEW a \in Addr, regions' = Touch(a) PROVE Same
    BY <2>2, TouchKeepsMapped, Zenon
  <2>3. ASSUME NEW a \in Addr, ReadByte(a) \/ ReadChunk(a) PROVE Same
    <3>1. regions' = Touch(a)
      BY <2>3, Zenon DEF ReadByte, ReadChunk
    <3> QED
      BY <2>2, <3>1, Zenon
  <2>4. ASSUME NEW a \in Addr, NEW v \in Byte, WriteByte(a, v) PROVE Same
    <3>1. regions' = Touch(a)
      BY <2>4, Zenon DEF WriteByte
    <3> QED
      BY <2>2, <3>1, Zenon
  <2>5. ASSUME NEW snapshot \in saved, RestoreLoaded(snapshot) PROVE Restore(snapshot)
    BY <2>5, Zenon DEF RestoreLoaded
  <2>6. SnapshotLoaded => Same
    BY Zenon DEF SnapshotLoaded
  <2> QED
    BY <2>1, <2>3, <2>4, <2>5, <2>6, Zenon DEF NextLoad, Access
<1> QED
  BY <1>1, PTL DEF SpecLoad, PermissionsKept

-----------------------------------------------------------------------------
(* The cursor scan.                                                        *)

\* The holes of the page that end at or below a position.
UpTo(table, a, n, position) == {hole \in Holes(table, a, n) : End(hole) <= position}

FreeIn(table, a, n, b) ==
  PageBase(a, n) <= b /\ b < PageBase(a, n) + n /\ ~Mapped(table, b)

\* All addresses of an interval are mapped; none is.
AllMapped(table, f, t) == \A b \in f..(t - 1) : Mapped(table, b)
NoneMapped(table, f, t) == \A b \in f..(t - 1) : ~Mapped(table, b)

\* An interval of the page that begins behind a mapped address, or where the page does;
\* and one that ends before a mapped address, or where the page does.
StartsRun(table, a, n, f) ==
  /\ f \in PageBase(a, n)..(PageBase(a, n) + n)
  /\ f = PageBase(a, n) \/ Mapped(table, f - 1)
EndsRun(table, a, n, t) ==
  /\ t \in PageBase(a, n)..(PageBase(a, n) + n)
  /\ t = PageBase(a, n) + n \/ Mapped(table, t)

\* A hole is a run of free addresses that cannot be made longer.
LEMMA HoleIs ==
  ASSUME NEW table, NEW a \in Nat, NEW n \in Nat \ {0}, NEW hole \in Holes(table, a, n)
  PROVE  /\ hole.base \in Nat /\ End(hole) \in Nat
         /\ PageBase(a, n) <= hole.base /\ hole.base < End(hole)
         /\ End(hole) <= PageBase(a, n) + n
         /\ \A b \in hole.base..(End(hole) - 1) : FreeIn(table, a, n, b)
<1> DEFINE lo == PageBase(a, n)
<1>1. lo \in Nat
  BY PageOf, Zenon
<1>2. PICK f \in lo..(lo + n), t \in lo..(lo + n) :
        /\ f < t /\ hole = ZeroRegion(f, t)
        /\ \A b \in f..(t - 1) : FreeIn(table, a, n, b)
  BY <1>1, Zenon DEF Holes, FreeIn
<1>3. hole.base = f /\ End(hole) = t
  BY <1>1, <1>2 DEF ZeroRegion, End
<1>4. f \in Nat /\ t \in Nat /\ lo <= f /\ f < t /\ t <= lo + n
  BY <1>1, <1>2
<1> QED
  BY <1>2, <1>3, <1>4, Zenon

\* A run of free addresses between a mapped address, or the start of the page, and a
\* mapped address, or its end, is a hole, and the only one that meets the run.
LEMMA RunIsHole ==
  ASSUME NEW table, NEW a \in Nat, NEW n \in Nat \ {0},
         NEW f, NEW t, StartsRun(table, a, n, f), EndsRun(table, a, n, t), f < t,
         NoneMapped(table, f, t)
  PROVE  /\ ZeroRegion(f, t) \in Holes(table, a, n) /\ End(ZeroRegion(f, t)) = t
         /\ \A hole \in Holes(table, a, n) :
              f < End(hole) /\ hole.base < t => hole = ZeroRegion(f, t)
<1> DEFINE lo == PageBase(a, n)
           hi == lo + n
           Free(b) == lo <= b /\ b < hi /\ ~Mapped(table, b)
<1>1. lo \in Nat /\ hi \in Nat /\ f \in Nat /\ t \in Nat /\ f \in lo..hi /\ t \in lo..hi
  <2>1. lo \in Nat
    BY PageOf, Zenon
  <2> QED
    BY <2>1 DEF StartsRun, EndsRun
<1> HIDE DEF lo, hi
<1>2. ASSUME NEW b \in f..(t - 1) PROVE Free(b)
  BY <1>1, <1>2 DEF NoneMapped
<1>3. ~Free(f - 1)
  <2>1. f = lo => ~(lo <= f - 1)
    BY <1>1
  <2> QED
    BY <2>1, Zenon DEF lo, StartsRun
<1>4. ~Free(t)
  <2>1. t = hi => ~(t < hi)
    BY <1>1
  <2> QED
    BY <2>1, Zenon DEF hi, lo, EndsRun
<1>5. ZeroRegion(f, t) \in Holes(table, a, n)
  <2>1. <<f, t>> \in {q \in (lo..hi) \X (lo..hi) :
                        /\ q[1] < q[2]
                        /\ \A b \in q[1]..(q[2] - 1) : Free(b)
                        /\ ~Free(q[1] - 1)
                        /\ ~Free(q[2])}
    <3> HIDE DEF Free
    <3>1. <<f, t>> \in (lo..hi) \X (lo..hi) /\ <<f, t>>[1] = f /\ <<f, t>>[2] = t
      BY <1>1, Zenon
    <3> QED
      BY <1>2, <1>3, <1>4, <3>1, Zenon
  <2> QED
    BY <2>1 DEF Holes, lo, hi
<1>6. ZeroRegion(f, t).base = f /\ End(ZeroRegion(f, t)) = t
  BY <1>1 DEF ZeroRegion, End
<1>7. ASSUME NEW hole \in Holes(table, a, n), f < End(hole), hole.base < t
      PROVE  hole = ZeroRegion(f, t)
  <2>1. Overlap(hole, ZeroRegion(f, t))
    BY <1>6, <1>7, Zenon DEF Overlap
  <2> QED
    BY <1>5, <2>1, HolesApart, Zenon
<1> QED
  BY <1>5, <1>6, <1>7, Zenon

\* No hole ends inside a mapped stretch.
LEMMA AcrossMapped ==
  ASSUME NEW table, NEW a \in Nat, NEW n \in Nat \ {0}, NEW f \in Nat, NEW t \in Nat, f <= t,
         AllMapped(table, f, t)
  PROVE  UpTo(table, a, n, t) = UpTo(table, a, n, f)
<1>1. ASSUME NEW hole \in Holes(table, a, n)
      PROVE  End(hole) <= t <=> End(hole) <= f
  <2>1. /\ hole.base \in Nat /\ End(hole) \in Nat /\ hole.base < End(hole)
        /\ \A b \in hole.base..(End(hole) - 1) : FreeIn(table, a, n, b)
    BY HoleIs, Zenon
  <2>2. PICK e : e = End(hole)
    BY Zenon
  <2>3. e \in Nat /\ e - 1 \in hole.base..(e - 1)
    BY <2>1, <2>2
  <2>4. ~Mapped(table, e - 1)
    BY <2>1, <2>2, <2>3, Zenon DEF FreeIn
  <2>5. e - 1 \notin f..(t - 1)
    BY <2>4, Zenon DEF AllMapped
  <2>6. e <= t <=> e <= f
    BY <2>3, <2>5
  <2> QED
    BY <2>2, <2>6, Zenon
<1> QED
  BY <1>1, Zenon DEF UpTo

\* What a free run between two ends adds to the holes below it.
Filling(f, t) == IF f < t THEN {ZeroRegion(f, t)} ELSE {}

\* The holes up to the end of a free run are those up to its start and the run.
LEMMA AcrossFree ==
  ASSUME NEW table, NEW a \in Nat, NEW n \in Nat \ {0},
         NEW f, NEW t, StartsRun(table, a, n, f), EndsRun(table, a, n, t), f <= t,
         NoneMapped(table, f, t)
  PROVE  UpTo(table, a, n, t) = UpTo(table, a, n, f) \cup Filling(f, t)
<1>0. f \in Nat /\ t \in Nat
  BY PageOf DEF StartsRun, EndsRun
<1>1. CASE f < t
  <2>1. /\ ZeroRegion(f, t) \in Holes(table, a, n) /\ End(ZeroRegion(f, t)) = t
        /\ \A hole \in Holes(table, a, n) :
             f < End(hole) /\ hole.base < t => hole = ZeroRegion(f, t)
    BY <1>1, RunIsHole, Zenon
  <2>2. ASSUME NEW hole \in Holes(table, a, n)
        PROVE  End(hole) <= t <=> End(hole) <= f \/ hole = ZeroRegion(f, t)
    <3>1. hole.base \in Nat /\ End(hole) \in Nat /\ hole.base < End(hole)
      BY HoleIs, Zenon
    <3>2. PICK e, l : e = End(hole) /\ l = hole.base
      BY Zenon
    <3>3. hole = ZeroRegion(f, t) => e <= t
      <4>1. t <= t
        BY <1>0
      <4> QED
        BY <2>1, <3>2, <4>1, Zenon
    <3>4. f < e /\ l < t => hole = ZeroRegion(f, t)
      BY <2>1, <3>2, Zenon
    <3>5. e <= t <=> e <= f \/ hole = ZeroRegion(f, t)
      <4>1. e \in Nat /\ l \in Nat /\ l < e
        BY <3>1, <3>2, Zenon
      <4>2. (e <= f => e <= t) /\ (e <= t /\ ~(e <= f) => f < e /\ l < t)
        BY <1>0, <1>1, <4>1
      <4> QED
        BY <3>3, <3>4, <4>2, Zenon
    <3> QED
      BY <3>2, <3>5, Zenon
  <2>3. Filling(f, t) = {ZeroRegion(f, t)}
    BY <1>1, Zenon DEF Filling
  <2> QED
    BY <2>1, <2>2, <2>3, Zenon DEF UpTo
<1>2. CASE ~(f < t)
  <2>1. f = t
    BY <1>0, <1>2
  <2> QED
    BY <1>2, <2>1, Zenon DEF Filling
<1> QED
  BY <1>1, <1>2, Zenon

\* A table in order of bases: every region once, each above the one before.
InOrder(s, table) ==
  /\ Cardinality(table) \in Nat
  /\ \A n \in 1..Cardinality(table) : s[n] \in table
  /\ \A m, n \in 1..Cardinality(table) : m < n => s[m].base < s[n].base
  /\ \A r \in table : \E n \in 1..Cardinality(table) : s[n] = r

\* That Sorted sorts is a fact about finite sets.
SortFact == \A table \in Inputs : InOrder(Sorted(table), table)

\* The regions behind the loop end at or below the cursor, or cover the rest of the
\* page; the cursor is at the start of the page or behind a mapped address; and what
\* was added are the holes up to the cursor.
Scanning ==
  /\ index <= Cardinality(before) + 1
  /\ \A n \in 1..(index - 1) : Least(End(Sorted(before)[n]), PageEnd) <= cursor
  /\ cursor = PageBase(address, PageLength) \/ Mapped(before, cursor - 1)
  /\ added = UpTo(before, address, PageLength, cursor)

ScanInv ==
  /\ before \in Inputs /\ address \in Nat /\ index \in Nat \ {0}
  /\ cursor \in PageBase(address, PageLength)..PageEnd
  /\ added \subseteq Holes(before, address, PageLength)
  /\ outcome = "scanning" => Scanning
  /\ MapsTheHoles

\* The numbers of a scan.
LEMMA ScanTypes ==
  ASSUME ScanInv
  PROVE  /\ PageLength \in Nat \ {0} /\ before \subseteq Region
         /\ PageBase(address, PageLength) \in Nat /\ PageEnd \in Nat /\ cursor \in Nat
         /\ PageBase(address, PageLength) <= cursor /\ cursor <= PageEnd
<1>1. PageLength \in Nat \ {0} /\ before \subseteq Region
  BY ScanAssumption, Zenon DEF ScanInv
<1>2. address \in Nat /\ cursor \in PageBase(address, PageLength)..PageEnd
  BY Zenon DEF ScanInv
<1>3. PageBase(address, PageLength) \in Nat
  BY <1>1, <1>2, PageOf, Zenon
<1>4. PageEnd \in Nat
  BY <1>1, <1>3 DEF PageEnd
<1> QED
  BY <1>1, <1>2, <1>3, <1>4

\* The regions from the loop position on lie at or above a bound: then the addresses
\* of the page from the cursor up to the bound are free.
LEMMA ClearAhead ==
  ASSUME SortFact, ScanInv, Scanning, NEW bound \in Nat, bound <= PageEnd,
         index <= Cardinality(before) => bound <= Sorted(before)[index].base,
         NEW b \in cursor..(bound - 1)
  PROVE  ~Mapped(before, b)
<1> DEFINE s == Sorted(before)
           size == Cardinality(before)
<1>0. /\ before \subseteq Region /\ cursor \in Nat /\ PageEnd \in Nat /\ b \in Nat
      /\ cursor <= b /\ b < bound /\ b < PageEnd /\ index \in Nat \ {0}
  <2>1. /\ before \subseteq Region /\ cursor \in Nat /\ PageEnd \in Nat /\ index \in Nat \ {0}
    BY ScanTypes, Zenon DEF ScanInv
  <2> QED
    BY <2>1
<1>1. InOrder(s, before)
  BY Zenon DEF SortFact, ScanInv
<1> SUFFICES ASSUME NEW r \in before, Covers(r, b) PROVE FALSE
  BY Zenon DEF Mapped
<1>2. PICK m \in 1..size : s[m] = r
  BY <1>1, Zenon DEF InOrder
<1>3. size \in Nat /\ m \in Nat /\ m \in 1..size
  BY <1>1, <1>2 DEF InOrder
<1>4. PICK l, e : l = r.base /\ e = End(r) /\ l \in Nat /\ e \in Nat /\ l <= b /\ b < e
  <2>1. r.base \in Nat /\ End(r) \in Nat
    BY <1>0 DEF Region, End
  <2> QED
    BY <2>1, Zenon DEF Covers
<1>5. CASE m < index
  <2>1. m \in 1..(index - 1)
    BY <1>0, <1>3, <1>5
  <2>2. Least(e, PageEnd) <= cursor
    BY <1>2, <1>4, <2>1, Zenon DEF Scanning
  <2> QED
    BY <1>0, <1>4, <2>2 DEF Least
<1>6. CASE ~(m < index)
  <2>1. index \in 1..size /\ index <= size /\ (m = index \/ index < m)
    BY <1>0, <1>3, <1>6
  <2>2. PICK k : k = s[index].base
    BY Zenon
  <2>3. s[index] \in before
    BY <1>1, <2>1, Zenon DEF InOrder
  <2>4. k \in Nat
    BY <1>0, <2>2, <2>3, Zenon DEF Region
  <2>5. bound <= k
    BY <2>1, <2>2, Zenon
  <2>6. k = l \/ k < l
    BY <1>1, <1>2, <1>4, <2>1, <2>2, Zenon DEF InOrder
  <2> QED
    BY <1>0, <1>4, <2>4, <2>5, <2>6
<1> QED
  BY <1>5, <1>6, Zenon

\* A region whose end lies before the page leaves the scan where it is.
LEMMA SkipKeeps ==
  ASSUME SortFact, ScanInv, SkipRegion
  PROVE  ScanInv'
<1>1. /\ before' = before /\ address' = address /\ cursor' = cursor /\ added' = added
      /\ outcome' = outcome /\ index' = index + 1 /\ index <= Cardinality(before)
      /\ outcome = "scanning"
      /\ End(Sorted(before)[index]) <= PageBase(address, PageLength)
  BY Zenon DEF SkipRegion
<1>2. PageEnd' = PageEnd
  BY <1>1, Zenon DEF PageEnd
<1>3. Scanning /\ index \in Nat \ {0}
  BY <1>1, Zenon DEF ScanInv
<1>4. Cardinality(before) \in Nat /\ InOrder(Sorted(before), before)
  BY Zenon DEF SortFact, ScanInv, InOrder
<1>5. index' \in Nat \ {0} /\ index' <= Cardinality(before) + 1
  BY <1>1, <1>3, <1>4
<1>6. ASSUME NEW n \in 1..(index' - 1)
      PROVE  Least(End(Sorted(before)[n]), PageEnd) <= cursor
  <2>1. n \in 1..(index - 1) \/ n = index
    BY <1>1, <1>3
  <2>2. ASSUME n = index PROVE Least(End(Sorted(before)[n]), PageEnd) <= cursor
    <3>1. index \in 1..Cardinality(before)
      BY <1>1, <1>3, <1>4
    <3>2. Sorted(before)[index] \in Region
      BY <1>4, <3>1, ScanTypes, Zenon DEF InOrder
    <3>3. PICK e : e = End(Sorted(before)[n]) /\ e \in Nat
      BY <2>2, <3>2 DEF End, Region
    <3>4. e <= PageBase(address, PageLength)
      BY <1>1, <2>2, <3>3, Zenon
    <3>5. Least(e, PageEnd) <= cursor
      BY <3>3, <3>4, ScanTypes DEF Least
    <3> QED
      BY <3>3, <3>5, Zenon
  <2> QED
    BY <1>3, <2>1, <2>2, Zenon DEF Scanning
<1>7. Scanning'
  BY <1>1, <1>2, <1>3, <1>5, <1>6, Zenon DEF Scanning
<1> QED
  BY <1>1, <1>2, <1>5, <1>7, Zenon DEF ScanInv, MapsTheHoles

\* The body of the loop: the hole before the region is a hole of the page, and none
\* ends inside the region.
LEMMA BodyKeeps ==
  ASSUME SortFact, ScanInv, ScanRegion
  PROVE  ScanInv'
<1> DEFINE lo == PageBase(address, PageLength)
           size == Cardinality(before)
<1>1. /\ before' = before /\ address' = address /\ outcome' = outcome /\ index' = index + 1
      /\ index <= size /\ outcome = "scanning"
  BY Zenon DEF ScanRegion
<1>2. PICK r : r = Sorted(before)[index]
  BY Zenon
<1>3. /\ End(r) > lo /\ r.base < PageEnd
      /\ added' = added \cup HoleBefore(r) /\ cursor' = CursorAfter(r)
  BY <1>2, Zenon DEF ScanRegion
<1>4. PageEnd' = PageEnd
  BY <1>1, Zenon DEF PageEnd
<1>5. Scanning /\ index \in Nat \ {0} /\ address \in Nat
  BY <1>1, Zenon DEF ScanInv
<1>6. InOrder(Sorted(before), before)
  BY Zenon DEF SortFact, ScanInv
<1>7. size \in Nat /\ index \in 1..size
  <2>1. size \in Nat
    BY <1>6, Zenon DEF InOrder
  <2> QED
    BY <1>1, <1>5, <2>1
<1>8. r \in before /\ r \in Region
  BY <1>2, <1>6, <1>7, ScanTypes, Zenon DEF InOrder
<1>9. PICK l, e : /\ l = r.base /\ e = End(r) /\ l \in Nat /\ e \in Nat
                  /\ l < e /\ e > lo /\ l < PageEnd
  <2>1. r.base \in Nat /\ End(r) \in Nat /\ r.base < End(r)
    BY <1>8 DEF Region, End
  <2> QED
    BY <1>3, <2>1, Zenon
<1>10. /\ lo \in Nat /\ PageEnd \in Nat /\ cursor \in Nat /\ lo <= cursor /\ cursor <= PageEnd
       /\ PageLength \in Nat \ {0} /\ PageEnd = lo + PageLength
  BY ScanTypes, Zenon DEF PageEnd
<1>11. ASSUME NEW b \in Nat, l <= b, b < e PROVE Mapped(before, b)
  BY <1>8, <1>9, <1>11, Zenon DEF Mapped, Covers
<1> DEFINE stop == Least(e, PageEnd)
           next == Greatest(cursor, stop)
<1>12. cursor' = next
  BY <1>3, <1>9, Zenon DEF CursorAfter
<1>13. stop \in Nat /\ stop <= e /\ stop <= PageEnd /\ l < stop /\ lo <= stop
  BY <1>9, <1>10 DEF Least
<1>14. next \in Nat /\ next \in lo..PageEnd /\ cursor <= next /\ stop <= next
       /\ (next = cursor \/ next = stop)
  BY <1>10, <1>13 DEF Greatest
<1> HIDE DEF lo, stop, next
<1>15. HoleBefore(r) = Filling(cursor, l)
  <2>1. Least(l, PageEnd) = l
    BY <1>9, <1>10 DEF Least
  <2> QED
    BY <1>9, <2>1, Zenon DEF HoleBefore, Filling
<1>16. UpTo(before, address, PageLength, next) =
         UpTo(before, address, PageLength, cursor) \cup Filling(cursor, l)
  <2>1. CASE cursor < l
    <3>1. /\ l \in lo..(lo + PageLength) /\ cursor \in lo..(lo + PageLength)
          /\ cursor <= l /\ l <= next /\ l <= PageEnd
      BY <1>9, <1>10, <1>13, <1>14, <2>1
    <3>2. l <= l
      BY <1>9
    <3>3. ASSUME NEW b \in cursor..(l - 1) PROVE ~Mapped(before, b)
      BY <1>2, <1>5, <1>9, <3>1, <3>2, ClearAhead, Zenon
    <3>4. Mapped(before, l)
      BY <1>9, <1>11, <3>2, Zenon
    <3>5. UpTo(before, address, PageLength, l) =
            UpTo(before, address, PageLength, cursor) \cup Filling(cursor, l)
      <4>1. StartsRun(before, address, PageLength, cursor)
        BY <1>5, <3>1, Zenon DEF StartsRun, Scanning, lo
      <4>2. EndsRun(before, address, PageLength, l)
        BY <3>1, <3>4, Zenon DEF EndsRun, lo
      <4>3. NoneMapped(before, cursor, l)
        BY <3>3, Zenon DEF NoneMapped
      <4> QED
        BY <1>5, <1>10, <3>1, <4>1, <4>2, <4>3, AcrossFree
    <3>6. ASSUME NEW b \in l..(next - 1) PROVE Mapped(before, b)
      <4>1. b \in Nat /\ l <= b /\ b < e
        BY <1>9, <1>10, <1>13, <1>14, <2>1
      <4> QED
        BY <1>11, <4>1, Zenon
    <3>7. UpTo(before, address, PageLength, next) = UpTo(before, address, PageLength, l)
      <4>1. AllMapped(before, l, next)
        BY <3>6, Zenon DEF AllMapped
      <4> QED
        BY <1>5, <1>9, <1>10, <1>14, <3>1, <4>1, AcrossMapped
    <3> QED
      BY <3>5, <3>7, Zenon
  <2>2. CASE ~(cursor < l)
    <3>1. ASSUME NEW b \in cursor..(next - 1) PROVE Mapped(before, b)
      <4>1. b \in Nat /\ l <= b /\ b < e
        BY <1>9, <1>10, <1>13, <1>14, <2>2
      <4> QED
        BY <1>11, <4>1, Zenon
    <3>2. UpTo(before, address, PageLength, next) = UpTo(before, address, PageLength, cursor)
      <4>1. AllMapped(before, cursor, next)
        BY <3>1, Zenon DEF AllMapped
      <4> QED
        BY <1>5, <1>10, <1>14, <4>1, AcrossMapped
    <3>3. Filling(cursor, l) = {}
      BY <2>2, Zenon DEF Filling
    <3> QED
      BY <3>2, <3>3, Zenon
  <2> QED
    BY <2>1, <2>2, Zenon
<1>17. added' = UpTo(before, address, PageLength, next)
  BY <1>3, <1>5, <1>15, <1>16, Zenon DEF Scanning
<1>18. next = lo \/ Mapped(before, next - 1)
  <2>1. CASE next = cursor
    BY <1>5, <2>1, Zenon DEF Scanning, lo
  <2>2. CASE next = stop
    <3>1. stop - 1 \in Nat /\ l <= stop - 1 /\ stop - 1 < e
      BY <1>9, <1>13
    <3> QED
      BY <1>11, <2>2, <3>1, Zenon
  <2> QED
    BY <1>14, <2>1, <2>2, Zenon
<1>19. ASSUME NEW n \in 1..(index' - 1)
       PROVE  Least(End(Sorted(before)[n]), PageEnd) <= next
  <2>1. n \in 1..(index - 1) \/ n = index
    BY <1>1, <1>5
  <2>2. CASE n = index
    BY <1>2, <1>9, <1>14, <2>2, Zenon DEF stop
  <2>3. CASE n \in 1..(index - 1)
    <3>1. n \in 1..size
      BY <1>5, <1>7, <2>3
    <3>2. Sorted(before)[n] \in Region
      BY <1>6, <3>1, ScanTypes, Zenon DEF InOrder
    <3>3. PICK d : d = End(Sorted(before)[n]) /\ d \in Nat
      BY <3>2 DEF End, Region
    <3>4. Least(d, PageEnd) <= cursor
      BY <1>5, <2>3, <3>3, Zenon DEF Scanning
    <3>5. Least(d, PageEnd) <= next
      BY <1>10, <1>14, <3>3, <3>4 DEF Least
    <3> QED
      BY <3>3, <3>5, Zenon
  <2> QED
    BY <2>1, <2>2, <2>3, Zenon
<1>20. index' \in Nat \ {0} /\ index' <= size + 1
  BY <1>1, <1>5, <1>7
<1>21. Scanning'
  BY <1>1, <1>4, <1>12, <1>17, <1>18, <1>19, <1>20, Zenon DEF Scanning, lo
<1>22. added' \subseteq Holes(before, address, PageLength)
  BY <1>17, Zenon DEF UpTo
<1>23. outcome' # "mapped"
  BY <1>1, Zenon
<1> QED
  BY <1>1, <1>4, <1>12, <1>14, <1>20, <1>21, <1>22, <1>23, Zenon DEF ScanInv, MapsTheHoles, lo

\* After the loop the rest of the page is free, and no hole is left.
LEMMA FinishKeeps ==
  ASSUME SortFact, ScanInv, Finish
  PROVE  ScanInv'
<1> DEFINE lo == PageBase(address, PageLength)
           size == Cardinality(before)
<1>1. /\ before' = before /\ address' = address /\ index' = index /\ cursor' = cursor
      /\ outcome = "scanning" /\ outcome' = "mapped" /\ added' = added \cup RestOfPage
      /\ index > size \/ Sorted(before)[index].base >= PageEnd
  BY Zenon DEF Finish
<1>2. PageEnd' = PageEnd
  BY <1>1, Zenon DEF PageEnd
<1>3. Scanning /\ index \in Nat \ {0} /\ address \in Nat
  BY <1>1, Zenon DEF ScanInv
<1>4. /\ lo \in Nat /\ PageEnd \in Nat /\ cursor \in Nat /\ lo <= cursor /\ cursor <= PageEnd
      /\ PageLength \in Nat \ {0} /\ PageEnd = lo + PageLength
  BY ScanTypes, Zenon DEF PageEnd
<1>5. InOrder(Sorted(before), before)
  BY Zenon DEF SortFact, ScanInv
<1>6. index <= size => PageEnd <= Sorted(before)[index].base
  <2> SUFFICES ASSUME index <= size PROVE PageEnd <= Sorted(before)[index].base
    BY Zenon
  <2>1. size \in Nat
    BY <1>5, Zenon DEF InOrder
  <2>2. index \in 1..size /\ ~(index > size)
    BY <1>3, <2>1
  <2>3. Sorted(before)[index] \in Region
    BY <1>5, <2>2, ScanTypes, Zenon DEF InOrder
  <2>4. PICK l : l = Sorted(before)[index].base /\ l \in Nat
    BY <2>3, Zenon DEF Region
  <2>5. l >= PageEnd
    BY <1>1, <2>2, <2>4, Zenon
  <2>6. PageEnd <= l
    BY <1>4, <2>4, <2>5, Zenon
  <2> QED
    BY <2>4, <2>6, Zenon
<1>7. PageEnd <= PageEnd /\ PageEnd \in lo..(lo + PageLength) /\ cursor \in lo..(lo + PageLength)
  BY <1>4
<1>8. ASSUME NEW b \in cursor..(PageEnd - 1) PROVE ~Mapped(before, b)
  BY <1>3, <1>4, <1>6, <1>7, ClearAhead, Zenon
<1>9. UpTo(before, address, PageLength, PageEnd) =
        UpTo(before, address, PageLength, cursor) \cup Filling(cursor, PageEnd)
  <2>1. StartsRun(before, address, PageLength, cursor)
    BY <1>3, <1>7, Zenon DEF StartsRun, Scanning
  <2>2. EndsRun(before, address, PageLength, PageEnd)
    BY <1>4, <1>7, Zenon DEF EndsRun
  <2>3. NoneMapped(before, cursor, PageEnd)
    BY <1>8, Zenon DEF NoneMapped
  <2> QED
    <3>1. PICK top : top = PageEnd
      BY Zenon
    <3>2. /\ EndsRun(before, address, PageLength, top) /\ NoneMapped(before, cursor, top)
          /\ cursor <= top /\ address \in Nat /\ PageLength \in Nat \ {0}
      BY <1>3, <1>4, <2>2, <2>3, <3>1, Zenon
    <3>3. UpTo(before, address, PageLength, top) =
            UpTo(before, address, PageLength, cursor) \cup Filling(cursor, top)
      BY <2>1, <3>2, AcrossFree
    <3> QED
      BY <3>1, <3>3, Zenon
<1>10. UpTo(before, address, PageLength, PageEnd) = Holes(before, address, PageLength)
  <2>1. ASSUME NEW hole \in Holes(before, address, PageLength) PROVE End(hole) <= PageEnd
    BY <1>3, <1>4, HoleIs, Zenon
  <2> QED
    BY <2>1, Zenon DEF UpTo
<1>11. added' = Holes(before, address, PageLength)
  BY <1>1, <1>3, <1>9, <1>10, Zenon DEF Scanning, RestOfPage, Filling
<1>12. outcome' # "scanning"
  BY <1>1, Zenon
<1> QED
  BY <1>1, <1>2, <1>11, <1>12, Zenon DEF ScanInv, MapsTheHoles

\* A rejected call maps nothing.
LEMMA RejectKeeps ==
  ASSUME ScanInv, Reject
  PROVE  ScanInv'
<1>1. /\ before' = before /\ address' = address /\ index' = index /\ cursor' = cursor
      /\ added' = added /\ outcome' = "overlap"
  BY Zenon DEF Reject
<1>2. PageEnd' = PageEnd
  BY <1>1, Zenon DEF PageEnd
<1>3. outcome' # "scanning" /\ outcome' # "mapped"
  BY <1>1, Zenon
<1> QED
  BY <1>1, <1>2, <1>3, Zenon DEF ScanInv, MapsTheHoles

\* The invariant holds before the loop: no hole ends at the start of the page.
LEMMA ScanStarts ==
  ASSUME SortFact, Init
  PROVE  ScanInv
<1>1. /\ before \in Inputs /\ address \in 0..(Limit - 1) /\ index = 1 /\ added = {}
      /\ cursor = PageBase(address, PageLength) /\ outcome = "scanning"
  BY Zenon DEF Init
<1>2. address \in Nat /\ index \in Nat \ {0} /\ PageLength \in Nat \ {0}
  BY <1>1, ScanAssumption
<1>3. PageBase(address, PageLength) \in Nat
  BY <1>2, PageOf, Zenon
<1>4. cursor \in PageBase(address, PageLength)..PageEnd
  BY <1>1, <1>2, <1>3 DEF PageEnd
<1>5. UpTo(before, address, PageLength, cursor) = {}
  <2>1. ASSUME NEW hole \in Holes(before, address, PageLength) PROVE ~(End(hole) <= cursor)
    <3>1. PICK l, e : l = hole.base /\ e = End(hole)
      BY Zenon
    <3>2. l \in Nat /\ e \in Nat /\ cursor <= l /\ l < e
      BY <1>1, <1>2, <3>1, HoleIs, Zenon
    <3>3. ~(e <= cursor)
      BY <1>1, <1>3, <3>2
    <3> QED
      BY <3>1, <3>3, Zenon
  <2> QED
    BY <2>1, Zenon DEF UpTo
<1>6. Scanning
  <2>1. Cardinality(before) \in Nat
    BY <1>1, Zenon DEF SortFact, InOrder
  <2>2. index <= Cardinality(before) + 1 /\ 1..(index - 1) = {}
    BY <1>1, <2>1
  <2> QED
    BY <1>1, <1>5, <2>2, Zenon DEF Scanning
<1>7. outcome # "mapped"
  BY <1>1, Zenon
<1> QED
  BY <1>1, <1>2, <1>4, <1>6, <1>7, Zenon DEF ScanInv, MapsTheHoles

\* Every step of the scan keeps the invariant.
LEMMA ScanStep ==
  ASSUME SortFact, ScanInv, [Next]_scanVars
  PROVE  ScanInv'
<1>1. CASE UNCHANGED scanVars
  <2>1. /\ before' = before /\ address' = address /\ index' = index /\ cursor' = cursor
        /\ added' = added /\ outcome' = outcome
    BY <1>1, Zenon DEF scanVars
  <2>2. PageEnd' = PageEnd
    BY <2>1, Zenon DEF PageEnd
  <2> QED
    BY <2>1, <2>2, Zenon DEF ScanInv, Scanning, MapsTheHoles
<1> QED
  BY <1>1, RejectKeeps, SkipKeeps, BodyKeeps, FinishKeeps, Zenon DEF Next

-----------------------------------------------------------------------------
(* That Sorted sorts.  The library is brought in only here: with its        *)
(* theorems in scope every obligation becomes several times larger.        *)
FST == INSTANCE FiniteSetTheorems

Below(table, r) == {s \in table : s.base < r.base}
Rank(table, r) == Cardinality(Below(table, r))

\* Ranks are all different, rise with the base, and fill the size of the table: an
\* injection into an interval of the same size is onto.
LEMMA Ranks ==
  ASSUME NEW table \in Inputs
  PROVE  /\ Cardinality(table) \in Nat
         /\ \A r \in table : Rank(table, r) \in 0..(Cardinality(table) - 1)
         /\ \A r, s \in table : r.base < s.base => Rank(table, r) < Rank(table, s)
         /\ \A r, s \in table : Rank(table, r) = Rank(table, s) => r = s
         /\ \A k \in 0..(Cardinality(table) - 1) : \E r \in table : Rank(table, r) = k
<1>1. IsFiniteSet(table) /\ table \subseteq Region /\ PairwiseDisjoint(table)
  BY ScanAssumption, Zenon
<1>2. FST!IsFiniteSet(table)
  BY <1>1, Zenon DEF IsFiniteSet, FST!IsFiniteSet
<1>3. ASSUME NEW S \in SUBSET table, NEW T \in SUBSET S
      PROVE  /\ Cardinality(S) \in Nat /\ Cardinality(T) \in Nat
             /\ Cardinality(T) <= Cardinality(S)
             /\ Cardinality(S) = Cardinality(T) => S = T
  <2>1. FST!IsFiniteSet(S) /\ FST!IsFiniteSet(T)
    BY <1>2, FST!FS_Subset, Zenon
  <2>2. /\ FST!Cardinality(S) \in Nat /\ FST!Cardinality(T) \in Nat
        /\ FST!Cardinality(T) <= FST!Cardinality(S)
        /\ FST!Cardinality(S) = FST!Cardinality(T) => S = T
    BY <2>1, FST!FS_Subset, FST!FS_CardinalityType, Zenon
  <2> QED
    BY <2>2, Zenon DEF Cardinality, FST!Cardinality
<1> DEFINE size == Cardinality(table)
<1>4. size \in Nat
  BY <1>3, Zenon
<1>5. ASSUME NEW r \in table PROVE r.base \in Nat /\ r.base < End(r) /\ End(r) \in Nat
  BY <1>1 DEF Region, End
<1>6. ASSUME NEW S \in SUBSET table, NEW T \in SUBSET S, NEW x \in S, x \notin T
      PROVE  Cardinality(T) \in Nat /\ Cardinality(S) \in Nat /\ Cardinality(T) < Cardinality(S)
  <2>1. S # T
    BY <1>6, Zenon
  <2>2. PICK p, q : p = Cardinality(S) /\ q = Cardinality(T)
    BY Zenon
  <2>3. p \in Nat /\ q \in Nat /\ q <= p /\ p # q
    BY <1>3, <2>1, <2>2, Zenon
  <2>4. q < p
    BY <2>3
  <2> QED
    BY <2>2, <2>3, <2>4, Zenon
<1>7. ASSUME NEW r \in table PROVE Rank(table, r) \in 0..(size - 1)
  <2>1. r \notin Below(table, r)
    BY <1>5 DEF Below
  <2>2. Below(table, r) \in SUBSET table
    BY Zenon DEF Below
  <2>3. Rank(table, r) \in Nat /\ Rank(table, r) < size
    BY <1>6, <2>1, <2>2, Zenon DEF Rank
  <2> QED
    BY <1>4, <2>3
<1>8. ASSUME NEW r \in table, NEW s \in table, r.base < s.base
      PROVE  Rank(table, r) < Rank(table, s)
  <2>1. Below(table, r) \in SUBSET Below(table, s)
    BY <1>5, <1>8 DEF Below
  <2>2. r \in Below(table, s) /\ r \notin Below(table, r)
    BY <1>5, <1>8 DEF Below
  <2>3. Below(table, s) \in SUBSET table
    BY Zenon DEF Below
  <2> QED
    BY <1>6, <2>1, <2>2, <2>3, Zenon DEF Rank
<1>9. ASSUME NEW r \in table, NEW s \in table, Rank(table, r) = Rank(table, s)
      PROVE  r = s
  <2>1. Rank(table, r) \in Int
    BY <1>7
  <2>2. ~(Rank(table, r) < Rank(table, r))
    BY <2>1
  <2>3. ~(r.base < s.base) /\ ~(s.base < r.base)
    BY <1>8, <1>9, <2>2, Zenon
  <2>4. r.base < End(s) /\ s.base < End(r)
    BY <1>5, <2>3
  <2> QED
    BY <1>1, <2>4, Zenon DEF PairwiseDisjoint, Overlap
<1> DEFINE f == [r \in table |-> Rank(table, r)]
           T == 0..(size - 1)
<1>10. f \in [table -> T] /\ \A r, s \in table : f[r] = f[s] => r = s
  BY <1>7, <1>9, Zenon
<1>11. FST!IsFiniteSet(T) /\ FST!Cardinality(T) = FST!Cardinality(table)
  <2>1. FST!IsFiniteSet(T) /\ FST!Cardinality(T) = IF 0 > size - 1 THEN 0 ELSE size - 1 - 0 + 1
    <3>1. 0 \in Int /\ size - 1 \in Int
      BY <1>4
    <3> QED
      BY <3>1, FST!FS_Interval, Zenon
  <2>2. FST!Cardinality(T) = size
    BY <1>4, <2>1
  <2> QED
    BY <2>1, <2>2, Zenon DEF Cardinality, FST!Cardinality
<1>12. ASSUME NEW k \in T PROVE \E r \in table : Rank(table, r) = k
  <2>1. DOMAIN f = table
    BY Zenon
  <2>2. \A r \in table : f[r] = Rank(table, r)
    BY Zenon
  <2> HIDE DEF f, T
  <2>3. f \in FST!Injection(table, T)
    BY <1>10, <2>1, Zenon DEF FST!Injection, FST!IsInjective
  <2>4. f \in FST!Surjection(table, T)
    BY <1>2, <1>11, <2>3, FST!FS_Injection, Zenon
  <2> QED
    BY <1>12, <2>2, <2>4, Zenon DEF FST!Surjection
<1> QED
  BY <1>4, <1>7, <1>8, <1>9, <1>12, Zenon

\* The list the scan walks is the table by rising base.
LEMMA SortFactHolds == SortFact
<1> SUFFICES ASSUME NEW table \in Inputs PROVE InOrder(Sorted(table), table)
  BY Zenon DEF SortFact
<1> DEFINE size == Cardinality(table)
           Nth(n) == CHOOSE r \in table : Rank(table, r) = n - 1
           s == [n \in 1..size |-> Nth(n)]
<1>1. /\ size \in Nat
      /\ \A r \in table : Rank(table, r) \in 0..(size - 1)
      /\ \A q, r \in table : q.base < r.base => Rank(table, q) < Rank(table, r)
      /\ \A q, r \in table : Rank(table, q) = Rank(table, r) => q = r
      /\ \A k \in 0..(size - 1) : \E r \in table : Rank(table, r) = k
  BY Ranks, Zenon
<1>2. Sorted(table) = s
  BY Zenon DEF Sorted, Rank, Below
<1>3. ASSUME NEW n \in 1..size PROVE s[n] \in table /\ Rank(table, s[n]) = n - 1
  <2>1. n - 1 \in 0..(size - 1)
    BY <1>1
  <2>2. \E r \in table : Rank(table, r) = n - 1
    BY <1>1, <2>1, Zenon
  <2>3. Nth(n) \in table /\ Rank(table, Nth(n)) = n - 1
    BY <2>2, Zenon
  <2>4. s[n] = Nth(n)
    BY Zenon
  <2> QED
    BY <2>3, <2>4, Zenon
<1> HIDE DEF s, Nth
<1>4. ASSUME NEW m \in 1..size, NEW n \in 1..size, m < n PROVE s[m].base < s[n].base
  <2>1. /\ s[m] \in table /\ s[n] \in table
        /\ Rank(table, s[m]) = m - 1 /\ Rank(table, s[n]) = n - 1
    BY <1>3, Zenon
  <2>2. ~(n - 1 < m - 1) /\ n - 1 # m - 1
    BY <1>1, <1>4
  <2>3. ~(s[n].base < s[m].base)
    BY <1>1, <2>1, <2>2, Zenon
  <2>4. s[n].base # s[m].base
    <3> SUFFICES ASSUME s[n].base = s[m].base PROVE FALSE
      BY Zenon
    <3>1. Below(table, s[n]) = Below(table, s[m])
      BY Zenon DEF Below
    <3> QED
      BY <2>1, <2>2, <3>1, Zenon DEF Rank
  <2>5. s[m].base \in Nat /\ s[n].base \in Nat
    <3>1. table \subseteq Region
      BY ScanAssumption, Zenon
    <3> QED
      BY <2>1, <3>1, Zenon DEF Region
  <2> QED
    BY <2>3, <2>4, <2>5
<1>5. ASSUME NEW r \in table PROVE \E n \in 1..size : s[n] = r
  <2>1. PICK k \in 0..(size - 1) : k = Rank(table, r)
    BY <1>1, Zenon
  <2>2. PICK n \in 1..size : n - 1 = k
    <3>1. k + 1 \in 1..size /\ (k + 1) - 1 = k
      BY <1>1
    <3> QED
      BY <3>1, Zenon
  <2>3. s[n] \in table /\ Rank(table, s[n]) = Rank(table, r)
    BY <1>3, <2>1, <2>2, Zenon
  <2> QED
    BY <1>1, <2>3, Zenon
<1>6. InOrder(s, table)
  BY <1>1, <1>3, <1>4, <1>5, Zenon DEF InOrder
<1> QED
  BY <1>2, <1>6, Zenon

\* The invariant of the scan holds in every reachable state.
LEMMA ScanInvariance == Spec => []ScanInv
<1>1. Init => ScanInv
  BY ScanStarts, SortFactHolds, Zenon
<1>2. ScanInv /\ [Next]_scanVars => ScanInv'
  BY ScanStep, SortFactHolds, Zenon
<1> QED
  BY <1>1, <1>2, PTL DEF Spec

\* In no step of _map_zero_page does map_region meet an overlap, whatever the table,
\* the address and the page size (NoOverlap).
THEOREM ScanNeverOverlaps == Spec => []NoOverlap
<1>1. ScanInv => NoOverlap
  <2> SUFFICES ASSUME ScanInv PROVE NoOverlap
    BY Zenon
  <2>1. /\ before \subseteq Region /\ PairwiseDisjoint(before)
        /\ address \in Nat /\ PageLength \in Nat \ {0}
        /\ added \subseteq Holes(before, address, PageLength)
    BY ScanAssumption, Zenon DEF ScanInv
  <2>2. PairwiseDisjoint(MapZeroPage(before, address, PageLength))
    BY <2>1, ZeroPageDisjoint
  <2> QED
    BY <2>1, <2>2, Zenon DEF NoOverlap, PairwiseDisjoint, MapZeroPage
<1> QED
  BY <1>1, ScanInvariance, PTL

\* The scan that has returned mapped exactly the maximal free runs of the page, so
\* MapZeroPage, which the other modules use, is what _map_zero_page computes
\* (MapsTheHoles).
THEOREM ScanMapsTheHoles == Spec => []MapsTheHoles
<1>1. ScanInv => MapsTheHoles
  BY Zenon DEF ScanInv
<1> QED
  BY <1>1, ScanInvariance, PTL
=============================================================================
