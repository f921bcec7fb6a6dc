------------------------ MODULE RuntimeAdapterProofs ------------------------
(***************************************************************************)
(* The merge that a transaction reads through and the replay that commits  *)
(* it agree, for any memory and any sequence of staged writes; a           *)
(* transaction that is not committed leaves no trace; memory holds one     *)
(* image, whose read-only bytes stay.                                      *)
(***************************************************************************)
EXTENDS RuntimeAdapter, WellFoundedInduction, TLAPS

-----------------------------------------------------------------------------
(* The replay.                                                             *)

\* A set of natural numbers that is not empty has a least element.
LEMMA LeastElement ==
  ASSUME NEW T \in SUBSET Nat, T # {}
  PROVE  \E x \in T : \A y \in T : x <= y
<1>1. \E x \in T : \A y \in T : ~(<<y, x>> \in OpToRel(<, Nat))
  BY NatLessThanWellFounded, WFMin, Zenon
<1>2. \E x \in T : \A y \in T : ~(y < x)
  BY <1>1, Zenon DEF OpToRel
<1> QED
  BY <1>2

\* One staged write, applied to the bytes.
Write(bytes, write) ==
  [a \in Addr |-> IF Covers(write, a) THEN ByteOf(write, a) ELSE bytes[a]]

\* The memory after the first n writes, as the replay computes it.
IsReplay(f, bytes, staged, m) ==
  f = [n \in 0..m |-> IF n = 0 THEN bytes ELSE Write(f[n - 1], staged[n])]

\* Every number of writes has a replay.
LEMMA ReplayExists ==
  ASSUME NEW bytes, NEW staged, NEW m \in Nat
  PROVE  \E f : IsReplay(f, bytes, staged, m)
<1> DEFINE T == {n \in Nat : ~\E f : IsReplay(f, bytes, staged, n)}
<1>1. SUFFICES ASSUME T # {} PROVE FALSE
  BY Zenon
<1>2. PICK k \in T : \A y \in T : k <= y
  BY <1>1, LeastElement, Zenon
<1>3. k \in Nat /\ ~\E f : IsReplay(f, bytes, staged, k)
  BY <1>2
<1>4. CASE k = 0
  <2> DEFINE f == [n \in 0..0 |-> bytes]
  <2>1. f = [n \in 0..0 |-> IF n = 0 THEN bytes ELSE Write(f[n - 1], staged[n])]
    <3>1. \A n \in 0..0 : n = 0
      OBVIOUS
    <3> QED
      BY <3>1, Zenon
  <2> QED
    BY <1>3, <1>4, <2>1, Zenon DEF IsReplay
<1>5. CASE k # 0
  <2>1. k - 1 \in Nat /\ k - 1 \notin T
    BY <1>2, <1>3, <1>5
  <2>2. PICK f : IsReplay(f, bytes, staged, k - 1)
    BY <2>1, Zenon
  <2> DEFINE g == [n \in 0..k |-> IF n = k THEN Write(f[k - 1], staged[k]) ELSE f[n]]
  <2>3. \A n \in 0..k : g[n] = IF n = 0 THEN bytes ELSE Write(g[n - 1], staged[n])
    <3> SUFFICES ASSUME NEW n \in 0..k
                 PROVE  g[n] = IF n = 0 THEN bytes ELSE Write(g[n - 1], staged[n])
      BY Zenon
    <3>0. \A j \in 0..(k - 1) : f[j] = IF j = 0 THEN bytes ELSE Write(f[j - 1], staged[j])
      BY <2>2, Zenon DEF IsReplay
    <3>1. CASE n = k
      <4>1. g[n] = Write(f[k - 1], staged[k])
        BY <3>1
      <4>2. g[k - 1] = f[k - 1]
        BY <1>3, <1>5
      <4> QED
        BY <1>5, <3>1, <4>1, <4>2, Zenon
    <3>2. CASE n # k
      <4>1. n \in 0..(k - 1) /\ (n # 0 => n - 1 \in 0..k /\ n - 1 # k)
        BY <1>3, <3>2
      <4>2. g[n] = f[n] /\ (n # 0 => g[n - 1] = f[n - 1])
        BY <3>2, <4>1, Zenon
      <4> QED
        BY <3>0, <4>1, <4>2, Zenon
    <3> QED
      BY <3>1, <3>2, Zenon
  <2>4. g = [n \in 0..k |-> IF n = 0 THEN bytes ELSE Write(g[n - 1], staged[n])]
    BY <2>3, Zenon
  <2>5. IsReplay(g, bytes, staged, k)
    BY <2>4, Zenon DEF IsReplay
  <2> QED
    BY <1>3, <2>5, Zenon
<1> QED
  BY <1>4, <1>5, Zenon

\* What commit computes is a replay.
LEMMA AppliedReplays ==
  ASSUME NEW bytes, NEW staged, Len(staged) \in Nat
  PROVE  \E f : IsReplay(f, bytes, staged, Len(staged)) /\ Applied(bytes, staged) = f[Len(staged)]
<1> DEFINE after == CHOOSE f : f = [n \in 0..Len(staged) |->
              IF n = 0 THEN bytes
              ELSE [a \in Addr |->
                IF Covers(staged[n], a) THEN ByteOf(staged[n], a) ELSE f[n - 1][a]]]
<1>1. Applied(bytes, staged) = after[Len(staged)]
  BY Zenon DEF Applied
<1>2. \E f : f = [n \in 0..Len(staged) |->
              IF n = 0 THEN bytes
              ELSE [a \in Addr |->
                IF Covers(staged[n], a) THEN ByteOf(staged[n], a) ELSE f[n - 1][a]]]
  <2>1. PICK g : IsReplay(g, bytes, staged, Len(staged))
    BY ReplayExists
  <2> QED
    BY <2>1, Zenon DEF IsReplay, Write
<1>3. IsReplay(after, bytes, staged, Len(staged))
  BY <1>2, Zenon DEF IsReplay, Write
<1> QED
  BY <1>1, <1>3, Zenon

\* The writes to an address among the first n.
Hits(staged, n, a) == {i \in 1..n : Covers(staged[i], a)}

\* The byte under them, the last one on top.
View(bytes, staged, n, a) ==
  IF Hits(staged, n, a) = {} THEN bytes[a]
  ELSE ByteOf(staged[CHOOSE i \in Hits(staged, n, a) : \A j \in Hits(staged, n, a) : j <= i], a)

\* One more write changes the view where it writes.
LEMMA ViewStep ==
  ASSUME NEW bytes, NEW staged, NEW k \in Nat, k # 0, NEW a
  PROVE  View(bytes, staged, k, a) =
           IF Covers(staged[k], a) THEN ByteOf(staged[k], a) ELSE View(bytes, staged, k - 1, a)
<1>1. \A i : i \in 1..k <=> i = k \/ i \in 1..(k - 1)
  OBVIOUS
<1>2. CASE Covers(staged[k], a)
  <2> DEFINE H == Hits(staged, k, a)
             last == CHOOSE i \in H : \A j \in H : j <= i
  <2>1. k \in H /\ \A j \in H : j <= k /\ j \in Nat
    <3>1. H = {i \in 1..k : Covers(staged[i], a)}
      BY Zenon DEF Hits
    <3> QED
      BY <1>2, <3>1
  <2> HIDE DEF H
  <2>2. last \in H /\ \A j \in H : j <= last
    BY <2>1, Zenon
  <2> HIDE DEF last
  <2>3. last = k
    BY <2>1, <2>2
  <2>4. H # {}
    BY <2>1, Zenon
  <2> USE DEF last
  <2>5. View(bytes, staged, k, a) = ByteOf(staged[last], a)
    BY <2>4, Zenon DEF View, H
  <2> HIDE DEF last
  <2> QED
    BY <1>2, <2>3, <2>5, Zenon
<1>3. CASE ~Covers(staged[k], a)
  <2>1. Hits(staged, k, a) = Hits(staged, k - 1, a)
    BY <1>1, <1>3, Zenon DEF Hits
  <2>2. View(bytes, staged, k, a) = View(bytes, staged, k - 1, a)
    BY <2>1 DEF View
  <2> QED
    BY <1>3, <2>2, Zenon
<1> QED
  BY <1>2, <1>3, Zenon

\* A replay writes what the view shows.
LEMMA ReplayIsView ==
  ASSUME NEW bytes, NEW staged, NEW m \in Nat, NEW f, IsReplay(f, bytes, staged, m),
         NEW a \in Addr
  PROVE  f[m][a] = View(bytes, staged, m, a)
<1> DEFINE T == {n \in 0..m : f[n][a] # View(bytes, staged, n, a)}
<1>0. m \in 0..m
  OBVIOUS
<1>1. SUFFICES ASSUME T # {} PROVE FALSE
  BY <1>0, Zenon
<1>2. PICK k \in T : \A y \in T : k <= y
  <2>1. T \in SUBSET Nat
    OBVIOUS
  <2> HIDE DEF T
  <2> QED
    BY <1>1, <2>1, LeastElement
<1>3. k \in 0..m /\ k \in Nat /\ f[k][a] # View(bytes, staged, k, a)
  BY <1>2
<1>4. f[k] = IF k = 0 THEN bytes ELSE Write(f[k - 1], staged[k])
  BY <1>3, Zenon DEF IsReplay
<1>5. CASE k = 0
  <2>1. Hits(staged, 0, a) = {}
    <3>1. \A i : i \notin 1..0
      OBVIOUS
    <3> QED
      BY <3>1, Zenon DEF Hits
  <2> QED
    BY <1>3, <1>4, <1>5, <2>1, Zenon DEF View
<1>6. CASE k # 0
  <2>1. k - 1 \in 0..m /\ ~(k <= k - 1)
    BY <1>3, <1>6
  <2>2. f[k - 1][a] = View(bytes, staged, k - 1, a)
    BY <1>2, <2>1, Zenon
  <2>3. f[k][a] = IF Covers(staged[k], a) THEN ByteOf(staged[k], a) ELSE f[k - 1][a]
    BY <1>4, <1>6, Zenon DEF Write
  <2>4. View(bytes, staged, k, a) =
          IF Covers(staged[k], a) THEN ByteOf(staged[k], a) ELSE View(bytes, staged, k - 1, a)
    BY <1>3, <1>6, ViewStep
  <2> QED
    BY <1>3, <2>2, <2>3, <2>4
<1> QED
  BY <1>5, <1>6, Zenon

\* Every replay of at least one write is a function on the addresses; that of none is
\* the memory.
LEMMA AppliedIsOverlay ==
  ASSUME NEW bytes, bytes = [a \in Addr |-> bytes[a]], NEW staged, Len(staged) \in Nat
  PROVE  Applied(bytes, staged) = Overlay(bytes, staged)
<1>1. PICK f : /\ IsReplay(f, bytes, staged, Len(staged))
               /\ Applied(bytes, staged) = f[Len(staged)]
  BY AppliedReplays
<1>2. Len(staged) \in 0..Len(staged)
  OBVIOUS
<1>3. f[Len(staged)] = IF Len(staged) = 0 THEN bytes
                       ELSE Write(f[Len(staged) - 1], staged[Len(staged)])
  BY <1>1, <1>2, Zenon DEF IsReplay
<1>4. f[Len(staged)] = [a \in Addr |-> f[Len(staged)][a]]
  <2>1. CASE Len(staged) = 0
    BY <1>3, <2>1, Zenon
  <2>2. CASE Len(staged) # 0
    BY <1>3, <2>2, Zenon DEF Write
  <2> QED
    BY <2>1, <2>2, Zenon
<1>5. \A a \in Addr : f[Len(staged)][a] = View(bytes, staged, Len(staged), a)
  BY <1>1, ReplayIsView, Zenon
<1>6. Overlay(bytes, staged) = [a \in Addr |-> View(bytes, staged, Len(staged), a)]
  BY Zenon DEF Overlay, View, Hits
<1> QED
  BY <1>1, <1>4, <1>5, <1>6, Zenon

-----------------------------------------------------------------------------
(* The shapes of the state.                                                *)

IsSeq(s) == s \in Seq({s[n] : n \in DOMAIN s})

IsMemory(m) ==
  /\ m = [bytes |-> m.bytes, regions |-> m.regions]
  /\ m.bytes = [a \in Addr |-> m.bytes[a]]
IsSnapshot(s) ==
  /\ s = [state |-> s.state, live |-> s.live, memory |-> s.memory, image |-> s.image,
          count |-> s.count, taken |-> s.taken]
  /\ IsMemory(s.memory)

Shape ==
  /\ IsMemory(memory) /\ IsMemory(initial.memory)
  /\ IsSeq(writes) /\ IsSeq(snapshots)
  /\ \A n \in 1..Len(snapshots) : IsSnapshot(snapshots[n])

\* Appending to a sequence.
LEMMA OneMore ==
  ASSUME NEW s, IsSeq(s), NEW e
  PROVE  /\ IsSeq(Append(s, e)) /\ Len(s) \in Nat /\ Len(Append(s, e)) = Len(s) + 1
         /\ Append(s, e)[Len(s) + 1] = e
         /\ \A n \in 1..Len(s) : Append(s, e)[n] = s[n]
<1> DEFINE S == {s[n] : n \in DOMAIN s}
<1>1. s \in Seq(S)
  BY Zenon DEF IsSeq
<1> HIDE DEF S
<1>2. /\ Len(s) \in Nat /\ Len(Append(s, e)) = Len(s) + 1 /\ Append(s, e)[Len(s) + 1] = e
      /\ \A n \in 1..Len(s) : Append(s, e)[n] = s[n]
  BY <1>1
<1>3. Append(s, e) \in Seq({Append(s, e)[n] : n \in DOMAIN Append(s, e)})
  <2>1. Append(s, e) \in Seq(S \cup {e})
    BY <1>1
  <2> DEFINE t == Append(s, e)
  <2> HIDE DEF t
  <2>2. t \in Seq(S \cup {e}) => t \in Seq({t[n] : n \in DOMAIN t})
    OBVIOUS
  <2> QED
    BY <2>1, <2>2, Zenon DEF t
<1> QED
  BY <1>2, <1>3, Zenon DEF IsSeq

\* Changing every element of a sequence.
LEMMA Elementwise ==
  ASSUME NEW s, IsSeq(s), NEW t, t = [n \in 1..Len(s) |-> t[n]]
  PROVE  IsSeq(t) /\ Len(t) = Len(s) /\ Len(s) \in Nat
<1>1. Len(s) \in Nat
  BY OneMore
<1>2. t \in Seq({t[n] : n \in DOMAIN t}) /\ Len(t) = Len(s)
  BY <1>1
<1> QED
  BY <1>1, <1>2, Zenon DEF IsSeq

\* Snapshots that lose their state object, or get its new contents.
LEMMA Kept ==
  ASSUME Shape, NEW t, t = [n \in 1..Len(snapshots) |-> t[n]],
         \A n \in 1..Len(snapshots) :
           \/ t[n] = snapshots[n]
           \/ t[n] = [snapshots[n] EXCEPT !.live = FALSE]
           \/ \E s : t[n] = [snapshots[n] EXCEPT !.state = s]
  PROVE  /\ IsSeq(t) /\ Len(t) = Len(snapshots)
         /\ \A n \in 1..Len(t) :
              IsSnapshot(t[n])
<1>1. IsSeq(t) /\ Len(t) = Len(snapshots)
  <2>1. PICK s : s = snapshots
    BY Zenon
  <2>2. IsSeq(s) /\ t = [n \in 1..Len(s) |-> t[n]]
    BY <2>1, Zenon DEF Shape
  <2>3. IsSeq(t) /\ Len(t) = Len(s)
    BY <2>2, Elementwise, Zenon
  <2> QED
    BY <2>1, <2>3, Zenon
<1>2. ASSUME NEW n \in 1..Len(t) PROVE IsSnapshot(t[n])
  <2>1. PICK p, r : p = snapshots[n] /\ r = t[n]
    BY Zenon
  <2>2. IsSnapshot(p) /\ (r = p \/ r = [p EXCEPT !.live = FALSE] \/ \E s : r = [p EXCEPT !.state = s])
    BY <1>1, <1>2, <2>1, Zenon DEF Shape
  <2>3. PICK s, l : r = [state |-> s, live |-> l, memory |-> p.memory, image |-> p.image,
                         count |-> p.count, taken |-> p.taken]
    <3>1. p = [state |-> p.state, live |-> p.live, memory |-> p.memory, image |-> p.image,
               count |-> p.count, taken |-> p.taken]
      BY <2>2, Zenon DEF IsSnapshot
    <3>2. CASE r = p
      BY <3>1, <3>2, Zenon
    <3>3. CASE r = [p EXCEPT !.live = FALSE]
      <4>1. r = [state |-> p.state, live |-> FALSE, memory |-> p.memory, image |-> p.image,
                 count |-> p.count, taken |-> p.taken]
        BY <3>1, <3>3, Zenon
      <4> QED
        BY <4>1, Zenon
    <3>4. ASSUME NEW s, r = [p EXCEPT !.state = s]
          PROVE  r = [state |-> s, live |-> p.live, memory |-> p.memory, image |-> p.image,
                      count |-> p.count, taken |-> p.taken]
      BY <3>1, <3>4
    <3> QED
      BY <2>2, <3>2, <3>3, <3>4, Zenon
  <2>4. /\ r = [state |-> r.state, live |-> r.live, memory |-> r.memory, image |-> r.image,
                count |-> r.count, taken |-> r.taken]
        /\ r.memory = p.memory
    BY <2>3
  <2> QED
    BY <2>1, <2>2, <2>4, Zenon DEF IsSnapshot
<1> QED
  BY <1>1, <1>2, Zenon

\* The memory of an instruction that was executed.
LEMMA CommittedMemory ==
  ASSUME Shape, memory' = [memory EXCEPT !.bytes = Applied(memory.bytes, writes)]
  PROVE  /\ IsMemory(memory)' /\ memory'.bytes = Overlay(memory.bytes, writes)
         /\ memory'.regions = memory.regions
<1>1. PICK b, w, x : b = memory.bytes /\ w = memory.regions /\ x = writes
  BY Zenon
<1>2. memory = [bytes |-> b, regions |-> w] /\ b = [a \in Addr |-> b[a]] /\ IsSeq(x)
  BY <1>1, Zenon DEF Shape, IsMemory
<1>3. Len(x) \in Nat
  BY <1>2, OneMore
<1>4. PICK c : c = Overlay(b, x)
  BY Zenon
<1>5. Applied(b, x) = c
  BY <1>2, <1>3, <1>4, AppliedIsOverlay
<1>6. memory' = [memory EXCEPT !.bytes = c]
  BY <1>1, <1>5, Zenon
<1>7. memory' = [bytes |-> c, regions |-> w]
  BY <1>2, <1>6
<1>8. /\ memory'.bytes = c /\ memory'.regions = w
      /\ memory' = [bytes |-> memory'.bytes, regions |-> memory'.regions]
  <2>1. PICK m : m = [bytes |-> c, regions |-> w]
    BY Zenon
  <2>2. m.bytes = c /\ m.regions = w /\ m = [bytes |-> m.bytes, regions |-> m.regions]
    BY <2>1
  <2> QED
    BY <1>7, <2>1, <2>2, Zenon
<1>9. c = [a \in Addr |-> c[a]]
  <2>1. c = [a \in Addr |-> View(b, x, Len(x), a)]
    BY <1>4, Zenon DEF Overlay, View, Hits
  <2> QED
    BY <2>1, Zenon
<1> QED
  BY <1>1, <1>4, <1>8, <1>9, Zenon DEF IsMemory

\* The snapshots lose their state object.
LEMMA DetachedSnapshots ==
  ASSUME Shape, snapshots' = Detached
  PROVE  /\ IsSeq(snapshots') /\ \A n \in 1..Len(snapshots') : IsSnapshot(snapshots'[n])
<1>1. PICK t : t = Detached
  BY Zenon
<1>2. /\ t = [n \in 1..Len(snapshots) |-> t[n]]
      /\ \A n \in 1..Len(snapshots) : t[n] = [snapshots[n] EXCEPT !.live = FALSE]
  BY <1>1, Zenon DEF Detached
<1>3. IsSeq(t) /\ \A n \in 1..Len(t) : IsSnapshot(t[n])
  BY <1>2, Kept, Zenon
<1> QED
  BY <1>1, <1>3, Zenon

\* What load maps has the shape of a memory.
LEMMA MappedIsMemory ==
  ASSUME NEW segments, NEW n
  PROVE  IsMemory(Mapped(segments, n))
<1>1. PICK b, g : Mapped(segments, n) = [bytes |-> [a \in Addr |-> b[a]], regions |-> g]
  <2>1. PICK b : b = [a \in Addr |->
                       IF \E k \in 1..n : a \in segments[k].addresses
                       THEN segments[CHOOSE k \in 1..n : a \in segments[k].addresses].data[a]
                       ELSE 0]
    BY Zenon
  <2>2. b = [a \in Addr |-> b[a]]
    BY <2>1, Zenon
  <2> QED
    BY <2>1, <2>2, Zenon DEF Mapped
<1>2. PICK m, f : m = Mapped(segments, n) /\ f = [a \in Addr |-> b[a]]
  BY Zenon
<1>3. m = [bytes |-> f, regions |-> g] /\ f = [a \in Addr |-> f[a]]
  BY <1>1, <1>2, Zenon
<1>4. m.bytes = f /\ m = [bytes |-> m.bytes, regions |-> m.regions]
  BY <1>3
<1> QED
  BY <1>2, <1>3, <1>4, Zenon DEF IsMemory

\* The initial state has the shapes.
LEMMA ShapeInit == Init => Shape
<1> SUFFICES ASSUME Init PROVE Shape
  OBVIOUS
<1>1. /\ memory = Unmapped /\ initial = [state |-> state, memory |-> memory]
      /\ writes = <<>> /\ snapshots = <<>>
  BY Zenon DEF Init
<1>2. IsMemory(Unmapped)
  <2>1. PICK m : m = Unmapped
    BY Zenon
  <2>2. m = [bytes |-> [a \in Addr |-> 0], regions |-> {}]
    BY <2>1, Zenon DEF Unmapped
  <2>3. /\ m = [bytes |-> m.bytes, regions |-> m.regions] /\ m.bytes = [a \in Addr |-> 0]
    BY <2>2
  <2> QED
    BY <2>1, <2>3, Zenon DEF IsMemory
<1>3. initial.memory = memory
  BY <1>1
<1>4. IsSeq(<<>>)
  <2>1. <<>> \in Seq({<<>>[n] : n \in DOMAIN <<>>})
    OBVIOUS
  <2> QED
    BY <2>1, Zenon DEF IsSeq
<1>5. \A n : n \notin 1..Len(snapshots)
  BY <1>1
<1> QED
  BY <1>1, <1>2, <1>3, <1>4, <1>5, Zenon DEF Shape

\* The calls outside an instruction.
LEMMA ShapeLifecycle ==
  ASSUME Shape, Lifecycle
  PROVE  Shape'
<1>1. ASSUME NEW i \in Images, Load(i) PROVE Shape'
  <2>1. PICK m, s : /\ m = Mapped(i.segments, Len(i.segments))
                    /\ s = [pc |-> i.entry, sp |-> IF i.sp = NoSp THEN state.sp ELSE i.sp]
    BY Zenon
  <2>2. /\ memory' = m /\ initial' = [state |-> s, memory |-> m] /\ UNCHANGED writes
        /\ snapshots' = Assigned(s)
    BY <1>1, <2>1, Zenon DEF Load, transaction
  <2>3. IsMemory(m)
    BY <2>1, MappedIsMemory, Zenon
  <2>4. initial'.memory = m
    BY <2>2
  <2>5. PICK t : t = Assigned(s)
    BY Zenon
  <2>6. /\ t = [n \in 1..Len(snapshots) |-> t[n]]
        /\ \A n \in 1..Len(snapshots) :
             t[n] = snapshots[n] \/ \E r : t[n] = [snapshots[n] EXCEPT !.state = r]
    BY <2>5, Zenon DEF Assigned
  <2>7. IsSeq(t) /\ \A n \in 1..Len(t) : IsSnapshot(t[n])
    BY <2>6, Kept, Zenon
  <2> QED
    BY <2>2, <2>3, <2>4, <2>5, <2>7, Zenon DEF Shape
<1>6. ASSUME NEW i \in Images, LoadRaises(i) PROVE Shape'
  <2>1. PICK n : memory' = Mapped(i.segments, n - 1)
    BY <1>6, Zenon DEF LoadRaises
  <2>2. initial' = initial /\ writes' = writes /\ snapshots' = snapshots
    BY <1>6, Zenon DEF LoadRaises, transaction
  <2>3. IsMemory(memory')
    BY <2>1, MappedIsMemory, Zenon
  <2> QED
    BY <2>2, <2>3, Zenon DEF Shape
<1>2. ASSUME NEW s, ResetTo(s) PROVE Shape'
  <2>1. memory' = initial.memory /\ initial' = initial /\ writes' = writes /\ snapshots' = Detached
    BY <1>2, Zenon DEF ResetTo, transaction
  <2> QED
    BY <2>1, DetachedSnapshots, Zenon DEF Shape
<1>3. CASE TakeSnapshot
  <2>1. PICK e : e = [state |-> state, live |-> TRUE, memory |-> memory, image |-> image,
                      count |-> count, taken |-> state]
    BY Zenon
  <2>2. /\ snapshots' = Append(snapshots, e)
        /\ memory' = memory /\ initial' = initial /\ writes' = writes
    BY <1>3, <2>1, Zenon DEF TakeSnapshot, transaction
  <2>3. IsSnapshot(e)
    <3>1. /\ e.memory = memory
          /\ e = [state |-> e.state, live |-> e.live, memory |-> e.memory, image |-> e.image,
                  count |-> e.count, taken |-> e.taken]
      BY <2>1
    <3> QED
      BY <3>1, Zenon DEF IsSnapshot, Shape
  <2>4. PICK s : s = snapshots
    BY Zenon
  <2>5. /\ IsSeq(Append(s, e)) /\ Len(s) \in Nat /\ Len(Append(s, e)) = Len(s) + 1
        /\ Append(s, e)[Len(s) + 1] = e /\ \A n \in 1..Len(s) : Append(s, e)[n] = s[n]
    <3>1. IsSeq(s)
      BY <2>4, Zenon DEF Shape
    <3> QED
      BY <3>1, OneMore
  <2>6. ASSUME NEW n \in 1..Len(Append(s, e)) PROVE IsSnapshot(Append(s, e)[n])
    <3>1. n \in 1..Len(s) \/ n = Len(s) + 1
      BY <2>5
    <3> QED
      BY <2>3, <2>4, <2>5, <3>1, Zenon DEF Shape
  <2> QED
    BY <2>2, <2>4, <2>5, <2>6, Zenon DEF Shape
<1>4. ASSUME NEW n \in 1..Len(snapshots), Restore(snapshots[n]) PROVE Shape'
  <2>1. /\ memory' = snapshots[n].memory /\ initial' = initial /\ writes' = writes
        /\ snapshots' = Detached
    BY <1>4, Zenon DEF Restore, transaction
  <2>2. IsMemory(snapshots[n].memory)
    BY Zenon DEF Shape, IsSnapshot
  <2> QED
    BY <2>1, <2>2, DetachedSnapshots, Zenon DEF Shape
<1>5. CASE Close
  <2>1. memory' = memory /\ initial' = initial /\ writes' = <<>> /\ snapshots' = snapshots
    BY <1>5, Zenon DEF Close
  <2>2. IsSeq(<<>>)
    <3>1. <<>> \in Seq({<<>>[n] : n \in DOMAIN <<>>})
      OBVIOUS
    <3> QED
      BY <3>1, Zenon DEF IsSeq
  <2> QED
    BY <2>1, <2>2, Zenon DEF Shape
<1> QED
  BY <1>1, <1>2, <1>3, <1>4, <1>5, <1>6, Zenon DEF Lifecycle

\* The steps of an instruction.
LEMMA ShapeStep ==
  ASSUME Shape, Step
  PROVE  Shape'
<1>0. IsSeq(<<>>)
  <2>1. <<>> \in Seq({<<>>[n] : n \in DOMAIN <<>>})
    OBVIOUS
  <2> QED
    BY <2>1, Zenon DEF IsSeq
<1>1. CASE Begin \/ \E how \in {"rejected", "failed"} : Abort(how)
  <2>1. memory' = memory /\ initial' = initial /\ writes' = <<>> /\ snapshots' = snapshots
    BY <1>1, Zenon DEF Begin, Abort
  <2> QED
    BY <1>0, <2>1, Zenon DEF Shape
<1>2. ASSUME NEW a, NEW payload, StageWrite(a, payload) PROVE Shape'
  <2>1. PICK w, e : w = writes /\ e = [address |-> a, payload |-> payload]
    BY Zenon
  <2>2. /\ writes' = Append(w, e)
        /\ memory' = memory /\ initial' = initial /\ snapshots' = snapshots
    BY <1>2, <2>1, Zenon DEF StageWrite
  <2>3. IsSeq(w)
    BY <2>1, Zenon DEF Shape
  <2>4. IsSeq(Append(w, e))
    BY <2>3, OneMore
  <2> QED
    BY <2>2, <2>4, Zenon DEF Shape
<1>3. CASE CommitRaises \/ \E s \in State : Commit(s)
  <2>1. /\ memory' = [memory EXCEPT !.bytes = Applied(memory.bytes, writes)]
        /\ initial' = initial /\ (writes' = writes \/ writes' = <<>>)
        /\ snapshots' = snapshots \/ snapshots' = Detached
    BY <1>3, Zenon DEF CommitRaises, Commit
  <2>2. IsMemory(memory)'
    BY <2>1, CommittedMemory, Zenon
  <2> QED
    BY <1>0, <2>1, <2>2, DetachedSnapshots, Zenon DEF Shape, IsMemory
<1> QED
  BY <1>1, <1>2, <1>3, Zenon DEF Step

\* Every step keeps the shapes.
LEMMA ShapeNext == Shape /\ [Next]_vars => Shape'
<1> SUFFICES ASSUME Shape, [Next]_vars PROVE Shape'
  OBVIOUS
<1>1. CASE UNCHANGED vars
  <2>1. memory' = memory /\ initial' = initial /\ writes' = writes /\ snapshots' = snapshots
    BY <1>1, Zenon DEF vars
  <2> QED
    BY <2>1, Zenon DEF Shape
<1> QED
  BY <1>1, ShapeStep, ShapeLifecycle, Zenon DEF Next

\* A backend reads through its transaction what the memory holds after the commit:
\* the merge of MemoryTransaction.read and the replay of commit agree for every
\* memory, every number of staged writes and every way they overlap.
THEOREM CommitsTheView == Spec => CommitIsView
<1>1. ASSUME Shape, [Next]_vars, result = "running", result' = "committed"
      PROVE  memory'.bytes = Overlay(memory.bytes, writes)
  <2>1. PICK s \in State : Commit(s)
    <3>1. result' # result
      BY <1>1, Zenon
    <3> QED
      BY <1>1, <3>1, Zenon DEF Next, Step, Lifecycle, Begin, StageWrite, CommitRaises, Abort,
         Load, LoadRaises, ResetTo, TakeSnapshot, Restore, Close, vars
  <2>2. memory' = [memory EXCEPT !.bytes = Applied(memory.bytes, writes)]
    BY <2>1, Zenon DEF Commit
  <2> QED
    BY <1>1, <2>2, CommittedMemory, Zenon
<1>2. Shape /\ [Next]_vars =>
        [result = "running" /\ result' = "committed" =>
           memory'.bytes = Overlay(memory.bytes, writes)]_vars
  BY <1>1, Zenon
<1> QED
  BY <1>2, ShapeInit, ShapeNext, PTL DEF Spec, CommitIsView

-----------------------------------------------------------------------------
(* Transactions that are undone.                                           *)

\* While a transaction is open, the adapter is still what it was when it began.
Untouched == active /\ staging => Now = before

\* Only Begin opens a transaction, and only CommitRaises changes the memory of an
\* active one, when it has closed it.
LEMMA UntouchedNext == Untouched /\ [Next]_vars => Untouched'
<1> SUFFICES ASSUME Untouched, [Next]_vars, (active /\ staging)' PROVE (Now = before)'
  BY Zenon DEF Untouched
<1>1. CASE Begin
  <2>1. UNCHANGED <<state, memory, count>> /\ before' = Now
    BY <1>1, Zenon DEF Begin
  <2> QED
    BY <2>1, Zenon DEF Now
<1>2. CASE ~Begin
  <2>1. UNCHANGED <<state, memory, count, before, active, staging>>
    BY <1>2, Zenon DEF Next, Step, Lifecycle, StageWrite, Commit, CommitRaises, Abort, Load,
       LoadRaises, ResetTo, TakeSnapshot, Restore, Close, Usable, transaction, vars
  <2> QED
    BY <2>1, Zenon DEF Now, Untouched
<1> QED
  BY <1>1, <1>2, Zenon

\* A transaction that does not commit leaves the state, the memory and the count it
\* found when it began, whatever was staged in between and whether the backend
\* rejected, raised or the adapter was closed under it.
THEOREM UndoneIsUndone == Spec => UndoneLeavesNoTrace
<1>1. Init => Untouched
  BY Zenon DEF Init, Untouched
<1>2. ASSUME Untouched, [Next]_vars, active, ~active', result' # "committed"
      PROVE  writes' = <<>> /\ Now' = before
  <2>1. Close \/ \E how \in {"rejected", "failed"} : Abort(how)
    BY <1>2, Zenon DEF Next, Step, Lifecycle, Begin, StageWrite, Commit, CommitRaises, Load,
       LoadRaises, ResetTo, TakeSnapshot, Restore, Usable, transaction, vars
  <2>2. writes' = <<>> /\ staging /\ UNCHANGED <<state, memory, count>>
    BY <1>2, <2>1, Zenon DEF Close, Abort
  <2> QED
    BY <1>2, <2>2, Zenon DEF Untouched, Now
<1>3. Untouched /\ [Next]_vars =>
        [active /\ ~active' /\ result' # "committed" => writes' = <<>> /\ Now' = before]_vars
  BY <1>2, Zenon
<1> QED
  BY <1>1, <1>3, UntouchedNext, PTL DEF Spec, UndoneLeavesNoTrace

-----------------------------------------------------------------------------
(* What the memory holds.                                                  *)

\* A staged write lies in writable bytes of this memory.
Writable(m, a) == \E r \in m.regions : r.writable /\ a \in r.addresses
Permitted(m, staged) ==
  \A k \in 1..Len(staged) : \A a \in Addr : Covers(staged[k], a) => Writable(m, a)

\* The memory, the one reset goes back to and those of the snapshots hold an image
\* each; what is staged is permitted there, and nothing is staged outside a transaction.
Holds ==
  /\ HoldsImage(memory) /\ HoldsImage(initial.memory)
  /\ \A n \in 1..Len(snapshots) : HoldsImage(snapshots[n].memory)
  /\ Permitted(memory, writes)
  /\ ~active => writes = <<>>

\* Nothing staged is permitted everywhere.
LEMMA NothingStaged == \A m : Permitted(m, <<>>)
<1>1. \A k : k \notin 1..Len(<<>>)
  OBVIOUS
<1> QED
  BY <1>1, Zenon DEF Permitted

\* What load maps, wholly or in part, holds the image.
LEMMA MappedHolds ==
  ASSUME NEW i \in Images, NEW n \in 0..Len(i.segments)
  PROVE  HoldsImage(Mapped(i.segments, n))
BY Zenon DEF HoldsImage

\* Committing permitted writes keeps the image.
LEMMA CommitHolds ==
  ASSUME Shape, Holds, memory' = [memory EXCEPT !.bytes = Applied(memory.bytes, writes)]
  PROVE  HoldsImage(memory') /\ memory'.regions = memory.regions
<1>1. memory'.bytes = Overlay(memory.bytes, writes) /\ memory'.regions = memory.regions
  BY CommittedMemory, Zenon
<1>2. ASSUME NEW a \in Addr PROVE memory'.bytes[a] = memory.bytes[a] \/ Writable(memory, a)
  <2>1. memory'.bytes[a] = View(memory.bytes, writes, Len(writes), a)
    BY <1>1, Zenon DEF Overlay, View, Hits
  <2>2. CASE Hits(writes, Len(writes), a) = {}
    BY <2>1, <2>2, Zenon DEF View
  <2>3. CASE Hits(writes, Len(writes), a) # {}
    BY <2>3, Zenon DEF Hits, Holds, Permitted
  <2> QED
    BY <2>2, <2>3, Zenon
<1>3. PICK i \in Images : \E n \in 0..Len(i.segments) :
        /\ memory.regions = Mapped(i.segments, n).regions
        /\ \A a \in Addr :
             memory.bytes[a] = Mapped(i.segments, n).bytes[a] \/ Writable(memory, a)
  BY Zenon DEF Holds, HoldsImage, Writable
<1>4. PICK n \in 0..Len(i.segments) :
        /\ memory.regions = Mapped(i.segments, n).regions
        /\ \A a \in Addr :
             memory.bytes[a] = Mapped(i.segments, n).bytes[a] \/ Writable(memory, a)
  BY <1>3, Zenon
<1>5. \A a \in Addr :
        memory'.bytes[a] = Mapped(i.segments, n).bytes[a] \/ Writable(memory, a)
  BY <1>2, <1>4, Zenon
<1>6. \A a \in Addr :
        \/ memory'.bytes[a] = Mapped(i.segments, n).bytes[a]
        \/ \E r \in memory'.regions : r.writable /\ a \in r.addresses
  BY <1>1, <1>5, Zenon DEF Writable
<1> QED
  BY <1>1, <1>6, <1>4, Zenon DEF HoldsImage

\* A write that is staged lies in a writable region with all of its bytes.
LEMMA StagedPermitted ==
  ASSUME Shape, Holds, NEW a \in Addr, NEW payload \in Payloads, StageWrite(a, payload)
  PROVE  Permitted(memory', writes')
<1>1. PICK w, e : w = writes /\ e = [address |-> a, payload |-> payload]
  BY Zenon
<1>2. writes' = Append(w, e) /\ memory' = memory /\ IsSeq(w)
  BY <1>1, Zenon DEF StageWrite, Shape
<1>3. /\ Len(w) \in Nat /\ Len(Append(w, e)) = Len(w) + 1
      /\ Append(w, e)[Len(w) + 1] = e /\ \A n \in 1..Len(w) : Append(w, e)[n] = w[n]
  BY <1>2, OneMore
<1>4. ASSUME NEW b \in Addr, Covers(e, b) PROVE Writable(memory, b)
  <2>1. /\ e.address = a /\ e.payload = payload
        /\ a \in Nat /\ b \in Nat /\ Len(payload) \in Nat
    BY <1>1, AdapterAssumption
  <2>2. a <= b /\ b < a + Len(payload)
    BY <1>4, <2>1 DEF Covers
  <2>3. b - a \in 0..(Len(payload) - 1) /\ a + (b - a) = b
    BY <2>1, <2>2
  <2>4. PICK r \in memory.regions :
          r.writable /\ \A k \in 0..(Len(payload) - 1) : a + k \in r.addresses
    BY Zenon DEF StageWrite
  <2>5. b \in r.addresses
    BY <2>3, <2>4, Zenon
  <2> QED
    BY <2>4, <2>5, Zenon DEF Writable
<1>5. ASSUME NEW k \in 1..Len(Append(w, e)), NEW b \in Addr, Covers(Append(w, e)[k], b)
      PROVE  Writable(memory, b)
  <2>1. k \in 1..Len(w) \/ k = Len(w) + 1
    BY <1>3
  <2>2. CASE k \in 1..Len(w)
    BY <1>1, <1>3, <1>5, <2>2, Zenon DEF Holds, Permitted
  <2>3. CASE k = Len(w) + 1
    BY <1>3, <1>4, <1>5, <2>3, Zenon
  <2> QED
    BY <2>1, <2>2, <2>3, Zenon
<1> QED
  BY <1>2, <1>5, Zenon DEF Permitted

\* The snapshots keep their memories.
LEMMA SameMemories ==
  ASSUME Shape, snapshots' = Detached \/ \E s : snapshots' = Assigned(s)
  PROVE  /\ Len(snapshots') = Len(snapshots)
         /\ \A n \in 1..Len(snapshots) : snapshots'[n].memory = snapshots[n].memory
<1>1. PICK t : t = snapshots'
  BY Zenon
<1>2. /\ t = [n \in 1..Len(snapshots) |-> t[n]]
      /\ \A n \in 1..Len(snapshots) :
           \/ t[n] = snapshots[n]
           \/ t[n] = [snapshots[n] EXCEPT !.live = FALSE]
           \/ \E s : t[n] = [snapshots[n] EXCEPT !.state = s]
  <2>1. CASE snapshots' = Detached
    BY <1>1, <2>1, Zenon DEF Detached
  <2>2. CASE \E s : snapshots' = Assigned(s)
    BY <1>1, <2>2, Zenon DEF Assigned
  <2> QED
    BY <2>1, <2>2, Zenon
<1>3. Len(t) = Len(snapshots)
  BY <1>2, Kept, Zenon
<1>4. ASSUME NEW n \in 1..Len(snapshots) PROVE t[n].memory = snapshots[n].memory
  <2>1. PICK p, r : p = snapshots[n] /\ r = t[n]
    BY Zenon
  <2>2. /\ p = [state |-> p.state, live |-> p.live, memory |-> p.memory, image |-> p.image,
                count |-> p.count, taken |-> p.taken]
        /\ r = p \/ r = [p EXCEPT !.live = FALSE] \/ \E s : r = [p EXCEPT !.state = s]
    BY <1>2, <2>1, Zenon DEF Shape, IsSnapshot
  <2>3. r.memory = p.memory
    BY <2>2
  <2> QED
    BY <2>1, <2>3, Zenon
<1> QED
  BY <1>1, <1>3, <1>4, Zenon

\* The calls outside an instruction: each takes the memory of an image or of what was
\* kept, and finds nothing staged.
LEMMA HoldsLifecycle ==
  ASSUME Shape, Holds, Lifecycle
  PROVE  Holds'
<1>1. ASSUME NEW i \in Images, Load(i) PROVE Holds'
  <2>1. PICK m, s : /\ m = Mapped(i.segments, Len(i.segments))
                    /\ s = [pc |-> i.entry, sp |-> IF i.sp = NoSp THEN state.sp ELSE i.sp]
    BY Zenon
  <2>2. /\ memory' = m /\ initial' = [state |-> s, memory |-> m]
        /\ ~active /\ writes' = writes /\ snapshots' = Assigned(s)
    BY <1>1, <2>1, Zenon DEF Load, Usable, transaction
  <2>3. Len(i.segments) \in 0..Len(i.segments)
    BY AdapterAssumption
  <2>4. HoldsImage(m) /\ initial'.memory = m
    BY <2>1, <2>2, <2>3, MappedHolds
  <2> QED
    BY <2>2, <2>4, SameMemories, NothingStaged, Zenon DEF Holds
<1>2. ASSUME NEW i \in Images, LoadRaises(i) PROVE Holds'
  <2>1. PICK n \in Refused(i) : memory' = Mapped(i.segments, n - 1)
    BY <1>2, Zenon DEF LoadRaises
  <2>2. n - 1 \in 0..Len(i.segments)
    BY AdapterAssumption DEF Refused
  <2>3. HoldsImage(memory')
    BY <2>1, <2>2, MappedHolds, Zenon
  <2>4. ~active /\ initial' = initial /\ writes' = writes /\ snapshots' = snapshots
    BY <1>2, Zenon DEF LoadRaises, Usable, transaction
  <2> QED
    BY <2>3, <2>4, NothingStaged, Zenon DEF Holds
<1>3. ASSUME NEW s, ResetTo(s) PROVE Holds'
  <2>1. /\ memory' = initial.memory /\ initial' = initial
        /\ ~active /\ writes' = writes /\ snapshots' = Detached
    BY <1>3, Zenon DEF ResetTo, Usable, transaction
  <2> QED
    BY <2>1, SameMemories, NothingStaged, Zenon DEF Holds
<1>4. CASE TakeSnapshot
  <2>1. PICK s, e : /\ s = snapshots
                    /\ e = [state |-> state, live |-> TRUE, memory |-> memory,
                            image |-> image, count |-> count, taken |-> state]
    BY Zenon
  <2>2. /\ snapshots' = Append(s, e) /\ IsSeq(s)
        /\ UNCHANGED <<memory, initial, writes, active>>
    BY <1>4, <2>1, Zenon DEF TakeSnapshot, transaction, Shape
  <2>3. /\ Len(s) \in Nat /\ Len(Append(s, e)) = Len(s) + 1
        /\ Append(s, e)[Len(s) + 1] = e /\ \A n \in 1..Len(s) : Append(s, e)[n] = s[n]
    BY <2>2, OneMore
  <2>4. e.memory = memory
    BY <2>1
  <2>5. ASSUME NEW n \in 1..Len(Append(s, e)) PROVE HoldsImage(Append(s, e)[n].memory)
    <3>1. n \in 1..Len(s) \/ n = Len(s) + 1
      BY <2>3
    <3> QED
      BY <2>1, <2>3, <2>4, <3>1, Zenon DEF Holds
  <2> QED
    BY <2>2, <2>5, Zenon DEF Holds
<1>5. ASSUME NEW n \in 1..Len(snapshots), Restore(snapshots[n]) PROVE Holds'
  <2>1. /\ memory' = snapshots[n].memory /\ initial' = initial
        /\ ~active /\ writes' = writes /\ snapshots' = Detached
    BY <1>5, Zenon DEF Restore, Usable, transaction
  <2> QED
    BY <2>1, SameMemories, NothingStaged, Zenon DEF Holds
<1>6. CASE Close
  <2>1. memory' = memory /\ initial' = initial /\ writes' = <<>> /\ snapshots' = snapshots
    BY <1>6, Zenon DEF Close
  <2> QED
    BY <2>1, NothingStaged, Zenon DEF Holds
<1> QED
  BY <1>1, <1>2, <1>3, <1>4, <1>5, <1>6, Zenon DEF Lifecycle

\* The steps of an instruction.
LEMMA HoldsStep ==
  ASSUME Shape, Holds, Step
  PROVE  Holds'
<1>1. CASE Begin \/ \E how \in {"rejected", "failed"} : Abort(how)
  <2>1. memory' = memory /\ initial' = initial /\ writes' = <<>> /\ snapshots' = snapshots
    BY <1>1, Zenon DEF Begin, Abort
  <2> QED
    BY <2>1, NothingStaged, Zenon DEF Holds
<1>2. ASSUME NEW a \in Addr, NEW payload \in Payloads, StageWrite(a, payload) PROVE Holds'
  <2>1. memory' = memory /\ initial' = initial /\ snapshots' = snapshots /\ active'
    BY <1>2, Zenon DEF StageWrite, Running
  <2>2. Permitted(memory', writes')
    BY <1>2, StagedPermitted, Zenon
  <2> QED
    BY <2>1, <2>2, Zenon DEF Holds
<1>3. ASSUME NEW s, Commit(s) PROVE Holds'
  <2>1. /\ memory' = [memory EXCEPT !.bytes = Applied(memory.bytes, writes)]
        /\ initial' = initial /\ writes' = <<>> /\ snapshots' = Detached
    BY <1>3, Zenon DEF Commit
  <2>2. HoldsImage(memory')
    BY <2>1, CommitHolds, Zenon
  <2> QED
    BY <2>1, <2>2, SameMemories, NothingStaged, Zenon DEF Holds
<1>4. CASE CommitRaises
  <2>1. /\ memory' = [memory EXCEPT !.bytes = Applied(memory.bytes, writes)]
        /\ active' /\ UNCHANGED <<initial, writes, snapshots>>
    BY <1>4, Zenon DEF CommitRaises, Running
  <2>2. HoldsImage(memory') /\ memory'.regions = memory.regions
    BY <2>1, CommitHolds, Zenon
  <2>3. Permitted(memory', writes')
    BY <2>1, <2>2, Zenon DEF Holds, Permitted, Writable
  <2> QED
    BY <2>1, <2>2, <2>3, Zenon DEF Holds
<1> QED
  BY <1>1, <1>2, <1>3, <1>4, Zenon DEF Step

\* Through every sequence of loads, failed loads, instructions, snapshots, restores and
\* resets, memory is the mapping of one image or of the first segments of one, and the
\* bytes of its read-only segments are those that were loaded.
THEOREM ReadOnlyIsKept == Spec => []ReadOnlyStays
<1>1. Init => Holds
  <2> SUFFICES ASSUME Init PROVE Holds
    BY Zenon
  <2>1. /\ memory = Unmapped /\ initial = [state |-> state, memory |-> memory]
        /\ writes = <<>> /\ snapshots = <<>>
    BY Zenon DEF Init
  <2>2. PICK i : i \in Images
    BY AdapterAssumption, Zenon
  <2>3. 0 \in 0..Len(i.segments)
    BY <2>2, AdapterAssumption
  <2>4. Unmapped = Mapped(i.segments, 0)
    <3>1. \A k : k \notin 1..0
      OBVIOUS
    <3> QED
      BY <3>1, Zenon DEF Unmapped, Mapped
  <2>5. HoldsImage(Unmapped)
    BY <2>2, <2>3, <2>4, MappedHolds
  <2>6. initial.memory = memory /\ \A n : n \notin 1..Len(snapshots)
    BY <2>1
  <2> QED
    BY <2>1, <2>5, <2>6, NothingStaged, Zenon DEF Holds
<1>2. Shape /\ Holds /\ [Next]_vars => Holds'
  <2> SUFFICES ASSUME Shape, Holds, [Next]_vars PROVE Holds'
    BY Zenon
  <2>1. CASE UNCHANGED vars
    BY <2>1, Zenon DEF vars, Holds
  <2> QED
    BY <2>1, HoldsLifecycle, HoldsStep, Zenon DEF Next
<1>3. Holds => ReadOnlyStays
  BY Zenon DEF Holds, ReadOnlyStays
<1> QED
  BY <1>1, <1>2, <1>3, ShapeInit, ShapeNext, PTL DEF Spec
=============================================================================
