--------------------------- MODULE RuntimeAdapter ---------------------------
(***************************************************************************)
(* RuntimeAdapter and InstructionTransaction (runtime/adapter.py) over a   *)
(* GuestMemory and a MemoryTransaction (runtime/memory.py).  One thread    *)
(* calls the adapter; the semantic backend runs inside a step, stages its  *)
(* writes and returns a result, or raises.                                 *)
(*                                                                         *)
(* The state is a record [pc, sp]: sp is the register load writes, and     *)
(* stands for the others.  A snapshot keeps a reference to the adapter's   *)
(* state object, not a copy: it is live until the adapter gets a new       *)
(* object, and load assigns into the object it has.                        *)
(***************************************************************************)
EXTENDS Integers, Sequences

CONSTANTS
  Images,        \* [entry, sp, segments], sp NoSp: stack_pointer is None
  Stack,         \* values of sp
  NoSp,          \* registers has no "sp"
  PC,            \* program counters
  Payloads,      \* non-empty byte sequences that a backend writes
  Addr,          \* 0..n, the addresses of the memory
  NoImage, NoBefore,
  MaxWrites, MaxSnapshots, MaxCount   \* bounds of the finite instances

ASSUME AdapterAssumption ==
  /\ Addr \subseteq Nat /\ \A payload \in Payloads : Len(payload) \in Nat
  /\ Images # {} /\ \A i \in Images : Len(i.segments) \in Nat

VARIABLES
  closed,        \* _closed
  state,         \* _state
  image,         \* _image
  memory,        \* host.memory: [bytes, regions], a region [addresses, writable]
  initial,       \* [state, memory]: _initial_state, _initial_memory
  count,         \* _instruction_count
  active,        \* _active is not None
  writes,        \* staged writes, a sequence of [address, payload]
  staging,       \* the memory transaction is open
  snapshots,     \* RuntimeSnapshots handed out: [state, live, memory, image, count],
                 \* with the state when it was taken, for the properties only
  result,        \* how the last step ended
  before         \* [state, memory, count] when the transaction began, NoBefore without
                 \* one; the code keeps the state (initial_state), the rest is for the
                 \* properties only

vars == <<closed, state, image, memory, initial, count, active, writes, staging,
          snapshots, result, before>>
transaction == <<active, writes, staging, before>>

State == [pc : PC, sp : Stack \cup {NoSp}]

\* The memory after restore(GuestMemory().snapshot()) and map_region for the first n
\* segments: a byte of a segment is its data, and zero beyond it.
Mapped(segments, n) ==
  [bytes |-> [a \in Addr |->
     IF \E k \in 1..n : a \in segments[k].addresses
     THEN segments[CHOOSE k \in 1..n : a \in segments[k].addresses].data[a] ELSE 0],
   regions |-> {[addresses |-> segments[k].addresses, writable |-> segments[k].writable] :
                  k \in 1..n}]
Unmapped == [bytes |-> [a \in Addr |-> 0], regions |-> {}]

Now == [state |-> state, memory |-> memory, count |-> count]

Init ==
  /\ closed = FALSE /\ image = NoImage /\ memory = Unmapped
  /\ state = [pc |-> 0, sp |-> NoSp]
  /\ initial = [state |-> state, memory |-> memory]
  /\ count = 0 /\ active = FALSE /\ writes = <<>> /\ staging = FALSE
  /\ snapshots = <<>> /\ result = "none" /\ before = NoBefore

\* Every snapshot that still refers to the adapter's state object is now on its own.
Detached == [i \in 1..Len(snapshots) |-> [snapshots[i] EXCEPT !.live = FALSE]]

-----------------------------------------------------------------------------
(* MemoryTransaction.                                                      *)

Covers(write, a) == write.address <= a /\ a < write.address + Len(write.payload)
ByteOf(write, a) == write.payload[a - write.address + 1]

\* Fault variant: the first staged write to an address wins.
OverlayFirst(bytes, staged) ==
  [a \in Addr |->
     LET hits == {i \in 1..Len(staged) : Covers(staged[i], a)}
     IN IF hits = {} THEN bytes[a]
        ELSE ByteOf(staged[CHOOSE i \in hits : \A j \in hits : i <= j], a)]

\* read: the byte in memory under the staged writes, the last one on top.
Overlay(bytes, staged) ==
  [a \in Addr |->
     LET hits == {i \in 1..Len(staged) : Covers(staged[i], a)}
     IN IF hits = {} THEN bytes[a]
        ELSE ByteOf(staged[CHOOSE i \in hits : \A j \in hits : j <= i], a)]

\* commit: the staged writes are applied one after the other.
Applied(bytes, staged) ==
  LET after[n \in 0..Len(staged)] ==
        IF n = 0 THEN bytes
        ELSE [a \in Addr |->
                IF Covers(staged[n], a) THEN ByteOf(staged[n], a) ELSE after[n - 1][a]]
  IN after[Len(staged)]

-----------------------------------------------------------------------------
(* Lifecycle.                                                              *)

Usable == ~closed /\ ~active

\* The state object of the adapter gets new contents.
Assigned(s) ==
  [n \in 1..Len(snapshots) |->
     IF snapshots[n].live THEN [snapshots[n] EXCEPT !.state = s] ELSE snapshots[n]]

\* A segment that ProgramSegment accepts and GuestRegion refuses (a permission flag
\* given twice): map_region raises.
Refused(i) == {n \in 1..Len(i.segments) : ~i.segments[n].mappable}

\* load, when host.load returns an image: one that raises changes nothing.
Load(i) ==
  LET fresh == Mapped(i.segments, Len(i.segments))
      loaded == [pc |-> i.entry, sp |-> IF i.sp = NoSp THEN state.sp ELSE i.sp]
  IN /\ Usable /\ Refused(i) = {}
     /\ image' = i /\ memory' = fresh /\ state' = loaded
     /\ initial' = [state |-> loaded, memory |-> fresh]
     /\ snapshots' = Assigned(loaded)
     /\ count' = 0
     /\ UNCHANGED <<closed, transaction, result>>

\* map_region raises in the loop: the old program is unmapped, a part of the new one
\* is mapped, and the rest of the adapter is that of the old one.
LoadRaises(i) ==
  /\ Usable
  /\ \E n \in Refused(i) :
       (\A k \in Refused(i) : n <= k) /\ memory' = Mapped(i.segments, n - 1)
  /\ UNCHANGED <<closed, state, image, initial, count, transaction, snapshots, result>>

\* reset, to the state of the last load or to a given one.
ResetTo(s) ==
  /\ Usable
  /\ state' = s /\ memory' = initial.memory /\ count' = 0 /\ snapshots' = Detached
  /\ UNCHANGED <<closed, image, initial, transaction, result>>

TakeSnapshot ==
  /\ ~closed /\ Len(snapshots) < MaxSnapshots
  /\ snapshots' = Append(snapshots, [state |-> state, live |-> TRUE, memory |-> memory,
                                     image |-> image, count |-> count, taken |-> state])
  /\ UNCHANGED <<closed, state, image, memory, initial, count, transaction, result>>

Restore(s) ==
  /\ Usable
  /\ state' = s.state /\ memory' = s.memory /\ image' = s.image /\ count' = s.count
  /\ snapshots' = Detached
  /\ UNCHANGED <<closed, initial, transaction, result>>

-----------------------------------------------------------------------------
(* An instruction.                                                         *)

\* begin: the request must carry the program counter of the state.
Begin ==
  /\ Usable /\ count < MaxCount
  /\ active' = TRUE /\ staging' = TRUE /\ writes' = <<>> /\ result' = "running"
  /\ before' = Now
  /\ UNCHANGED <<closed, state, image, memory, initial, count, snapshots>>

Running == active /\ result = "running"

\* Fault variant: only the region of the first byte is looked at.
StageWriteUnchecked(a, payload) ==
  /\ Running /\ Len(writes) < MaxWrites
  /\ \E r \in memory.regions : r.writable /\ a \in r.addresses
  /\ writes' = Append(writes, [address |-> a, payload |-> payload])
  /\ UNCHANGED <<closed, state, image, memory, initial, count, active, staging,
                 snapshots, result, before>>

\* Fault variant: the write goes to the memory at once.
StageWriteThrough(a, payload) ==
  /\ Running /\ Len(writes) < MaxWrites
  /\ \E r \in memory.regions :
       r.writable /\ \A k \in 0..(Len(payload) - 1) : a + k \in r.addresses
  /\ writes' = Append(writes, [address |-> a, payload |-> payload])
  /\ memory' = [memory EXCEPT !.bytes = [b \in Addr |->
                  IF Covers([address |-> a, payload |-> payload], b)
                  THEN payload[b - a + 1] ELSE memory.bytes[b]]]
  /\ UNCHANGED <<closed, state, image, initial, count, active, staging,
                 snapshots, result, before>>

\* The backend writes memory: one region must hold all of the bytes, and the
\* permission is checked when they are staged.
StageWrite(a, payload) ==
  /\ Running /\ Len(writes) < MaxWrites
  /\ \E r \in memory.regions :
       r.writable /\ \A k \in 0..(Len(payload) - 1) : a + k \in r.addresses
  /\ writes' = Append(writes, [address |-> a, payload |-> payload])
  /\ UNCHANGED <<closed, state, image, memory, initial, count, active, staging,
                 snapshots, result, before>>

\* A successful result: the memory, then the state, then the count.
Commit(s) ==
  /\ Running
  /\ memory' = [memory EXCEPT !.bytes = Applied(memory.bytes, writes)] /\ staging' = FALSE
  /\ state' = s /\ snapshots' = Detached
  /\ count' = count + 1 /\ active' = FALSE /\ writes' = <<>> /\ before' = NoBefore
  /\ result' = "committed"
  /\ UNCHANGED <<closed, image, initial>>

\* A successful result whose final state does not validate: from_dict raises when
\* the memory is committed.  The handler of step aborts the transaction, whose
\* memory transaction is closed, so this raises too and _active stays.
CommitRaises ==
  /\ Running
  /\ memory' = [memory EXCEPT !.bytes = Applied(memory.bytes, writes)] /\ staging' = FALSE
  /\ result' = "raised"
  /\ UNCHANGED <<closed, state, image, initial, count, active, writes, snapshots, before>>

\* Any other result, or an exception of the backend.
Abort(how) ==
  /\ Running /\ staging
  /\ staging' = FALSE /\ writes' = <<>> /\ active' = FALSE /\ before' = NoBefore
  /\ result' = how
  /\ UNCHANGED <<closed, state, image, memory, initial, count, snapshots>>

\* close aborts a transaction that is open; one whose memory is closed raises.
Close ==
  /\ ~closed /\ (active => staging)
  /\ closed' = TRUE /\ active' = FALSE /\ staging' = FALSE /\ writes' = <<>>
  /\ before' = NoBefore
  /\ UNCHANGED <<state, image, memory, initial, count, snapshots, result>>

Step ==
  \/ Begin
  \/ \E a \in Addr, payload \in Payloads : StageWrite(a, payload)
  \/ \E s \in State : Commit(s)
  \/ CommitRaises
  \/ \E how \in {"rejected", "failed"} : Abort(how)

Lifecycle ==
  \/ \E i \in Images : Load(i) \/ LoadRaises(i)
  \/ ResetTo(initial.state)
  \/ \E s \in State : ResetTo(s)
  \/ TakeSnapshot
  \/ \E n \in 1..Len(snapshots) : Restore(snapshots[n])
  \/ Close

Next == Step \/ Lifecycle

Spec == Init /\ [][Next]_vars

-----------------------------------------------------------------------------
\* What a backend reads through its transaction is what the memory holds once the
\* transaction is committed, byte for byte, however its writes overlap: the merge
\* that read makes and the replay that commit makes agree.
CommitIsView ==
  [][result = "running" /\ result' = "committed" => memory'.bytes = Overlay(memory.bytes, writes)]_vars

\* A transaction that ends in any way but a commit, by a rejected result, an exception
\* of the backend or a close in its middle, leaves no trace of anything the backend
\* did since begin: state, memory and count are those of the moment it began.
UndoneLeavesNoTrace ==
  [][active /\ ~active' /\ result' # "committed" => writes' = <<>> /\ Now' = before]_vars

\* The mapping of the first segments of an image, but for its writable bytes.
HoldsImage(m) ==
  \E i \in Images : \E n \in 0..Len(i.segments) :
    /\ m.regions = Mapped(i.segments, n).regions
    /\ \A a \in Addr :
         \/ m.bytes[a] = Mapped(i.segments, n).bytes[a]
         \/ \E r \in m.regions : r.writable /\ a \in r.addresses

\* Memory only holds what a load put there and writable bytes that instructions
\* changed: at all times it is the mapping of one image, or of the first segments of
\* one whose load failed, with the bytes of its read-only segments as loaded.  No
\* sequence of loads, failed loads, commits, snapshots, restores and resets mixes two
\* programs or lets a staged write through the wrong region.
ReadOnlyStays == HoldsImage(memory)

\* "Complete restore point for runtime-owned state.": a snapshot keeps the state the
\* adapter had when it was taken.
RestorePoint == \A n \in 1..Len(snapshots) : snapshots[n].state = snapshots[n].taken

\* "A rejected/error result or an exception aborts staged memory writes and leaves
\* the previous runtime state unchanged."
FailedStepIsUndone ==
  [][result = "running" /\ result' \in {"rejected", "failed", "raised"} => Now' = before]_vars
=============================================================================
