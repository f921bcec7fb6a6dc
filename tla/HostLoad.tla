------------------------------ MODULE HostLoad ------------------------------
(***************************************************************************)
(* HostMemoryBridge.load_image in detail: a fresh memory, the segments,    *)
(* the layout, the stack banks.  It raises when the layout is refused, and *)
(* then the memory is already the new one, without stacks, while the image *)
(* of the bridge is still the previous one.  Every load is a LoadImage of  *)
(* HostMemory, whose other operations are taken over as they are.          *)
(***************************************************************************)
EXTENDS HostMemory, RuntimeLayout

CONSTANTS
  Programs,    \* [segments, data]: ProgramImage, whose segments are disjoint
  Options,     \* the arguments of load_image
  NoImage

\* What the ELF loader and the callers of load_image provide.  _load_elf refuses a
\* program without load segments; the arguments are integers or None.
IsProgram(program) ==
  /\ program.segments \subseteq Region /\ PairwiseDisjoint(program.segments)
  /\ \E last \in program.segments : \A s \in program.segments : End(s) <= End(last)
  /\ program.data \in [Addr -> Byte]
  /\ \A a \in Addr : ~Mapped(program.segments, a) => program.data[a] = 0

IsOptions(o) ==
  o \in [policy : {"disabled", "explicit", "after-image"}, top : Int \cup {NoValue},
         stride : Int \cup {NoValue}, size : Int, gap : Int, redZone : Int, count : Int]

ASSUME LoadAssumption ==
  /\ \A program \in Programs : IsProgram(program)
  /\ \A o \in Options : IsOptions(o)

VARIABLES
  image,       \* what was loaded when self.image was last assigned
  stacks,      \* self.stacks
  origin       \* the completed load the memory contents come from, or NoImage

loadVars == <<regions, bytes, generation, saved, image, stacks, origin>>

\* An explicit stack of size 0 is no stack.
Requested(o) ==
  IF o.size = 0 /\ o.policy = "explicit" THEN [o EXCEPT !.policy = "disabled"] ELSE o

Layout(program, o) == Resolve(program.segments, Requested(o), PageSize)
Loads(program, o) == Layout(program, o) # Refused

Outcome(program, o) ==
  [regions |-> program.segments \cup
      (IF Loads(program, o) THEN {BankRegion(b) : b \in Layout(program, o)} ELSE {}),
   bytes |-> program.data]

ASSUME OutcomesAreImages ==
  Images = {Outcome(program, o) : program \in Programs, o \in Options}

\* A negative stack_size raises before anything is changed.
LoadProgram(program, o) ==
  /\ o.size >= 0
  /\ LoadImage(Outcome(program, o))
  /\ stacks' = IF Loads(program, o) THEN Layout(program, o) ELSE {}
  /\ image' = IF Loads(program, o) THEN <<program, o>> ELSE image
  /\ origin' = IF Loads(program, o) THEN <<program, o>> ELSE NoImage

RestoreLoaded(snapshot) ==
  /\ Restore(snapshot) /\ origin' = snapshot.origin
  /\ UNCHANGED <<image, stacks>>

\* snapshot hands out a copy, kept by its caller.
SnapshotLoaded ==
  /\ saved' = saved \cup {[regions |-> regions, bytes |-> bytes, origin |-> origin]}
  /\ UNCHANGED <<regions, bytes, generation, image, stacks, origin>>

\* A bridge is new until its first load.
InitLoad ==
  /\ regions = {} /\ bytes = [a \in Addr |-> 0] /\ generation = 0 /\ saved = {}
  /\ image = NoImage /\ stacks = {} /\ origin = NoImage

\* One snapshot at a time, and generation bounded, for finite instances.
NextLoad ==
  \/ \E program \in Programs, o \in Options : LoadProgram(program, o)
  \/ Access /\ UNCHANGED <<image, stacks, origin>>
  \/ /\ generation < MaxGeneration
     /\ \E a \in Addr, v \in Byte : WriteByte(a, v)
     /\ UNCHANGED <<image, stacks, origin>>
  \/ generation < MaxGeneration /\ \E snapshot \in saved : RestoreLoaded(snapshot)
  \/ saved = {} /\ SnapshotLoaded

SpecLoad == InitLoad /\ [][NextLoad]_loadVars

-----------------------------------------------------------------------------
\* While the memory is the one the last completed load built, each stack bank of
\* the bridge is a region of its own, below the address limit, and the initial
\* stack pointer of its PE lies inside it; zero pages mapped since and restores of
\* its snapshots change nothing about that.
StacksUsable ==
  image # NoImage /\ origin = image =>
    \A bank \in stacks :
      /\ BankRegion(bank) \in regions
      /\ bank.base >= 0 /\ bank.base + bank.size <= AddressLimit
      /\ bank.base < StackPointer(bank, image[2])
      /\ StackPointer(bank, image[2]) <= bank.base + bank.size
=============================================================================
