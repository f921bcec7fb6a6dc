---------------------------- MODULE SerialRound ----------------------------
(***************************************************************************)
(* What a parallel round promises: it looks as if the PEs had executed one *)
(* at a time, in ascending PE order, directly on the central memory.       *)
(*                                                                         *)
(* A submitted PE carries the bytes it observed and the bytes it writes.   *)
(* Exec is its turn: every byte it observed must be what the memory holds  *)
(* at that moment, and its writes replace the memory's bytes.              *)
(***************************************************************************)
EXTENDS Integers

CONSTANTS PE, Addr, Byte, NoByte

VARIABLES
  bytes,   \* the central memory
  queue    \* the submitted PEs that have not had their turn

Outcome == [seen : SUBSET (Addr \X Byte), writes : [Addr -> Byte \cup {NoByte}]]

Overlay(memory, writes) ==
  [a \in Addr |-> IF writes[a] = NoByte THEN memory[a] ELSE writes[a]]

Init == bytes \in [Addr -> Byte] /\ queue = [p \in {} |-> {}]

\* A round is accepted; the memory is still what it was.
Submit ==
  /\ DOMAIN queue = {}
  /\ \E S \in SUBSET PE : queue' \in [S -> Outcome]
  /\ UNCHANGED bytes

Exec(p) ==
  /\ p \in DOMAIN queue
  /\ \A q \in DOMAIN queue : p <= q
  /\ \A o \in queue[p].seen : bytes[o[1]] = o[2]
  /\ bytes' = Overlay(bytes, queue[p].writes)
  /\ queue' = [q \in DOMAIN queue \ {p} |-> queue[q]]

\* Outside rounds the memory has other writers (serial steps, the host, a
\* newly loaded image).
HostWrite ==
  /\ DOMAIN queue = {}
  /\ bytes' \in [Addr -> Byte]
  /\ UNCHANGED queue

Next == Submit \/ HostWrite \/ \E p \in PE : Exec(p)

Spec == Init /\ [][Next]_<<bytes, queue>>
=============================================================================
