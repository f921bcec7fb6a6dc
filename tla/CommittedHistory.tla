-------------------------- MODULE CommittedHistory --------------------------
(***************************************************************************)
(* What AslSession promises its clients: an open session is its sequence   *)
(* of committed steps.  A step is committed as a whole or leaves no trace, *)
(* a reset goes back to a snapshot that is a prefix of what is committed,  *)
(* and a session that cannot keep this promise says so and closes.         *)
(***************************************************************************)
EXTENDS Naturals, Sequences

CONSTANTS
  Instruction,
  Accepts(_, _, _)    \* this backend executes the step after this history

VARIABLES backend, open, history, snapshots, result

vars == <<backend, open, history, snapshots, result>>

IsPrefixOf(s, t) == \E n \in 0..Len(t) : s = SubSeq(t, 1, n)

Init ==
  /\ backend \in {"process", "embedded", "direct"}
  /\ open = FALSE /\ history = <<>> /\ snapshots = {} /\ result = "none"

Create == open' = TRUE /\ result' = "none" /\ UNCHANGED <<backend, history, snapshots>>

Commit(i) ==
  /\ open /\ Accepts(backend, history, i)
  /\ history' = Append(history, i) /\ result' = "committed"
  /\ UNCHANGED <<backend, open, snapshots>>

Reject == open /\ result' = "rejected" /\ UNCHANGED <<backend, open, history, snapshots>>

Snapshot ==
  /\ open /\ snapshots' = snapshots \cup {history}
  /\ UNCHANGED <<backend, open, history, result>>

Restore(h) ==
  /\ open /\ h \in snapshots \cup {<<>>} /\ IsPrefixOf(h, history)
  /\ history' = h /\ result' = "restored"
  /\ UNCHANGED <<backend, open, snapshots>>

Fail == open' = FALSE /\ result' = "failed" /\ UNCHANGED <<backend, history, snapshots>>

Destroy == open' = FALSE /\ UNCHANGED <<backend, history, snapshots, result>>

Next ==
  \/ ~open /\ result = "none" /\ (Create \/ Fail)
  \/ open /\ (\/ \E i \in Instruction : Commit(i)
              \/ Reject \/ Snapshot \/ Fail \/ Destroy
              \/ \E h \in snapshots \cup {<<>>} : Restore(h))

Spec == Init /\ [][Next]_vars
=============================================================================
