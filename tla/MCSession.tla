----------------------------- MODULE MCSession -----------------------------
(* Two instructions; the second executes only right after the first one, so *)
(* that a trace of a rejected instruction would change a later verdict.     *)
(* ASLRef exits with 0 on one that is rejected too, and stops with an error *)
(* only when the second one comes twice in a row.                           *)
EXTENDS Session, TLC

CONSTANTS i1, i2

MCExecuted(state, i) == i = i1 \/ state[Len(state)] = i1
MCRuns(operations) ==
  \A n \in 2..Len(operations) : operations[n] = i2 => operations[n - 1] # i2
MCSourceAsks(src) == FALSE
\* The first instruction may touch memory, which the session does not serve.
MCAsks(state, c) == c = Step(i1) /\ Len(state) > 2
=============================================================================
