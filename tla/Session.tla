------------------------------ MODULE Session ------------------------------
(***************************************************************************)
(* The two implementations of AslSession (session.py).  ProcessAslSession  *)
(* runs ASLRef on the whole program for every step.  EmbeddedAslSession    *)
(* keeps one worker process (WorkerProtocol) alive; its snapshots are      *)
(* replay checkpoints, and a rejected instruction is undone by resetting   *)
(* the worker and sending the committed prefix again.                      *)
(*                                                                         *)
(* The ASL state is the initial source followed by every instruction the   *)
(* interpreter executed since: a rejected one has effects too.  The        *)
(* session's lock serialises the operations of its callers.  The third     *)
(* backend is a caller of EmbeddedAslWorker without a session, which goes  *)
(* on after a failed request.                                              *)
(***************************************************************************)
EXTENDS WorkerProtocol, FiniteSets

CONSTANTS
  Instruction,
  GivenSource,        \* the initial_source of the session
  Executed(_, _),     \* in this ASL state the instruction is executed
  Runs(_),            \* ASLRef exits with 0 on this sequence of operations
  MaxHistory          \* bound on the committed steps

\* The commands that are sent here, and the answers they get.
Commands == {Ping, Reset} \cup {Step(i) : i \in Instruction}
Replies(c) == {Reply("status", v, c) : v \in {0, 1}}
Failures == {Failure(why) : why \in {"error", "timeout", "raised"}}

ASSUME SessionAssumption ==
  /\ NoArg \notin Instruction /\ NoCommand \notin Commands
  /\ NoAnswer \notin Failures \cup UNION {Replies(c) : c \in Commands}

VARIABLES
  backend,     \* "process", "embedded" or "direct"
  open,        \* created and not _closed
  history,     \* _operations or _history
  snapshots,   \* the SessionSnapshot handles given out
  op,          \* where the embedded operation in progress is
  pending,     \* its instruction, NoArg for a reset
  target,      \* the prefix _restore_prefix sends again
  index,       \* how many of it are sent
  result       \* how the last operation ended

session == <<backend, open, history, snapshots, op, pending, target, index, result>>
vars == <<protocol, session>>

\* ExecutePTOInstruction: its effects stay in the ASL state either way.
SessionInitial(src) == <<src>>
SessionOutcomes(state, c) ==
  IF c.name = "step"
  THEN {[vm |-> Append(state, c.arg), value |-> IF Executed(state, c.arg) THEN 0 ELSE 1]}
  ELSE {[vm |-> state, value |-> 0]}

Init ==
  /\ ProtocolInit
  /\ backend \in {"process", "embedded", "direct"}
  /\ open = FALSE /\ history = <<>> /\ snapshots = {} /\ op = "new"
  /\ pending = NoArg /\ target = <<>> /\ index = 0 /\ result = "none"

Idle == open /\ op = "idle"

\* Fault variant: the digest is not compared.
ValidSnapshotByCount(h) == h \in snapshots /\ Len(h) <= Len(history)

\* A handle holds the step count and the digest of the operations up to it:
\* it is valid while those operations are still the first ones committed.
ValidSnapshot(h) ==
  h \in snapshots /\ Len(h) <= Len(history) /\ h = SubSeq(history, 1, Len(h))

-----------------------------------------------------------------------------
(* ProcessAslSession.                                                      *)

ProcessCreate ==
  /\ backend = "process" /\ op = "new"
  /\ open' = TRUE /\ op' = "idle"
  /\ UNCHANGED <<protocol, backend, history, snapshots, pending, target, index, result>>

\* step, and step_instruction by way of it: the candidate is committed when ASLRef
\* exits with 0; a timeout is the exit code 124.  The source of step_instruction
\* throws the status of ExecutePTOInstruction away, so the verdict is Runs, whether
\* the instruction was Executed or rejected: a rejected one is committed, and its
\* effects are part of every later run.
ProcessStep(i) ==
  /\ backend = "process" /\ Idle /\ Len(history) < MaxHistory
  /\ LET candidate == Append(history, i)
     IN \/ Runs(candidate) /\ history' = candidate /\ result' = "committed"
        \/ history' = history /\ result' = "rejected"
  /\ UNCHANGED <<protocol, backend, open, snapshots, op, pending, target, index>>

ProcessReset(h) ==
  /\ backend = "process" /\ Idle
  /\ h = <<>> \/ ValidSnapshot(h)
  /\ history' = SubSeq(history, 1, Len(h)) /\ result' = "restored"
  /\ UNCHANGED <<protocol, backend, open, snapshots, op, pending, target, index>>

ProcessDestroy ==
  /\ backend = "process" /\ Idle
  /\ open' = FALSE
  /\ UNCHANGED <<protocol, backend, history, snapshots, op, pending, target, index, result>>

\* snapshot, of either backend.
Snapshot ==
  /\ Idle
  /\ snapshots' = snapshots \cup {history}
  /\ UNCHANGED <<protocol, backend, open, history, op, pending, target, index, result>>

-----------------------------------------------------------------------------
(* EmbeddedAslSession.  An operation sends a request, waits for its answer *)
(* (WorkerProtocol) and goes on from it.                                   *)

\* __init__: start the worker with the source of the session, then ping it.
Create ==
  /\ backend = "embedded" /\ op = "new"
  /\ Start(GivenSource) \/ StartRaises
  /\ op' = "created"
  /\ UNCHANGED <<backend, open, history, snapshots, pending, target, index, result>>

SendPing ==
  /\ op = "created" /\ Request(Ping)
  /\ op' = "pinging"
  /\ UNCHANGED <<backend, open, history, snapshots, pending, target, index, result>>

Created ==
  /\ op = "pinging" /\ Status(0) /\ Consume
  /\ open' = TRUE /\ op' = "idle"
  /\ UNCHANGED <<backend, history, snapshots, pending, target, index, result>>

\* step_instruction, up to its first request.
StepInstruction(i) ==
  /\ backend = "embedded" /\ Idle /\ Len(history) < MaxHistory /\ Request(Step(i))
  /\ op' = "stepping" /\ pending' = i
  /\ UNCHANGED <<backend, open, history, snapshots, target, index, result>>

StepCommitted ==
  /\ op = "stepping" /\ Status(0) /\ Consume
  /\ history' = Append(history, pending)
  /\ op' = "idle" /\ result' = "committed"
  /\ UNCHANGED <<backend, open, snapshots, pending, target, index>>

\* Fault variant: the rejected instruction is not undone.
StepRejectedKept ==
  /\ op = "stepping" /\ Status(1) /\ Consume
  /\ op' = "idle" /\ result' = "rejected"
  /\ UNCHANGED <<backend, open, history, snapshots, pending, target, index>>

\* A status other than 0: the committed prefix is restored before it is reported
\* (pending tells the two uses of _restore_prefix apart).
StepRejected ==
  /\ op = "stepping" /\ Status(1) /\ Consume
  /\ op' = "restore" /\ target' = history
  /\ UNCHANGED <<backend, open, history, snapshots, pending, index, result>>

\* reset, with or without a snapshot.
ResetTo(h) ==
  /\ backend = "embedded" /\ Idle
  /\ h = <<>> \/ ValidSnapshot(h)
  /\ op' = "restore" /\ target' = SubSeq(history, 1, Len(h)) /\ pending' = NoArg
  /\ UNCHANGED <<protocol, backend, open, history, snapshots, index, result>>

\* _restore_prefix: a reset, then the instructions of the prefix in order.
SendReset ==
  /\ op = "restore" /\ Request(Reset)
  /\ op' = "resetting"
  /\ UNCHANGED <<backend, open, history, snapshots, pending, target, index, result>>

ResetDone ==
  /\ op = "resetting" /\ Status(0) /\ Consume
  /\ op' = "replay" /\ index' = 0
  /\ UNCHANGED <<backend, open, history, snapshots, pending, target, result>>

SendReplay ==
  /\ op = "replay" /\ index < Len(target) /\ Request(Step(target[index + 1]))
  /\ op' = "replaying" /\ index' = index + 1
  /\ UNCHANGED <<backend, open, history, snapshots, pending, target, result>>

Replayed ==
  /\ op = "replaying" /\ Status(0) /\ Consume
  /\ op' = "replay"
  /\ UNCHANGED <<backend, open, history, snapshots, pending, target, index, result>>

Restored ==
  /\ op = "replay" /\ index = Len(target)
  /\ history' = target /\ op' = "idle"
  /\ result' = IF pending = NoArg THEN "restored" ELSE "rejected"
  /\ UNCHANGED <<protocol, backend, open, snapshots, pending, target, index>>

\* Fault variant: the session closes but its worker is not stopped.
GiveUpRunning ==
  /\ op \notin {"new", "idle"} /\ Consume
  /\ Failed \/ (op = "replaying" /\ ~Status(0))
  /\ open' = FALSE /\ op' = "idle" /\ result' = "failed"
  /\ UNCHANGED <<backend, history, snapshots, pending, target, index>>

\* The except branches: the session closes and stops its worker.
GiveUp ==
  /\ op \notin {"new", "idle"} /\ Answered
  /\ Failed \/ (op = "replaying" /\ ~Status(0))
  /\ Stop /\ answer' = NoAnswer
  /\ open' = FALSE /\ op' = "idle" /\ result' = "failed"
  /\ UNCHANGED <<worker, call, backend, history, snapshots, pending, target, index>>

Destroy ==
  /\ backend = "embedded" /\ Idle
  /\ Stop /\ open' = FALSE
  /\ UNCHANGED <<worker, call, answer, backend, history, snapshots, op, pending, target,
                 index, result>>

-----------------------------------------------------------------------------
(* A caller of EmbeddedAslWorker itself.                                   *)

Direct == backend = "direct" /\ UNCHANGED session

DirectStart == Direct /\ (Start(GivenSource) \/ StartRaises)
DirectRequest(c) == Direct /\ Len(vm) <= MaxHistory /\ Request(c)
DirectConsume == Direct /\ Consume
DirectStop ==
  Direct /\ answer = NoAnswer /\ process # "none" /\ Stop /\ UNCHANGED <<worker, call, answer>>

-----------------------------------------------------------------------------
Operation ==
  \/ ProcessCreate \/ ProcessDestroy \/ Create \/ Snapshot \/ Destroy
  \/ \E i \in Instruction : ProcessStep(i) \/ StepInstruction(i)
  \/ \E h \in snapshots \cup {<<>>} : ProcessReset(h) \/ ResetTo(h)

Continue ==
  \/ SendPing \/ Created \/ StepCommitted \/ StepRejected \/ SendReset \/ ResetDone
  \/ SendReplay \/ Replayed \/ Restored \/ GiveUp

DirectUse ==
  \/ DirectStart \/ DirectConsume \/ DirectStop
  \/ \E c \in Commands : DirectRequest(c)

Protocol == ProtocolNext /\ UNCHANGED session

Next == Operation \/ Continue \/ DirectUse \/ Protocol

\* An operation that has begun runs on: its thread is scheduled, and poll gives
\* up after timeout_s, so the host's side of a request always ends.
Fairness ==
  /\ WF_vars(Continue)
  /\ WF_vars(HostProgress /\ UNCHANGED session)

Spec == Init /\ [][Next]_vars /\ Fairness

-----------------------------------------------------------------------------
\* Between operations the worker of an open embedded session holds exactly the
\* session's source followed by the committed instructions, whatever was rejected,
\* undone, reset or replayed before; nothing is left in its pipes; and it is the
\* process the session started, never one request restarted with an empty source.
VmIsHistory ==
  Idle /\ backend = "embedded" =>
    /\ process # "none" /\ source = GivenSource
    /\ vm = <<GivenSource>> \o history
    /\ stdin = <<>> /\ stdout = <<>>

\* Both backends keep the promise of AslSession: a step commits as a whole or
\* leaves no trace, it commits only what the backend accepts after the committed
\* steps alone, a reset reaches only prefixes that were snapshotted, and a failure
\* closes.  What is accepted differs: for the embedded backend ASL executed the
\* instruction, for the process backend ASLRef exited with 0, which says nothing of
\* the instruction's own status.
Accepted(kind, h, i) ==
  IF kind = "process" THEN Runs(Append(h, i)) ELSE Executed(<<GivenSource>> \o h, i)
Promise == INSTANCE CommittedHistory WITH Accepts <- Accepted
KeepsPromise == Promise!Spec

\* The worker of a session that is closed is gone: no operation that fails leaves
\* its process, and no closed session can start one again.
ClosedIsStopped == ~open /\ op = "idle" => process = "none"

\* Every operation ends, also when the worker hangs, dies in the middle of a replay
\* or never answers.
OperationEnds == op \notin {"new", "idle"} ~> op = "idle"
=============================================================================
