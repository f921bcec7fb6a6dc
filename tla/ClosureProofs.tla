---------------------------- MODULE ClosureProofs ----------------------------
(***************************************************************************)
(* Proofs about the closure and the hosted runs it is made of: a run that  *)
(* passes is positive evidence (PassIsEvidence), whoever called it, and a  *)
(* whole envelope is earned (EnvelopeIsEarned), for every corpus of cases, *)
(* policy, impact report and program.                                      *)
(***************************************************************************)
EXTENDS Closure, TLAPS

-----------------------------------------------------------------------------
(* The hosted run.                                                         *)

IsSeq(s) == s \in Seq({s[n] : n \in DOMAIN s})

Shaped(m) ==
  m = [tpc |-> m.tpc, step |-> m.step, hits |-> m.hits, trail |-> m.trail, out |-> m.out,
       code |-> m.code, memory |-> m.memory]
IsModel(m) == Shaped(m) /\ IsSeq(m.trail)

\* The visits of the stop PC.
Visits(c, m) == {n \in 1..Len(m.trail) : m.trail[n] = c.stop}

\* The harness counts the visits.  It has executed what is in the trail and has not
\* come to the last visit.
Counted(c, m) == m.hits = Cardinality(Visits(c, m))
Underway(c, m) == m.step = Len(m.trail) /\ m.code = 0 /\ (c.stop # NoPc => m.hits < c.hits)

\* It stopped there, or the program made the service call.
Finished(c, m) ==
  \/ /\ m.out = Printed(c, m.memory, c.stop) /\ c.stop # NoPc
     /\ m.hits = c.hits /\ Len(m.trail) \in Visits(c, m) /\ m.step = Len(m.trail)
  \/ /\ m.out = Printed(c, m.memory, c.return) /\ c.request
     /\ Len(m.trail) = m.step - 1 /\ (c.stop # NoPc => m.hits < c.hits)

RunInv ==
  /\ child \in {"none", "ready", "running", "exited"}
  /\ child # "none" =>
       /\ outcome = NoRun /\ configuration.size \in Nat /\ configuration.hits \in Nat
       /\ IsModel(model) /\ Counted(configuration, model)
       /\ caller = "closure" => configuration.stop # NoPc
  /\ child \in {"ready", "running"} => Underway(configuration, model)
  /\ child = "exited" => model.code # 0 \/ Finished(configuration, model)
  /\ PassIsEvidence
  /\ caller = "closure" /\ "result" \in DOMAIN outcome => outcome.status = "passed"

-----------------------------------------------------------------------------
(* The closure.                                                            *)

Early == {"start", "lock", "runLock"}
Timed == {"compile", "link", "sidecar", "preflight", "execute"}
Late == {"payload", "envelope", "published"}

\* Every execution so far passed, with its own golden bytes and in time.
Passed ==
  \A n \in 1..Len(executed) :
    /\ executed[n].outcome.status = "passed"
    /\ executed[n].outcome.result = executed[n].golden
    /\ executed[n].id = selected[n].id /\ executed[n].elapsed <= selected[n].timeout

Planned == selected = InOrder(SelectCases(policy.affected, policy.mandatory))

\* What the envelope says.
Complete ==
  /\ files["lock"] = "whole" /\ files["runLock"] = "whole" /\ files["payload"] = "whole"
  /\ Planned /\ Passed /\ Len(executed) = Len(selected)

PlaceInv ==
  /\ caller \in {"closure", "cli"} /\ place \in Early \cup Timed \cup Late \cup {"case", "ended"}
  /\ caller = "cli" => place \in {"start", "execute", "ended"}
  /\ files \in [Names -> {"absent", "partial", "whole"}]
  /\ IsSeq(executed) /\ index = Len(executed) + 1
  /\ place \in Early => executed = <<>>

\* Under the plan, and with the locks on disk.
PlanInv ==
  caller = "closure" /\ place \notin {"start", "ended"} =>
    /\ Planned /\ Passed /\ Len(executed) <= Len(selected)
    /\ place # "lock" => files["lock"] = "whole"
    /\ place \notin Early => files["runLock"] = "whole"

\* A process runs, or has ended with a result: it was begun before the deadline.
Begun == child \in {"running", "exited"} \/ "result" \in DOMAIN outcome
InTime == place \in {"compile", "link"} \/ (place = "execute" /\ Begun)

\* The stages of a case share its one deadline, which only the preflight overruns.
TimeInv ==
  caller = "closure" /\ place \in Timed =>
    /\ index <= Len(selected) /\ left \in Nat /\ elapsed \in Nat
    /\ left > 0 \/ InTime => left + elapsed = Case.timeout
    /\ place = "preflight" => HasSidecar(Case)

\* The envelope comes last.
LateInv ==
  /\ place \in Late => Len(executed) = Len(selected)
  /\ place \in {"envelope", "published"} => files["payload"] = "whole"
  /\ place \notin {"envelope", "published", "ended"} => files["envelope"] = "absent"
  /\ files["envelope"] # "absent" => Complete

ClosureInv == PlaceInv /\ PlanInv /\ TimeInv /\ LateInv

IInv == RunInv /\ ClosureInv

-----------------------------------------------------------------------------
(* Facts about the size of finite sets of numbers.  They are hypotheses    *)
(* here and are proved from the library at the end.                        *)

CountFact ==
  /\ Cardinality({}) = 0
  /\ \A n \in Nat : \A S \in SUBSET (1..n) :
       Cardinality(S) \in Nat /\ Cardinality(S \cup {n + 1}) = Cardinality(S) + 1

Rank(S, x) == Cardinality({j \in S : j < x})

\* The members of a set of numbers, in order, have the ranks 0 to its size.
RankFact ==
  \A n \in Nat : \A S \in SUBSET (1..n) :
    /\ Cardinality(S) \in Nat
    /\ \A x \in S : Rank(S, x) + 1 \in 1..Cardinality(S)
    /\ \A x, y \in S : Rank(S, x) = Rank(S, y) => x = y
    /\ \A k \in 1..Cardinality(S) : \E x \in S : Rank(S, x) = k - 1

-----------------------------------------------------------------------------
(* The harness.                                                            *)

\* A sequence has a length, and its elements are its own.
LEMMA SeqFacts ==
  ASSUME NEW s, IsSeq(s), NEW x
  PROVE  /\ Len(s) \in Nat /\ Len(Append(s, x)) = Len(s) + 1
         /\ \A n \in 1..Len(s) : Append(s, x)[n] = s[n]
         /\ Append(s, x)[Len(s) + 1] = x
         /\ IsSeq(Append(s, x))
<1> DEFINE S == {s[n] : n \in DOMAIN s}
           T == S \cup {x}
           t == Append(s, x)
<1>1. s \in Seq(S)
  BY Zenon DEF IsSeq
<1>2. s \in Seq(T) /\ x \in T
  BY <1>1
<1> HIDE DEF S, T
<1>3. Len(s) \in Nat /\ Len(t) = Len(s) + 1 /\ t[Len(s) + 1] = x /\ \A n \in 1..Len(s) : t[n] = s[n]
  BY <1>2
<1>4. t \in Seq(T)
  BY <1>2
<1> HIDE DEF t
<1>5. t \in Seq(T) => t \in Seq({t[n] : n \in DOMAIN t})
  OBVIOUS
<1> QED
  BY <1>3, <1>4, <1>5, Zenon DEF IsSeq, t

\* The empty sequence is one.
LEMMA EmptySeq == IsSeq(<<>>) /\ Len(<<>>) = 0
<1>1. <<>> \in Seq({<<>>[n] : n \in DOMAIN <<>>})
  OBVIOUS
<1> QED
  BY <1>1, Zenon DEF IsSeq

Visited(c, m, e, x) ==
  /\ Cardinality(Visits(c, m)) \in Nat
  /\ x = c.stop => Cardinality(Visits(c, e)) = Cardinality(Visits(c, m)) + 1
  /\ x = c.stop => Len(e.trail) \in Visits(c, e)
  /\ x # c.stop => Visits(c, e) = Visits(c, m)

\* The visits after one more instruction.
LEMMA VisitsStep ==
  ASSUME CountFact, NEW c, NEW m, IsSeq(m.trail), NEW e, NEW x, e.trail = Append(m.trail, x)
  PROVE  Visited(c, m, e, x)
<1> DEFINE s == m.trail
           t == e.trail
           V == {n \in 1..Len(s) : s[n] = c.stop}
           W == {n \in 1..Len(t) : t[n] = c.stop}
<1>1. /\ Len(s) \in Nat /\ Len(t) = Len(s) + 1 /\ t[Len(s) + 1] = x
      /\ \A n \in 1..Len(s) : t[n] = s[n]
  BY SeqFacts
<1>2. Visits(c, m) = V /\ Visits(c, e) = W
  BY Zenon DEF Visits
<1>3. V \in SUBSET (1..Len(s))
  BY Zenon
<1>4. x = c.stop => W = V \cup {Len(s) + 1}
  BY <1>1
<1>5. x # c.stop => W = V
  BY <1>1
<1>6. x = c.stop => Len(t) \in W
  BY <1>1, <1>4, Zenon
<1> HIDE DEF V, W
<1>7. Cardinality(V) \in Nat /\ Cardinality(V \cup {Len(s) + 1}) = Cardinality(V) + 1
  BY <1>1, <1>3, Zenon DEF CountFact
<1> QED
  BY <1>2, <1>4, <1>5, <1>6, <1>7, Zenon DEF Visited

\* Their number is a number.
LEMMA VisitsSize ==
  ASSUME CountFact, NEW c, NEW m, IsSeq(m.trail)
  PROVE  Cardinality(Visits(c, m)) \in Nat
<1>1. Len(m.trail) \in Nat
  BY SeqFacts, Zenon
<1>2. Visits(c, m) \in SUBSET (1..Len(m.trail))
  BY Zenon DEF Visits
<1> QED
  BY <1>1, <1>2, Zenon DEF CountFact

Turned(c, m, x, e) ==
  /\ Shaped(e)
  /\ e.step = m.step + 1 /\ e.code = m.code
  /\ x.kind = "executed" => e.trail = Append(m.trail, x.next)
  /\ x.kind # "executed" => e.trail = m.trail
  /\ x.kind = "executed" /\ x.next = c.stop => e.hits = m.hits + 1
  /\ ~(x.kind = "executed" /\ x.next = c.stop) => e.hits = m.hits

\* What executing an instruction makes of the model.
LEMMA ExecutedIs ==
  ASSUME NEW c, NEW m, IsModel(m), NEW x, NEW e, e = Executed(c, m, x)
  PROVE  Turned(c, m, x, e)
<1>1. m = [tpc |-> m.tpc, step |-> m.step, hits |-> m.hits, trail |-> m.trail, out |-> m.out,
           code |-> m.code, memory |-> m.memory]
  BY Zenon DEF IsModel, Shaped
<1> DEFINE tpc == IF x.kind = "executed" THEN x.next ELSE m.tpc
           trail == IF x.kind = "executed" THEN Append(m.trail, x.next) ELSE m.trail
           hits == IF x.kind = "executed" /\ x.next = c.stop THEN m.hits + 1 ELSE m.hits
           memory == IF x.store = NoStore THEN m.memory
                     ELSE [m.memory EXCEPT ![x.store[1]] = x.store[2]]
           step == m.step + 1
<1>2. e = [m EXCEPT !.step = step, !.memory = memory, !.tpc = tpc, !.trail = trail, !.hits = hits]
  BY Zenon DEF Executed
<1> HIDE DEF tpc, trail, hits, memory, step
<1>3. e = [tpc |-> tpc, step |-> step, hits |-> hits, trail |-> trail,
           out |-> m.out, code |-> m.code, memory |-> memory]
  BY <1>1, <1>2, Zenon
<1>4. e.tpc = tpc /\ e.step = step /\ e.hits = hits /\ e.trail = trail /\ e.out = m.out
      /\ e.code = m.code /\ e.memory = memory
  BY <1>3
<1> QED
  BY <1>3, <1>4, Zenon DEF Turned, Shaped, step, trail, hits

\* A turn of the loop: it keeps count.
LEMMA ExecutedCounts ==
  ASSUME CountFact, NEW c, c.hits \in Nat, NEW m, IsModel(m), Counted(c, m), Underway(c, m),
         NEW x, NEW e, e = Executed(c, m, x)
  PROVE  /\ IsModel(e) /\ Counted(c, e) /\ e.code = 0 /\ e.hits \in Nat
         /\ x.kind = "executed" => e.step = Len(e.trail)
         /\ x.kind # "executed" =>
              e.step = Len(e.trail) + 1 /\ (c.stop # NoPc => e.hits < c.hits)
         /\ x.kind = "executed" /\ ~StopPc(c, m, x) => (c.stop # NoPc => e.hits < c.hits)
         /\ StopPc(c, m, x) => e.hits = c.hits /\ Len(e.trail) \in Visits(c, e)
<1>1. /\ Shaped(e)
      /\ e.step = m.step + 1 /\ e.code = m.code
      /\ x.kind = "executed" => e.trail = Append(m.trail, x.next)
      /\ x.kind # "executed" => e.trail = m.trail
      /\ x.kind = "executed" /\ x.next = c.stop => e.hits = m.hits + 1
      /\ ~(x.kind = "executed" /\ x.next = c.stop) => e.hits = m.hits
  <2>1. Turned(c, m, x, e)
    BY ExecutedIs, Zenon
  <2> QED
    BY <2>1, Zenon DEF Turned
<1>2. /\ IsSeq(m.trail) /\ m.step = Len(m.trail) /\ m.code = 0 /\ m.hits = Cardinality(Visits(c, m))
      /\ c.stop # NoPc => m.hits < c.hits
  BY Zenon DEF IsModel, Counted, Underway
<1>3. Len(m.trail) \in Nat /\ Len(Append(m.trail, x.next)) = Len(m.trail) + 1
      /\ IsSeq(Append(m.trail, x.next))
  BY <1>2, SeqFacts, Zenon
<1>4. CASE x.kind = "executed"
  <2>1. e.trail = Append(m.trail, x.next)
    BY <1>1, <1>4, Zenon
  <2>2. /\ Cardinality(Visits(c, m)) \in Nat
        /\ x.next = c.stop => Cardinality(Visits(c, e)) = Cardinality(Visits(c, m)) + 1
        /\ x.next = c.stop => Len(e.trail) \in Visits(c, e)
        /\ x.next # c.stop => Visits(c, e) = Visits(c, m)
    <3>1. Visited(c, m, e, x.next)
      BY <1>2, <2>1, VisitsStep, Zenon
    <3> QED
      BY <3>1, Zenon DEF Visited
  <2>3. CASE x.next = c.stop
    <3>1. e.hits = m.hits + 1 /\ m.hits \in Nat
      BY <1>1, <1>2, <1>4, <2>2, <2>3, Zenon
    <3>2. e.hits = Cardinality(Visits(c, e)) /\ e.hits \in Nat
      BY <1>2, <2>2, <2>3, <3>1
    <3>3. c.stop # NoPc /\ m.hits + 1 # c.hits => e.hits < c.hits
      BY <1>2, <3>1
    <3>4. StopPc(c, m, x) => e.hits = c.hits
      BY <3>1, Zenon DEF StopPc
    <3>5. ~StopPc(c, m, x) => (c.stop # NoPc => e.hits < c.hits)
      BY <3>3, <2>3, <1>4, Zenon DEF StopPc
    <3> QED
      BY <1>1, <1>2, <1>3, <1>4, <2>1, <2>2, <2>3, <3>2, <3>4, <3>5, Zenon DEF IsModel, Counted
  <2>4. CASE x.next # c.stop
    <3>1. e.hits = m.hits /\ m.hits \in Nat /\ ~StopPc(c, m, x)
      BY <1>1, <1>2, <1>4, <2>2, <2>4, Zenon DEF StopPc
    <3> QED
      BY <1>1, <1>2, <1>3, <1>4, <2>1, <2>2, <3>1, Zenon DEF IsModel, Counted
  <2> QED
    BY <2>3, <2>4, Zenon
<1>5. CASE x.kind # "executed"
  <2>1. e.trail = m.trail /\ e.hits = m.hits /\ ~StopPc(c, m, x)
    BY <1>1, <1>5, Zenon DEF StopPc
  <2>2. Visits(c, e) = Visits(c, m)
    BY <2>1, Zenon DEF Visits
  <2>3. Cardinality(Visits(c, m)) \in Nat
    BY <1>2, VisitsSize, Zenon
  <2> QED
    BY <1>1, <1>2, <1>5, <2>1, <2>2, <2>3, Zenon DEF IsModel, Counted
<1> QED
  BY <1>4, <1>5, Zenon

-----------------------------------------------------------------------------
(* The verdict.                                                            *)

\* What the harness prints: the bytes of the result, then the final TPC.
LEMMA PrintedIs ==
  ASSUME NEW c, c.size \in Nat, NEW memory, NEW tpc, NEW out, out = Printed(c, memory, tpc)
  PROVE  /\ Len(out) = c.size + 1 /\ out[c.size + 1] = FinalTpc(tpc)
         /\ \A n \in 1..c.size : out[n] = Byte(n - 1, memory[c.address + n - 1])
<1> DEFINE size == c.size
           Line(n) == Byte(n - 1, memory[c.address + n - 1])
           lines == [n \in 1..size |-> Line(n)]
           last == FinalTpc(tpc)
           T == {Line(n) : n \in 1..size} \cup {last}
<1>1. out = lines \o <<last>> /\ size \in Nat
  BY Zenon DEF Printed
<1>2. last \in T /\ \A n \in 1..size : Line(n) \in T
  BY Zenon
<1> HIDE DEF Line, last, T, size
<1>3. lines \in Seq(T) /\ Len(lines) = size /\ \A n \in 1..size : lines[n] = Line(n)
  BY <1>1, <1>2
<1> HIDE DEF lines
<1>4. <<last>> \in Seq(T) /\ Len(<<last>>) = 1 /\ <<last>>[1] = last
  BY <1>2
<1>5. Len(out) = size + 1 /\ out[size + 1] = last /\ \A n \in 1..size : out[n] = lines[n]
  BY <1>1, <1>3, <1>4
<1> QED
  BY <1>3, <1>5, Zenon DEF size, last, Line

\* The result in the memory.
Held(c, memory) == [n \in 1..c.size |-> memory[c.address + n - 1]]

\* parse_result reads back what was printed.
LEMMA ReadBack ==
  ASSUME NEW c, c.size \in Nat, NEW memory, NEW tpc, NEW out, out = Printed(c, memory, tpc)
  PROVE  /\ Marked(out, "limit") = {}
         /\ out[CHOOSE k \in Marked(out, "tpc") : TRUE].value = tpc
         /\ Result(out, c.size) = Held(c, memory)
<1> DEFINE size == c.size
<1>1. /\ Len(out) = size + 1 /\ out[size + 1] = FinalTpc(tpc) /\ size \in Nat
      /\ \A n \in 1..size : out[n] = Byte(n - 1, memory[c.address + n - 1])
  BY PrintedIs
<1>2. out[size + 1].kind = "tpc" /\ out[size + 1].value = tpc
  BY <1>1 DEF FinalTpc
<1>3. \A n \in 1..size : out[n].kind = "byte" /\ out[n].index = n - 1
                         /\ out[n].value = memory[c.address + n - 1]
  <2> TAKE n \in 1..size
  <2>1. PICK i, v : i = n - 1 /\ v = memory[c.address + n - 1]
    BY Zenon
  <2>2. out[n] = [kind |-> "byte", index |-> i, value |-> v]
    BY <1>1, <2>1, Zenon DEF Byte
  <2>3. out[n].kind = "byte" /\ out[n].index = i /\ out[n].value = v
    BY <2>2
  <2> QED
    BY <2>1, <2>3, Zenon
<1> HIDE DEF size
<1>4. \A n \in 1..Len(out) : n \in 1..size \/ n = size + 1
  BY <1>1
<1>5. Marked(out, "limit") = {}
  BY <1>2, <1>3, <1>4, Zenon DEF Marked
<1>6. Marked(out, "tpc") = {size + 1}
  BY <1>1, <1>2, <1>3, <1>4 DEF Marked
<1>7. (CHOOSE k \in Marked(out, "tpc") : TRUE) = size + 1
  BY <1>6, Zenon
<1>8. Marked(out, "byte") = 1..size
  BY <1>1, <1>2, <1>3, <1>4 DEF Marked
<1>9. ASSUME NEW n \in 1..size
      PROVE  out[CHOOSE k \in Marked(out, "byte") : out[k].index = n - 1].value
               = memory[c.address + n - 1]
  <2>1. n \in Marked(out, "byte") /\ out[n].index = n - 1
    BY <1>3, <1>8, Zenon
  <2>2. PICK k : k = CHOOSE j \in Marked(out, "byte") : out[j].index = n - 1
    BY Zenon
  <2>3. k \in Marked(out, "byte") /\ out[k].index = n - 1
    BY <2>1, <2>2, Zenon
  <2>4. k \in 1..size /\ k - 1 = n - 1
    BY <1>3, <1>8, <2>3, Zenon
  <2>5. k = n
    BY <2>4, <1>1
  <2> QED
    BY <1>3, <2>2, <2>5, Zenon
<1>10. Result(out, size) = [n \in 1..size |-> memory[c.address + n - 1]]
  BY <1>9, Zenon DEF Result
<1> QED
  BY <1>2, <1>5, <1>7, <1>10, Zenon DEF size, Held

\* An outcome without a manifest.
LEMMA NoResult ==
  ASSUME NEW s, NEW o, o = [status |-> s]
  PROVE  o.status = s /\ "result" \notin DOMAIN o
BY Zenon

\* A child that ended without an error is told from its lines: the manifest says what
\* the memory held and where the program was.
LEMMA VerdictIs ==
  ASSUME NEW c, c.size \in Nat, NEW m, Finished(c, m) \/ m.code # 0, NEW o, o = Verdict(c, m)
  PROVE  \/ o = [status |-> "raised"]
         \/ /\ Finished(c, m)
            /\ o.status = IF c.stop # NoPc THEN "passed" ELSE "failed"
            /\ o.result = Held(c, m.memory)
            /\ \/ /\ o.tpc = c.stop /\ m.hits = c.hits /\ Len(m.trail) \in Visits(c, m)
                  /\ m.step = Len(m.trail)
               \/ /\ o.tpc = c.return /\ c.request /\ Len(m.trail) = m.step - 1
                  /\ c.stop # NoPc => m.hits < c.hits
<1> SUFFICES ASSUME o # [status |-> "raised"]
             PROVE  /\ Finished(c, m)
                    /\ o.status = IF c.stop # NoPc THEN "passed" ELSE "failed"
                    /\ o.result = Held(c, m.memory)
                    /\ \/ /\ o.tpc = c.stop /\ m.hits = c.hits /\ Len(m.trail) \in Visits(c, m)
                          /\ m.step = Len(m.trail)
                       \/ /\ o.tpc = c.return /\ c.request /\ Len(m.trail) = m.step - 1
                          /\ c.stop # NoPc => m.hits < c.hits
  BY Zenon
<1>1. m.code = 0 /\ Finished(c, m)
  BY Zenon DEF Verdict
<1>2. PICK tpc : /\ m.out = Printed(c, m.memory, tpc)
                 /\ \/ /\ tpc = c.stop /\ m.hits = c.hits /\ Len(m.trail) \in Visits(c, m)
                       /\ m.step = Len(m.trail)
                    \/ /\ tpc = c.return /\ c.request /\ Len(m.trail) = m.step - 1
                       /\ c.stop # NoPc => m.hits < c.hits
  BY <1>1, Zenon DEF Finished
<1>3. /\ Marked(m.out, "limit") = {}
      /\ m.out[CHOOSE k \in Marked(m.out, "tpc") : TRUE].value = tpc
      /\ Result(m.out, c.size) = Held(c, m.memory)
  BY <1>2, ReadBack
<1>4. o = [status |-> IF c.stop # NoPc THEN "passed" ELSE "failed",
           result |-> Result(m.out, c.size),
           tpc |-> m.out[CHOOSE k \in Marked(m.out, "tpc") : TRUE].value]
  BY <1>1, <1>3, Zenon DEF Verdict
<1> DEFINE status == IF c.stop # NoPc THEN "passed" ELSE "failed"
           result == Result(m.out, c.size)
           final == m.out[CHOOSE k \in Marked(m.out, "tpc") : TRUE].value
<1>5. o = [status |-> status, result |-> result, tpc |-> final]
  BY <1>4, Zenon
<1> HIDE DEF status, result, final
<1>6. o.status = status /\ o.result = result /\ o.tpc = final
  BY <1>5
<1> QED
  BY <1>1, <1>2, <1>3, <1>6, Zenon DEF status, result, final

-----------------------------------------------------------------------------
(* The steps of a run keep RunInv.                                         *)

\* What a step leaves alone.
LEMMA RunSame ==
  ASSUME RunInv, UNCHANGED <<configuration, child, model, outcome, caller>>
  PROVE  RunInv'
<1>1. configuration' = configuration /\ child' = child /\ model' = model /\ outcome' = outcome
      /\ caller' = caller
  BY Zenon
<1>2. PassIsEvidence'
  BY <1>1, Zenon DEF RunInv, PassIsEvidence
<1> QED
  BY <1>1, <1>2, Zenon DEF RunInv

\* A run that is over, without a manifest.
LEMMA RunRaised ==
  ASSUME NEW s \in {"none", "raised", "timeout"}, child' = "none", outcome' = [status |-> s]
  PROVE  RunInv'
<1>1. outcome'.status = s /\ "result" \notin DOMAIN (outcome')
  BY NoResult, Zenon
<1>2. s # "passed"
  BY Zenon
<1>3. PassIsEvidence'
  BY <1>1, <1>2, Zenon DEF PassIsEvidence
<1> QED
  BY <1>1, <1>3, Zenon DEF RunInv

\* A process that is there has no outcome yet.
LEMMA RunGoesOn ==
  ASSUME child' \in {"ready", "running", "exited"}, outcome' = NoRun,
         configuration'.size \in Nat, configuration'.hits \in Nat,
         IsModel(model'), Counted(configuration', model'),
         caller' = "closure" => configuration'.stop # NoPc,
         child' \in {"ready", "running"} => Underway(configuration', model'),
         child' = "exited" => model'.code # 0 \/ Finished(configuration', model')
  PROVE  RunInv'
<1>1. outcome'.status = "none" /\ "result" \notin DOMAIN (outcome')
  BY NoResult, Zenon DEF NoRun
<1>2. PassIsEvidence'
  BY <1>1, Zenon DEF PassIsEvidence
<1> QED
  BY <1>1, <1>2, Zenon DEF RunInv

\* The model as the harness starts.
LEMMA StartIs ==
  ASSUME CountFact, NEW c, c.hits \in Int, NEW e, HarnessBuilds(c, e), NEW m, m = HarnessStart(c, e)
  PROVE  IsModel(m) /\ Counted(c, m) /\ Underway(c, m) /\ c.hits \in Nat
<1> DEFINE memory == [a \in 0..(c.bytes - 1) |->
                        IF \E n \in 1..Len(e.segments) : InSegment(a, e.segments[n])
                        THEN e.data[a] ELSE 0]
           tpc == StartPc(c, e)
<1>1. m = [tpc |-> tpc, step |-> 0, hits |-> 0, trail |-> <<>>, out |-> <<>>, code |-> 0,
           memory |-> memory]
  BY Zenon DEF HarnessStart
<1> HIDE DEF memory, tpc
<1>2. m.tpc = tpc /\ m.step = 0 /\ m.hits = 0 /\ m.trail = <<>> /\ m.out = <<>> /\ m.code = 0
      /\ m.memory = memory
  BY <1>1
<1>3. IsModel(m)
  BY <1>1, <1>2, EmptySeq, Zenon DEF IsModel, Shaped
<1>4. 1..Len(m.trail) = {}
  BY <1>2, EmptySeq
<1>5. Visits(c, m) = {}
  BY <1>4, Zenon DEF Visits
<1>6. c.hits \in Nat /\ 0 < c.hits
  BY DEF HarnessBuilds
<1> QED
  BY <1>2, <1>3, <1>5, <1>6, EmptySeq, Zenon DEF Counted, Underway, CountFact

Rewrite(m, out, code) == [m EXCEPT !.out = out, !.code = code]

\* A model of which only the output or the exit code is written.
LEMMA Rewritten ==
  ASSUME NEW c, NEW m, IsModel(m), Counted(c, m), NEW out, NEW code,
         NEW e, e = Rewrite(m, out, code)
  PROVE  /\ IsModel(e) /\ Counted(c, e) /\ e.out = out /\ e.code = code /\ e.memory = m.memory
         /\ e.trail = m.trail /\ e.hits = m.hits /\ e.step = m.step /\ Visits(c, e) = Visits(c, m)
<1>1. m = [tpc |-> m.tpc, step |-> m.step, hits |-> m.hits, trail |-> m.trail, out |-> m.out,
           code |-> m.code, memory |-> m.memory]
  BY Zenon DEF IsModel, Shaped
<1>2. e = [tpc |-> m.tpc, step |-> m.step, hits |-> m.hits, trail |-> m.trail, out |-> out,
           code |-> code, memory |-> m.memory]
  BY <1>1, Zenon DEF Rewrite
<1>3. /\ e.out = out /\ e.code = code /\ e.memory = m.memory /\ e.trail = m.trail
      /\ e.hits = m.hits /\ e.step = m.step /\ e.tpc = m.tpc
  BY <1>2
<1>4. Visits(c, e) = Visits(c, m)
  BY <1>3, Zenon DEF Visits
<1> QED
  BY <1>2, <1>3, <1>4, Zenon DEF IsModel, Shaped, Counted

\* The two one-field writes are the same with the other field as it was.
LEMMA OneField ==
  ASSUME NEW m, IsModel(m), NEW v
  PROVE  /\ [m EXCEPT !.out = v] = Rewrite(m, v, m.code)
         /\ [m EXCEPT !.code = v] = Rewrite(m, m.out, v)
<1>1. m = [tpc |-> m.tpc, step |-> m.step, hits |-> m.hits, trail |-> m.trail, out |-> m.out,
           code |-> m.code, memory |-> m.memory]
  BY Zenon DEF IsModel, Shaped
<1> QED
  BY <1>1, Zenon DEF Rewrite

\* A child that ends with an error.
LEMMA ExitsWithError ==
  ASSUME RunInv, child # "none", child' = "exited", UNCHANGED <<configuration, outcome, caller>>,
         NEW m, IsModel(m), Counted(configuration, m), NEW out, NEW code, code # 0,
         model' = Rewrite(m, out, code)
  PROVE  RunInv'
<1>1. IsModel(model') /\ Counted(configuration, model') /\ model'.code = code
  BY Rewritten
<1> QED
  BY <1>1, RunGoesOn, Zenon DEF RunInv

\* One turn of the loop of main.
LEMMA RunHarnessStep ==
  ASSUME CountFact, RunInv, HarnessStep, UNCHANGED caller
  PROVE  RunInv'
<1> DEFINE c == configuration
<1>1. /\ outcome = NoRun /\ c.size \in Nat /\ c.hits \in Nat /\ child = "running"
      /\ IsModel(model) /\ Counted(c, model) /\ Underway(c, model)
      /\ caller = "closure" => c.stop # NoPc
  BY Zenon DEF RunInv, HarnessStep
<1>2. configuration' = c /\ outcome' = NoRun /\ caller' = caller
  BY <1>1, Zenon DEF HarnessStep
<1>3. PICK x \in Effects(model.tpc) :
        LET after == Executed(c, model, x)
        IN IF StopPc(c, model, x)
           THEN child' = "exited" /\ model' = [after EXCEPT !.out = Printed(c, after.memory, x.next)]
           ELSE IF HostRequest(c, x)
           THEN child' = "exited" /\ model' = [after EXCEPT !.out = Printed(c, after.memory, x.next)]
           ELSE IF x.kind = "executed" THEN model' = after /\ UNCHANGED child
           ELSE child' = "exited" /\ model' = [after EXCEPT !.code = 2]
  BY Zenon DEF HarnessStep
<1>4. PICK e : e = Executed(c, model, x)
  BY Zenon
<1>5. /\ IsModel(e) /\ Counted(c, e) /\ e.code = 0 /\ e.hits \in Nat
      /\ x.kind = "executed" => e.step = Len(e.trail)
      /\ x.kind # "executed" => e.step = Len(e.trail) + 1 /\ (c.stop # NoPc => e.hits < c.hits)
      /\ x.kind = "executed" /\ ~StopPc(c, model, x) => (c.stop # NoPc => e.hits < c.hits)
      /\ StopPc(c, model, x) => e.hits = c.hits /\ Len(e.trail) \in Visits(c, e)
  BY <1>1, <1>4, ExecutedCounts
<1> DEFINE out == Printed(c, e.memory, x.next)
<1>6. CASE StopPc(c, model, x)
  <2>1. child' = "exited" /\ model' = [e EXCEPT !.out = out]
    BY <1>3, <1>4, <1>6, Zenon
  <2>2. model' = Rewrite(e, out, 0)
    BY <1>5, <2>1, OneField, Zenon
  <2>3. /\ IsModel(model') /\ Counted(c, model') /\ model'.out = out /\ model'.code = 0
        /\ model'.memory = e.memory /\ model'.trail = e.trail /\ model'.hits = e.hits
        /\ model'.step = e.step /\ Visits(c, model') = Visits(c, e)
    BY <1>5, <2>2, Rewritten
  <2>4. x.next = c.stop /\ x.kind = "executed" /\ c.stop # NoPc
    BY <1>6, Zenon DEF StopPc
  <2>5. Finished(c, model')
    BY <1>5, <1>6, <2>3, <2>4, Zenon DEF Finished
  <2> QED
    BY <1>1, <1>2, <2>1, <2>3, <2>5, RunGoesOn, Zenon
<1>7. CASE ~StopPc(c, model, x) /\ HostRequest(c, x)
  <2>1. child' = "exited" /\ model' = [e EXCEPT !.out = out]
    BY <1>3, <1>4, <1>7, Zenon
  <2>2. model' = Rewrite(e, out, 0)
    BY <1>5, <2>1, OneField, Zenon
  <2>3. /\ IsModel(model') /\ Counted(c, model') /\ model'.out = out /\ model'.code = 0
        /\ model'.memory = e.memory /\ model'.trail = e.trail /\ model'.hits = e.hits
        /\ model'.step = e.step
    BY <1>5, <2>2, Rewritten
  <2>4. x.next = c.return /\ x.kind = "service" /\ c.request
    BY <1>7, Zenon DEF HostRequest
  <2>5. IsSeq(e.trail)
    BY <1>5, Zenon DEF IsModel
  <2>6. Len(e.trail) \in Nat
    BY <2>5, SeqFacts, Zenon
  <2>7. e.step = Len(e.trail) + 1 /\ (c.stop # NoPc => e.hits < c.hits)
    BY <1>5, <2>4, Zenon
  <2>8. Len(e.trail) = e.step - 1
    BY <2>6, <2>7
  <2>9. Finished(c, model')
    BY <2>3, <2>4, <2>7, <2>8, Zenon DEF Finished
  <2> QED
    BY <1>1, <1>2, <2>1, <2>3, <2>9, RunGoesOn, Zenon
<1>8. CASE ~StopPc(c, model, x) /\ ~HostRequest(c, x) /\ x.kind = "executed"
  <2>1. model' = e /\ child' = "running"
    BY <1>1, <1>3, <1>4, <1>8, Zenon
  <2>2. Underway(c, e)
    BY <1>5, <1>8, Zenon DEF Underway
  <2> QED
    BY <1>1, <1>2, <1>5, <2>1, <2>2, RunGoesOn, Zenon
<1>9. CASE ~StopPc(c, model, x) /\ ~HostRequest(c, x) /\ x.kind # "executed"
  <2>1. child' = "exited" /\ model' = [e EXCEPT !.code = 2]
    BY <1>3, <1>4, <1>9, Zenon
  <2>2. model' = Rewrite(e, e.out, 2)
    BY <1>5, <2>1, OneField, Zenon
  <2>3. child # "none" /\ UNCHANGED <<configuration, outcome, caller>>
    BY <1>1, <1>2, Zenon
  <2> QED
    BY <1>5, <2>1, <2>2, <2>3, ExitsWithError
<1> QED
  BY <1>6, <1>7, <1>8, <1>9, Zenon

\* The step limit, and a child that dies.
LEMMA RunHarnessEnds ==
  ASSUME RunInv, HarnessLimit \/ HarnessDies, UNCHANGED caller
  PROVE  RunInv'
<1>1. IsModel(model) /\ Counted(configuration, model) /\ child # "none"
  BY Zenon DEF RunInv, HarnessLimit, HarnessDies
<1>2. child' = "exited" /\ UNCHANGED <<configuration, outcome, caller>>
  BY Zenon DEF HarnessLimit, HarnessDies
<1>3. CASE HarnessLimit
  <2>1. model' = [model EXCEPT !.out = <<StepLimit>>, !.code = 3]
    BY <1>3, Zenon DEF HarnessLimit
  <2>2. model' = Rewrite(model, <<StepLimit>>, 3)
    BY <2>1, Zenon DEF Rewrite
  <2> QED
    BY <1>1, <1>2, <2>2, ExitsWithError
<1>4. CASE HarnessDies
  <2>1. model' = [model EXCEPT !.code = 1]
    BY <1>4, Zenon DEF HarnessDies
  <2>2. model' = Rewrite(model, model.out, 1)
    BY <1>1, <2>1, OneField, Zenon
  <2> QED
    BY <1>1, <1>2, <2>2, ExitsWithError
<1> QED
  BY <1>3, <1>4, Zenon

\* The process is started, or its time is over before it is.
LEMMA RunLaunch ==
  ASSUME RunInv, Launch \/ TimesOut, UNCHANGED caller
  PROVE  RunInv'
<1>1. CASE child' = "none"
  <2>1. outcome' = [status |-> "timeout"]
    BY <1>1, Zenon DEF Launch, TimesOut
  <2> QED
    BY <1>1, <2>1, RunRaised, Zenon
<1>2. CASE child' # "none"
  <2>1. /\ child = "ready" /\ child' = "running" /\ outcome' = outcome
        /\ configuration' = configuration /\ model' = model
    BY <1>2, Zenon DEF Launch, TimesOut
  <2>2. /\ outcome = NoRun /\ configuration.size \in Nat /\ configuration.hits \in Nat
        /\ IsModel(model) /\ Counted(configuration, model) /\ Underway(configuration, model)
        /\ caller = "closure" => configuration.stop # NoPc
    BY <2>1, Zenon DEF RunInv
  <2> QED
    BY <2>1, <2>2, RunGoesOn, Zenon
<1> QED
  BY <1>1, <1>2, Zenon

\* The verdict is earned.
LEMMA RunReap ==
  ASSUME RunInv, Reap, UNCHANGED caller
  PROVE  RunInv'
<1> DEFINE c == configuration
           m == model
           o == outcome'
<1>1. /\ c.size \in Nat /\ c.hits \in Nat /\ Counted(c, m)
      /\ caller = "closure" => c.stop # NoPc
      /\ Finished(c, m) \/ m.code # 0
  BY Zenon DEF RunInv, Reap
<1>2. child' = "none" /\ o = Verdict(c, m) /\ configuration' = c /\ model' = m /\ caller' = caller
  BY Zenon DEF Reap
<1>3. CASE o = [status |-> "raised"]
  BY <1>2, <1>3, RunRaised, Zenon
<1>4. CASE o # [status |-> "raised"]
  <2>1. /\ o.status = IF c.stop # NoPc THEN "passed" ELSE "failed"
        /\ o.result = Held(c, m.memory)
        /\ \/ /\ o.tpc = c.stop /\ m.hits = c.hits /\ Len(m.trail) \in Visits(c, m)
              /\ m.step = Len(m.trail)
           \/ /\ o.tpc = c.return /\ c.request /\ Len(m.trail) = m.step - 1
              /\ c.stop # NoPc => m.hits < c.hits
    BY <1>1, <1>2, <1>4, VerdictIs
  <2>2. m.hits = Cardinality(Visits(c, m))
    BY <1>1, Zenon DEF Counted
  <2>3. ~(c.hits < c.hits)
    BY <1>1
  <2> DEFINE visits == {n \in 1..Len(m.trail) : m.trail[n] = c.stop}
  <2>4. Visits(c, m) = visits
    BY Zenon DEF Visits
  <2>5. o.status = "passed" =>
          /\ c.stop # NoPc
          /\ \/ /\ Cardinality(visits) = c.hits /\ Len(m.trail) \in visits
                /\ Len(m.trail) = m.step /\ o.tpc = c.stop
             \/ /\ c.request /\ Cardinality(visits) < c.hits
                /\ Len(m.trail) = m.step - 1 /\ o.tpc = c.return
          /\ o.result = [n \in 1..c.size |-> m.memory[c.address + n - 1]]
    BY <2>1, <2>2, <2>3, <2>4, Zenon DEF Held
  <2>6. PassIsEvidence'
    BY <1>2, <2>5, Zenon DEF PassIsEvidence
  <2>7. caller = "closure" => o.status = "passed"
    BY <1>1, <2>1, Zenon
  <2> QED
    BY <1>2, <2>6, <2>7, Zenon DEF RunInv
<1> QED
  BY <1>3, <1>4, Zenon

\* The inputs of a run check.
LEMMA RunStarts ==
  ASSUME CountFact, NEW c, NEW e, c.hits \in Int, c.size \in Int, HarnessBuilds(c, e),
         configuration' = c, child' = "ready", model' = HarnessStart(c, e), outcome' = NoRun,
         caller' = "closure" => c.stop # NoPc
  PROVE  RunInv'
<1>1. IsModel(model') /\ Counted(c, model') /\ Underway(c, model') /\ c.hits \in Nat
  BY StartIs, Zenon
<1>2. c.size >= 0
  BY Zenon DEF HarnessBuilds, InRange
<1>3. c.size \in Nat
  BY <1>2
<1> QED
  BY <1>1, <1>3, RunGoesOn, Zenon

\* A run is prepared, or its inputs do not check.
LEMMA RunPrepare ==
  ASSUME CountFact, NEW c, NEW e, NEW agrees, Prepare(c, e, agrees), UNCHANGED caller,
         c.hits \in Int, c.size \in Int, agrees => c.stop # NoPc
  PROVE  RunInv'
<1>1. configuration' = c /\ child = "none" /\ outcome = NoRun
  BY Zenon DEF Prepare
<1>2. CASE ParseElf(e, c.bytes, TRUE) /\ agrees /\ HarnessBuilds(c, e)
  <2>1. child' = "ready" /\ model' = HarnessStart(c, e) /\ outcome' = NoRun
    BY <1>1, <1>2, Zenon DEF Prepare
  <2> QED
    BY <1>1, <1>2, <2>1, RunStarts, Zenon
<1>3. CASE ~(ParseElf(e, c.bytes, TRUE) /\ agrees /\ HarnessBuilds(c, e))
  <2>1. child' = "none" /\ outcome' = [status |-> "raised"]
    BY <1>1, <1>3, Zenon DEF Prepare
  <2> QED
    BY <2>1, RunRaised, Zenon
<1> QED
  BY <1>2, <1>3, Zenon

-----------------------------------------------------------------------------
(* The order of the cases.                                                 *)

Enumerates(s, S) ==
  /\ Len(s) \in Nat
  /\ \A k \in 1..Len(s) : \E n \in S : s[k] = Cases[n]
  /\ \A n \in S : \E k \in 1..Len(s) : s[k] = Cases[n]

\* The cases in order are the cases of the set, each of them.
LEMMA InOrderIs ==
  ASSUME RankFact, NEW S \in SUBSET (1..Len(Cases)), NEW s, s = InOrder(S)
  PROVE  Enumerates(s, S)
<1>1. Len(Cases) \in Nat
  BY ClosureAssumption
<1>2. PICK size : size = Cardinality(S)
  BY Zenon
<1>3. /\ size \in Nat
      /\ \A x \in S : Rank(S, x) + 1 \in 1..size
      /\ \A x, y \in S : Rank(S, x) = Rank(S, y) => x = y
      /\ \A k \in 1..size : \E x \in S : Rank(S, x) = k - 1
  BY <1>1, <1>2, Zenon DEF RankFact
<1> DEFINE Nth(k) == CHOOSE n \in S : Rank(S, n) = k - 1
<1>4. s = [k \in 1..size |-> Cases[Nth(k)]]
  BY <1>2, Zenon DEF InOrder, Rank
<1>5. \A k \in 1..size : Nth(k) \in S /\ Rank(S, Nth(k)) = k - 1
  BY <1>3, Zenon
<1> HIDE DEF Nth
<1>6. Len(s) = size /\ \A k \in 1..size : s[k] = Cases[Nth(k)]
  BY <1>3, <1>4
<1>7. ASSUME NEW n \in S PROVE \E k \in 1..size : s[k] = Cases[n]
  <2>1. PICK k : k = Rank(S, n) + 1
    BY Zenon
  <2>2. k \in 1..size
    BY <1>3, <2>1, Zenon
  <2>3. PICK r : r = Rank(S, n)
    BY Zenon
  <2>4. Rank(S, Nth(k)) = k - 1 /\ Nth(k) \in S
    BY <1>5, <2>2, Zenon
  <2>5. \E x \in S : Rank(S, x) = k - 1
    BY <2>4, Zenon
  <2>6. r \in Int => k - 1 = r
    BY <2>1, <2>3
  <2>7. r \in Int
    <3>1. {j \in S : j < n} \in SUBSET (1..Len(Cases))
      BY Zenon
    <3>2. r \in Nat
      BY <1>1, <2>3, <3>1, Zenon DEF RankFact, Rank
    <3> QED
      BY <3>2
  <2>8. Nth(k) = n
    BY <1>3, <2>3, <2>4, <2>6, <2>7, Zenon
  <2> QED
    BY <1>6, <2>2, <2>8, Zenon
<1> QED
  BY <1>3, <1>5, <1>6, <1>7, Zenon DEF Enumerates

\* A selection is a set of numbers of cases.
LEMMA Selection ==
  ASSUME NEW a, NEW m
  PROVE  SelectCases(a, m) \in SUBSET (1..Len(Cases))
BY Zenon DEF SelectCases

\* The plan, once made, has a length, and its cases are cases.
LEMMA PlannedIs ==
  ASSUME RankFact, Planned
  PROVE  /\ Len(selected) \in Nat
         /\ \A k \in 1..Len(selected) : \E n \in SelectCases(policy.affected, policy.mandatory) :
              selected[k] = Cases[n]
         /\ \A n \in SelectCases(policy.affected, policy.mandatory) :
              \E k \in 1..Len(selected) : selected[k] = Cases[n]
<1>1. PICK S : S = SelectCases(policy.affected, policy.mandatory)
  BY Zenon
<1>2. S \in SUBSET (1..Len(Cases)) /\ selected = InOrder(S)
  BY <1>1, Selection, Zenon DEF Planned
<1>3. Enumerates(selected, S)
  BY <1>2, InOrderIs, Zenon
<1> QED
  BY <1>1, <1>3, Zenon DEF Enumerates

\* The case in progress is one of the corpus.
LEMMA CaseIs ==
  ASSUME RankFact, Planned, IsSeq(executed), index = Len(executed) + 1, index <= Len(selected)
  PROVE  index \in 1..Len(selected) /\ \E n \in 1..Len(Cases) : Case = Cases[n]
<1>1. Len(executed) \in Nat
  BY SeqFacts, Zenon
<1>2. /\ Len(selected) \in Nat
      /\ \A k \in 1..Len(selected) : \E n \in SelectCases(policy.affected, policy.mandatory) :
           selected[k] = Cases[n]
  BY PlannedIs, Zenon
<1>3. index \in 1..Len(selected)
  BY <1>1, <1>2
<1>4. PICK n \in SelectCases(policy.affected, policy.mandatory) : Case = Cases[n]
  BY <1>2, <1>3, Zenon DEF Case
<1>5. n \in 1..Len(Cases)
  BY <1>4, Zenon DEF SelectCases
<1> QED
  BY <1>3, <1>4, <1>5, Zenon

-----------------------------------------------------------------------------
(* The steps of the closure keep ClosureInv.                               *)

\* What a step leaves alone.
LEMMA ClosureSame ==
  ASSUME ClosureInv,
         UNCHANGED <<caller, place, policy, selected, index, files, executed, elapsed, left>>,
         Begun' => Begun \/ left > 0
  PROVE  ClosureInv'
<1>1. /\ caller' = caller /\ place' = place /\ policy' = policy /\ selected' = selected
      /\ index' = index /\ files' = files /\ executed' = executed /\ elapsed' = elapsed
      /\ left' = left
  BY Zenon
<1>2. Planned' = Planned
  BY <1>1, Zenon DEF Planned
<1>3. Passed' = Passed
  BY <1>1, Zenon DEF Passed
<1>4. PlaceInv'
  BY <1>1, Zenon DEF ClosureInv, PlaceInv
<1>5. PlanInv'
  BY <1>1, <1>2, <1>3, Zenon DEF ClosureInv, PlanInv
<1>6. Case' = Case /\ (InTime' => InTime \/ left > 0)
  BY <1>1, Zenon DEF Case, InTime
<1>8. TimeInv'
  BY <1>1, <1>6, Zenon DEF ClosureInv, TimeInv
<1>7. LateInv'
  BY <1>1, <1>2, <1>3, Zenon DEF ClosureInv, LateInv, Complete
<1> QED
  BY <1>4, <1>5, <1>7, <1>8, Zenon DEF ClosureInv

\* The places are told apart.
LEMMA Places ==
  /\ "start" \in Early /\ "lock" \in Early /\ "runLock" \in Early
  /\ "compile" \in Timed /\ "link" \in Timed /\ "sidecar" \in Timed /\ "preflight" \in Timed
  /\ "execute" \in Timed
  /\ "payload" \in Late /\ "envelope" \in Late /\ "published" \in Late
  /\ \A p \in Early : p \notin Timed /\ p \notin Late /\ p # "case" /\ p # "ended"
                      /\ p # "envelope" /\ p # "published"
  /\ \A p \in Timed : p \notin Early /\ p \notin Late /\ p # "case" /\ p # "ended"
                      /\ p # "start" /\ p # "lock" /\ p # "envelope" /\ p # "published"
  /\ \A p \in Late : p \notin Early /\ p \notin Timed /\ p # "case" /\ p # "ended"
                     /\ p # "start" /\ p # "lock"
  /\ "case" \notin Early /\ "case" \notin Timed /\ "case" \notin Late
  /\ "ended" \notin Early /\ "ended" \notin Timed /\ "ended" \notin Late
BY Zenon DEF Early, Timed, Late

\* The closure or the command line ends.
LEMMA ClosureOver ==
  ASSUME ClosureInv, place' = "ended", UNCHANGED <<caller, index, files, executed>>,
         UNCHANGED <<policy, selected>> \/ files["envelope"] = "absent"
  PROVE  ClosureInv'
<1>1. /\ caller' = caller /\ index' = index /\ files' = files /\ executed' = executed
  BY Zenon
<1>2. PlaceInv'
  BY <1>1, Places, Zenon DEF ClosureInv, PlaceInv
<1>3. PlanInv' /\ TimeInv'
  BY Places, Zenon DEF PlanInv, TimeInv
<1>0. place' \notin Late /\ place' \notin {"envelope", "published"}
      /\ place' \in {"envelope", "published", "ended"}
  BY Places, Zenon
<1>4. ASSUME files["envelope"] = "absent" PROVE LateInv'
  BY <1>0, <1>1, <1>4, Zenon DEF LateInv
<1>5. ASSUME UNCHANGED <<policy, selected>>, files["envelope"] # "absent" PROVE LateInv'
  <2>1. policy' = policy /\ selected' = selected
    BY <1>5, Zenon
  <2>2. Planned' = Planned
    BY <2>1, Zenon DEF Planned
  <2>3. Passed' = Passed
    BY <1>1, <2>1, Zenon DEF Passed
  <2>4. Complete
    BY <1>5, Zenon DEF ClosureInv, LateInv
  <2>5. Complete'
    BY <1>1, <2>1, <2>2, <2>3, <2>4, Zenon DEF Complete
  <2> QED
    BY <1>0, <2>5, Zenon DEF LateInv, Complete
<1> QED
  BY <1>2, <1>3, <1>4, <1>5, Zenon DEF ClosureInv

\* From a stage of a case to a stage, in time or in a preflight that overruns.
LEMMA ClosureStage ==
  ASSUME ClosureInv, caller = "closure", place \in Timed, place' \in Timed,
         UNCHANGED <<caller, policy, selected, index, files, executed>>,
         left' \in Nat, elapsed' \in Nat,
         left' > 0 \/ InTime' => left' + elapsed' = Case.timeout,
         place' = "preflight" => HasSidecar(Case)
  PROVE  ClosureInv'
<1>1. /\ caller' = caller /\ policy' = policy /\ selected' = selected
      /\ index' = index /\ files' = files /\ executed' = executed
  BY Zenon
<1>2. Planned' = Planned
  BY <1>1, Zenon DEF Planned
<1>3. Passed' = Passed
  BY <1>1, Zenon DEF Passed
<1>4. PlaceInv'
  BY <1>1, Places, Zenon DEF ClosureInv, PlaceInv
<1>5. PlanInv'
  BY <1>1, <1>2, <1>3, Places, Zenon DEF ClosureInv, PlanInv
<1>6. Case' = Case
  BY <1>1, Zenon DEF Case
<1>7. TimeInv'
  BY <1>1, <1>6, Zenon DEF ClosureInv, TimeInv
<1>8. place' \notin Late /\ place' \notin {"envelope", "published", "ended"}
      /\ place \notin {"envelope", "published", "ended"}
  BY Places, Zenon
<1>9. place' \notin {"envelope", "published"}
  BY <1>8, Zenon
<1>10. LateInv'
  BY <1>1, <1>8, <1>9, Zenon DEF ClosureInv, LateInv
<1> QED
  BY <1>4, <1>5, <1>7, <1>10, Zenon DEF ClosureInv

\* The command line is at none of the closure's places.
LEMMA ClosureOnly ==
  ASSUME ClosureInv, place \notin {"start", "execute", "ended"}
  PROVE  caller = "closure"
BY Zenon DEF ClosureInv, PlaceInv

\* A case begins with its timeout.
LEMMA ClosureBeginCase ==
  ASSUME RankFact, ClosureInv, BeginCase
  PROVE  ClosureInv'
<1>1. place = "case" /\ caller = "closure"
  <2>1. place = "case"
    BY Zenon DEF BeginCase
  <2>2. place \notin {"start", "execute", "ended"}
    BY <2>1, Zenon
  <2> QED
    BY <2>1, <2>2, ClosureOnly, Zenon
<1>2. /\ caller' = caller /\ policy' = policy /\ selected' = selected /\ place' = "compile"
      /\ index' = index /\ files' = files /\ executed' = executed
      /\ left' = Case.timeout /\ elapsed' = 0 /\ index <= Len(selected)
  BY Zenon DEF BeginCase
<1>3. Planned' = Planned
  BY <1>2, Zenon DEF Planned
<1>4. Passed' = Passed
  BY <1>2, Zenon DEF Passed
<1>5. PlaceInv'
  BY <1>1, <1>2, Places, Zenon DEF ClosureInv, PlaceInv
<1>6. place # "lock" /\ place \notin Early /\ place \notin {"start", "ended"}
  BY <1>1, Places, Zenon
<1>7. PlanInv'
  BY <1>1, <1>2, <1>3, <1>4, <1>6, Zenon DEF ClosureInv, PlanInv
<1>8. Planned /\ IsSeq(executed) /\ index = Len(executed) + 1
  BY <1>1, <1>6, Zenon DEF ClosureInv, PlanInv, PlaceInv
<1>9. PICK n \in 1..Len(Cases) : Case = Cases[n]
  BY <1>2, <1>8, CaseIs, Zenon
<1>10. Case.timeout \in Nat
  BY <1>9, ClosureAssumption, Zenon
<1>11. left' + elapsed' = Case.timeout /\ left' \in Nat /\ elapsed' \in Nat
  BY <1>2, <1>10
<1>12. Case' = Case
  BY <1>2, Zenon DEF Case
<1>13. TimeInv'
  <2>1. place' # "preflight"
    BY <1>2, Zenon
  <2> QED
    BY <1>2, <1>11, <1>12, <2>1, Zenon DEF TimeInv
<1>14. place' \notin Late /\ place' \notin {"envelope", "published", "ended"}
       /\ place \notin {"envelope", "published", "ended"} /\ place' \notin {"envelope", "published"}
  BY <1>1, <1>2, Places, Zenon
<1>15. LateInv'
  BY <1>2, <1>14, Zenon DEF ClosureInv, LateInv
<1> QED
  BY <1>5, <1>7, <1>13, <1>15, Zenon DEF ClosureInv

\* The manifest of a case: it passed its run, with its golden bytes, within its
\* timeout.
LEMMA ClosureCaseEnds ==
  ASSUME RankFact, RunInv, ClosureInv, CaseEnds
  PROVE  ClosureInv'
<1>1. CASE ~("result" \in DOMAIN outcome /\ outcome.result = Case.golden)
  <2>1. place' = "ended" /\ UNCHANGED <<caller, index, files, executed>>
        /\ UNCHANGED <<policy, selected>>
    BY <1>1, Zenon DEF CaseEnds, Fail
  <2> QED
    BY <2>1, ClosureOver, Zenon
<1>2. CASE "result" \in DOMAIN outcome /\ outcome.result = Case.golden
  <2> DEFINE record == [id |-> Case.id, outcome |-> outcome, golden |-> Case.golden,
                        elapsed |-> elapsed, served |-> Len(model.trail) < model.step]
  <2>1. /\ caller = "closure" /\ place = "execute" /\ place' = "case" /\ index' = index + 1
        /\ executed' = Append(executed, record)
        /\ caller' = caller /\ policy' = policy /\ selected' = selected /\ files' = files
    BY <1>2, Zenon DEF CaseEnds
  <2>2. /\ record.id = Case.id /\ record.outcome = outcome /\ record.golden = Case.golden
        /\ record.elapsed = elapsed
    BY Zenon
  <2> HIDE DEF record
  <2>3. outcome.status = "passed" /\ outcome.result = Case.golden
    BY <1>2, <2>1, Zenon DEF RunInv
  <2>4. place \in Timed /\ place # "lock" /\ place \notin Early /\ place \notin {"start", "ended"}
        /\ place \notin {"envelope", "published", "ended"}
    BY <2>1, Places, Zenon
  <2>5. /\ Planned /\ Passed /\ IsSeq(executed) /\ index = Len(executed) + 1
        /\ index <= Len(selected) /\ left \in Nat /\ elapsed \in Nat
        /\ left + elapsed = Case.timeout /\ files["lock"] = "whole" /\ files["runLock"] = "whole"
        /\ files \in [Names -> {"absent", "partial", "whole"}] /\ files["envelope"] = "absent"
    BY <1>2, <2>1, <2>4, Zenon DEF ClosureInv, PlaceInv, PlanInv, TimeInv, LateInv, InTime, Begun
  <2>6. elapsed <= Case.timeout
    BY <2>5
  <2>7. /\ Len(executed) \in Nat /\ Len(executed') = Len(executed) + 1 /\ IsSeq(executed')
        /\ \A n \in 1..Len(executed) : executed'[n] = executed[n]
        /\ executed'[Len(executed) + 1] = record
    BY <2>1, <2>5, SeqFacts
  <2>8. Planned' = Planned
    BY <2>1, Zenon DEF Planned
  <2>9. ASSUME NEW n \in 1..Len(executed')
        PROVE  /\ executed'[n].outcome.status = "passed"
               /\ executed'[n].outcome.result = executed'[n].golden
               /\ executed'[n].id = selected[n].id /\ executed'[n].elapsed <= selected[n].timeout
    <3>1. CASE n = Len(executed) + 1
      <4>1. executed'[n] = record /\ n = index
        BY <2>5, <2>7, <3>1, Zenon
      <4> QED
        BY <2>2, <2>3, <2>6, <4>1, Zenon DEF Case
    <3>2. CASE n # Len(executed) + 1
      <4>1. n \in 1..Len(executed)
        BY <2>7, <3>2
      <4>2. executed'[n] = executed[n]
        BY <2>7, <4>1, Zenon
      <4> QED
        BY <2>5, <4>1, <4>2, Zenon DEF Passed
    <3> QED
      BY <3>1, <3>2, Zenon
  <2>10. Passed'
    BY <2>1, <2>9, Zenon DEF Passed
  <2>11. index' = Len(executed') + 1 /\ Len(executed') <= Len(selected)
    BY <2>1, <2>5, <2>7, Zenon
  <2>12. place' # "start" /\ place' # "lock" /\ place' \notin Early /\ place' \notin Timed
         /\ place' \notin Late
         /\ place' \notin {"envelope", "published"} /\ place' \notin {"envelope", "published", "ended"}
    BY <2>1, Places, Zenon
  <2>13. PlaceInv'
    BY <2>1, <2>5, <2>7, <2>11, <2>12, Zenon DEF PlaceInv
  <2>14. PlanInv'
    BY <2>1, <2>5, <2>8, <2>10, <2>11, Zenon DEF PlanInv
  <2>15. TimeInv'
    BY <2>12, Zenon DEF TimeInv
  <2>16. LateInv'
    BY <2>1, <2>5, <2>12, Zenon DEF LateInv
  <2> QED
    BY <2>13, <2>14, <2>15, <2>16, Zenon DEF ClosureInv
<1> QED
  BY <1>1, <1>2, Zenon

\* A file is written, opened first.
LEMMA FileWritten ==
  ASSUME ClosureInv, NEW f \in Names, NEW v \in {"absent", "partial", "whole"},
         files' = [files EXCEPT ![f] = v]
  PROVE  /\ files' \in [Names -> {"absent", "partial", "whole"}]
         /\ files'[f] = v /\ \A g \in Names : g # f => files'[g] = files[g]
<1>1. files \in [Names -> {"absent", "partial", "whole"}]
  BY Zenon DEF ClosureInv, PlaceInv
<1> QED
  BY <1>1, Zenon

\* The locks and the payload: a file is opened where the closure is, and the closure
\* goes on once it is whole.
LEMMA ClosureWrites ==
  ASSUME ClosureInv, NEW f \in {"lock", "runLock", "payload"}, NEW from, NEW to,
         WriteFile(f, from, to),
         <<f, from, to>> \in {<<"lock", "lock", "runLock">>, <<"runLock", "runLock", "case">>,
                              <<"payload", "payload", "envelope">>}
  PROVE  ClosureInv'
<1>1. /\ f \in Names /\ f # "envelope" /\ "envelope" \in Names /\ "lock" \in Names
      /\ "runLock" \in Names /\ "payload" \in Names
  BY Zenon DEF Names
<1>2. \/ f = "lock" /\ from = "lock" /\ to = "runLock"
      \/ f = "runLock" /\ from = "runLock" /\ to = "case"
      \/ f = "payload" /\ from = "payload" /\ to = "envelope"
  BY Zenon
<1>3. PICK v \in {"partial", "whole"} :
        /\ place = from /\ files' = [files EXCEPT ![f] = v]
        /\ v = "partial" => place' = from /\ files[f] = "absent"
        /\ v = "whole" => place' = to
  <2>1. CASE files[f] = "absent" /\ files' = [files EXCEPT ![f] = "partial"] /\ UNCHANGED place
    BY <2>1, Zenon DEF WriteFile
  <2>2. CASE files[f] = "partial" /\ files' = [files EXCEPT ![f] = "whole"] /\ place' = to
    BY <2>2, Zenon DEF WriteFile
  <2> QED
    BY <2>1, <2>2, Zenon DEF WriteFile
<1>4. /\ caller' = caller /\ policy' = policy /\ selected' = selected
      /\ index' = index /\ executed' = executed
  BY Zenon DEF WriteFile
<1>5. /\ files' \in [Names -> {"absent", "partial", "whole"}]
      /\ files'[f] = v /\ \A g \in Names : g # f => files'[g] = files[g]
  BY <1>1, <1>3, FileWritten, Zenon
<1>6. place \in {"lock", "runLock", "payload"} /\ place' \in {"lock", "runLock", "case", "payload", "envelope"}
  BY <1>2, <1>3, Zenon
<1>7. caller = "closure"
  BY <1>6, ClosureOnly, Zenon
<1>8. /\ Planned /\ Passed /\ Len(executed) <= Len(selected) /\ place \notin {"start", "ended"}
      /\ place # "lock" => files["lock"] = "whole"
      /\ place \notin Early => files["runLock"] = "whole"
  <2>1. place \notin {"start", "ended"}
    BY <1>6, Zenon
  <2> QED
    BY <1>7, <2>1, Zenon DEF ClosureInv, PlanInv
<1>9. files["envelope"] = "absent"
  <2>1. place \notin {"envelope", "published", "ended"}
    BY <1>6, Zenon
  <2> QED
    BY <2>1, Zenon DEF ClosureInv, LateInv
<1>10. files'["envelope"] = "absent"
  BY <1>1, <1>5, <1>9, Zenon
<1>11. Planned' = Planned
  BY <1>4, Zenon DEF Planned
<1>12. Passed' = Passed
  BY <1>4, Zenon DEF Passed
<1>13. place' \in Early => place \in Early
  BY <1>2, <1>3, <1>6, Zenon DEF Early
<1>14. place' \in Early \cup Timed \cup Late \cup {"case", "ended"}
  BY <1>6, Zenon DEF Early, Timed, Late
<1>15. PlaceInv'
  BY <1>4, <1>5, <1>7, <1>13, <1>14, Zenon DEF ClosureInv, PlaceInv
<1>16. place' # "lock" => files'["lock"] = "whole"
  <2>1. CASE f = "lock"
    BY <1>2, <1>3, <1>5, <2>1, Zenon
  <2>2. CASE f # "lock"
    <3>1. place # "lock"
      BY <1>2, <1>3, <2>2, Zenon
    <3> QED
      BY <1>1, <1>5, <1>8, <2>2, <3>1, Zenon
  <2> QED
    BY <2>1, <2>2, Zenon
<1>17. place' \notin Early => files'["runLock"] = "whole"
  <2>1. CASE f = "lock"
    BY <1>2, <1>3, <2>1, Zenon DEF Early
  <2>2. CASE f = "runLock"
    BY <1>2, <1>3, <1>5, <2>2, Zenon DEF Early
  <2>3. CASE f = "payload"
    <3>1. place \notin Early /\ f # "runLock"
      BY <1>2, <1>3, <2>3, Zenon DEF Early
    <3> QED
      BY <1>1, <1>5, <1>8, <3>1, Zenon
  <2> QED
    BY <2>1, <2>2, <2>3, Zenon
<1>18. PlanInv'
  BY <1>4, <1>8, <1>11, <1>12, <1>16, <1>17, Zenon DEF PlanInv
<1>19. place' \notin Timed
  BY <1>6, Zenon DEF Timed
<1>20. TimeInv'
  BY <1>19, Zenon DEF TimeInv
<1>21. place' \in Late => place \in Late
  BY <1>2, <1>3, Zenon DEF Late
<1>22. place' \in {"envelope", "published"} => files'["payload"] = "whole"
  BY <1>2, <1>3, <1>5, Zenon
<1>23. LateInv'
  BY <1>4, <1>10, <1>21, <1>22, Zenon DEF ClosureInv, LateInv
<1> QED
  BY <1>15, <1>18, <1>20, <1>23, Zenon DEF ClosureInv

\* The envelope is opened and written when everything else is there.
LEMMA ClosureWritesEnvelope ==
  ASSUME ClosureInv, WriteEnvelope
  PROVE  ClosureInv'
<1>1. "envelope" \in Names /\ "lock" \in Names /\ "runLock" \in Names /\ "payload" \in Names
  BY Zenon DEF Names
<1>2. PICK v \in {"partial", "whole"} :
        place = "envelope" /\ files' = [files EXCEPT !["envelope"] = v]
        /\ place' \in {"envelope", "published"}
  BY Zenon DEF WriteEnvelope, WriteFile
<1>3. /\ caller' = caller /\ policy' = policy /\ selected' = selected
      /\ index' = index /\ executed' = executed
  BY Zenon DEF WriteEnvelope, WriteFile
<1>4. /\ files' \in [Names -> {"absent", "partial", "whole"}]
      /\ \A g \in Names : g # "envelope" => files'[g] = files[g]
  BY <1>1, <1>2, FileWritten, Zenon
<1>5. caller = "closure"
  BY <1>2, ClosureOnly, Zenon
<1>6. place \notin {"start", "ended"} /\ place # "lock" /\ place \notin Early
      /\ place \in Late /\ place \in {"envelope", "published"}
  BY <1>2, Places, Zenon
<1>7. Complete
  BY <1>5, <1>6, Zenon DEF ClosureInv, PlanInv, LateInv, Complete
<1>8. Planned' = Planned
  BY <1>3, Zenon DEF Planned
<1>9. Passed' = Passed
  BY <1>3, Zenon DEF Passed
<1>10. files'["lock"] = "whole" /\ files'["runLock"] = "whole" /\ files'["payload"] = "whole"
  BY <1>1, <1>4, <1>7, Zenon DEF Complete
<1>11. Complete'
  BY <1>3, <1>7, <1>8, <1>9, <1>10, Zenon DEF Complete
<1>12. place' \notin Early /\ place' \notin Timed /\ place' \in Late
       /\ place' \in {"envelope", "published", "ended"}
  BY <1>2, Places, Zenon
<1>13. PlaceInv'
  BY <1>3, <1>4, <1>5, <1>12, Zenon DEF ClosureInv, PlaceInv
<1>14. Len(executed) <= Len(selected)
  BY <1>5, <1>6, Zenon DEF ClosureInv, PlanInv
<1>15. PlanInv' /\ TimeInv'
  BY <1>3, <1>10, <1>11, <1>12, <1>14, Zenon DEF PlanInv, TimeInv, Complete
<1>16. LateInv'
  BY <1>10, <1>11, <1>12, Zenon DEF LateInv, Complete
<1> QED
  BY <1>13, <1>15, <1>16, Zenon DEF ClosureInv

\* The plan is made, or refused.
LEMMA ClosurePlan ==
  ASSUME RankFact, ClosureInv, NEW reported, NEW requested, NEW mandatory,
         Plan(reported, requested, mandatory)
  PROVE  ClosureInv'
<1>1. /\ caller = "closure" /\ place = "start" /\ caller' = caller /\ index' = index
      /\ files' = files /\ executed' = executed
      /\ policy' = [affected |-> requested, mandatory |-> mandatory]
  BY Zenon DEF Plan
<1>2. place \in Early /\ place \notin {"envelope", "published", "ended"}
  BY <1>1, Places, Zenon
<1>3. files["envelope"] = "absent" /\ executed = <<>>
  BY <1>2, Zenon DEF ClosureInv, LateInv, PlaceInv
<1>4. CASE ~(reported = requested /\ Selectable(reported, mandatory))
  <2>1. place' = "ended"
    BY <1>4, Zenon DEF Plan, Fail
  <2> QED
    BY <1>1, <1>3, <2>1, ClosureOver, Zenon
<1>5. CASE reported = requested /\ Selectable(reported, mandatory)
  <2>1. selected' = InOrder(SelectCases(requested, mandatory)) /\ place' = "lock"
    BY <1>5, Zenon DEF Plan
  <2>2. policy'.affected = requested /\ policy'.mandatory = mandatory
    BY <1>1, Zenon
  <2>3. Planned'
    BY <2>1, <2>2, Zenon DEF Planned
  <2>4. Enumerates(selected', SelectCases(requested, mandatory))
    BY <2>1, Selection, InOrderIs, Zenon
  <2>5. Len(selected') \in Nat /\ Len(executed') = 0
    BY <1>1, <1>3, <2>4, EmptySeq, Zenon DEF Enumerates
  <2>6. 1..Len(executed') = {} /\ Len(executed') <= Len(selected')
    BY <2>5
  <2>7. Passed'
    BY <2>6, Zenon DEF Passed
  <2>8. place' \in Early /\ place' \notin Timed /\ place' \notin Late
        /\ place' \notin {"envelope", "published"} /\ place' = "lock"
    BY <2>1, Places, Zenon
  <2>9. PlaceInv'
    BY <1>1, <1>3, <2>8, Zenon DEF ClosureInv, PlaceInv
  <2>10. PlanInv' /\ TimeInv'
    BY <2>3, <2>6, <2>7, <2>8, Zenon DEF PlanInv, TimeInv
  <2>11. LateInv'
    BY <1>1, <1>3, <2>8, Zenon DEF LateInv
  <2> QED
    BY <2>9, <2>10, <2>11, Zenon DEF ClosureInv
<1> QED
  BY <1>4, <1>5, Zenon

\* Every selected case has its manifest when the payload is put together.
LEMMA ClosureAssemble ==
  ASSUME RankFact, ClosureInv, Assemble
  PROVE  ClosureInv'
<1>1. /\ place = "case" /\ index > Len(selected) /\ caller' = caller /\ index' = index
      /\ files' = files /\ executed' = executed /\ policy' = policy /\ selected' = selected
  BY Zenon DEF Assemble
<1>2. CASE place' = "ended"
  BY <1>1, <1>2, ClosureOver, Zenon
<1>3. CASE place' # "ended"
  <2>1. place' = "payload"
    BY <1>3, Zenon DEF Assemble, Fail
  <2>2. caller = "closure"
    BY <1>1, ClosureOnly, Zenon
  <2>3. place \notin {"start", "ended"} /\ place # "lock" /\ place \notin Early
        /\ place \notin {"envelope", "published", "ended"}
    BY <1>1, Places, Zenon
  <2>4. /\ Planned /\ Passed /\ Len(executed) <= Len(selected) /\ IsSeq(executed)
        /\ index = Len(executed) + 1 /\ files["lock"] = "whole" /\ files["runLock"] = "whole"
        /\ files["envelope"] = "absent"
    BY <2>2, <2>3, Zenon DEF ClosureInv, PlaceInv, PlanInv, LateInv
  <2>5. Len(executed) \in Nat /\ Len(selected) \in Nat
    BY <2>4, SeqFacts, PlannedIs, Zenon
  <2>6. Len(executed) = Len(selected)
    BY <1>1, <2>4, <2>5
  <2>7. Planned' = Planned
    BY <1>1, Zenon DEF Planned
  <2>8. Passed' = Passed
    BY <1>1, Zenon DEF Passed
  <2>9. place' \notin Early /\ place' \notin Timed /\ place' \in Late
        /\ place' \notin {"envelope", "published"}
    BY <2>1, Places, Zenon
  <2>10. PlaceInv'
    BY <1>1, <2>2, <2>9, Zenon DEF ClosureInv, PlaceInv
  <2>11. PlanInv' /\ TimeInv'
    BY <1>1, <2>4, <2>7, <2>8, <2>9, Zenon DEF PlanInv, TimeInv
  <2>12. LateInv'
    BY <1>1, <2>4, <2>6, <2>9, Zenon DEF LateInv
  <2> QED
    BY <2>10, <2>11, <2>12, Zenon DEF ClosureInv
<1> QED
  BY <1>2, <1>3, Zenon

\* The command line begins.
LEMMA ClosureCli ==
  ASSUME ClosureInv, NEW line, CliBegin(line)
  PROVE  ClosureInv'
<1>1. /\ caller = "cli" /\ place = "start" /\ caller' = caller /\ index' = index
      /\ files' = files /\ executed' = executed /\ policy' = policy /\ selected' = selected
  BY Zenon DEF CliBegin
<1>2. CASE place' = "ended"
  BY <1>1, <1>2, ClosureOver, Zenon
<1>3. CASE place' # "ended"
  <2>1. place' = "execute"
    BY <1>3, Zenon DEF CliBegin, Fail
  <2>2. place \notin {"envelope", "published", "ended"}
    BY <1>1, Zenon
  <2>3. files["envelope"] = "absent"
    BY <2>2, Zenon DEF ClosureInv, LateInv
  <2>4. place' \notin Early /\ place' \in Timed /\ place' \notin Late
        /\ place' \notin {"envelope", "published"} /\ caller' # "closure"
    BY <1>1, <2>1, Places, Zenon
  <2>5. PlaceInv'
    BY <1>1, <2>1, <2>4, Zenon DEF ClosureInv, PlaceInv
  <2>6. PlanInv' /\ TimeInv'
    BY <2>4, Zenon DEF PlanInv, TimeInv
  <2>7. LateInv'
    BY <1>1, <2>3, <2>4, Zenon DEF LateInv
  <2> QED
    BY <2>5, <2>6, <2>7, Zenon DEF ClosureInv
<1> QED
  BY <1>2, <1>3, Zenon

\* The stages before the run: the tools, the sidecar and the preflight.
LEMMA ClosureTools ==
  ASSUME ClosureInv,
         \/ StartTool \/ ToolDone \/ ToolTimesOut \/ WriteSidecar \/ PrepareCase
         \/ PrepareCaseRaises
  PROVE  ClosureInv'
<1>1. /\ place \in {"compile", "link", "sidecar", "preflight"}
      /\ place' \in {"compile", "link", "sidecar", "preflight", "execute", "ended"}
      /\ caller' = caller /\ index' = index /\ files' = files /\ executed' = executed
      /\ policy' = policy /\ selected' = selected /\ left' = left /\ elapsed' = elapsed
  BY Zenon DEF StartTool, ToolDone, ToolTimesOut, WriteSidecar, PrepareCase, PrepareCaseRaises,
               Fail, Prepare, PrepareRaises, hosted
<1>2. CASE place' = "ended"
  BY <1>1, <1>2, ClosureOver, Zenon
<1>3. CASE place' # "ended"
  <2>1. place \in Timed /\ place' \in Timed /\ place \notin {"start", "execute", "ended"}
    BY <1>1, <1>3, Zenon DEF Timed
  <2>2. caller = "closure"
    BY <2>1, ClosureOnly, Zenon
  <2>3. left \in Nat /\ elapsed \in Nat /\ (left > 0 \/ InTime => left + elapsed = Case.timeout)
    BY <2>1, <2>2, Zenon DEF ClosureInv, TimeInv
  <2>4. place' = "preflight" => HasSidecar(Case)
    BY <1>1, Zenon DEF StartTool, ToolDone, ToolTimesOut, WriteSidecar, PrepareCase,
                       PrepareCaseRaises, Fail
  <2>5. InTime' => InTime
    <3>1. CASE place' \in {"compile", "link"}
      <4>1. place \in {"compile", "link"}
        BY <3>1, Zenon DEF StartTool, ToolDone, ToolTimesOut, WriteSidecar, PrepareCase,
                           PrepareCaseRaises, Fail
      <4> QED
        BY <4>1, Zenon DEF InTime
    <3>2. CASE place' \notin {"compile", "link"}
      <4>1. CASE place' # "execute"
        BY <3>2, <4>1, Zenon DEF InTime
      <4>2. CASE place' = "execute"
        <5>1. PrepareCase \/ PrepareCaseRaises
          BY <1>1, <4>2, Zenon DEF StartTool, ToolDone, ToolTimesOut, WriteSidecar, Fail
        <5>2. /\ child' \in {"none", "ready"}
              /\ outcome' = [status |-> "none"] \/ outcome' = [status |-> "raised"]
          BY <5>1, Zenon DEF PrepareCase, PrepareCaseRaises, Prepare, PrepareRaises, NoRun
        <5>3. child' \notin {"running", "exited"}
          BY <5>2, Zenon
        <5>4. "result" \notin DOMAIN outcome'
          BY <5>2, NoResult, Zenon
        <5> QED
          BY <3>2, <5>3, <5>4, Zenon DEF InTime, Begun
      <4> QED
        BY <4>1, <4>2, Zenon
    <3> QED
      BY <3>1, <3>2, Zenon
  <2> QED
    BY <1>1, <2>1, <2>2, <2>3, <2>4, <2>5, ClosureStage, Zenon
<1> QED
  BY <1>2, <1>3, Zenon

\* Time passes.
LEMMA ClosureTick ==
  ASSUME ClosureInv, Tick
  PROVE  ClosureInv'
<1>1. /\ caller = "closure" /\ place \in Timed
      /\ left > 0 \/ place \in {"sidecar", "preflight"}
      /\ left' = (IF left > 0 THEN left - 1 ELSE 0) /\ elapsed' = elapsed + 1 /\ place' = place
      /\ UNCHANGED <<caller, policy, selected, index, files, executed>>
  BY Zenon DEF Tick, Timed
<1>2. /\ left \in Nat /\ elapsed \in Nat /\ (left > 0 => left + elapsed = Case.timeout)
      /\ place = "preflight" => HasSidecar(Case)
  BY <1>1, Zenon DEF ClosureInv, TimeInv
<1>3. left' \in Nat /\ elapsed' \in Nat
  BY <1>1, <1>2
<1>4. left' > 0 \/ InTime' => left' + elapsed' = Case.timeout
  <2>1. CASE left > 0
    <3>1. left' + elapsed' = left + elapsed
      BY <1>1, <1>2, <2>1
    <3> QED
      BY <1>2, <2>1, <3>1, Zenon
  <2>2. CASE ~(left > 0)
    <3>1. left' = 0 /\ ~(left' > 0)
      BY <1>1, <2>2
    <3>2. ~InTime'
      BY <1>1, <2>2, Zenon DEF InTime
    <3> QED
      BY <3>1, <3>2, Zenon
  <2> QED
    BY <2>1, <2>2, Zenon
<1> QED
  BY <1>1, <1>2, <1>3, <1>4, ClosureStage, Zenon

\* An end of the closure that changes nothing on disk.
LEMMA ClosureEndings ==
  ASSUME ClosureInv, PlanRaises \/ EnvelopeRaises \/ Return \/ Killed \/ CliEnd
  PROVE  ClosureInv'
<1>1. place' = "ended" /\ UNCHANGED <<caller, index, files, executed>>
      /\ UNCHANGED <<policy, selected>>
  BY Zenon DEF PlanRaises, EnvelopeRaises, Return, Killed, CliEnd, Fail
<1> QED
  BY <1>1, ClosureOver, Zenon

-----------------------------------------------------------------------------
(* Every step keeps the invariant.                                         *)

\* The configuration of a case has a size, and the sidecar it agrees with a stop PC.
LEMMA CaseConfiguration ==
  ASSUME CountFact, NEW n \in 1..Len(Cases), HasSidecar(Cases[n]), NEW c, c = Configuration(Cases[n])
  PROVE  c.hits \in Int /\ c.size \in Int
<1> DEFINE e == Cases[n].elf
           S == {s \in e.symbols : s.name = "size"}
<1>1. Cardinality(S) = 1
  BY Zenon DEF HasSidecar, HasSymbol
<1>2. S # {}
  <2> HIDE DEF S
  <2>1. Cardinality({}) = 0
    BY Zenon DEF CountFact
  <2>2. 1 # 0
    OBVIOUS
  <2> QED
    BY <1>1, <2>1, <2>2, Zenon
<1>3. PICK t : t \in e.symbols /\ t.name = "size" /\ t = Symbol(e, "size")
  BY <1>2, Zenon DEF Symbol
<1>4. Symbol(e, "size").value \in Int /\ Cases[n].hits \in Int
  BY <1>3, ClosureAssumption, Zenon
<1>5. PICK s : s = Sidecar(Cases[n])
  BY Zenon
<1>6. c.hits = Cases[n].hits /\ c.size = s.size
  <2>1. c = [start |-> s.start, return |-> s.return, stop |-> s.stop, address |-> s.address,
             size |-> s.size, hits |-> Cases[n].hits, maxSteps |-> Cases[n].maxSteps,
             request |-> Cases[n].request, bytes |-> Cases[n].bytes]
    BY <1>5, Zenon DEF Configuration
  <2> QED
    BY <2>1
<1>7. s.size = Symbol(e, "size").value
  BY <1>5 DEF Sidecar
<1> QED
  BY <1>4, <1>6, <1>7, Zenon

\* The run of a case is prepared.
LEMMA RunPrepareCase ==
  ASSUME CountFact, RankFact, RunInv, ClosureInv, PrepareCase
  PROVE  RunInv'
<1>1. place = "preflight" /\ UNCHANGED caller
  BY Zenon DEF PrepareCase
<1>2. place \in Timed /\ place \notin {"start", "execute", "ended"} /\ place \notin {"start", "ended"}
  BY <1>1, Zenon DEF Timed
<1>3. caller = "closure"
  BY <1>2, ClosureOnly, Zenon
<1>4. Planned /\ IsSeq(executed) /\ index = Len(executed) + 1 /\ index <= Len(selected)
  BY <1>2, <1>3, Zenon DEF ClosureInv, PlaceInv, PlanInv, TimeInv
<1>5. PICK n \in 1..Len(Cases) : Case = Cases[n]
  BY <1>4, CaseIs, Zenon
<1>6. HasSidecar(Case)
  BY <1>1, <1>2, <1>3, Zenon DEF ClosureInv, TimeInv
<1>7. PICK c, agrees : /\ c = Configuration(Case)
                       /\ agrees = ValidSidecar(c, Case.elf, Sidecar(Case), Case.golden)
  BY Zenon
<1>8. Prepare(c, Case.elf, agrees)
  BY <1>7, Zenon DEF PrepareCase
<1>9. c.hits \in Int /\ c.size \in Int
  BY <1>5, <1>6, <1>7, CaseConfiguration, Zenon
<1>10. agrees => c.stop # NoPc
  BY <1>7, Zenon DEF ValidSidecar
<1> QED
  BY <1>1, <1>8, <1>9, <1>10, RunPrepare, Zenon

\* The run of the command line begins.
LEMMA RunCli ==
  ASSUME CountFact, RunInv, NEW line \in CommandLines, CliBegin(line)
  PROVE  RunInv'
<1>1. /\ configuration' = line.configuration /\ caller' = "cli" /\ child = "none"
      /\ outcome = NoRun
  BY Zenon DEF CliBegin
<1>2. line.configuration.hits \in Int /\ line.configuration.size \in Int
  BY ClosureAssumption, Zenon
<1>3. CASE ParseElf(line.elf, line.configuration.bytes, TRUE)
             /\ HarnessBuilds(line.configuration, line.elf)
  <2>1. child' = "ready" /\ model' = HarnessStart(line.configuration, line.elf)
        /\ outcome' = NoRun /\ caller' # "closure"
    BY <1>1, <1>3, Zenon DEF CliBegin
  <2> QED
    BY <1>1, <1>2, <1>3, <2>1, RunStarts, Zenon
<1>4. CASE ~(ParseElf(line.elf, line.configuration.bytes, TRUE)
               /\ HarnessBuilds(line.configuration, line.elf))
  <2>1. child' = "none" /\ outcome' = [status |-> "raised"]
    BY <1>1, <1>4, Zenon DEF CliBegin
  <2> QED
    BY <2>1, RunRaised, Zenon
<1> QED
  BY <1>3, <1>4, Zenon

\* The steps of the closure that do not touch the run.
LEMMA RunApart ==
  ASSUME RunInv,
         \/ \E reported, requested \in Impacts, m \in Mandatory : Plan(reported, requested, m)
         \/ PlanRaises \/ WriteLock \/ WriteRunLock \/ WritePayload \/ WriteEnvelope
         \/ StartTool \/ ToolEnds \/ ToolTimesOut \/ ToolDone \/ WriteSidecar \/ Tick \/ CaseEnds
         \/ Assemble
         \/ EnvelopeRaises \/ Return \/ Killed \/ CliEnd \/ UNCHANGED vars
  PROVE  RunInv'
<1>1. CASE \E reported, requested \in Impacts, m \in Mandatory : Plan(reported, requested, m)
  <2>1. UNCHANGED <<configuration, child, model, outcome, caller>>
    BY <1>1, Zenon DEF Plan, hosted
  <2> QED
    BY <2>1, RunSame, Zenon
<1>2. CASE WriteLock \/ WriteRunLock \/ WritePayload \/ WriteEnvelope
  <2>1. UNCHANGED <<configuration, child, model, outcome, caller>>
    BY <1>2, Zenon DEF WriteLock, WriteRunLock, WritePayload, WriteEnvelope, WriteFile, hosted
  <2> QED
    BY <2>1, RunSame, Zenon
<1>3. CASE StartTool \/ ToolEnds \/ ToolTimesOut \/ ToolDone \/ WriteSidecar \/ Tick
  <2>1. UNCHANGED <<configuration, child, model, outcome, caller>>
    BY <1>3, Zenon DEF StartTool, ToolEnds, ToolTimesOut, ToolDone, WriteSidecar, Tick, hosted
  <2> QED
    BY <2>1, RunSame, Zenon
<1>4. CASE PlanRaises \/ CaseEnds \/ Assemble \/ EnvelopeRaises \/ Return \/ Killed \/ CliEnd
  <2>1. UNCHANGED <<configuration, child, model, outcome, caller>>
    BY <1>4, Zenon DEF PlanRaises, CaseEnds, Assemble, EnvelopeRaises, Return, Killed, CliEnd, hosted
  <2> QED
    BY <2>1, RunSame, Zenon
<1>5. CASE UNCHANGED vars
  <2>1. UNCHANGED <<configuration, child, model, outcome, caller>>
    BY <1>5, Zenon DEF vars, hosted, closure
  <2> QED
    BY <2>1, RunSame, Zenon
<1> QED
  BY <1>1, <1>2, <1>3, <1>4, <1>5, Zenon

\* RunInv is kept.
LEMMA RunStep ==
  ASSUME CountFact, RankFact, RunInv, ClosureInv, [Next]_vars
  PROVE  RunInv'
<1>1. CASE BeginCase
  <2>1. child' = "none" /\ outcome' = [status |-> "none"]
    BY <1>1, Zenon DEF BeginCase, NoRun
  <2> QED
    BY <2>1, RunRaised, Zenon
<1>2. CASE PrepareCaseRaises
  <2>1. child' = "none" /\ outcome' = [status |-> "raised"]
    BY <1>2, Zenon DEF PrepareCaseRaises, PrepareRaises
  <2> QED
    BY <2>1, RunRaised, Zenon
<1>3. CASE (RunProgress \/ HarnessProgress) /\ UNCHANGED closure
  <2>1. UNCHANGED caller
    BY <1>3, Zenon DEF closure
  <2> QED
    BY <1>3, <2>1, RunLaunch, RunReap, RunHarnessStep, RunHarnessEnds, Zenon
       DEF RunProgress, HarnessProgress
<1>4. CASE PrepareCase
  BY <1>4, RunPrepareCase, Zenon
<1>5. CASE \E line \in CommandLines : CliBegin(line)
  BY <1>5, RunCli, Zenon
<1> QED
  BY <1>1, <1>2, <1>3, <1>4, <1>5, RunApart, Zenon DEF Next, Thread

\* ClosureInv is kept.
LEMMA ClosureStep ==
  ASSUME RankFact, RunInv, ClosureInv, [Next]_vars
  PROVE  ClosureInv'
<1>1. CASE WriteLock \/ WriteRunLock \/ WritePayload
  BY <1>1, ClosureWrites, Zenon DEF WriteLock, WriteRunLock, WritePayload
<1>2. CASE ToolEnds \/ UNCHANGED vars
  <2>1. UNCHANGED <<caller, place, policy, selected, index, files, executed, elapsed, left>>
    BY <1>2, Zenon DEF ToolEnds, vars, closure, hosted
  <2>2. child' = child /\ outcome' = outcome
    BY <1>2, Zenon DEF ToolEnds, vars, hosted
  <2> QED
    BY <2>1, <2>2, ClosureSame, Zenon DEF Begun
<1>3. CASE (RunProgress \/ HarnessProgress) /\ UNCHANGED closure
  <2>1. left' = left
    BY <1>3, Zenon DEF RunProgress, HarnessProgress, Launch, Reap, TimesOut, HarnessStep,
                       HarnessLimit, HarnessDies
  <2>2. UNCHANGED <<caller, place, policy, selected, index, files, executed, elapsed, left>>
    BY <1>3, <2>1, Zenon DEF closure
  <2>3. Begun' => Begun \/ left > 0
    <3>1. CASE child \in {"running", "exited"}
      BY <3>1, Zenon DEF Begun
    <3>2. CASE child \notin {"running", "exited"}
      <4>1. Launch
        BY <1>3, <3>2, Zenon DEF RunProgress, HarnessProgress, Reap, TimesOut, HarnessStep,
                                 HarnessLimit, HarnessDies
      <4>2. CASE left > 0
        BY <4>2, Zenon
      <4>3. CASE ~(left > 0)
        <5>1. child' = "none" /\ outcome' = [status |-> "timeout"]
          BY <4>1, <4>3, Zenon DEF Launch
        <5>2. "result" \notin DOMAIN outcome' /\ child' \notin {"running", "exited"}
          BY <5>1, NoResult, Zenon
        <5> QED
          BY <5>2, Zenon DEF Begun
      <4> QED
        BY <4>2, <4>3, Zenon
    <3> QED
      BY <3>1, <3>2, Zenon
  <2> QED
    BY <2>2, <2>3, ClosureSame, Zenon
<1>4. CASE \E reported, requested \in Impacts, m \in Mandatory : Plan(reported, requested, m)
  BY <1>4, ClosurePlan, Zenon
<1>5. CASE \E line \in CommandLines : CliBegin(line)
  BY <1>5, ClosureCli, Zenon
<1>6. CASE \/ StartTool \/ ToolDone \/ ToolTimesOut \/ WriteSidecar \/ PrepareCase
           \/ PrepareCaseRaises
  BY <1>6, ClosureTools, Zenon
<1>7. CASE PlanRaises \/ EnvelopeRaises \/ Return \/ Killed \/ CliEnd
  BY <1>7, ClosureEndings, Zenon
<1>8. CASE BeginCase \/ CaseEnds \/ Assemble \/ Tick \/ WriteEnvelope
  BY <1>8, ClosureBeginCase, ClosureCaseEnds, ClosureAssemble, ClosureTick, ClosureWritesEnvelope, Zenon
<1> QED
  BY <1>1, <1>2, <1>3, <1>4, <1>5, <1>6, <1>7, <1>8, Zenon DEF Next, Thread

\* The invariant holds at the start.
LEMMA InvInit ==
  ASSUME Init
  PROVE  IInv
<1>1. child = "none" /\ outcome = [status |-> "none"]
  BY Zenon DEF Init, HostedInit, NoRun
<1>2. outcome.status = "none" /\ "result" \notin DOMAIN outcome
  BY <1>1, NoResult, Zenon
<1>3. RunInv
  BY <1>1, <1>2, Zenon DEF RunInv, PassIsEvidence
<1>4. /\ caller \in {"closure", "cli"} /\ place = "start" /\ index = 1 /\ executed = <<>>
      /\ files = [f \in Names |-> "absent"]
  BY Zenon DEF Init
<1>5. place \in Early /\ place \notin Timed /\ place \notin Late
      /\ place \notin {"envelope", "published"}
  BY <1>4, Places, Zenon
<1>6. files \in [Names -> {"absent", "partial", "whole"}] /\ files["envelope"] = "absent"
  BY <1>4, Zenon DEF Names
<1>7. index = Len(executed) + 1
  BY <1>4, EmptySeq
<1>8. PlaceInv
  BY <1>4, <1>5, <1>6, <1>7, EmptySeq, Zenon DEF PlaceInv
<1>9. PlanInv /\ TimeInv
  BY <1>4, <1>5, Zenon DEF PlanInv, TimeInv
<1>10. LateInv
  BY <1>5, <1>6, Zenon DEF LateInv
<1> QED
  BY <1>3, <1>8, <1>9, <1>10, Zenon DEF IInv, ClosureInv

\* What the invariant says of a whole envelope.
LEMMA Earned ==
  ASSUME RankFact, IInv
  PROVE  EnvelopeIsEarned
<1> SUFFICES ASSUME files["envelope"] = "whole" PROVE EnvelopeIsEarned
  BY Zenon DEF EnvelopeIsEarned
<1>1. Complete
  <2>1. files["envelope"] # "absent"
    BY Zenon
  <2> QED
    BY <2>1, Zenon DEF IInv, ClosureInv, LateInv
<1>2. \A f \in Names : files[f] = "whole"
  BY <1>1, Zenon DEF Complete, Names
<1> DEFINE S == SelectCases(policy.affected, policy.mandatory)
           ids == {executed[n].id : n \in 1..Len(executed)}
           wanted == {Cases[n].id : n \in S}
<1>3. Planned /\ Passed /\ Len(executed) = Len(selected)
  BY <1>1, Zenon DEF Complete
<1>4. /\ \A k \in 1..Len(executed) : \E n \in S : selected[k] = Cases[n]
      /\ \A n \in S : \E k \in 1..Len(executed) : selected[k] = Cases[n]
  BY <1>3, PlannedIs, Zenon
<1>5. \A k \in 1..Len(executed) : executed[k].id = selected[k].id
  BY <1>3, Zenon DEF Passed
<1>6. ids = wanted
  <2> HIDE DEF S
  <2>1. ASSUME NEW i \in ids PROVE i \in wanted
    <3>1. PICK k \in 1..Len(executed) : i = executed[k].id
      BY <2>1, Zenon
    <3>2. PICK n \in S : selected[k] = Cases[n]
      BY <1>4, <3>1, Zenon
    <3>3. i = Cases[n].id
      BY <1>5, <3>1, <3>2, Zenon
    <3> QED
      BY <3>2, <3>3, Zenon
  <2>2. ASSUME NEW i \in wanted PROVE i \in ids
    <3>1. PICK n \in S : i = Cases[n].id
      BY <2>2, Zenon
    <3>2. PICK k \in 1..Len(executed) : selected[k] = Cases[n]
      BY <1>4, <3>1, Zenon
    <3>3. i = executed[k].id
      BY <1>5, <3>1, <3>2, Zenon
    <3> QED
      BY <3>2, <3>3, Zenon
  <2> QED
    BY <2>1, <2>2, Zenon
<1>7. {executed[n].id : n \in 1..Len(executed)} =
        {Cases[n].id : n \in {k \in 1..Len(Cases) :
           Cases[k].id \in policy.mandatory \/ policy.affected \cap Cases[k].ptoIds # {}}}
  BY <1>6, Zenon DEF SelectCases
<1> QED
  BY <1>2, <1>3, <1>7, Zenon DEF EnvelopeIsEarned, Passed

-----------------------------------------------------------------------------
(* The theorems.  The library is brought in only here: with its theorems in *)
(* scope every obligation becomes several times larger.                    *)
FST == INSTANCE FiniteSetTheorems

\* A set of numbers up to n is finite; its parts are no larger, and the same only if
\* they are all of it.
LEMMA Finite ==
  ASSUME NEW n \in Nat, NEW S \in SUBSET (1..n)
  PROVE  /\ FST!IsFiniteSet(S) /\ Cardinality(S) \in Nat
         /\ \A T \in SUBSET S : /\ Cardinality(T) \in Nat /\ Cardinality(T) <= Cardinality(S)
                                /\ Cardinality(S) = Cardinality(T) => S = T
<1>1. FST!IsFiniteSet(1..n)
  BY FST!FS_Interval
<1>2. FST!IsFiniteSet(S)
  BY <1>1, FST!FS_Subset, Zenon
<1>3. FST!Cardinality(S) \in Nat
  BY <1>2, FST!FS_CardinalityType, Zenon
<1>4. ASSUME NEW T \in SUBSET S
      PROVE  /\ FST!Cardinality(T) \in Nat /\ FST!Cardinality(T) <= FST!Cardinality(S)
             /\ FST!Cardinality(S) = FST!Cardinality(T) => S = T
  <2>1. FST!IsFiniteSet(T)
    BY <1>2, FST!FS_Subset, Zenon
  <2> QED
    BY <1>2, <2>1, FST!FS_Subset, FST!FS_CardinalityType, Zenon
<1> QED
  BY <1>2, <1>3, <1>4, Zenon DEF Cardinality, FST!Cardinality

\* The facts about sizes hold.
LEMMA CountFactHolds == CountFact
<1>1. Cardinality({}) = 0
  BY FST!FS_EmptySet, Zenon DEF Cardinality, FST!Cardinality
<1>2. ASSUME NEW n \in Nat, NEW S \in SUBSET (1..n)
      PROVE  Cardinality(S) \in Nat /\ Cardinality(S \cup {n + 1}) = Cardinality(S) + 1
  <2>1. FST!IsFiniteSet(S) /\ Cardinality(S) \in Nat
    BY Finite, Zenon
  <2>2. n + 1 \notin S
    OBVIOUS
  <2>3. FST!Cardinality(S \cup {n + 1}) = FST!Cardinality(S) + 1
    BY <2>1, <2>2, FST!FS_AddElement, Zenon
  <2> QED
    BY <2>1, <2>3, Zenon DEF Cardinality, FST!Cardinality
<1> QED
  BY <1>1, <1>2, Zenon DEF CountFact

\* Ranks are all different and fill the size of the set: an injection into an interval
\* of the same size is onto.
LEMMA RankFactHolds == RankFact
<1> SUFFICES ASSUME NEW n \in Nat, NEW S \in SUBSET (1..n)
             PROVE  /\ Cardinality(S) \in Nat
                    /\ \A x \in S : Rank(S, x) + 1 \in 1..Cardinality(S)
                    /\ \A x, y \in S : Rank(S, x) = Rank(S, y) => x = y
                    /\ \A k \in 1..Cardinality(S) : \E x \in S : Rank(S, x) = k - 1
  BY Zenon DEF RankFact
<1> DEFINE Below(x) == {j \in S : j < x}
<1>0. \A x : Rank(S, x) = Cardinality(Below(x)) /\ Below(x) \in SUBSET S
  BY Zenon DEF Rank
<1>1. Cardinality(S) \in Nat
  BY Finite, Zenon
<1>2. ASSUME NEW x \in S
      PROVE  /\ Rank(S, x) \in Nat /\ Rank(S, x) < Cardinality(S)
             /\ Rank(S, x) + 1 \in 1..Cardinality(S)
  <2>1. x \notin Below(x)
    OBVIOUS
  <2>2. Below(x) # S
    BY <2>1, Zenon
  <2>3. Cardinality(Below(x)) \in Nat /\ Cardinality(Below(x)) <= Cardinality(S)
        /\ Cardinality(S) # Cardinality(Below(x))
    BY <1>0, <2>2, Finite, Zenon
  <2>4. Rank(S, x) \in Nat /\ Rank(S, x) <= Cardinality(S) /\ Cardinality(S) # Rank(S, x)
    BY <1>0, <2>3, Zenon
  <2> QED
    BY <1>1, <2>4
<1>3. ASSUME NEW x \in S, NEW y \in S, x < y
      PROVE  Rank(S, x) # Rank(S, y)
  <2>0. ASSUME NEW j \in S PROVE ~(x < x) /\ (j < x => j < y)
    <3>1. j \in Nat /\ x \in Nat /\ y \in Nat
      OBVIOUS
    <3> QED
      BY <1>3, <3>1
  <2>1. Below(x) \in SUBSET Below(y) /\ x \in Below(y) /\ x \notin Below(x)
    BY <1>3, <2>0, Zenon
  <2>2. Below(x) # Below(y)
    BY <2>1, Zenon
  <2>3. Below(y) \in SUBSET (1..n)
    BY Zenon
  <2> HIDE DEF Below
  <2>4. Cardinality(Below(y)) # Cardinality(Below(x))
    BY <2>1, <2>2, <2>3, Finite, Zenon
  <2> QED
    BY <1>0, <2>4, Zenon
<1>4. ASSUME NEW x \in S, NEW y \in S, Rank(S, x) = Rank(S, y)
      PROVE  x = y
  <2>1. x \in Nat /\ y \in Nat
    OBVIOUS
  <2>2. ~(x < y) /\ ~(y < x)
    BY <1>3, <1>4, Zenon
  <2> QED
    BY <2>1, <2>2
<1> DEFINE f == [x \in S |-> Rank(S, x) + 1]
           T == 1..Cardinality(S)
<1>5. f \in [S -> T]
  BY <1>2, Zenon
<1>6. ASSUME NEW x \in S, NEW y \in S, f[x] = f[y]
      PROVE  x = y
  <2>1. Rank(S, x) + 1 = Rank(S, y) + 1
    BY <1>6, Zenon
  <2>2. Rank(S, x) = Rank(S, y)
    BY <1>2, <2>1
  <2> QED
    BY <1>4, <2>2, Zenon
<1>7. f \in FST!Injection(S, T)
  <2>1. DOMAIN f = S
    BY Zenon
  <2> HIDE DEF f, T
  <2> QED
    BY <1>5, <1>6, <2>1, Zenon DEF FST!Injection, FST!IsInjective
<1>8. FST!IsFiniteSet(T) /\ FST!Cardinality(T) = Cardinality(S)
  <2>1. PICK c : c = Cardinality(S)
    BY Zenon
  <2>2. c \in Nat
    BY <1>1, <2>1, Zenon
  <2>3. FST!IsFiniteSet(1..c) /\ FST!Cardinality(1..c) = c
    BY <2>2, FST!FS_Interval
  <2> QED
    BY <2>1, <2>3, Zenon
<1>9. FST!Cardinality(S) = FST!Cardinality(T)
  BY <1>8, Zenon DEF Cardinality, FST!Cardinality
<1>10. f \in FST!Surjection(S, T)
  <2> HIDE DEF f, T
  <2> QED
    BY <1>7, <1>8, <1>9, FST!FS_Injection, Zenon
<1>11. ASSUME NEW k \in 1..Cardinality(S) PROVE \E x \in S : Rank(S, x) = k - 1
  <2>1. PICK x \in S : f[x] = k
    <3> HIDE DEF f
    <3> QED
      BY <1>10, Zenon DEF FST!Surjection
  <2>2. Rank(S, x) + 1 = k
    BY <2>1, Zenon
  <2>3. Rank(S, x) = k - 1
    BY <1>2, <2>2
  <2> QED
    BY <2>3, Zenon
<1> QED
  BY <1>1, <1>2, <1>4, <1>11, Zenon

\* The inductive invariant holds in every reachable state.
LEMMA Invariance == Spec => []IInv
<1>1. IInv /\ [Next]_vars => IInv'
  BY RunStep, ClosureStep, CountFactHolds, RankFactHolds, Zenon DEF IInv
<1>2. Init => IInv
  BY InvInit, Zenon
<1> QED
  BY <1>1, <1>2, PTL DEF Spec

\* A run that passes is positive evidence (PassIsEvidence), whether the closure or the
\* command line asked for it, for every program, image and configuration.
THEOREM Evidence == Spec => []PassIsEvidence
<1>1. IInv => PassIsEvidence
  BY Zenon DEF IInv, RunInv
<1> QED
  BY <1>1, Invariance, PTL

\* A whole envelope is earned (EnvelopeIsEarned), for every corpus, policy and impact
\* report, and wherever the closure is killed.
THEOREM EarnedEnvelope == Spec => []EnvelopeIsEarned
<1>1. IInv => EnvelopeIsEarned
  BY Earned, RankFactHolds, Zenon
<1> QED
  BY <1>1, Invariance, PTL
=============================================================================
