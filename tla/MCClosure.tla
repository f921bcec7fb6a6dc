----------------------------- MODULE MCClosure -----------------------------
(* Two cases that can pass, one by its stop PC at the second visit and one   *)
(* by a service call; one whose ELF has no writable result; one of another   *)
(* backend; one whose ELF fits its own memory and not the reference memory;  *)
(* one whose object has no note, and one whose ELF has another note.         *)
(* The program stores the result on its way round a loop.                    *)
EXTENDS Closure

Sym(n, v, s, a) == [name |-> n, value |-> v, size |-> s, absolute |-> a]
Seg(b, s, f) == [base |-> b, size |-> s, flags |-> f]

Symbols(stop) ==
  {Sym("start", 1, 0, FALSE), Sym("return", 3, 0, FALSE), Sym("stop", stop, 0, FALSE),
   Sym("result", 4, 1, FALSE), Sym("size", 1, 0, TRUE)}

Elf(flags, symbols) ==
  [entry |-> 1, segments |-> <<Seg(0, 4, {"r", "x"}), Seg(4, 1, flags)>>, symbols |-> symbols,
   note |-> "n", data |-> [a \in 0..5 |-> 0]]

LargeElf ==
  LET e == Elf({"r", "w"}, Symbols(2))
  IN [e EXCEPT !.segments = Append(e.segments, Seg(5, 1, {"r"}))]

MCEffects(tpc) ==
  IF tpc = 1 THEN {[kind |-> "executed", next |-> 2, store |-> <<4, 1>>],
                   [kind |-> "executed", next |-> 2, store |-> NoStore]}
  ELSE IF tpc = 2 THEN {[kind |-> "executed", next |-> 1, store |-> NoStore],
                        [kind |-> "executed", next |-> 3, store |-> NoStore],
                        [kind |-> "service", next |-> 3, store |-> NoStore]}
  ELSE {[kind |-> "fault", next |-> 0, store |-> NoStore]}

TheCase(id, ids, backend, hits, request, elf, note) ==
  [id |-> id, ptoIds |-> ids, backend |-> backend, hits |-> hits, maxSteps |-> 4,
   request |-> request, elf |-> elf, golden |-> <<1>>, note |-> note, timeout |-> 2, bytes |-> 6]

MCCases ==
  << TheCase("a", {"A"}, "host", 2, FALSE, Elf({"r", "w"}, Symbols(2)), "n"),
     TheCase("b", {"A", "B"}, "host", 1, TRUE, Elf({"r", "w"}, Symbols(3)), "n"),
     TheCase("c", {"C"}, "host", 1, FALSE, Elf({"r"}, Symbols(2)), "n"),
     TheCase("d", {"D"}, "array", 1, FALSE, Elf({"r", "w"}, {}), "n"),
     TheCase("f", {"F"}, "host", 1, FALSE, LargeElf, "n"),
     TheCase("g", {"G"}, "host", 1, FALSE, Elf({"r", "w"}, Symbols(2)), NoNote),
     TheCase("h", {"H"}, "host", 1, FALSE, Elf({"r", "w"}, Symbols(2)), "m") >>

Line(start, stop) ==
  [configuration |-> [start |-> start, return |-> 0, stop |-> stop, address |-> 4, size |-> 1,
                      hits |-> 1, maxSteps |-> 3, request |-> FALSE, bytes |-> 6],
   elf |-> Elf({"r", "w"}, {})]

MCCommandLines == {Line(0, NoPc), Line(0, 3), Line(4, 2)}
=============================================================================
