---------------------------- MODULE MCHostMemory ----------------------------
(* Two pages of four bytes.  In one program two segments leave two holes in  *)
(* the first page and one crosses into the second; in the other the table    *)
(* ends in the first page.  One stack above the image, or two at a given top, *)
(* which one program refuses.                                                *)
EXTENDS HostScan

Seg(b, s, p) == [base |-> b, size |-> s, permissions |-> p]

MCPrograms ==
  { [segments |-> {Seg(1, 1, {"r", "x"}), Seg(3, 2, {"w"})},
     data     |-> [a \in Addr |-> IF a \in {1, 3} THEN 1 ELSE 0]],
    [segments |-> {Seg(3, 1, {"r"})}, data |-> [a \in Addr |-> 0]] }

Opt(policy, top, size, stride, red, count) ==
  [policy |-> policy, top |-> top, size |-> size, gap |-> 0, stride |-> stride,
   redZone |-> red, count |-> count]

MCOptions ==
  { Opt("after-image", NoValue, 2, NoValue, 1, 1), Opt("explicit", 2, 1, 1, 0, 2) }

MCImages == {Outcome(program, o) : program \in MCPrograms, o \in MCOptions}
MCInputs == {i.regions : i \in MCImages}
=============================================================================
