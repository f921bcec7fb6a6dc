------------------------------ MODULE MCElfRun ------------------------------
(* A segment of six words: an instruction of two words, a jump, one that ASL    *)
(* rejects, an ACRC, and a long instruction that the end of the segment cuts.   *)
(* The jump may go back, and may leave the segment above and, near and far,     *)
(* below; the second word of the long instruction is rejected, and so is an     *)
(* unmapped word.  The word above the segment is not permitted to be fetched.   *)
EXTENDS ElfRun

MCData == <<"long", "half", "jump", "bad", "acrc", "long">>
MCWidth(w) == IF w = "long" THEN 2 ELSE 1
MCFetchable(a) == a # 14
MCAccepts(i) == i[1] \in {"long", "jump", "acrc"}
MCTargets(i) == IF i[1] = "jump" THEN {3, 7, 8, 12, 14} ELSE {}
MCTerminal(i) == i = <<"acrc">>
=============================================================================
