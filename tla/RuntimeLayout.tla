--------------------------- MODULE RuntimeLayout ---------------------------
(***************************************************************************)
(* RuntimeLayout.resolve (runtime/config.py): where the stack banks of the *)
(* PEs lie relative to the segments of the image.  A stack grows downward  *)
(* from its top; bank i lies i strides above bank 0.                       *)
(*                                                                         *)
(* Options are a record [policy, top, size, gap, stride, redZone, count];  *)
(* NoValue is None.  A ValueError of resolve is the layout Refused.        *)
(***************************************************************************)
EXTENDS GuestMemory

CONSTANTS
  AddressLimit,       \* 1 << address_bits
  DefaultStackSize,   \* 0x01000000
  NoValue, Refused

ASSUME LayoutAssumption ==
  /\ AddressLimit \in Nat \ {0} /\ DefaultStackSize \in Nat \ {0}
  /\ NoValue \notin Nat

AlignUp(value, alignment) == ((value + alignment - 1) \div alignment) * alignment

ImageEnd(segments) ==
  CHOOSE e \in {End(s) : s \in segments} : \A s \in segments : End(s) <= e

\* The options after resolve has filled in its defaults.
StackSize(o) ==
  IF o.size = 0 /\ o.policy = "after-image" THEN DefaultStackSize ELSE o.size
Stride(o) == IF o.stride = NoValue THEN StackSize(o) ELSE o.stride

StackTop(segments, o, pageSize) ==
  IF o.top = NoValue
  THEN AlignUp(ImageEnd(segments) + o.gap + StackSize(o), pageSize)
  ELSE o.top

\* The checks of the arguments, before an address is computed.
WellFormed(o) ==
  /\ o.count > 0 /\ o.gap >= 0 /\ o.redZone >= 0
  /\ o.policy # "disabled" => StackSize(o) > 0 /\ o.redZone < StackSize(o)

\* Fault variant: the stack pointer of a bank is the top of the next one.
BankNextTop(top, o, i) ==
  [pe |-> i, base |-> top - StackSize(o) + i * Stride(o), size |-> StackSize(o),
   top |-> top + (i + 1) * Stride(o)]

Bank(top, o, i) ==
  [pe |-> i, base |-> top - StackSize(o) + i * Stride(o), size |-> StackSize(o),
   top |-> top + i * Stride(o)]

Banks(top, o) == {Bank(top, o, i) : i \in 0..(o.count - 1)}

BankRegion(bank) == [base |-> bank.base, size |-> bank.size, permissions |-> {"r", "w"}]

StackPointer(bank, o) == bank.top - o.redZone

\* The checks of the computed banks.
Fits(segments, banks) ==
  \A bank \in banks :
    /\ bank.base >= 0 /\ bank.base + bank.size <= AddressLimit /\ bank.top <= AddressLimit
    /\ \A s \in segments : ~(bank.base < End(s) /\ bank.base + bank.size > s.base)

BanksApart(banks) ==
  \A left, right \in banks :
    right.pe = left.pe + 1 => left.base + left.size <= right.base

Resolve(segments, o, pageSize) ==
  LET top == StackTop(segments, o, pageSize)
      banks == Banks(top, o)
  IN  IF ~WellFormed(o) THEN Refused
      ELSE IF o.policy = "disabled" THEN {}
      ELSE IF /\ Stride(o) >= StackSize(o)
              /\ o.top # NoValue \/ o.policy # "explicit"
              /\ top > 0 /\ Fits(segments, banks) /\ BanksApart(banks)
           THEN banks ELSE Refused
=============================================================================
