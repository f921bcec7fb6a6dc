-------------------------- MODULE MCRuntimeAdapter --------------------------
(* Three images over three bytes.  The first two have a read-only segment at *)
(* either end, only one of them gives a stack pointer, and the last segment  *)
(* of the third cannot be mapped.  Writes of one and of two bytes overlap.   *)
EXTENDS RuntimeAdapter

Segment(where, byte, writable, mappable) ==
  [addresses |-> where, data |-> [a \in where |-> byte], writable |-> writable,
   mappable |-> mappable]

MCImages ==
  { [entry |-> 0, sp |-> "top",
     segments |-> <<Segment({0}, 1, FALSE, TRUE), Segment({1, 2}, 0, TRUE, TRUE)>>],
    [entry |-> 1, sp |-> NoSp,
     segments |-> <<Segment({0, 1}, 0, TRUE, TRUE), Segment({2}, 1, FALSE, TRUE)>>],
    [entry |-> 1, sp |-> "top",
     segments |-> <<Segment({0}, 1, TRUE, TRUE), Segment({1}, 1, FALSE, FALSE)>>] }
MCPayloads == {<<1>>, <<0, 1>>}
=============================================================================
