------------------------------ MODULE MCMemOp ------------------------------
(* Four pages; the range begins and ends inside one.                       *)
EXTENDS MemOp

MCPageOf == [o \in 0..5 |-> CASE o = 0 -> 0 [] o \in 1..2 -> 1
                              [] o \in 3..4 -> 2 [] o = 5 -> 3]
=============================================================================
