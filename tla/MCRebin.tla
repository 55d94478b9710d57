------------------------------ MODULE MCRebin -------------------------------
(* Two orders, o1 of three lines and o2 of two; line x belongs to neither.   *)
EXTENDS Rebin, TLC

CONSTANTS o1, o2, la, lb, lc, x, r1, r2, r3

MCRequired == [o \in Orders |-> IF o = o1 THEN {la, lb, lc} ELSE {la, lb}]

\* Request slots are interchangeable.
RequestSymmetry == Permutations(Arrivals)
=============================================================================
