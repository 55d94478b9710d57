---------------------------- MODULE MCPackaging -----------------------------
(* Cartons of up to three items: a flammable (class 3), a battery (class 9)  *)
(* that may travel with either, and a gas (class 2) that may not travel with *)
(* the flammable; an explosive scanned twice; a harmless item; nothing.      *)
EXTENDS Packaging, TLC

CONSTANTS t1, t2, s1, s2, r1, r2, r3

MCHazardClass == [flammable |-> 3, gas |-> 2, battery |-> 9, plain |-> 0, explosive |-> 1]
MCContents == {<<"plain">>, <<"flammable", "battery", "gas">>, <<"explosive", "explosive">>, <<>>}
MCPlain == {<<"plain">>}

\* Request slots are interchangeable.
RequestSymmetry == Permutations(Requests)
=============================================================================
