----------------------------- MODULE MCTaskPool -----------------------------
(* Small instances of TaskPool: s1 can do everything, s2 lacks the hazmat    *)
(* capability that task t2 requires; t2 is the more urgent one.              *)
EXTENDS TaskPool, TLC

CONSTANTS t1, t2, s1, s2, r1, r2

MCTypeOf == [t \in Tasks |-> "PICK"]
MCCpt == [t \in Tasks |-> IF t = t1 THEN 2 ELSE 1]
MCRequired == [t \in Tasks |-> IF t = t1 THEN {} ELSE {"hazmat"}]
MCCapabilities == [s \in Stations |-> IF s = s1 THEN {"hazmat"} ELSE {}]

\* Requests are interchangeable.  Used for the safety runs only.
RequestSymmetry == Permutations(Requests)
=============================================================================
