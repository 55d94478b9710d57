----------------------- MODULE MCWorkReleasedConsumer -----------------------
(* A short topic: release a delivered twice, release b of a path the         *)
(* catalogue lacks, one event of another type and one malformed message.     *)
EXTENDS WorkReleasedConsumer

CONSTANTS c1, c2

Message(i, k) == [id |-> i, kind |-> k]
MCInput == <<Message("a", "work"), Message("o", "other"), Message("a", "work"),
             Message("b", "unknownPath"), Message("m", "malformed")>>
MCShortInput == <<Message("a", "work"), Message("a", "work"), Message("b", "work")>>
=============================================================================
