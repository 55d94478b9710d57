--------------------------- MODULE MCIdempotency ----------------------------
(* One key shared by every request, two bodies that validate and one that    *)
(* does not.                                                                 *)
EXTENDS Idempotency

CONSTANTS k1, b1, b2, bad, r1, r2, r3
=============================================================================
