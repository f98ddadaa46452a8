--------------------------- MODULE MCRateLimiter ---------------------------
(***************************************************************************)
(* Instances of RateLimiter for TLC.                                       *)
(***************************************************************************)
EXTENDS RateLimiter

CONSTANTS r1, r2, r3, s1, s2

\* rpm: every event counts one.  tpm: token amounts, one event without a count.
Rpm == [r \in Calls |-> 1]
Tpm == [r \in Calls |-> IF r = r1 THEN 2 ELSE IF r = r2 THEN 1 ELSE 0]
=============================================================================
