---------------------------- MODULE MCAuthSessions ----------------------------
(* Requests in progress are interchangeable.                                  *)
EXTENDS AuthSessions, TLC

CONSTANTS r1, r2

MCRequests == {r1, r2}
MCSymmetry == Permutations(MCRequests)
=============================================================================
