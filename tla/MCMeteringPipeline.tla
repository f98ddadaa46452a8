------------------------- MODULE MCMeteringPipeline -------------------------
(***************************************************************************)
(* Instances of MeteringPipeline for TLC.                                  *)
(***************************************************************************)
EXTENDS MeteringPipeline

CONSTANTS r1, r2, i1, i2

\* Every request has an id of its own.
OwnIds == [r \in Requests |-> IF r = r1 THEN i1 ELSE i2]
\* A client sends the same X-Request-Id twice.
SharedId == [r \in Requests |-> i1]
=============================================================================
