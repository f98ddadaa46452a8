----------------------------- MODULE MCApiKeys -----------------------------
(***************************************************************************)
(* Instances of ApiKeys for TLC.                                           *)
(***************************************************************************)
EXTENDS ApiKeys, TLC

CONSTANTS k1, k2, h1, h2, m1, m2, g1, g2

Symmetry == Permutations(Sessions) \cup Permutations(Gates)
            \cup Permutations(Hashes) \cup Permutations(Keys)
=============================================================================
