-------------------------- MODULE MCStripeReporter --------------------------
(***************************************************************************)
(* Instances of StripeReporter for TLC: the rows' principals.              *)
(***************************************************************************)
EXTENDS StripeReporter

CONSTANTS o1, o2, null

\* Rows of two orgs.
OrgsOfRows == <<o1, o2>>
\* One row.
OrgOfOneRow == <<o1>>
\* Two rows of one org.
OrgsOfTwoRows == <<o1, o1>>
\* A row without a principal, older than a row with one.
OrphanFirst == <<null, o1>>
=============================================================================
