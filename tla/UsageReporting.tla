--------------------------- MODULE UsageReporting ---------------------------
(***************************************************************************)
(* What the billing service promises about one metered request once its    *)
(* outbox row exists (api/microservices/billing/src/reporter.py, lifecycle *)
(* of lines 6-13), with neither Stripe's answers nor crashes in sight:     *)
(* the row is pending until it settles, Stripe may come to hold several    *)
(* meter events of a pending row but never more than MaxAttempts and none  *)
(* after the row has settled, and "sent" is only claimed for a row Stripe  *)
(* really holds an event of.  StripeReporter implements this module.       *)
(***************************************************************************)
EXTENDS Naturals

CONSTANTS
  Rows,          \* outbox rows, one per countable metered request
  MaxAttempts    \* settings.reporter_max_attempts

VARIABLES
  status,        \* status[r]: "absent" before the metering consumer wrote it
  recorded       \* recorded[r]: the attempts Stripe holds a meter event of

vars == <<status, recorded>>

Init ==
  /\ status = [r \in Rows |-> "absent"]
  /\ recorded = [r \in Rows |-> {}]

Accept(r) ==
  /\ status[r] = "absent"
  /\ status' = [status EXCEPT ![r] = "pending"]
  /\ UNCHANGED recorded

\* Attempts are numbered, and an attempt is never smaller than an earlier one.
Record(r, n) ==
  /\ status[r] = "pending"
  /\ \A k \in recorded[r] : k < n
  /\ recorded' = [recorded EXCEPT ![r] = @ \cup {n}]
  /\ UNCHANGED status

Settle(r) ==
  /\ status[r] = "pending"
  /\ \/ status' = [status EXCEPT ![r] = "sent"] /\ recorded[r] # {}
     \/ status' = [status EXCEPT ![r] = "failed"]
  /\ UNCHANGED recorded

Next == \E r \in Rows :
  \/ Accept(r)
  \/ \E n \in 1..MaxAttempts : Record(r, n)
  \/ Settle(r)

Spec == Init /\ [][Next]_vars
=============================================================================
