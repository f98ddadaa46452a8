--------------------------- MODULE StripeReporter ---------------------------
(***************************************************************************)
(* The Stripe reporter of the billing service: the poll loop that drains   *)
(* the outbox to Stripe (api/microservices/billing/src/reporter.py).       *)
(*                                                                         *)
(* A step of the model ends where the code awaits, or where a crash would  *)
(* separate two effects: the customers.create call, the meter_events.create*)
(* call and the single trailing commit are three steps.  Everything a      *)
(* row's session changes before the commit lives in `sess` and is lost if  *)
(* the commit does not happen.                                             *)
(*                                                                         *)
(* Stripe is external: it may apply a call and lose the answer, it may     *)
(* refuse a call, and it remembers an idempotency key for a day or more.   *)
(* A report is replayed within the backoff ceiling, so its key is          *)
(* remembered; the next use of an org may come when its customer key is    *)
(* forgotten (CustomerKeyLapses).                                          *)
(***************************************************************************)
EXTENDS Naturals, FiniteSets

CONSTANTS
  NumRows,       \* outbox rows; their numbers follow created_at
  Orgs,          \* principals
  OrgOf,         \* OrgOf[r]: payload["principal"] of row r
  NullOrg,       \* the principal of a row whose event carried none (NULL)
  MaxAttempts,   \* settings.reporter_max_attempts
  BatchSize,     \* settings.reporter_batch_size
  MaxCrashes,    \* bound: crashes and database faults in a behaviour
  MaxLapses      \* bound: how often Stripe forgets a key of an org

Rows == 1..NumRows

ASSUME ReporterAssumption ==
  /\ NumRows \in Nat
  /\ OrgOf \in [Rows -> Orgs]
  /\ MaxAttempts \in Nat \ {0}
  /\ BatchSize \in Nat \ {0}
  /\ MaxCrashes \in Nat /\ MaxLapses \in Nat

VARIABLES
  outbox,        \* outbox[r]: the committed row
  customers,     \* customers[o]: committed stripe_customers row, 0 if none
  stripeCust,    \* external: how many customers Stripe created for the org
  keyed,         \* external: Stripe remembers the org's key, and the last of them for it
  lapsed,        \* history: how often it forgot the key of an org billing had not booked
  meter,         \* external: the meter events Stripe holds
  link,          \* link[o]: customer id an open /subscriptions session holds
  pc,            \* where the reporter is
  batch,         \* rows of this poll cycle still to process
  sess,          \* the session's uncommitted view of the row at hand
  crashes

stripeCustomers == <<stripeCust, keyed, lapsed>>
stripeVars == <<stripeCust, keyed, lapsed, meter>>
vars == <<outbox, customers, stripeVars, link, pc, batch, sess, crashes>>

Status == {"absent", "pending", "sent", "failed"}
Row == [status : Status, attempts : Nat, due : BOOLEAN]
CustomerId == Nat
MeterEvent == [row : Rows, key : Nat, customer : CustomerId]
Session == [row : Rows, status : Status, attempts : Nat, due : BOOLEAN,
            customer : CustomerId, added : BOOLEAN]

TypeOK ==
  /\ outbox \in [Rows -> Row]
  /\ customers \in [Orgs -> CustomerId]
  /\ stripeCust \in [Orgs -> CustomerId]
  /\ keyed \in [Orgs -> BOOLEAN] /\ lapsed \in [Orgs -> Nat]
  /\ meter \subseteq MeterEvent
  /\ link \in [Orgs -> CustomerId]
  /\ pc \in {"idle", "row", "resolve", "report", "commit"}
  /\ batch \subseteq Rows
  /\ pc \in {"resolve", "report", "commit"} => sess \in Session
  /\ crashes \in 0..MaxCrashes

\* The idempotency keys of row r that Stripe has applied; the second half of
\* "billing:{request_id}:{attempts}".
Keys(r) == {m.key : m \in {e \in meter : e.row = r}}

NoSession == [row |-> 0]

-----------------------------------------------------------------------------

Init ==
  /\ outbox = [r \in Rows |-> [status |-> "absent", attempts |-> 0, due |-> TRUE]]
  /\ customers = [o \in Orgs |-> 0]
  /\ stripeCust = [o \in Orgs |-> 0]
  /\ keyed = [o \in Orgs |-> FALSE] /\ lapsed = [o \in Orgs |-> 0]
  /\ meter = {}
  /\ link = [o \in Orgs |-> 0]
  /\ pc = "idle"
  /\ batch = {}
  /\ sess = NoSession
  /\ crashes = 0

\* The metering consumer commits a pending row (consumer._persist); rows
\* arrive in created_at order, next_attempt_at is NULL.
Enqueue(r) ==
  /\ outbox[r].status = "absent"
  /\ \A q \in 1..(r-1) : outbox[q].status # "absent"
  /\ outbox' = [outbox EXCEPT ![r].status = "pending"]
  /\ UNCHANGED <<customers, stripeVars, link, pc, batch, sess, crashes>>

\* next_attempt_at <= now comes true.
BackoffElapses(r) ==
  /\ outbox[r].status = "pending" /\ ~outbox[r].due
  /\ outbox' = [outbox EXCEPT ![r].due = TRUE]
  /\ UNCHANGED <<customers, stripeVars, link, pc, batch, sess, crashes>>

DueRows == {r \in Rows : outbox[r].status = "pending" /\ outbox[r].due}

\* The poll query: the oldest BatchSize pending rows that are due.
Poll ==
  /\ pc = "idle" /\ DueRows # {}
  /\ batch' = {r \in DueRows :
                 Cardinality({q \in DueRows : q < r}) < BatchSize}
  /\ pc' = "row"
  /\ UNCHANGED <<outbox, customers, stripeVars, link, sess, crashes>>

EndCycle ==
  /\ pc = "row" /\ batch = {}
  /\ pc' = "idle"
  /\ UNCHANGED <<outbox, customers, stripeVars, link, batch, sess, crashes>>

\* _process_row up to the customer look-up.  The guard that re-reads the
\* status skips a row that is no longer pending.
LoadRow ==
  /\ pc = "row"
  /\ \E r \in batch :
       /\ \A q \in batch : r <= q
       /\ IF outbox[r].status # "pending"
          THEN /\ batch' = batch \ {r}
               /\ UNCHANGED <<pc, sess>>
          ELSE /\ sess' = [row |-> r, status |-> "pending",
                           attempts |-> outbox[r].attempts, due |-> TRUE,
                           customer |-> customers[OrgOf[r]], added |-> FALSE]
               /\ pc' = IF customers[OrgOf[r]] = 0 THEN "resolve" ELSE "report"
               /\ UNCHANGED batch
  /\ UNCHANGED <<outbox, customers, stripeVars, link, crashes>>

\* _apply_transient_failure / _apply_permanent_failure, after the attempt
\* count was or was not incremented by the caller.
TransientFailureAfterCeiling(s, already_incremented) ==
  LET n == IF already_incremented THEN s.attempts ELSE s.attempts + 1
  IN  IF n > MaxAttempts
      THEN [s EXCEPT !.attempts = n, !.status = "failed"]
      ELSE [s EXCEPT !.attempts = n, !.due = FALSE]

TransientFailureUncounted(s, already_incremented) ==
  IF s.attempts >= MaxAttempts
  THEN [s EXCEPT !.status = "failed"]
  ELSE [s EXCEPT !.due = FALSE, !.attempts = outbox[s.row].attempts]

TransientFailure(s, already_incremented) ==
  LET n == IF already_incremented THEN s.attempts ELSE s.attempts + 1
  IN  IF n >= MaxAttempts
      THEN [s EXCEPT !.attempts = n, !.status = "failed"]
      ELSE [s EXCEPT !.attempts = n, !.due = FALSE]

PermanentFailureUnknownStatus(s) == [s EXCEPT !.status = "terminal_failure"]

PermanentFailure(s) == [s EXCEPT !.status = "failed"]

\* customers.create under the key billing:customer:{principal}: Stripe
\* replays the customer it created for a key it remembers.
CreateCustomerUnkeyed(o) == stripeCust[o] + 1

CreateCustomer(o) == IF keyed[o] THEN stripeCust[o] ELSE stripeCust[o] + 1

CustomerCreated(o) ==
  /\ stripeCust' = [stripeCust EXCEPT ![o] = CreateCustomer(o)]
  /\ keyed' = [keyed EXCEPT ![o] = TRUE]
  /\ UNCHANGED lapsed

\* Stripe forgets the key of an org.  No session lives that long, and of an org
\* that billing has booked nobody uses the key again.
CustomerKeyLapses(o) ==
  /\ keyed[o] /\ customers[o] = 0 /\ \A q \in Orgs : lapsed[q] < MaxLapses
  /\ pc \in {"idle", "row"} /\ link[o] = 0
  /\ keyed' = [keyed EXCEPT ![o] = FALSE]
  /\ lapsed' = [lapsed EXCEPT ![o] = @ + 1]
  /\ UNCHANGED <<outbox, customers, stripeCust, meter, link, pc, batch, sess, crashes>>

\* create_or_get_stripe_customer when the org has no local row: the call is
\* applied or not, and its answer arrives or not.
ResolveCustomerIgnoringFailure ==
  /\ pc = "resolve"
  /\ LET o == OrgOf[sess.row] IN
     \/ /\ CustomerCreated(o)
        /\ sess' = [sess EXCEPT !.customer = CreateCustomer(o), !.added = TRUE]
     \/ UNCHANGED <<stripeCustomers, sess>>
  /\ pc' = "report"
  /\ UNCHANGED <<outbox, customers, meter, link, batch, crashes>>

ResolveCustomer ==
  /\ pc = "resolve"
  /\ LET o == OrgOf[sess.row] IN
     \/ /\ CustomerCreated(o)
        /\ sess' = [sess EXCEPT !.customer = CreateCustomer(o), !.added = TRUE]
        /\ pc' = "report"
     \/ /\ CustomerCreated(o) \/ UNCHANGED stripeCustomers
        /\ sess' = TransientFailure(sess, FALSE)
        /\ pc' = "commit"
     \/ /\ sess' = PermanentFailure(sess)
        /\ pc' = "commit"
        /\ UNCHANGED stripeCustomers
  /\ UNCHANGED <<outbox, customers, meter, link, batch, crashes>>

\* meter_events.create under the key billing:{request_id}:{attempts}.
ReportedWithFreshKey(n) ==
  meter \cup {[row |-> sess.row, key |-> n + Cardinality(Keys(sess.row)),
               customer |-> sess.customer]}

ReportedWith(n) ==
  IF n \in Keys(sess.row) THEN meter
  ELSE meter \cup {[row |-> sess.row, key |-> n, customer |-> sess.customer]}

ReportUsageTimeoutAsSent ==
  /\ pc = "report"
  /\ LET s == [sess EXCEPT !.attempts = @ + 1] IN
     /\ meter' \in {meter, ReportedWith(s.attempts)}
     /\ sess' \in {[s EXCEPT !.status = "sent"], PermanentFailure(s)}
  /\ pc' = "commit"
  /\ UNCHANGED <<outbox, customers, stripeCustomers, link, batch, crashes>>

\* Stripe refuses a key it has applied for another customer.
AcceptsReport(n) ==
  \A m \in meter : m.row = sess.row /\ m.key = n => m.customer = sess.customer

\* attempts is incremented before the call.
ReportUsage ==
  /\ pc = "report"
  /\ LET s == [sess EXCEPT !.attempts = @ + 1] IN
     \/ /\ AcceptsReport(s.attempts)
        /\ meter' = ReportedWith(s.attempts)
        /\ sess' = [s EXCEPT !.status = "sent"]
     \/ /\ meter' \in {meter, ReportedWith(s.attempts)}
        /\ sess' = TransientFailure(s, TRUE)
     \/ /\ sess' = PermanentFailure(s)
        /\ UNCHANGED meter
  /\ pc' = "commit"
  /\ UNCHANGED <<outbox, customers, stripeCustomers, link, batch, crashes>>

\* UNIQUE(principal) and NOT NULL on stripe_customers.principal.
InsertRefused ==
  /\ sess.added
  /\ OrgOf[sess.row] = NullOrg \/ customers[OrgOf[sess.row]] # 0

\* The single trailing commit of the row's session.
CommitRow ==
  /\ pc = "commit" /\ ~InsertRefused
  /\ outbox' = [outbox EXCEPT ![sess.row] =
       [status |-> sess.status, attempts |-> sess.attempts, due |-> sess.due]]
  /\ customers' = IF sess.added
                  THEN [customers EXCEPT ![OrgOf[sess.row]] = sess.customer]
                  ELSE customers
  /\ batch' = batch \ {sess.row}
  /\ pc' = "row"
  /\ sess' = NoSession
  /\ UNCHANGED <<stripeVars, link, crashes>>

\* An exception leaves _process_row: the session is gone, run_forever logs
\* and sleeps, the rest of the batch waits for the next poll.
AbortCycle ==
  /\ pc' = "idle" /\ batch' = {} /\ sess' = NoSession

CommitRefused ==
  /\ pc = "commit" /\ InsertRefused
  /\ AbortCycle
  /\ UNCHANGED <<outbox, customers, stripeVars, link, crashes>>

\* A database fault in the cycle (the endpoint's open sessions survive).
DatabaseFault ==
  /\ pc # "idle" /\ crashes < MaxCrashes
  /\ crashes' = crashes + 1
  /\ AbortCycle
  /\ UNCHANGED <<outbox, customers, stripeVars, link>>

\* The process dies, or stop() cancels the task: every open session is gone.
Crash ==
  /\ crashes < MaxCrashes
  /\ crashes' = crashes + 1
  /\ AbortCycle
  /\ link' = [o \in Orgs |-> 0]
  /\ UNCHANGED <<outbox, customers, stripeVars>>

\* The internal subscription endpoint resolves the same customer in a session
\* of its own: the look-up and the Stripe call, then the commit, which the
\* UNIQUE constraint refuses (500) when the reporter's came first.
EndpointResolve(o) ==
  /\ o # NullOrg /\ customers[o] = 0 /\ link[o] = 0
  /\ CustomerCreated(o)
  /\ link' = [link EXCEPT ![o] = CreateCustomer(o)]
  /\ UNCHANGED <<outbox, customers, meter, pc, batch, sess, crashes>>

EndpointCommit(o) ==
  /\ link[o] # 0
  /\ customers' = IF customers[o] = 0
                  THEN [customers EXCEPT ![o] = link[o]] ELSE customers
  /\ link' = [link EXCEPT ![o] = 0]
  /\ UNCHANGED <<outbox, stripeVars, pc, batch, sess, crashes>>

Reporter ==
  Poll \/ EndCycle \/ LoadRow \/ ResolveCustomer \/ ReportUsage \/ CommitRow \/ CommitRefused

Next ==
  \/ Reporter \/ DatabaseFault \/ Crash
  \/ \E r \in Rows : Enqueue(r) \/ BackoffElapses(r)
  \/ \E o \in Orgs : EndpointResolve(o) \/ EndpointCommit(o) \/ CustomerKeyLapses(o)

Spec == Init /\ [][Next]_vars

\* run_forever loops while the process lives and the clock advances; the
\* endpoint's requests and the outbox's writer are under no obligation.
FairSpec == Spec /\ WF_vars(Reporter) /\ \A r \in Rows : WF_vars(BackoffElapses(r))

-----------------------------------------------------------------------------
(* Properties *)

\* A "sent" row proves correct billing attribution and not merely delivery
\* (reporter.py:26-29): Stripe holds the meter event of the row's last attempt,
\* and it names the very customer billing has committed for the row's org.
SentIsAttributed ==
  \A r \in Rows : outbox[r].status = "sent" =>
    /\ customers[OrgOf[r]] # 0
    /\ [row |-> r, key |-> outbox[r].attempts, customer |-> customers[OrgOf[r]]] \in meter

\* The reporter and the subscription endpoint race to resolve the same org,
\* and either may crash between Stripe's create and its commit; still two open
\* sessions hold the same customer of the org, the one that is booked, and a
\* second one is only ever made of an org whose key Stripe forgot before
\* billing had booked the first.
OneCustomerPerOrg ==
  \A o \in Orgs :
    /\ stripeCust[o] <= 1 + lapsed[o]
    /\ customers[o] \in {0, stripeCust[o]}
    /\ link[o] \in {0, stripeCust[o]}
    /\ pc \in {"report", "commit"} /\ OrgOf[sess.row] = o => sess.customer \in {0, stripeCust[o]}

\* "At most one Stripe Customer is ever created per org" (models.py:72-73).
EverOneCustomer == \A o \in Orgs \ {NullOrg} : stripeCust[o] <= 1

\* Whatever fails, is lost or crashes, Stripe never holds more than
\* reporter_max_attempts meter events of one request: no crash mints a key
\* outside the numbered attempts.
BoundedReports == \A r \in Rows : Keys(r) \subseteq 1..MaxAttempts

\* A second meter event of the same request is only ever created after the
\* answer to every earlier one was booked as a transient failure: a crash or
\* database fault between the Stripe call and the commit replays the same
\* key and bills nothing twice.
CrashNeverDoubleBills ==
  [][\A m \in meter' \ meter : \A k \in Keys(m.row) : k <= outbox[m.row].attempts]_vars

\* The reporter implements the promise of UsageReporting.
Abstract == INSTANCE UsageReporting WITH
  status <- [r \in Rows |-> outbox[r].status],
  recorded <- [r \in Rows |-> Keys(r)]

ImplementsUsageReporting == Abstract!Spec

\* Every pending row is eventually sent or failed (the outbox lifecycle of
\* reporter.py:6-13): backoff, batch limit and aborted cycles starve no row.
EveryRowSettles ==
  \A r \in Rows : outbox[r].status = "pending" ~> outbox[r].status \in {"sent", "failed"}

\* What reporter.py:15-18 says of the idempotency keys: neither the reporter's
\* own retry nor a network retry can report a request twice.
NeverDoubleReports == \A r \in Rows : Cardinality(Keys(r)) <= 1
=============================================================================
