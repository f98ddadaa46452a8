-------------------------- MODULE BillingProofs ---------------------------
(***************************************************************************)
(* Proofs about the two Stripe modules of the billing service, for every   *)
(* number of rows, requests and events, every set of orgs and prices, and  *)
(* any number of faults.                                                   *)
(*                                                                         *)
(* None of the safety properties is inductive.  For the reporter, IInv     *)
(* adds how the keys Stripe has applied follow the committed attempt       *)
(* counts (KeysFollow), that pending rows are below the ceiling, that      *)
(* every customer id in flight is the one Stripe created, and what the     *)
(* open session may hold at each point of _process_row (SessionInv).  For  *)
(* subscriptions, LinkInv adds what the open sessions may write and, by    *)
(* how much requests have overlapped, what they must have read.            *)
(***************************************************************************)
EXTENDS StripeReporter, StripeSubscriptions, FiniteSetTheorems, SequenceTheorems, TLAPS

CustomersInv ==
  \A o \in Orgs :
    /\ stripeCust[o] <= 1 + lapsed[o]
    /\ ~keyed[o] => stripeCust[o] <= lapsed[o]
    /\ keyed[o] => stripeCust[o] # 0
    /\ customers[o] \in {0, stripeCust[o]}
    /\ link[o] \in {0, stripeCust[o]}
    /\ customers[o] # 0 \/ link[o] # 0 => keyed[o]

PendingInv ==
  \A r \in Rows :
    /\ outbox[r].status = "absent" => outbox[r].attempts = 0
    /\ outbox[r].status = "pending" => outbox[r].attempts < MaxAttempts

\* An applied key is never beyond the attempt after the committed ones.
KeysFollow ==
  \A m \in meter :
    /\ m.key \in 1..MaxAttempts
    /\ m.key <= outbox[m.row].attempts + 1
    /\ outbox[m.row].status # "absent"

SessionInv ==
  pc \in {"resolve", "report", "commit"} =>
    LET r == sess.row  o == OrgOf[sess.row]  a == outbox[sess.row].attempts IN
    /\ outbox[r].status = "pending"
    /\ sess.customer \in {0, stripeCust[o]}
    /\ sess.customer # 0 => keyed[o]
    /\ sess.added => sess.customer # 0
    /\ pc \in {"resolve", "report"} => sess.attempts = a /\ sess.status = "pending"
    /\ pc = "resolve" => ~sess.added
    /\ pc = "report" => sess.customer # 0 /\ (sess.added \/ customers[o] # 0)
    /\ pc = "commit" =>
         /\ sess.attempts \in {a, a + 1}
         /\ sess.status \in {"pending", "sent", "failed"}
         /\ sess.status = "pending" => sess.attempts = a + 1 /\ sess.attempts < MaxAttempts
         /\ sess.status = "sent" =>
              /\ sess.attempts = a + 1
              /\ sess.customer # 0 /\ (sess.added \/ customers[o] # 0)
              /\ [row |-> r, key |-> sess.attempts, customer |-> sess.customer] \in meter

IInv ==
  /\ TypeOK
  /\ CustomersInv
  /\ PendingInv
  /\ KeysFollow
  /\ SentIsAttributed
  /\ SessionInv

-----------------------------------------------------------------------------

\* What the two failure helpers do to the open session.
LEMMA TransientFacts ==
  ASSUME NEW s \in Session, NEW b \in BOOLEAN
  PROVE  /\ TransientFailure(s, b) \in Session
         /\ TransientFailure(s, b).row = s.row
         /\ TransientFailure(s, b).customer = s.customer
         /\ TransientFailure(s, b).added = s.added
         /\ TransientFailure(s, b).attempts = IF b THEN s.attempts ELSE s.attempts + 1
         /\ TransientFailure(s, b).status \in {s.status, "failed"}
         /\ TransientFailure(s, b).status # "failed" =>
              TransientFailure(s, b).attempts < MaxAttempts
<1> DEFINE n == IF b THEN s.attempts ELSE s.attempts + 1
<1>1. n \in Nat
  BY DEF Session
<1>2. CASE n >= MaxAttempts
  <2>1. TransientFailure(s, b) = [s EXCEPT !.attempts = n, !.status = "failed"]
    BY <1>2 DEF TransientFailure
  <2> HIDE DEF n
  <2>2. /\ TransientFailure(s, b) \in Session
        /\ TransientFailure(s, b).row = s.row
        /\ TransientFailure(s, b).customer = s.customer
        /\ TransientFailure(s, b).added = s.added
        /\ TransientFailure(s, b).attempts = n
        /\ TransientFailure(s, b).status = "failed"
    BY <1>1, <2>1 DEF Session, Status
  <2>. QED  BY <2>2 DEF n
<1>3. CASE ~(n >= MaxAttempts)
  <2>1. TransientFailure(s, b) = [s EXCEPT !.attempts = n, !.due = FALSE]
    BY <1>3 DEF TransientFailure
  <2>2. n < MaxAttempts
    BY <1>1, <1>3, ReporterAssumption
  <2> HIDE DEF n
  <2>3. /\ TransientFailure(s, b) \in Session
        /\ TransientFailure(s, b).row = s.row
        /\ TransientFailure(s, b).customer = s.customer
        /\ TransientFailure(s, b).added = s.added
        /\ TransientFailure(s, b).attempts = n
        /\ TransientFailure(s, b).status = s.status
    BY <1>1, <2>1 DEF Session
  <2>. QED  BY <2>2, <2>3 DEF n
<1>. QED  BY <1>2, <1>3

LEMMA PermanentFacts ==
  ASSUME NEW s \in Session
  PROVE  /\ PermanentFailure(s) \in Session
         /\ PermanentFailure(s).row = s.row
         /\ PermanentFailure(s).customer = s.customer
         /\ PermanentFailure(s).added = s.added
         /\ PermanentFailure(s).attempts = s.attempts
         /\ PermanentFailure(s).status = "failed"
  BY DEF PermanentFailure, Session, Status

LEMMA InitIInv == Init => IInv
  BY ReporterAssumption
  DEF Init, IInv, TypeOK, CustomersInv, PendingInv, KeysFollow, SentIsAttributed,
      SessionInv, Row, Status, CustomerId, NoSession

LEMMA EnqueueIInv ==
  ASSUME IInv, NEW r \in Rows, Enqueue(r)
  PROVE  IInv'
<1> USE ReporterAssumption
<1>1. TypeOK'
  BY DEF IInv, TypeOK, Enqueue, stripeVars, Row, Status
<1>2. CustomersInv'
  BY DEF IInv, CustomersInv, Enqueue, stripeVars
<1>3. PendingInv'
  BY DEF IInv, TypeOK, PendingInv, Enqueue, Row
<1>4. KeysFollow'
  BY DEF IInv, TypeOK, KeysFollow, Enqueue, stripeVars, Row
<1>5. SentIsAttributed'
  BY DEF IInv, TypeOK, SentIsAttributed, Enqueue, stripeVars, Row
<1>6. SessionInv'
  BY DEF IInv, TypeOK, SessionInv, Enqueue, stripeVars, Row, Session
<1>. QED  BY <1>1, <1>2, <1>3, <1>4, <1>5, <1>6 DEF IInv

LEMMA BackoffElapsesIInv ==
  ASSUME IInv, NEW r \in Rows, BackoffElapses(r)
  PROVE  IInv'
<1> USE ReporterAssumption
<1>1. TypeOK'
  BY DEF IInv, TypeOK, BackoffElapses, stripeVars, Row, Status
<1>2. CustomersInv'
  BY DEF IInv, TypeOK, CustomersInv, BackoffElapses, stripeVars, Row, Status, Session,
     MeterEvent, CustomerId
<1>3. PendingInv'
  BY DEF IInv, TypeOK, PendingInv, BackoffElapses, stripeVars, Row, Status, Session,
     MeterEvent, CustomerId
<1>4. KeysFollow'
  BY DEF IInv, TypeOK, KeysFollow, BackoffElapses, stripeVars, Row, Status, Session,
     MeterEvent, CustomerId
<1>5. SentIsAttributed'
  BY DEF IInv, TypeOK, SentIsAttributed, BackoffElapses, stripeVars, Row, Status, Session,
     MeterEvent, CustomerId
<1>6. SessionInv'
  BY DEF IInv, TypeOK, SessionInv, BackoffElapses, stripeVars, Row, Status, Session,
     MeterEvent, CustomerId
<1>. QED  BY <1>1, <1>2, <1>3, <1>4, <1>5, <1>6 DEF IInv

LEMMA PollIInv ==
  ASSUME IInv, Poll
  PROVE  IInv'
<1> USE ReporterAssumption
<1>1. TypeOK'
  BY DEF IInv, TypeOK, CustomersInv, SessionInv, Poll, DueRows, stripeVars, Row, Status,
     Session, MeterEvent, CustomerId
<1>2. CustomersInv'
  BY DEF IInv, TypeOK, CustomersInv, Poll, DueRows, stripeVars, Row, Status, Session,
     MeterEvent, CustomerId
<1>3. PendingInv'
  BY DEF IInv, TypeOK, PendingInv, Poll, DueRows, stripeVars, Row, Status, Session, MeterEvent,
     CustomerId
<1>4. KeysFollow'
  BY DEF IInv, TypeOK, KeysFollow, Poll, DueRows, stripeVars, Row, Status, Session, MeterEvent,
     CustomerId
<1>5. SentIsAttributed'
  BY DEF IInv, TypeOK, SentIsAttributed, Poll, DueRows, stripeVars, Row, Status, Session,
     MeterEvent, CustomerId
<1>6. SessionInv'
  BY DEF IInv, TypeOK, SessionInv, Poll, DueRows, stripeVars, Row, Status, Session, MeterEvent,
     CustomerId
<1>. QED  BY <1>1, <1>2, <1>3, <1>4, <1>5, <1>6 DEF IInv

LEMMA EndCycleIInv ==
  ASSUME IInv, EndCycle
  PROVE  IInv'
<1> USE ReporterAssumption
<1>1. TypeOK'
  BY DEF IInv, TypeOK, CustomersInv, SessionInv, EndCycle, stripeVars, Row, Status, Session,
     MeterEvent, CustomerId
<1>2. CustomersInv'
  BY DEF IInv, TypeOK, CustomersInv, EndCycle, stripeVars, Row, Status, Session, MeterEvent,
     CustomerId
<1>3. PendingInv'
  BY DEF IInv, TypeOK, PendingInv, EndCycle, stripeVars, Row, Status, Session, MeterEvent,
     CustomerId
<1>4. KeysFollow'
  BY DEF IInv, TypeOK, KeysFollow, EndCycle, stripeVars, Row, Status, Session, MeterEvent,
     CustomerId
<1>5. SentIsAttributed'
  BY DEF IInv, TypeOK, SentIsAttributed, EndCycle, stripeVars, Row, Status, Session,
     MeterEvent, CustomerId
<1>6. SessionInv'
  BY DEF IInv, TypeOK, SessionInv, EndCycle, stripeVars, Row, Status, Session, MeterEvent,
     CustomerId
<1>. QED  BY <1>1, <1>2, <1>3, <1>4, <1>5, <1>6 DEF IInv

LEMMA LoadRowIInv ==
  ASSUME IInv, LoadRow
  PROVE  IInv'
<1> USE ReporterAssumption
<1>1. PICK r \in batch :
        IF outbox[r].status # "pending"
        THEN batch' = batch \ {r} /\ UNCHANGED <<pc, sess>>
        ELSE /\ sess' = [row |-> r, status |-> "pending",
                         attempts |-> outbox[r].attempts, due |-> TRUE,
                         customer |-> customers[OrgOf[r]], added |-> FALSE]
             /\ pc' = IF customers[OrgOf[r]] = 0 THEN "resolve" ELSE "report"
             /\ UNCHANGED batch
  BY DEF LoadRow
<1>2. /\ UNCHANGED <<outbox, customers, stripeCust, keyed, lapsed, meter, link, crashes>>
      /\ pc = "row"
  BY DEF LoadRow, stripeVars
<1>3. r \in Rows /\ OrgOf[r] \in Orgs /\ outbox[r] \in Row /\ customers[OrgOf[r]] \in Nat
  BY <1>1 DEF IInv, TypeOK, CustomerId
<1>4. outbox[r].status = "pending" => sess' \in Session
  <2>. DEFINE f == [row |-> r, status |-> "pending", attempts |-> outbox[r].attempts,
                    due |-> TRUE, customer |-> customers[OrgOf[r]], added |-> FALSE]
  <2>1. outbox[r].attempts \in Nat
    BY <1>3 DEF Row
  <2>2. f \in Session
    BY <1>3, <2>1 DEF Session, Status, CustomerId
  <2>3. outbox[r].status = "pending" => sess' = f
    BY <1>1
  <2>. QED  BY <2>2, <2>3
<1>5. TypeOK'
  BY <1>1, <1>2, <1>4 DEF IInv, TypeOK
<1>6. CustomersInv' /\ PendingInv' /\ KeysFollow' /\ SentIsAttributed'
  BY <1>2 DEF IInv, CustomersInv, PendingInv, KeysFollow, SentIsAttributed
<1>7. SessionInv'
  <2>1. CASE outbox[r].status # "pending"
    BY <1>1, <1>2, <2>1 DEF SessionInv
  <2>2. CASE outbox[r].status = "pending"
    <3>1. /\ sess'.row = r /\ sess'.status = "pending" /\ sess'.attempts = outbox[r].attempts
          /\ sess'.customer = customers[OrgOf[r]] /\ ~sess'.added
          /\ pc' \in {"resolve", "report"}
          /\ pc' = "report" => customers[OrgOf[r]] # 0
      BY <1>1, <2>2
    <3>. QED  BY <1>2, <1>3, <2>2, <3>1 DEF SessionInv, IInv, CustomersInv
  <2>. QED  BY <2>1, <2>2
<1>. QED  BY <1>5, <1>6, <1>7 DEF IInv

LEMMA ResolveCustomerIInv ==
  ASSUME IInv, ResolveCustomer
  PROVE  IInv'
<1> USE ReporterAssumption
<1> DEFINE o == OrgOf[sess.row]
<1>1. /\ UNCHANGED <<outbox, customers, meter, link, batch, crashes>>
      /\ pc = "resolve" /\ pc' \in {"report", "commit"}
  BY DEF ResolveCustomer
<1>2. /\ sess \in Session /\ sess.row \in Rows /\ o \in Orgs
      /\ outbox[sess.row].status = "pending" /\ sess.attempts = outbox[sess.row].attempts
      /\ sess.status = "pending" /\ ~sess.added
      /\ sess.customer \in {0, stripeCust[o]} /\ (sess.customer # 0 => keyed[o])
      /\ stripeCust[o] \in Nat
  BY <1>1 DEF IInv, TypeOK, SessionInv, Session, CustomerId
<1> DEFINE c == CreateCustomer(o)
<1>3. c \in Nat /\ c # 0
  BY <1>2 DEF CreateCustomer, IInv, CustomersInv
<1>4. CustomerCreated(o) \/ UNCHANGED stripeCustomers
  BY DEF ResolveCustomer
<1>5. \/ /\ sess' = [sess EXCEPT !.customer = c, !.added = TRUE]
         /\ pc' = "report" /\ CustomerCreated(o)
      \/ /\ sess' \in {TransientFailure(sess, FALSE), PermanentFailure(sess)}
         /\ pc' = "commit"
  BY DEF ResolveCustomer
<1> HIDE DEF c
<1>6. sess' \in Session
  <2>1. [sess EXCEPT !.customer = c, !.added = TRUE] \in Session
    BY <1>2, <1>3 DEF Session, CustomerId
  <2>. QED  BY <1>2, <1>5, <2>1, TransientFacts, PermanentFacts
<1>7. stripeCust' \in [Orgs -> CustomerId] /\ keyed' \in [Orgs -> BOOLEAN] /\ lapsed' = lapsed
  <2>1. stripeCust \in [Orgs -> Nat] /\ keyed \in [Orgs -> BOOLEAN]
    BY DEF IInv, TypeOK, CustomerId
  <2>2. CASE CustomerCreated(o)
    BY <1>3, <2>1, <2>2 DEF CustomerId, CustomerCreated, c
  <2>3. CASE UNCHANGED stripeCustomers
    BY <2>1, <2>3 DEF CustomerId, stripeCustomers
  <2>. QED  BY <1>4, <2>2, <2>3
<1>8. /\ \A q \in Orgs : /\ keyed[q] => keyed'[q] /\ stripeCust'[q] = stripeCust[q]
                         /\ q # o => keyed'[q] = keyed[q] /\ stripeCust'[q] = stripeCust[q]
      /\ UNCHANGED stripeCustomers \/ (keyed'[o] /\ stripeCust'[o] = c)
      /\ CustomerCreated(o) => keyed'[o] /\ stripeCust'[o] = c
  BY <1>2, <1>4 DEF IInv, TypeOK, CustomerCreated, CreateCustomer, stripeCustomers, c
<1>9. TypeOK'
  BY <1>1, <1>6, <1>7 DEF IInv, TypeOK
<1>10. CustomersInv'
  <2>1. CASE UNCHANGED stripeCustomers
    BY <1>1, <2>1 DEF IInv, CustomersInv, stripeCustomers
  <2>2. CASE keyed'[o] /\ stripeCust'[o] = c
    <3>1. c <= 1 + lapsed[o]
      BY <1>2 DEF c, CreateCustomer, IInv, TypeOK, CustomersInv
    <3>2. customers[o] # 0 \/ link[o] # 0 => stripeCust'[o] = stripeCust[o]
      BY <1>2, <1>8 DEF IInv, CustomersInv
    <3> QED
      BY <1>1, <1>2, <1>3, <1>7, <1>8, <2>2, <3>1, <3>2 DEF IInv, CustomersInv
  <2> QED
    BY <1>8, <2>1, <2>2
<1>11. PendingInv' /\ SentIsAttributed'
  BY <1>1 DEF IInv, PendingInv, SentIsAttributed
<1>12. KeysFollow'
  BY <1>1 DEF IInv, KeysFollow
<1>13. SessionInv'
  <2>1. CASE sess' = [sess EXCEPT !.customer = c, !.added = TRUE] /\ pc' = "report"
             /\ CustomerCreated(o)
    <3>1. /\ sess'.row = sess.row /\ sess'.status = "pending" /\ sess'.attempts = sess.attempts
          /\ sess'.customer = c /\ sess'.added
      BY <1>2, <2>1 DEF Session
    <3>. QED  BY <1>1, <1>2, <1>3, <1>8, <2>1, <3>1 DEF SessionInv
  <2>2. CASE sess' \in {TransientFailure(sess, FALSE), PermanentFailure(sess)} /\ pc' = "commit"
    <3>1. /\ sess'.row = sess.row /\ sess'.customer = sess.customer /\ ~sess'.added
          /\ \/ sess'.status = "failed" /\ sess'.attempts = sess.attempts
             \/ /\ sess'.status \in {"pending", "failed"} /\ sess'.attempts = sess.attempts + 1
                /\ sess'.status # "failed" => sess'.attempts < MaxAttempts
      <4>1. CASE sess' = TransientFailure(sess, FALSE)
        <5>. DEFINE f == TransientFailure(sess, FALSE)
        <5>1. /\ f.row = sess.row /\ f.customer = sess.customer /\ f.added = sess.added
              /\ f.attempts = sess.attempts + 1
              /\ f.status \in {sess.status, "failed"}
              /\ f.status # "failed" => f.attempts < MaxAttempts
          BY <1>2, TransientFacts
        <5>. QED  BY <1>2, <4>1, <5>1
      <4>2. CASE sess' = PermanentFailure(sess)
        BY <1>2, <4>2, PermanentFacts
      <4>. QED  BY <2>2, <4>1, <4>2
    <3>2. sess.customer \in {0, stripeCust'[o]} /\ (sess.customer # 0 => keyed'[o])
      BY <1>2, <1>8
    <3>. QED  BY <1>1, <1>2, <2>2, <3>1, <3>2 DEF SessionInv
  <2>. QED  BY <1>5, <2>1, <2>2
<1>. QED  BY <1>9, <1>10, <1>11, <1>12, <1>13 DEF IInv

LEMMA ReportUsageIInv ==
  ASSUME IInv, ReportUsage
  PROVE  IInv'
<1> USE ReporterAssumption
<1> DEFINE o == OrgOf[sess.row]
           n == sess.attempts + 1
           t == [sess EXCEPT !.attempts = @ + 1]
           e == [row |-> sess.row, key |-> n, customer |-> sess.customer]
           held == meter \cup {e}
<1>1. /\ UNCHANGED <<outbox, customers, stripeCust, keyed, lapsed, link, batch, crashes>>
      /\ pc = "report" /\ pc' = "commit"
  BY DEF ReportUsage, stripeCustomers
<1>2. /\ sess \in Session /\ sess.row \in Rows /\ o \in Orgs
      /\ outbox[sess.row].status = "pending" /\ sess.attempts = outbox[sess.row].attempts
      /\ sess.status = "pending" /\ sess.customer # 0 /\ sess.customer \in Nat
      /\ sess.added \/ customers[o] # 0
      /\ sess.customer \in {0, stripeCust[o]} /\ keyed[o]
      /\ outbox[sess.row].attempts \in Nat
      /\ n \in 1..MaxAttempts
  BY <1>1 DEF IInv, TypeOK, SessionInv, CustomersInv, PendingInv, Session, Row, CustomerId
<1>3. /\ t \in Session /\ t.row = sess.row /\ t.customer = sess.customer /\ t.added = sess.added
      /\ t.attempts = n /\ t.status = "pending"
  BY <1>2 DEF Session
<1>4. ReportedWith(n) \in {meter, held} /\ (AcceptsReport(n) => ReportedWith(n) = held)
  <2>1. CASE n \in Keys(sess.row)
    <3>1. PICK m \in meter : m.row = sess.row /\ m.key = n
      BY <2>1 DEF Keys
    <3>2. ReportedWith(n) = meter
      BY <2>1 DEF ReportedWith
    <3>3. AcceptsReport(n) => m = e
      BY <3>1 DEF AcceptsReport, IInv, TypeOK, MeterEvent
    <3>. QED  BY <3>1, <3>2, <3>3
  <2>2. CASE n \notin Keys(sess.row)
    BY <1>2, <2>2 DEF ReportedWith
  <2>. QED  BY <2>1, <2>2
<1>5. \/ meter' = held /\ sess' = [t EXCEPT !.status = "sent"]
      \/ meter' \in {meter, held} /\ sess' = TransientFailure(t, TRUE)
      \/ meter' = meter /\ sess' = PermanentFailure(t)
  BY <1>3, <1>4 DEF ReportUsage
<1> HIDE DEF t, n, e
<1>6. /\ sess' \in Session
      /\ sess'.row = sess.row /\ sess'.customer = sess.customer /\ sess'.added = sess.added
      /\ sess'.attempts = n
      /\ sess'.status \in {"pending", "sent", "failed"}
      /\ sess'.status = "pending" => n < MaxAttempts
      /\ sess'.status = "sent" => e \in meter'
  <2>1. CASE meter' = meter \cup {e} /\ sess' = [t EXCEPT !.status = "sent"]
    BY <1>3, <2>1 DEF Session, Status
  <2>2. CASE sess' = TransientFailure(t, TRUE)
    BY <1>3, <2>2, TransientFacts
  <2>3. CASE sess' = PermanentFailure(t)
    BY <1>3, <2>3, PermanentFacts
  <2>. QED  BY <1>5, <2>1, <2>2, <2>3
<1>7. meter' \in {meter, meter \cup {e}} /\ e \in MeterEvent
  <2>1. n \in Nat
    BY <1>2
  <2>2. e \in MeterEvent
    BY <1>2, <2>1 DEF MeterEvent, CustomerId, e
  <2>. QED  BY <1>5, <2>2
<1>8. TypeOK'
  BY <1>1, <1>6, <1>7 DEF IInv, TypeOK
<1>9. CustomersInv' /\ PendingInv'
  BY <1>1 DEF IInv, CustomersInv, PendingInv
<1>10. KeysFollow'
  BY <1>1, <1>2, <1>7 DEF IInv, TypeOK, KeysFollow, MeterEvent, e, n
<1>11. SentIsAttributed'
  BY <1>1, <1>7 DEF IInv, SentIsAttributed
<1>12. SessionInv'
  BY <1>1, <1>2, <1>6 DEF SessionInv, e, n
<1>. QED  BY <1>8, <1>9, <1>10, <1>11, <1>12 DEF IInv

LEMMA CommitRowIInv ==
  ASSUME IInv, CommitRow
  PROVE  IInv'
<1> USE ReporterAssumption
<1> DEFINE q == sess.row
           o == OrgOf[q]
           written == [status |-> sess.status, attempts |-> sess.attempts, due |-> sess.due]
<1>1. /\ pc = "commit" /\ pc' = "row" /\ batch' = batch \ {q}
      /\ outbox' = [outbox EXCEPT ![q] = written]
      /\ UNCHANGED <<stripeCust, keyed, lapsed, meter, link, crashes>>
      /\ customers' = IF sess.added THEN [customers EXCEPT ![o] = sess.customer] ELSE customers
  BY DEF CommitRow, stripeVars
<1>2. /\ sess \in Session /\ q \in Rows /\ o \in Orgs
      /\ outbox[q].status = "pending" /\ outbox[q].attempts \in Nat
      /\ outbox[q].attempts < MaxAttempts
      /\ sess.customer \in {0, stripeCust[o]}
      /\ sess.attempts \in {outbox[q].attempts, outbox[q].attempts + 1}
      /\ sess.status \in {"pending", "sent", "failed"}
      /\ sess.status = "pending" => sess.attempts < MaxAttempts
      /\ sess.status = "sent" =>
           /\ sess.added \/ customers[o] # 0
           /\ sess.customer # 0
           /\ [row |-> q, key |-> sess.attempts, customer |-> sess.customer] \in meter
      /\ sess.added => sess.customer # 0 /\ keyed[o]
      /\ customers[o] \in {0, stripeCust[o]}
  BY <1>1 DEF IInv, TypeOK, SessionInv, CustomersInv, PendingInv, Session, Row
<1>3. written \in Row /\ written.status = sess.status /\ written.attempts = sess.attempts
  BY <1>2 DEF Row, Session
<1>4. /\ outbox'[q] = written
      /\ \A r \in Rows : r # q => outbox'[r] = outbox[r]
  BY <1>1, <1>2 DEF IInv, TypeOK
<1>5. \A p \in Orgs : \/ customers'[p] = customers[p]
                      \/ p = o /\ sess.added /\ customers'[p] = sess.customer
  BY <1>1, <1>2 DEF IInv, TypeOK
<1>6. sess.added => customers'[o] = sess.customer
  BY <1>1, <1>2 DEF IInv, TypeOK
<1> HIDE DEF written
<1>7. TypeOK'
  BY <1>1, <1>2, <1>3 DEF IInv, TypeOK, Session
<1>8. CustomersInv'
  BY <1>1, <1>2, <1>5 DEF IInv, CustomersInv
<1>9. PendingInv'
  BY <1>2, <1>3, <1>4 DEF IInv, PendingInv
<1>10. KeysFollow'
  BY <1>1, <1>2, <1>3, <1>4 DEF IInv, TypeOK, KeysFollow, MeterEvent
<1>11. SentIsAttributed'
  <2>1. ASSUME NEW r \in Rows, r # q, outbox'[r].status = "sent"
        PROVE  /\ customers'[OrgOf[r]] # 0
               /\ [row |-> r, key |-> outbox'[r].attempts, customer |-> customers'[OrgOf[r]]] \in meter'
    <3>1. /\ customers[OrgOf[r]] # 0
          /\ [row |-> r, key |-> outbox[r].attempts, customer |-> customers[OrgOf[r]]] \in meter
      BY <1>4, <2>1 DEF IInv, SentIsAttributed
    <3>2. OrgOf[r] \in Orgs
      OBVIOUS
    <3>3. customers'[OrgOf[r]] = customers[OrgOf[r]]
      BY <1>2, <1>5, <3>1, <3>2
    <3>. QED  BY <1>1, <1>4, <2>1, <3>1, <3>2, <3>3
  <2>2. ASSUME outbox'[q].status = "sent"
        PROVE  /\ customers'[o] # 0
               /\ [row |-> q, key |-> outbox'[q].attempts, customer |-> customers'[o]] \in meter'
    <3>1. sess.status = "sent" /\ outbox'[q].attempts = sess.attempts
      BY <1>3, <1>4, <2>2
    <3>2. customers'[o] = sess.customer
      BY <1>2, <1>5, <1>6, <3>1
    <3>. QED  BY <1>1, <1>2, <3>1, <3>2
  <2>. QED  BY <2>1, <2>2 DEF SentIsAttributed
<1>12. SessionInv'
  BY <1>1 DEF SessionInv
<1>. QED  BY <1>7, <1>8, <1>9, <1>10, <1>11, <1>12 DEF IInv

LEMMA CommitRefusedIInv ==
  ASSUME IInv, CommitRefused
  PROVE  IInv'
<1> USE ReporterAssumption
<1>1. TypeOK'
  BY DEF IInv, TypeOK, CustomersInv, SessionInv, CommitRefused, AbortCycle, NoSession,
     stripeVars, Row, Status, Session, MeterEvent, CustomerId
<1>2. CustomersInv'
  BY DEF IInv, TypeOK, CustomersInv, CommitRefused, AbortCycle, NoSession, stripeVars, Row,
     Status, Session, MeterEvent, CustomerId
<1>3. PendingInv'
  BY DEF IInv, TypeOK, PendingInv, CommitRefused, AbortCycle, NoSession, stripeVars, Row,
     Status, Session, MeterEvent, CustomerId
<1>4. KeysFollow'
  BY DEF IInv, TypeOK, KeysFollow, CommitRefused, AbortCycle, NoSession, stripeVars, Row,
     Status, Session, MeterEvent, CustomerId
<1>5. SentIsAttributed'
  BY DEF IInv, TypeOK, SentIsAttributed, CommitRefused, AbortCycle, NoSession, stripeVars, Row,
     Status, Session, MeterEvent, CustomerId
<1>6. SessionInv'
  BY DEF IInv, TypeOK, SessionInv, CommitRefused, AbortCycle, NoSession, stripeVars, Row,
     Status, Session, MeterEvent, CustomerId
<1>. QED  BY <1>1, <1>2, <1>3, <1>4, <1>5, <1>6 DEF IInv

LEMMA DatabaseFaultIInv ==
  ASSUME IInv, DatabaseFault
  PROVE  IInv'
<1> USE ReporterAssumption
<1>1. TypeOK'
  BY DEF IInv, TypeOK, CustomersInv, SessionInv, DatabaseFault, AbortCycle, NoSession,
     stripeVars, Row, Status, Session, MeterEvent, CustomerId
<1>2. CustomersInv'
  BY DEF IInv, TypeOK, CustomersInv, DatabaseFault, AbortCycle, NoSession, stripeVars, Row,
     Status, Session, MeterEvent, CustomerId
<1>3. PendingInv'
  BY DEF IInv, TypeOK, PendingInv, DatabaseFault, AbortCycle, NoSession, stripeVars, Row,
     Status, Session, MeterEvent, CustomerId
<1>4. KeysFollow'
  BY DEF IInv, TypeOK, KeysFollow, DatabaseFault, AbortCycle, NoSession, stripeVars, Row,
     Status, Session, MeterEvent, CustomerId
<1>5. SentIsAttributed'
  BY DEF IInv, TypeOK, SentIsAttributed, DatabaseFault, AbortCycle, NoSession, stripeVars, Row,
     Status, Session, MeterEvent, CustomerId
<1>6. SessionInv'
  BY DEF IInv, TypeOK, SessionInv, DatabaseFault, AbortCycle, NoSession, stripeVars, Row,
     Status, Session, MeterEvent, CustomerId
<1>. QED  BY <1>1, <1>2, <1>3, <1>4, <1>5, <1>6 DEF IInv

LEMMA CrashIInv ==
  ASSUME IInv, Crash
  PROVE  IInv'
<1> USE ReporterAssumption
<1>1. TypeOK'
  BY DEF IInv, TypeOK, CustomersInv, SessionInv, Crash, AbortCycle, NoSession, stripeVars, Row,
     Status, Session, MeterEvent, CustomerId
<1>2. CustomersInv'
  BY DEF IInv, TypeOK, CustomersInv, Crash, AbortCycle, NoSession, stripeVars, Row, Status,
     Session, MeterEvent, CustomerId
<1>3. PendingInv'
  BY DEF IInv, TypeOK, PendingInv, Crash, AbortCycle, NoSession, stripeVars, Row, Status,
     Session, MeterEvent, CustomerId
<1>4. KeysFollow'
  BY DEF IInv, TypeOK, KeysFollow, Crash, AbortCycle, NoSession, stripeVars, Row, Status,
     Session, MeterEvent, CustomerId
<1>5. SentIsAttributed'
  BY DEF IInv, TypeOK, SentIsAttributed, Crash, AbortCycle, NoSession, stripeVars, Row, Status,
     Session, MeterEvent, CustomerId
<1>6. SessionInv'
  BY DEF IInv, TypeOK, SessionInv, Crash, AbortCycle, NoSession, stripeVars, Row, Status,
     Session, MeterEvent, CustomerId
<1>. QED  BY <1>1, <1>2, <1>3, <1>4, <1>5, <1>6 DEF IInv

LEMMA EndpointResolveIInv ==
  ASSUME IInv, NEW o \in Orgs, EndpointResolve(o)
  PROVE  IInv'
<1>1. /\ customers[o] = 0 /\ link[o] = 0
      /\ stripeCust' = [stripeCust EXCEPT ![o] = CreateCustomer(o)]
      /\ keyed' = [keyed EXCEPT ![o] = TRUE] /\ lapsed' = lapsed
      /\ link' = [link EXCEPT ![o] = CreateCustomer(o)]
      /\ UNCHANGED <<outbox, customers, meter, pc, batch, sess, crashes>>
  BY DEF EndpointResolve, CustomerCreated
<1>2. TypeOK /\ CustomersInv /\ SessionInv
  BY DEF IInv
<1>3. /\ CreateCustomer(o) \in Nat /\ CreateCustomer(o) # 0
      /\ CreateCustomer(o) <= 1 + lapsed[o]
      /\ keyed[o] => CreateCustomer(o) = stripeCust[o]
  BY <1>2 DEF CreateCustomer, TypeOK, CustomersInv, CustomerId
<1>4. TypeOK'
  BY <1>1, <1>2, <1>3 DEF TypeOK, CustomerId
<1>5. CustomersInv'
  BY <1>1, <1>2, <1>3 DEF TypeOK, CustomersInv
<1>6. \A q \in Orgs : keyed[q] => keyed'[q] /\ stripeCust'[q] = stripeCust[q]
  BY <1>1, <1>2, <1>3 DEF TypeOK
<1>7. PendingInv' /\ KeysFollow' /\ SentIsAttributed'
  BY <1>1 DEF IInv, PendingInv, KeysFollow, SentIsAttributed
<1>8. SessionInv'
  <2>1. ASSUME pc \in {"resolve", "report", "commit"} PROVE OrgOf[sess.row] \in Orgs
    BY ReporterAssumption, <1>2, <2>1 DEF TypeOK, Session
  <2>. QED  BY <1>1, <1>2, <1>6, <2>1 DEF SessionInv
<1>. QED  BY <1>4, <1>5, <1>7, <1>8 DEF IInv

LEMMA EndpointCommitIInv ==
  ASSUME IInv, NEW o \in Orgs, EndpointCommit(o)
  PROVE  IInv'
<1>1. /\ link[o] # 0
      /\ customers' = IF customers[o] = 0 THEN [customers EXCEPT ![o] = link[o]] ELSE customers
      /\ link' = [link EXCEPT ![o] = 0]
      /\ UNCHANGED <<outbox, stripeCust, keyed, lapsed, meter, pc, batch, sess, crashes>>
  BY DEF EndpointCommit, stripeVars
<1>2. TypeOK /\ CustomersInv /\ SessionInv
  BY DEF IInv
<1>3. TypeOK'
  BY <1>1, <1>2 DEF TypeOK, CustomerId
<1>4. CustomersInv'
  BY <1>1, <1>2 DEF TypeOK, CustomersInv
<1>5. \A q \in Orgs : customers[q] # 0 => customers'[q] = customers[q]
  BY <1>1, <1>2 DEF TypeOK
<1>6. PendingInv' /\ KeysFollow'
  BY <1>1 DEF IInv, PendingInv, KeysFollow
<1>7. SentIsAttributed'
  <2>1. ASSUME NEW r \in Rows, outbox[r].status = "sent"
        PROVE  /\ customers'[OrgOf[r]] # 0
               /\ [row |-> r, key |-> outbox[r].attempts, customer |-> customers'[OrgOf[r]]] \in meter
    <3>1. /\ customers[OrgOf[r]] # 0
          /\ [row |-> r, key |-> outbox[r].attempts, customer |-> customers[OrgOf[r]]] \in meter
      BY <2>1 DEF IInv, SentIsAttributed
    <3>2. OrgOf[r] \in Orgs
      BY ReporterAssumption
    <3>3. customers'[OrgOf[r]] = customers[OrgOf[r]]
      BY <1>5, <3>1, <3>2
    <3>. QED  BY <3>1, <3>3
  <2>. QED  BY <1>1, <2>1 DEF SentIsAttributed
<1>8. SessionInv'
  <2>1. ASSUME pc \in {"resolve", "report", "commit"} PROVE OrgOf[sess.row] \in Orgs
    BY ReporterAssumption, <1>2, <2>1 DEF TypeOK, Session
  <2>. QED  BY <1>1, <1>2, <1>5, <2>1 DEF SessionInv
<1>. QED  BY <1>3, <1>4, <1>6, <1>7, <1>8 DEF IInv

LEMMA CustomerKeyLapsesIInv ==
  ASSUME IInv, NEW o \in Orgs, CustomerKeyLapses(o)
  PROVE  IInv'
<1>1. /\ keyed[o] /\ customers[o] = 0 /\ link[o] = 0 /\ pc \in {"idle", "row"}
      /\ keyed' = [keyed EXCEPT ![o] = FALSE]
      /\ lapsed' = [lapsed EXCEPT ![o] = @ + 1]
      /\ UNCHANGED <<outbox, customers, stripeCust, meter, link, pc, batch, sess, crashes>>
  BY DEF CustomerKeyLapses
<1>2. TypeOK /\ CustomersInv
  BY DEF IInv
<1>3. TypeOK'
  BY <1>1, <1>2 DEF TypeOK
<1>4. CustomersInv'
  BY <1>1, <1>2 DEF TypeOK, CustomersInv, CustomerId
<1>5. PendingInv' /\ KeysFollow' /\ SentIsAttributed'
  BY <1>1 DEF IInv, PendingInv, KeysFollow, SentIsAttributed
<1>6. SessionInv'
  BY <1>1 DEF SessionInv
<1>. QED  BY <1>3, <1>4, <1>5, <1>6 DEF IInv

-----------------------------------------------------------------------------

LEMMA NextIInv == IInv /\ [Next]_vars => IInv'
<1>. SUFFICES ASSUME IInv, [Next]_vars
              PROVE  IInv'
  OBVIOUS
<1>1. CASE Poll               BY <1>1, PollIInv
<1>2. CASE EndCycle           BY <1>2, EndCycleIInv
<1>3. CASE LoadRow            BY <1>3, LoadRowIInv
<1>4. CASE ResolveCustomer    BY <1>4, ResolveCustomerIInv
<1>5. CASE ReportUsage        BY <1>5, ReportUsageIInv
<1>6. CASE CommitRow          BY <1>6, CommitRowIInv
<1>7. CASE CommitRefused      BY <1>7, CommitRefusedIInv
<1>8. CASE DatabaseFault      BY <1>8, DatabaseFaultIInv
<1>9. CASE Crash              BY <1>9, CrashIInv
<1>10. CASE \E r \in Rows : Enqueue(r)
  BY <1>10, EnqueueIInv
<1>11. CASE \E r \in Rows : BackoffElapses(r)
  BY <1>11, BackoffElapsesIInv
<1>12. CASE \E o \in Orgs : EndpointResolve(o)
  BY <1>12, EndpointResolveIInv
<1>13. CASE \E o \in Orgs : EndpointCommit(o)
  BY <1>13, EndpointCommitIInv
<1>14. CASE UNCHANGED vars
  BY <1>14 DEF IInv, TypeOK, CustomersInv, PendingInv, KeysFollow, SentIsAttributed,
               SessionInv, vars, stripeVars
<1>15. CASE \E o \in Orgs : CustomerKeyLapses(o)
  BY <1>15, CustomerKeyLapsesIInv
<1>. QED
  BY <1>1, <1>2, <1>3, <1>4, <1>5, <1>6, <1>7, <1>8, <1>9, <1>10, <1>11, <1>12, <1>13,
     <1>14, <1>15 DEF Next, Reporter

\* The inductive invariant holds in every behaviour of the reporter.
THEOREM IInvHolds == Spec => []IInv
<1>. QED  BY InitIInv, NextIInv, PTL DEF Spec

\* Every reachable state is well typed: rows, sessions and meter events keep
\* their shape whatever fails or crashes (reporter.py, models.py:49-99).
THEOREM TypeCorrect == Spec => []TypeOK
<1>1. IInv => TypeOK
  BY DEF IInv
<1>. QED  BY <1>1, IInvHolds, PTL

\* A row marked "sent" is one Stripe holds the event of, billed to the
\* customer billing has committed for the org (reporter.py:26-29, 262-284).
THEOREM SentAttributed == Spec => []SentIsAttributed
<1>1. IInv => SentIsAttributed
  BY DEF IInv
<1>. QED  BY <1>1, IInvHolds, PTL

\* Sessions of the reporter and the subscription endpoint that race to resolve
\* an org hold one customer of it, the one that is booked; another is made only
\* after Stripe forgot the key of an org not yet booked (reporter.py:103-143).
THEOREM OneCustomer == Spec => []OneCustomerPerOrg
<1>1. ASSUME IInv PROVE OneCustomerPerOrg
  <2>1. CustomersInv /\ SessionInv
    BY <1>1 DEF IInv
  <2>2. ASSUME pc \in {"report", "commit"} PROVE sess.customer \in {0, stripeCust[OrgOf[sess.row]]}
    BY <2>1, <2>2 DEF SessionInv
  <2>. QED  BY <2>1, <2>2 DEF CustomersInv, OneCustomerPerOrg
<1>. QED  BY <1>1, IInvHolds, PTL

\* No request has a meter event outside the numbered attempts, so never more
\* than reporter_max_attempts of them (reporter.py:182-202, 262-282).
THEOREM ReportsBounded == Spec => []BoundedReports
<1>1. IInv => BoundedReports
  BY DEF IInv, KeysFollow, BoundedReports, Keys
<1>. QED  BY <1>1, IInvHolds, PTL

-----------------------------------------------------------------------------

\* The only meter event a report can add is the next attempt's, and it is
\* beyond every key Stripe has applied for the row.
LEMMA ReportAddsNextAttempt ==
  ASSUME IInv, ReportUsage
  PROVE  LET r == sess.row
             e == [row |-> r, key |-> outbox[r].attempts + 1, customer |-> sess.customer]
         IN  /\ r \in Rows /\ outbox' = outbox /\ outbox[r].status = "pending"
             /\ outbox[r].attempts \in Nat
             /\ outbox[r].attempts + 1 \in 1..MaxAttempts
             /\ \/ meter' = meter
                \/ /\ meter' = meter \cup {e}
                   /\ \A k \in Keys(r) : k <= outbox[r].attempts
<1>. USE ReporterAssumption
<1>. DEFINE r == sess.row
            n == outbox[r].attempts + 1
            e == [row |-> r, key |-> n, customer |-> sess.customer]
<1>1. /\ r \in Rows /\ outbox' = outbox /\ outbox[r].status = "pending"
      /\ outbox[r].attempts \in Nat
      /\ n \in 1..MaxAttempts
      /\ sess.attempts = outbox[r].attempts /\ sess \in Session
  BY DEF ReportUsage, IInv, TypeOK, SessionInv, PendingInv, Session, Row
<1>2. meter' \in {meter, ReportedWith(n)}
  <2>1. [sess EXCEPT !.attempts = @ + 1].attempts = n
    BY <1>1 DEF Session
  <2>. QED  BY <2>1 DEF ReportUsage
<1>3. CASE n \in Keys(r)
  BY <1>1, <1>2, <1>3 DEF ReportedWith
<1>4. CASE n \notin Keys(r)
  <2>1. ReportedWith(n) = meter \cup {e}
    BY <1>1, <1>4 DEF ReportedWith
  <2>2. \A k \in Keys(r) : k <= outbox[r].attempts
    <3>1. \A k \in Keys(r) : k \in Nat /\ k <= n /\ k # n
      BY <1>4 DEF Keys, IInv, TypeOK, KeysFollow, MeterEvent
    <3>. QED  BY <1>1, <3>1
  <2>. QED  BY <1>1, <1>2, <2>1, <2>2
<1>. QED  BY <1>3, <1>4

\* Every other step leaves Stripe's meter events alone.
LEMMA OnlyReportsMeter ==
  ASSUME [Next]_vars, ~ReportUsage
  PROVE  meter' = meter
  BY DEF Next, Reporter, vars, stripeVars, Poll, EndCycle, LoadRow, ResolveCustomer,
         CommitRow, CommitRefused, DatabaseFault, Crash, Enqueue, BackoffElapses,
         EndpointResolve, EndpointCommit, CustomerKeyLapses

\* A crash or a database fault between the Stripe call and the commit never
\* makes the retry a second meter event (reporter.py:262-284): a new event is
\* created only when every earlier one was booked as a failed attempt.
THEOREM CrashSafe == Spec => CrashNeverDoubleBills
<1>. DEFINE A == \A m \in meter' \ meter : \A k \in Keys(m.row) : k <= outbox[m.row].attempts
<1>1. ASSUME IInv, [Next]_vars
      PROVE  A
  <2>1. CASE ReportUsage
    BY <1>1, <2>1, ReportAddsNextAttempt
  <2>2. CASE ~ReportUsage
    BY <1>1, <2>2, OnlyReportsMeter
  <2>. QED  BY <2>1, <2>2
<1>2. IInv /\ [Next]_vars => [A]_vars
  BY <1>1
<1>. QED  BY <1>2, IInvHolds, PTL DEF Spec, CrashNeverDoubleBills

-----------------------------------------------------------------------------

LEMMA InitRefines == Init => Abstract!Init
  BY DEF Init, Abstract!Init, Keys

\* A step that changes neither a status nor Stripe's events is a stutter.
LEMMA StutterRefines ==
  ASSUME meter' = meter, \A r \in Rows : outbox'[r].status = outbox[r].status
  PROVE  UNCHANGED Abstract!vars
  BY DEF Abstract!vars, Keys

LEMMA EnqueueRefines ==
  ASSUME IInv, NEW r \in Rows, Enqueue(r)
  PROVE  Abstract!Next
<1>1. /\ outbox[r].status = "absent" /\ meter' = meter
      /\ outbox'[r].status = "pending"
      /\ \A q \in Rows \ {r} : outbox'[q] = outbox[q]
  BY DEF IInv, TypeOK, Row, Enqueue, stripeVars
<1>2. Abstract!Accept(r)
  BY <1>1 DEF Abstract!Accept, Keys
<1>. QED  BY <1>2 DEF Abstract!Next

LEMMA ReportRefines ==
  ASSUME IInv, ReportUsage
  PROVE  Abstract!Next \/ UNCHANGED Abstract!vars
<1>1. PICK r \in Rows : r = sess.row
  BY ReportAddsNextAttempt
<1>2. PICK n \in 1..MaxAttempts : n = outbox[r].attempts + 1
  BY <1>1, ReportAddsNextAttempt
<1>. DEFINE e == [row |-> r, key |-> n, customer |-> sess.customer]
<1>3. /\ outbox' = outbox /\ outbox[r].status = "pending"
      /\ outbox[r].attempts \in Nat
  BY <1>1, ReportAddsNextAttempt
<1>4. CASE meter' = meter
  BY <1>3, <1>4, StutterRefines
<1>5. CASE meter' = meter \cup {e} /\ \A k \in Keys(r) : k <= outbox[r].attempts
  <2>1. \A k \in Keys(r) : k \in Nat
    BY DEF Keys, IInv, TypeOK, MeterEvent
  <2>2. \A k \in Keys(r) : k < n
    BY <1>2, <1>3, <1>5, <2>1
  <2>3. Keys(r)' = Keys(r) \cup {n}
    <3>1. Keys(r)' = {m.key : m \in {x \in meter \cup {e} : x.row = r}}
      BY <1>5 DEF Keys
    <3>2. {x \in meter \cup {e} : x.row = r} = {x \in meter : x.row = r} \cup {e}
      OBVIOUS
    <3>3. e.key = n
      OBVIOUS
    <3>. HIDE DEF e
    <3>. QED  BY <3>1, <3>2, <3>3 DEF Keys
  <2>4. \A q \in Rows : Keys(q)' = IF q = r THEN Keys(r) \cup {n} ELSE Keys(q)
    BY <1>5, <2>3 DEF Keys
  <2>5. Abstract!Record(r, n)
    <3>1. [q \in Rows |-> Keys(q)]' =
             [[q \in Rows |-> Keys(q)] EXCEPT ![r] = @ \cup {n}]
      BY <2>4
    <3>. QED  BY <1>3, <2>2, <3>1 DEF Abstract!Record
  <2>. QED  BY <2>5 DEF Abstract!Next
<1>. QED  BY <1>1, <1>2, <1>4, <1>5, ReportAddsNextAttempt

LEMMA CommitRefines ==
  ASSUME IInv, CommitRow
  PROVE  Abstract!Next \/ UNCHANGED Abstract!vars
<1>1. PICK r \in Rows : r = sess.row
  BY DEF CommitRow, IInv, TypeOK, Session
<1>2. PICK st \in {"pending", "sent", "failed"} : st = sess.status
  BY DEF CommitRow, IInv, SessionInv
<1>3. /\ outbox[r].status = "pending" /\ meter' = meter
      /\ st = "sent" => [row |-> r, key |-> sess.attempts, customer |-> sess.customer] \in meter
      /\ outbox'[r].status = st
      /\ \A q \in Rows \ {r} : outbox'[q] = outbox[q]
  BY <1>1, <1>2 DEF CommitRow, IInv, TypeOK, SessionInv, Session, stripeVars
<1>4. CASE st = "pending"
  BY <1>3, <1>4, StutterRefines
<1>5. CASE st \in {"sent", "failed"}
  <2>1. st = "sent" => Keys(r) # {}
    <3> DEFINE e == [row |-> r, key |-> sess.attempts, customer |-> sess.customer]
    <3>1. (st = "sent" => e \in meter) /\ e.row = r
      BY <1>3
    <3> HIDE DEF e
    <3> QED
      BY <3>1 DEF Keys
  <2>2. [q \in Rows |-> Keys(q)]' = [q \in Rows |-> Keys(q)]
    BY <1>3 DEF Keys
  <2>3. [q \in Rows |-> outbox[q].status]' =
           [[q \in Rows |-> outbox[q].status] EXCEPT ![r] = st]
    BY <1>3
  <2>4. Abstract!Settle(r)
    BY <1>3, <1>5, <2>1, <2>2, <2>3 DEF Abstract!Settle
  <2>. QED  BY <2>4 DEF Abstract!Next
<1>. QED  BY <1>4, <1>5

LEMMA NextRefines ==
  ASSUME IInv, [Next]_vars
  PROVE  [Abstract!Next]_(Abstract!vars)
<1>1. CASE ReportUsage
  BY <1>1, ReportRefines
<1>2. CASE CommitRow
  BY <1>2, CommitRefines
<1>3. CASE \E r \in Rows : Enqueue(r)
  BY <1>3, EnqueueRefines
<1>4. CASE \E r \in Rows : BackoffElapses(r)
  <2>1. meter' = meter /\ \A r \in Rows : outbox'[r].status = outbox[r].status
    BY <1>4 DEF BackoffElapses, IInv, TypeOK, Row, stripeVars
  <2>. QED  BY <2>1, StutterRefines
<1>5. CASE \/ Poll \/ EndCycle \/ LoadRow \/ ResolveCustomer \/ CommitRefused
           \/ DatabaseFault \/ Crash
           \/ \E o \in Orgs : EndpointResolve(o) \/ EndpointCommit(o) \/ CustomerKeyLapses(o)
           \/ UNCHANGED vars
  <2>1. meter' = meter /\ outbox' = outbox
    BY <1>5 DEF vars, stripeVars, Poll, EndCycle, LoadRow, ResolveCustomer,
         CommitRefused, DatabaseFault, Crash, EndpointResolve, EndpointCommit, CustomerKeyLapses
  <2>. QED  BY <2>1, StutterRefines
<1>. QED  BY <1>1, <1>2, <1>3, <1>4, <1>5 DEF Next, Reporter

\* The poll loop with its sessions, retries and crashes implements the promise
\* of UsageReporting (reporter.py:6-29).
THEOREM Refinement == Spec => ImplementsUsageReporting
<1>. QED
  BY InitRefines, NextRefines, IInvHolds, PTL DEF Spec, Abstract!Spec, ImplementsUsageReporting

-----------------------------------------------------------------------------
(* Subscriptions: the invariant.                                            *)

\* Requests that are still to call Stripe: each may yet create one subscription.
Callers == {h \in Linkers : req[h] # Idle /\ req[h].pc = "call"}

\* Attempts and subscriptions are bounded by the requests made,
Bounded ==
  /\ IsFiniteSet(Callers) /\ Len(subs) + Cardinality(Callers) <= links
  /\ row.attempts <= links
  /\ \A h \in Running :
       req[h].read.attempts < links /\ req[h].write.attempts <= links
  /\ \A h \in Hooks : hook[h] # Idle =>
       hook[h].read.attempts <= links /\ hook[h].write.attempts = hook[h].read.attempts
  /\ Len(events) <= MaxEvents

\* a request of the endpoint leaves the status alone, counts at most one
\* attempt, and sets a subscription only where it found none,
LinkersFit ==
  \A h \in Running :
    LET r == req[h].read  w == req[h].write IN
    /\ w.status = r.status
    /\ w.attempts = r.attempts \/ w.attempts = r.attempts + 1
    /\ r.sub # 0 => w.sub = r.sub
    /\ req[h].pc = "call" => w = r

\* a price is booked only with a subscription, and a subscription for good,
Booked ==
  /\ row.sub = 0 => row.price = NoPrice
  /\ \A h \in Running :
       LET r == req[h].read  w == req[h].write IN
       /\ row.sub = 0 => r.sub = 0
       /\ r.sub = 0 => r.price = NoPrice
       /\ w.sub = 0 => w.price = NoPrice

\* and a webhook request writes its event's status, once: the event is not
\* recorded, and no other request holds it.
HookFits(h) ==
  LET r == hook[h].read  w == hook[h].write  e == hook[h].event IN
  /\ e \in 1..Len(events) /\ e \notin seen
  /\ w.sub = r.sub /\ w.price = r.price /\ w.attempts = r.attempts
  /\ IF r.sub = events[e].sub
     THEN w.status = events[e].status ELSE w.status = r.status

HooksFit ==
  /\ \A h \in Hooks : hook[h] # Idle => HookFits(h)
  /\ \A g, h \in Hooks :
       hook[g] # Idle /\ hook[h] # Idle /\ hook[g].event = hook[h].event => g = h

\* While requests have come one at a time, the one that runs has read the row
\* as it is, and the keys in use are those of attempts booked and of its own.
OneAtATime ==
  overlap = 0 =>
    /\ \A g, h \in Running : g = h
    /\ \A h \in Running :
         req[h].read.attempts = row.attempts /\ req[h].read.sub = row.sub
    /\ \A k \in AttemptKeys : createKeys[k] # 0 => k <= row.attempts + 1
    /\ \A h \in Hooks : hook[h] # Idle /\ hook[h].read.sub # 0 => row.sub = hook[h].read.sub

\* Before the first subscription nothing is booked and no answer is in hand.
NoneYet ==
  /\ row.sub = 0 /\ row.attempts = 0 /\ \A k \in AttemptKeys : createKeys[k] = 0
  /\ \A h \in Running :
       req[h].pc = "call" /\ req[h].read.sub = 0 /\ req[h].read.attempts = 0

\* A request that found no subscription has the first key, and finds the one
\* subscription under it at the price it asks for.
FindsIt(h) ==
  /\ createKeys[1] = 1 /\ subs[1].price = req[h].price
  /\ row.sub # 0 => row.price = req[h].price
  /\ req[h].read.attempts = 0
  /\ req[h].pc = "commit" => req[h].write.sub = 1 /\ req[h].write.price = req[h].price

\* One that found it keeps the price, while there is one that did not.
KeepsPrice(h) ==
  req[h].read.price = req[h].price /\ req[h].write.price = req[h].price

TheOne ==
  /\ row.sub = 0 => /\ row.attempts = 0
                    /\ \E h \in Running : req[h].pc = "commit" /\ req[h].read.sub = 0
  /\ \A h \in Running :
       /\ req[h].read.sub = 0 => FindsIt(h)
       /\ req[h].read.sub # 0 /\ (\E g \in Running : req[g].read.sub = 0) => KeepsPrice(h)

\* While overlapping requests asked for one price, and no call failed.
Agreed ==
  overlap < 2 /\ faults = 0 =>
    /\ \A g, h \in Running : req[g].price = req[h].price
    /\ Len(subs) <= 1
    /\ Len(subs) = 0 => NoneYet
    /\ Len(subs) = 1 => TheOne

Sessions ==
  req = [h \in Linkers |-> req[h]] /\ hook = [h \in Hooks |-> hook[h]]

LinkInv ==
  /\ LinkTypeOK /\ Sessions
  /\ Bounded /\ LinkersFit /\ Booked /\ HooksFit /\ OneAtATime /\ Agreed

-----------------------------------------------------------------------------

\* Lemmas about sessions and rows.

LEMMA RowParts ==
  ASSUME NEW r \in CustomerRow
  PROVE  /\ r.sub \in SubId /\ r.price \in Prices \cup {NoPrice}
         /\ r.attempts \in 0..MaxLinks /\ r.status \in Statuses \cup {NoStatus}
         /\ r = [sub |-> r.sub, price |-> r.price, attempts |-> r.attempts, status |-> r.status]
BY DEF CustomerRow

LEMMA RowMade ==
  ASSUME NEW s \in SubId, NEW p \in Prices \cup {NoPrice}, NEW a \in 0..MaxLinks,
         NEW st \in Statuses \cup {NoStatus}
  PROVE  [sub |-> s, price |-> p, attempts |-> a, status |-> st] \in CustomerRow
BY DEF CustomerRow

\* The flush writes a column where the session changed it.
LEMMA FlushedRow ==
  ASSUME row \in CustomerRow, NEW r \in CustomerRow, NEW w \in CustomerRow
  PROVE  /\ Flush(r, w) \in CustomerRow
         /\ Flush(r, w).sub = IF w.sub # r.sub THEN w.sub ELSE row.sub
         /\ Flush(r, w).price = IF w.price # r.price THEN w.price ELSE row.price
         /\ Flush(r, w).attempts = IF w.attempts # r.attempts THEN w.attempts ELSE row.attempts
         /\ Flush(r, w).status = IF w.status # r.status THEN w.status ELSE row.status
<1> DEFINE sub == IF w.sub # r.sub THEN w.sub ELSE row.sub
           price == IF w.price # r.price THEN w.price ELSE row.price
           attempts == IF w.attempts # r.attempts THEN w.attempts ELSE row.attempts
           status == IF w.status # r.status THEN w.status ELSE row.status
<1>1. DOMAIN row = {"sub", "price", "attempts", "status"}
  BY DEF CustomerRow
<1>2. Flush(r, w) = [sub |-> sub, price |-> price, attempts |-> attempts, status |-> status]
  BY <1>1 DEF Flush
<1>3. sub \in SubId /\ price \in Prices \cup {NoPrice} /\ attempts \in 0..MaxLinks
      /\ status \in Statuses \cup {NoStatus}
  BY RowParts
<1>4. Flush(r, w).sub = sub /\ Flush(r, w).price = price /\ Flush(r, w).attempts = attempts
      /\ Flush(r, w).status = status
  BY <1>2
<1> HIDE DEF sub, price, attempts, status
<1>5. Flush(r, w) \in CustomerRow
  BY <1>2, <1>3, RowMade
<1> QED
  BY <1>4, <1>5 DEF sub, price, attempts, status

\* A session is idle or a record with the fields of its kind.
LEMMA LinkParts ==
  ASSUME LinkTypeOK, NEW h \in Running
  PROVE  /\ h \in Linkers /\ req[h] \in Linking
         /\ req[h].pc \in {"call", "commit"} /\ req[h].price \in Prices
         /\ req[h].read \in CustomerRow /\ req[h].write \in CustomerRow
<1>1. h \in Linkers /\ req[h] \in Linking
  BY DEF Running, LinkTypeOK
<1> QED
  BY <1>1 DEF Linking

LEMMA HookParts ==
  ASSUME LinkTypeOK, NEW h \in Hooks, hook[h] # Idle
  PROVE  /\ hook[h] \in Hooking /\ hook[h].pc = "commit" /\ hook[h].event \in 1..MaxEvents
         /\ hook[h].read \in CustomerRow /\ hook[h].write \in CustomerRow
<1>1. hook[h] \in Hooking
  BY DEF LinkTypeOK
<1> QED
  BY <1>1 DEF Hooking

LEMMA NotIdle ==
  /\ \A s \in Linking : s # Idle
  /\ \A s \in Hooking : s # Idle
  /\ Idle.pc = "idle"
<1>1. \A s \in Linking : s.pc # "idle"
  BY DEF Linking
<1>2. \A s \in Hooking : s.pc # "idle"
  BY DEF Hooking
<1> QED
  BY <1>1, <1>2 DEF Idle

\* A session that goes on to its commit.
LEMMA CommittingLink ==
  ASSUME LinkTypeOK, Sessions, NEW h \in Running, NEW w \in CustomerRow, CommitWith(h, w)
  PROVE  /\ Sessions' <=> hook' = [g \in Hooks |-> hook'[g]]
         /\ req'[h] \in Linking
         /\ req'[h].pc = "commit" /\ req'[h].price = req[h].price
         /\ req'[h].read = req[h].read /\ req'[h].write = w
         /\ \A g \in Linkers : g # h => req'[g] = req[g]
         /\ Running' = Running
         /\ Callers' = Callers \ {h}
<1>1. /\ h \in Linkers /\ req[h] \in Linking
      /\ req[h].price \in Prices /\ req[h].read \in CustomerRow
  BY LinkParts
<1>2. req = [g \in Linkers |-> req[g]]
  BY DEF Sessions
<1>3. req' = [g \in Linkers |-> IF g = h THEN [req[h] EXCEPT !.pc = "commit", !.write = w]
                                 ELSE req[g]]
  BY <1>1, <1>2, Zenon DEF CommitWith
<1>4. [req[h] EXCEPT !.pc = "commit", !.write = w]
        = [pc |-> "commit", price |-> req[h].price, read |-> req[h].read, write |-> w]
  <2> DEFINE s == req[h]
  <2>1. s = [pc |-> s.pc, price |-> s.price, read |-> s.read, write |-> s.write]
    BY <1>1 DEF Linking
  <2> HIDE DEF s
  <2>2. [s EXCEPT !.pc = "commit", !.write = w]
          = [pc |-> "commit", price |-> s.price, read |-> s.read, write |-> w]
    <3>1. DOMAIN s = {"pc", "price", "read", "write"}
      BY <2>1
    <3>2. [s EXCEPT !.pc = "commit", !.write = w]
            = [f \in DOMAIN s |-> IF f = "write" THEN w ELSE IF f = "pc" THEN "commit" ELSE s[f]]
      BY <2>1, <3>1
    <3> QED
      BY <3>1, <3>2
  <2> QED
    BY <2>2 DEF s
<1>5. req'[h] = [pc |-> "commit", price |-> req[h].price, read |-> req[h].read, write |-> w]
  BY <1>1, <1>3, <1>4
<1>6. req'[h] \in Linking
  BY <1>1, <1>5 DEF Linking
<1>7. \A g \in Linkers : g # h => req'[g] = req[g]
  BY <1>3
<1>8. req'[h] # Idle /\ req[h] # Idle
  BY <1>1, <1>6, NotIdle
<1>9. Running' = Running
  BY <1>1, <1>7, <1>8, Zenon DEF Running
<1>10. req'[h].pc = "commit" /\ req'[h].price = req[h].price
       /\ req'[h].read = req[h].read /\ req'[h].write = w
  BY <1>5
<1>11. Callers' = Callers \ {h}
  BY <1>1, <1>7, <1>10 DEF Callers
<1>12. req' = [g \in Linkers |-> req'[g]]
  BY <1>3
<1> QED
  BY <1>6, <1>7, <1>9, <1>10, <1>11, <1>12 DEF Sessions

\* Replacing an element of a sequence, if it has that element.
LEMMA ReplacedElement ==
  ASSUME NEW S, NEW q \in Seq(S), NEW n, NEW e, n \in DOMAIN q => e \in S
  PROVE  [q EXCEPT ![n] = e] \in Seq(S) /\ Len([q EXCEPT ![n] = e]) = Len(q)
<1>1. q \in [1..Len(q) -> S] /\ Len(q) \in Nat /\ DOMAIN q = 1..Len(q)
  OBVIOUS
<1>2. [q EXCEPT ![n] = e] \in [1..Len(q) -> S]
  BY <1>1
<1>3. [q EXCEPT ![n] = e] \in Seq(S)
  BY <1>1, <1>2, SeqDef
<1> QED
  BY <1>1, <1>2, <1>3

LEMMA ElementInSeq ==
  ASSUME NEW S, NEW q \in Seq(S), NEW n \in DOMAIN q
  PROVE  q[n] \in S
OBVIOUS

\* The history variable overlap grows with the requests that run.
LEMMA Greatest ==
  ASSUME NEW T, T \subseteq 0..2, T # {}
  PROVE  Max(T) \in T /\ \A y \in T : y <= Max(T)
<1>0. \A y \in T : y = 0 \/ y = 1 \/ y = 2
  <2>1. \A y \in 0..2 : y = 0 \/ y = 1 \/ y = 2
    OBVIOUS
  <2> QED
    BY <2>1, Zenon
<1>1. \E x \in T : \A y \in T : x >= y
  <2>1. ASSUME 2 \in T PROVE \A y \in T : 2 >= y
    BY <1>0
  <2>2. ASSUME 2 \notin T, 1 \in T PROVE \A y \in T : 1 >= y
    <3>1. \A y \in T : y = 0 \/ y = 1
      BY <1>0, <2>2, Zenon
    <3> QED
      BY <3>1
  <2>3. ASSUME 2 \notin T, 1 \notin T PROVE 0 \in T /\ \A y \in T : 0 >= y
    <3>1. 0 \in T /\ \A y \in T : y = 0
      BY <1>0, <2>3, Zenon
    <3> QED
      BY <3>1
  <2> QED
    BY <2>1, <2>2, <2>3, Zenon
<1> DEFINE m == CHOOSE x \in T : \A y \in T : x >= y
<1>2. m \in T /\ \A y \in T : m >= y
  BY <1>1, Zenon
<1>3. Max(T) = m
  BY DEF Max
<1> HIDE DEF m
<1>4. m \in T /\ \A y \in T : y <= m
  BY <1>2
<1> QED
  BY <1>3, <1>4, Zenon

\* A session that starts.
LEMMA StartingLink ==
  ASSUME LinkTypeOK, Sessions, IsFiniteSet(Callers), NEW h \in Linkers, NEW p \in Prices,
         LinkStart(h, p)
  PROVE  /\ Sessions'
         /\ req'[h] \in Linking
         /\ req'[h].pc = "call" /\ req'[h].price = p
         /\ req'[h].read = row /\ req'[h].write = row
         /\ \A g \in Linkers : g # h => req'[g] = req[g]
         /\ h \notin Running /\ Running' = Running \cup {h}
         /\ IsFiniteSet(Callers') /\ Cardinality(Callers') = Cardinality(Callers) + 1
<1>1. /\ req = [g \in Linkers |-> req[g]] /\ hook = [g \in Hooks |-> hook[g]]
      /\ req[h] = Idle /\ row \in CustomerRow /\ hook' = hook
  BY DEF Sessions, LinkStart, LinkTypeOK
<1>2. req' = [req EXCEPT ![h] = [pc |-> "call", price |-> p, read |-> row, write |-> row]]
  BY DEF LinkStart
<1>3. req' = [g \in Linkers |-> IF g = h THEN [pc |-> "call", price |-> p, read |-> row, write |-> row]
                                 ELSE req[g]]
  BY <1>1, <1>2, Zenon
<1>4. req'[h] = [pc |-> "call", price |-> p, read |-> row, write |-> row]
  BY <1>3
<1>5. req'[h] \in Linking
  BY <1>1, <1>4 DEF Linking
<1>6. \A g \in Linkers : g # h => req'[g] = req[g]
  BY <1>3
<1>7. req'[h] # Idle
  BY <1>5, NotIdle
<1>8. h \notin Running /\ Running' = Running \cup {h}
  BY <1>1, <1>6, <1>7, Zenon DEF Running
<1>9. req'[h].pc = "call" /\ req'[h].price = p /\ req'[h].read = row /\ req'[h].write = row
  BY <1>4
<1>10. h \notin Callers /\ Callers' = Callers \cup {h}
  BY <1>1, <1>6, <1>7, <1>9 DEF Callers
<1>11. IsFiniteSet(Callers') /\ Cardinality(Callers') = Cardinality(Callers) + 1
  BY <1>10, FS_AddElement
<1>12. req' = [g \in Linkers |-> req'[g]]
  BY <1>3
<1>13. Sessions'
  BY <1>1, <1>12 DEF Sessions
<1> QED
  BY <1>5, <1>6, <1>8, <1>9, <1>11, <1>13

LEMMA OverlapGrows ==
  ASSUME LinkTypeOK, NEW h \in Linkers, NEW p \in Prices, LinkStart(h, p)
  PROVE  /\ overlap' \in 0..2 /\ overlap <= overlap'
         /\ \A g \in Running : overlap' >= 1
         /\ overlap' < 2 => \A g \in Running : req[g].price = p
<1> DEFINE T == {overlap} \cup {IF req[g].price = p THEN 1 ELSE 2 : g \in Running}
<1>1. overlap' = Max(T)
  BY DEF LinkStart
<1>2. T \subseteq 0..2 /\ T # {}
  BY DEF LinkTypeOK
<1>3. overlap' \in T /\ \A y \in T : y <= overlap'
  BY <1>1, <1>2, Greatest, Zenon
<1>4. overlap' \in 0..2 /\ overlap <= overlap'
  BY <1>2, <1>3
<1>5. ASSUME NEW g \in Running
      PROVE  overlap' >= 1 /\ (overlap' < 2 => req[g].price = p)
  <2>1. (IF req[g].price = p THEN 1 ELSE 2) \in T
    OBVIOUS
  <2>2. (IF req[g].price = p THEN 1 ELSE 2) <= overlap'
    BY <1>3, <2>1
  <2> QED
    BY <1>4, <2>2
<1> QED
  BY <1>4, <1>5

\* A session that ends.
LEMMA EndingLink ==
  ASSUME LinkTypeOK, Sessions, IsFiniteSet(Callers), NEW h \in Linkers, LinkCommit(h)
  PROVE  /\ Sessions' /\ h \in Running
         /\ req'[h] = Idle
         /\ \A g \in Linkers : g # h => req'[g] = req[g]
         /\ Running' = Running \ {h}
         /\ Callers' = Callers
<1>1. /\ req = [g \in Linkers |-> req[g]] /\ hook = [g \in Hooks |-> hook[g]]
      /\ req[h].pc = "commit" /\ hook' = hook /\ req' = [req EXCEPT ![h] = Idle]
  BY DEF Sessions, LinkCommit, LinkTypeOK
<1>2. req' = [g \in Linkers |-> IF g = h THEN Idle ELSE req[g]]
  BY <1>1, Zenon
<1>3. req'[h] = Idle /\ \A g \in Linkers : g # h => req'[g] = req[g]
  BY <1>2
<1>4. req[h] # Idle
  BY <1>1, NotIdle
<1>5. h \in Running /\ Running' = Running \ {h}
  BY <1>3, <1>4, Zenon DEF Running
<1>6. Callers' = Callers
  BY <1>1, <1>3 DEF Callers
<1>7. req' = [g \in Linkers |-> req'[g]]
  BY <1>2
<1> QED
  BY <1>1, <1>3, <1>5, <1>6, <1>7 DEF Sessions

LEMMA SameLinkers ==
  ASSUME UNCHANGED req
  PROVE  Running' = Running /\ Callers' = Callers
BY DEF Running, Callers

LEMMA SameHooks ==
  ASSUME HooksFit, UNCHANGED <<hook, events, seen>>
  PROVE  HooksFit'
BY DEF HooksFit, HookFits

\* The keys of an attempt are within bounds.
LEMMA KeyOfAttempt ==
  ASSUME LinkTypeOK, Bounded, NEW h \in Running
  PROVE  /\ CreateKey(req[h].read) = req[h].read.attempts + 1
         /\ CreateKey(req[h].read) \in AttemptKeys
         /\ CreateKey(req[h].read) \in 0..MaxLinks /\ CreateKey(req[h].read) <= links
<1>1. req[h].read.attempts < links /\ links \in 0..MaxLinks /\ MaxLinks \in Nat
  BY SubscriptionAssumption DEF Bounded, LinkTypeOK
<1>2. req[h].read.attempts \in 0..MaxLinks
  BY LinkParts, RowParts
<1>3. CreateKey(req[h].read) = req[h].read.attempts + 1
  BY DEF CreateKey
<1> QED
  BY <1>1, <1>2, <1>3 DEF AttemptKeys

-----------------------------------------------------------------------------
(* Every action keeps the invariant.                                       *)

LEMMA InitLinkInv ==
  ASSUME LinkInit
  PROVE  LinkInv
<1>1. Running = {} /\ Callers = {} /\ \A h \in Hooks : hook[h] = Idle
  BY DEF LinkInit, Running, Callers
<1>2. row.sub = 0 /\ row.price = NoPrice /\ row.attempts = 0 /\ row.status = NoStatus
  BY DEF LinkInit
<1>3. MaxLinks \in Nat /\ MaxEvents \in Nat /\ MaxFaults \in Nat
  BY SubscriptionAssumption
<1>4. row \in CustomerRow
  <2>1. 0 \in SubId /\ 0 \in 0..MaxLinks /\ NoPrice \in Prices \cup {NoPrice}
        /\ NoStatus \in Statuses \cup {NoStatus}
    BY <1>3 DEF SubId
  <2>2. row = [sub |-> 0, price |-> NoPrice, attempts |-> 0, status |-> NoStatus]
    BY DEF LinkInit
  <2> QED
    BY <2>1, <2>2, RowMade
<1>5. LinkTypeOK
  <2>1. /\ \A h \in Linkers : req[h] = Idle \/ req[h] \in Linking
        /\ \A h \in Hooks : hook[h] = Idle \/ hook[h] \in Hooking
    BY DEF LinkInit
  <2>2. /\ Len(subs) = 0 /\ Len(events) = 0
        /\ subs \in Seq([price : Prices, status : Statuses \cup {NoStatus}])
        /\ events \in Seq(Event)
    BY DEF LinkInit
  <2>3. createKeys \in [AttemptKeys -> 0..Len(subs)]
    BY <2>2 DEF LinkInit
  <2>4. seen \subseteq 1..Len(events) /\ updateKeys \subseteq Prices /\ answered \subseteq seen
    BY DEF LinkInit
  <2>5. overlap \in 0..2 /\ links \in 0..MaxLinks /\ faults \in 0..MaxFaults
    BY <1>3 DEF LinkInit
  <2> QED
    BY <1>4, <2>1, <2>2, <2>3, <2>4, <2>5 DEF LinkTypeOK
<1>6. Sessions
  BY DEF LinkInit, Sessions
<1>7. Bounded
  <2>1. IsFiniteSet(Callers) /\ Cardinality(Callers) = 0
    BY <1>1, FS_EmptySet
  <2>2. Len(subs) = 0 /\ Len(events) = 0 /\ links = 0
    BY DEF LinkInit
  <2> QED
    BY <1>1, <1>2, <1>3, <2>1, <2>2 DEF Bounded
<1>8. LinkersFit /\ Booked
  BY <1>1, <1>2 DEF LinkersFit, Booked
<1>9. HooksFit
  BY <1>1 DEF HooksFit
<1>10. OneAtATime
  BY <1>1 DEF OneAtATime, LinkInit
<1>11. Agreed
  <2>1. Len(subs) = 0
    BY DEF LinkInit
  <2>2. NoneYet
    BY <1>1, <1>2 DEF LinkInit, NoneYet
  <2> QED
    BY <1>1, <2>1, <2>2 DEF Agreed
<1> QED
  BY <1>5, <1>6, <1>7, <1>8, <1>9, <1>10, <1>11 DEF LinkInv

LEMMA LinkStartLinkInv ==
  ASSUME LinkInv, NEW h \in Linkers, NEW p \in Prices, LinkStart(h, p)
  PROVE  LinkInv'
<1>1. /\ LinkTypeOK /\ Sessions /\ Bounded /\ LinkersFit /\ Booked /\ HooksFit /\ OneAtATime /\ Agreed
      /\ IsFiniteSet(Callers)
  BY DEF LinkInv, Bounded
<1>2. /\ req[h] = Idle /\ links < MaxLinks /\ links' = links + 1
      /\ row' = row /\ seen' = seen /\ hook' = hook /\ subs' = subs /\ createKeys' = createKeys
      /\ updateKeys' = updateKeys /\ events' = events /\ answered' = answered /\ faults' = faults
  BY DEF LinkStart, stripeState
<1>3. /\ Sessions'
      /\ req'[h] \in Linking
      /\ req'[h].pc = "call" /\ req'[h].price = p
      /\ req'[h].read = row /\ req'[h].write = row
      /\ \A g \in Linkers : g # h => req'[g] = req[g]
      /\ h \notin Running /\ Running' = Running \cup {h}
      /\ IsFiniteSet(Callers') /\ Cardinality(Callers') = Cardinality(Callers) + 1
  BY <1>1, StartingLink
<1>4. /\ overlap' \in 0..2 /\ overlap <= overlap'
      /\ \A g \in Running : overlap' >= 1
      /\ overlap' < 2 => \A g \in Running : req[g].price = p
  BY <1>1, OverlapGrows
<1>5. \A g \in Running : g \in Linkers /\ g # h /\ req'[g] = req[g]
  BY <1>3 DEF Running
<1>6. row \in CustomerRow /\ links \in 0..MaxLinks /\ MaxLinks \in Nat /\ overlap \in 0..2
  BY SubscriptionAssumption, <1>1 DEF LinkTypeOK
<1>7. row.attempts \in 0..MaxLinks /\ row.attempts <= links
  BY <1>1, <1>6, RowParts DEF Bounded
<1>8. LinkTypeOK'
  <2>1. \A g \in Linkers : req'[g] = Idle \/ req'[g] \in Linking
    BY <1>1, <1>3 DEF LinkTypeOK
  <2>2. links' \in 0..MaxLinks
    BY <1>2, <1>6
  <2> QED
    BY <1>1, <1>2, <1>4, <2>1, <2>2 DEF LinkTypeOK
<1>9. Bounded'
  <2>1. Len(subs') + Cardinality(Callers') <= links'
    <3>1. Len(subs) \in Nat /\ Cardinality(Callers) \in Nat
      BY <1>1, FS_CardinalityType DEF LinkTypeOK
    <3> QED
      BY <1>1, <1>2, <1>3, <1>6, <3>1 DEF Bounded
  <2>2. row'.attempts <= links'
    BY <1>2, <1>6, <1>7
  <2>3. ASSUME NEW g \in Running'
        PROVE  req'[g].read.attempts < links' /\ req'[g].write.attempts <= links'
    <3>1. CASE g = h
      BY <1>2, <1>3, <1>6, <1>7, <3>1
    <3>2. CASE g # h
      <4>1. g \in Running /\ req'[g] = req[g]
        BY <1>3, <1>5, <3>2
      <4>2. req[g].read.attempts \in 0..MaxLinks /\ req[g].write.attempts \in 0..MaxLinks
        BY <1>1, <4>1, LinkParts, RowParts
      <4> QED
        BY <1>1, <1>2, <1>6, <4>1, <4>2 DEF Bounded
    <3> QED
      BY <3>1, <3>2
  <2>4. ASSUME NEW g \in Hooks, hook'[g] # Idle
        PROVE  hook'[g].read.attempts <= links' /\ hook'[g].write.attempts = hook'[g].read.attempts
    <3>1. hook[g].read.attempts \in 0..MaxLinks
      BY <1>1, <1>2, <2>4, HookParts, RowParts
    <3> QED
      BY <1>1, <1>2, <1>6, <2>4, <3>1 DEF Bounded
  <2>5. Len(events') <= MaxEvents
    BY <1>1, <1>2 DEF Bounded
  <2> QED
    BY <1>3, <2>1, <2>2, <2>3, <2>4, <2>5 DEF Bounded
<1>10. LinkersFit'
  BY <1>1, <1>3, <1>5 DEF LinkersFit
<1>11. Booked'
  BY <1>1, <1>2, <1>3, <1>5 DEF Booked
<1>12. HooksFit'
  BY <1>1, <1>2, SameHooks
<1>13. OneAtATime'
  <2> SUFFICES ASSUME overlap' = 0
               PROVE  /\ \A f, g \in Running' : f = g
                      /\ \A g \in Running' :
                           req'[g].read.attempts = row'.attempts /\ req'[g].read.sub = row'.sub
                      /\ \A k \in AttemptKeys : createKeys'[k] # 0 => k <= row'.attempts + 1
                      /\ \A g \in Hooks : hook'[g] # Idle /\ hook'[g].read.sub # 0 =>
                           row'.sub = hook'[g].read.sub
    BY DEF OneAtATime, AttemptKeys
  <2>1. Running = {} /\ overlap = 0
    BY <1>4, <1>6
  <2>2. Running' = {h}
    BY <1>3, <2>1
  <2> QED
    BY <1>1, <1>2, <1>3, <2>1, <2>2 DEF OneAtATime
<1>14. Agreed'
  <2> SUFFICES ASSUME overlap' < 2, faults' = 0
               PROVE  /\ \A f, g \in Running' : req'[f].price = req'[g].price
                      /\ Len(subs') <= 1
                      /\ Len(subs') = 0 => NoneYet'
                      /\ Len(subs') = 1 => TheOne'
    BY DEF Agreed
  <2>1. overlap < 2 /\ faults = 0
    BY <1>2, <1>4, <1>6
  <2>2. \A g \in Running' : req'[g].price = p
    BY <1>3, <1>4, <1>5
  <2>3. Len(subs') <= 1
    BY <1>1, <1>2, <2>1 DEF Agreed
  <2>4. ASSUME Len(subs') = 0 PROVE NoneYet'
    <3>1. NoneYet
      BY <1>1, <1>2, <2>1, <2>4 DEF Agreed
    <3> QED
      BY <1>2, <1>3, <1>5, <3>1 DEF NoneYet, AttemptKeys
  <2>5. ASSUME Len(subs') = 1 PROVE TheOne'
    <3>1. TheOne
      BY <1>1, <1>2, <2>1, <2>5 DEF Agreed
    <3>2. ASSUME row.sub = 0
          PROVE  \E g \in Running : req[g].pc = "commit" /\ req[g].read.sub = 0
      BY <3>1, <3>2 DEF TheOne
    <3>3. row'.sub = 0 => /\ row'.attempts = 0
                          /\ \E g \in Running' : req'[g].pc = "commit" /\ req'[g].read.sub = 0
      BY <1>2, <1>3, <1>5, <3>1 DEF TheOne
    <3>4. ASSUME NEW g \in Running, req[g].read.sub = 0
          PROVE  /\ FindsIt(g)' /\ req[g].price = p /\ createKeys[1] = 1 /\ subs[1].price = p
                 /\ row.sub # 0 => row.price = p
      <4>1. FindsIt(g) /\ req'[g] = req[g]
        BY <1>5, <3>1, <3>4 DEF TheOne
      <4>2. req[g].price = p
        BY <1>5, <2>2, <1>3
      <4> QED
        BY <1>2, <4>1, <4>2 DEF FindsIt
    <3>5. ASSUME row.sub = 0 PROVE FindsIt(h)'
      <4>1. PICK g \in Running : req[g].read.sub = 0
        BY <3>2, <3>5
      <4>2. createKeys[1] = 1 /\ subs[1].price = p
        BY <3>4, <4>1
      <4>3. row.attempts = 0
        BY <3>1, <3>5 DEF TheOne
      <4> QED
        BY <1>2, <1>3, <3>5, <4>2, <4>3 DEF FindsIt
    <3>6. ASSUME NEW g \in Running', req'[g].read.sub = 0 PROVE FindsIt(g)'
      BY <1>3, <1>5, <3>4, <3>5, <3>6
    <3>7. ASSUME NEW g \in Running', req'[g].read.sub # 0,
                 NEW f \in Running', req'[f].read.sub = 0
          PROVE  KeepsPrice(g)'
      <4>1. row.sub # 0
        <5>1. CASE g = h
          BY <1>3, <3>7, <5>1
        <5>2. CASE g # h
          BY <1>1, <1>3, <1>5, <3>7, <5>2 DEF Booked
        <5> QED
          BY <5>1, <5>2
      <4>2. f \in Running /\ req[f].read.sub = 0
        BY <1>3, <1>5, <3>7, <4>1
      <4>3. row.price = p
        BY <3>4, <4>1, <4>2
      <4>4. CASE g = h
        BY <1>3, <4>3, <4>4 DEF KeepsPrice
      <4>5. CASE g # h
        <5>1. g \in Running /\ req'[g] = req[g] /\ req[g].read.sub # 0
          BY <1>3, <1>5, <3>7, <4>5
        <5> QED
          BY <3>1, <4>2, <5>1 DEF TheOne, KeepsPrice
      <4> QED
        BY <4>4, <4>5
    <3> QED
      BY <3>3, <3>6, <3>7 DEF TheOne
  <2> QED
    BY <2>2, <2>3, <2>4, <2>5
<1> QED
  BY <1>3, <1>8, <1>9, <1>10, <1>11, <1>12, <1>13, <1>14 DEF LinkInv

\* The row a request writes: one more attempt, and what it learned.
LEMMA CountedRow ==
  ASSUME NEW r \in CustomerRow, r.attempts + 1 \in 0..MaxLinks
  PROVE  LET c == [r EXCEPT !.attempts = @ + 1] IN
         /\ c \in CustomerRow /\ c.sub = r.sub /\ c.price = r.price
         /\ c.attempts = r.attempts + 1 /\ c.status = r.status
<1>1. r = [sub |-> r.sub, price |-> r.price, attempts |-> r.attempts, status |-> r.status]
  BY RowParts
<1>2. [r EXCEPT !.attempts = @ + 1]
        = [sub |-> r.sub, price |-> r.price, attempts |-> r.attempts + 1, status |-> r.status]
  <2>1. DOMAIN r = {"sub", "price", "attempts", "status"}
    BY <1>1
  <2> QED
    BY <1>1, <2>1
<1>3. [sub |-> r.sub, price |-> r.price, attempts |-> r.attempts + 1, status |-> r.status] \in CustomerRow
  BY RowParts, RowMade
<1> QED
  BY <1>2, <1>3

BookedWith(c, n, p) == [c EXCEPT !.sub = n, !.price = p]

LEMMA BookedRow ==
  ASSUME NEW c \in CustomerRow, NEW n \in SubId, NEW p \in Prices
  PROVE  /\ BookedWith(c, n, p) \in CustomerRow
         /\ BookedWith(c, n, p).sub = n /\ BookedWith(c, n, p).price = p
         /\ BookedWith(c, n, p).attempts = c.attempts /\ BookedWith(c, n, p).status = c.status
<1>1. c = [sub |-> c.sub, price |-> c.price, attempts |-> c.attempts, status |-> c.status]
  BY RowParts
<1>2. [c EXCEPT !.sub = n, !.price = p]
        = [sub |-> n, price |-> p, attempts |-> c.attempts, status |-> c.status]
  <2>1. DOMAIN c = {"sub", "price", "attempts", "status"}
    BY <1>1
  <2>2. [c EXCEPT !.sub = n, !.price = p]
          = [f \in DOMAIN c |-> IF f = "price" THEN p ELSE IF f = "sub" THEN n ELSE c[f]]
    BY <1>1, <2>1
  <2> QED
    BY <1>1, <2>1, <2>2
<1>3. [sub |-> n, price |-> p, attempts |-> c.attempts, status |-> c.status] \in CustomerRow
  BY RowParts, RowMade
<1> QED
  BY <1>2, <1>3 DEF BookedWith

LEMMA RepricedRow ==
  ASSUME NEW r \in CustomerRow, NEW p \in Prices
  PROVE  LET w == [r EXCEPT !.price = p] IN
         /\ w \in CustomerRow /\ w.sub = r.sub /\ w.price = p
         /\ w.attempts = r.attempts /\ w.status = r.status
<1>1. r = [sub |-> r.sub, price |-> r.price, attempts |-> r.attempts, status |-> r.status]
  BY RowParts
<1>2. [r EXCEPT !.price = p]
        = [sub |-> r.sub, price |-> p, attempts |-> r.attempts, status |-> r.status]
  <2>1. DOMAIN r = {"sub", "price", "attempts", "status"}
    BY <1>1
  <2> QED
    BY <1>1, <2>1
<1>3. [sub |-> r.sub, price |-> p, attempts |-> r.attempts, status |-> r.status] \in CustomerRow
  BY RowParts, RowMade
<1> QED
  BY <1>2, <1>3

\* A call that reached Stripe under a key it did not know.
NewSubscription(h) ==
  /\ createKeys[CreateKey(req[h].read)] = 0
  /\ subs' = Append(subs, [price |-> req[h].price, status |-> NoStatus])
  /\ createKeys' = [createKeys EXCEPT ![CreateKey(req[h].read)] = Len(subs) + 1]

LEMMA CreatedOrReplayed ==
  ASSUME NEW h \in Linkers, Created(CreateKey(req[h].read), req[h].price)
  PROVE  NewSubscription(h) \/ (/\ createKeys[CreateKey(req[h].read)] # 0
                                /\ subs' = subs /\ createKeys' = createKeys)
BY DEF Created, NewSubscription

LEMMA KeysAfterCreate ==
  ASSUME LinkTypeOK, Bounded, NEW h \in Running, req[h].pc = "call",
         NewSubscription(h)
  PROVE  /\ Len(subs') = Len(subs) + 1 /\ Len(subs) + 1 \in SubId
         /\ Len(subs) + 1 <= links
         /\ subs'[Len(subs) + 1].price = req[h].price
         /\ subs' \in Seq([price : Prices, status : Statuses \cup {NoStatus}])
         /\ createKeys' \in [AttemptKeys -> 0..Len(subs')]
         /\ createKeys'[CreateKey(req[h].read)] = Len(subs) + 1
         /\ \A k \in AttemptKeys : k # CreateKey(req[h].read) => createKeys'[k] = createKeys[k]
<1>1. /\ subs \in Seq([price : Prices, status : Statuses \cup {NoStatus}])
      /\ createKeys \in [AttemptKeys -> 0..Len(subs)] /\ Len(subs) \in Nat
      /\ links \in 0..MaxLinks /\ MaxLinks \in Nat
  BY SubscriptionAssumption DEF LinkTypeOK
<1>2. CreateKey(req[h].read) \in AttemptKeys
  BY KeyOfAttempt
<1>3. [price |-> req[h].price, status |-> NoStatus] \in [price : Prices, status : Statuses \cup {NoStatus}]
  BY LinkParts
<1>4. /\ Len(subs') = Len(subs) + 1
      /\ subs'[Len(subs) + 1] = [price |-> req[h].price, status |-> NoStatus]
      /\ subs' \in Seq([price : Prices, status : Statuses \cup {NoStatus}])
  <2> DEFINE S == [price : Prices, status : Statuses \cup {NoStatus}]
             e == [price |-> req[h].price, status |-> NoStatus]
  <2>1. subs \in Seq(S) /\ e \in S /\ subs' = Append(subs, e)
    BY <1>1, <1>3 DEF NewSubscription
  <2> HIDE DEF S, e
  <2>2. Len(subs') = Len(subs) + 1 /\ subs'[Len(subs) + 1] = e /\ subs' \in Seq(S)
    BY <2>1
  <2> QED
    BY <2>2 DEF S, e
<1>5. Len(subs) + 1 <= links
  <2>1. h \in Callers
    BY DEF Callers, Running
  <2>2. Cardinality(Callers) \in Nat /\ Cardinality(Callers) # 0
    BY <2>1, FS_CardinalityType, FS_EmptySet DEF Bounded
  <2> QED
    BY <1>1, <2>2 DEF Bounded
<1>6. Len(subs) + 1 \in SubId
  BY <1>1, <1>5 DEF SubId
<1>7. createKeys' \in [AttemptKeys -> 0..Len(subs')]
  <2>1. createKeys' = [createKeys EXCEPT ![CreateKey(req[h].read)] = Len(subs) + 1]
    BY DEF NewSubscription
  <2>2. Len(subs) + 1 \in 0..Len(subs') /\ \A k \in AttemptKeys : createKeys[k] \in 0..Len(subs')
    BY <1>1, <1>4
  <2> QED
    BY <1>1, <1>2, <2>1, <2>2
<1>8. /\ createKeys'[CreateKey(req[h].read)] = Len(subs) + 1
      /\ \A k \in AttemptKeys : k # CreateKey(req[h].read) => createKeys'[k] = createKeys[k]
  BY <1>1, <1>2 DEF NewSubscription
<1> QED
  BY <1>4, <1>5, <1>6, <1>7, <1>8

\* What a call leaves the request with: one more attempt, and with an answer
\* the subscription of its key, at its price.
GoesOnWith(h, w) ==
  LET key == CreateKey(req[h].read) IN
  /\ CommitWith(h, w)
  /\ w.attempts = req[h].read.attempts + 1 /\ w.status = req[h].read.status
  /\ w.sub = 0 => w.price = req[h].read.price
  /\ faults' = 0 /\ Accepts(key, req[h].price) =>
       /\ w.sub = createKeys'[key] /\ w.price = req[h].price
       /\ createKeys[key] = 0 => NewSubscription(h)

LEMMA CreateEffect ==
  ASSUME LinkInv, NEW h \in Linkers, Create(h)
  PROVE  /\ h \in Running /\ req[h].pc = "call" /\ req[h].read.sub = 0
         /\ row' = row /\ seen' = seen /\ hook' = hook /\ updateKeys' = updateKeys
         /\ events' = events /\ answered' = answered /\ overlap' = overlap /\ links' = links
         /\ NewSubscription(h) \/ (subs' = subs /\ createKeys' = createKeys)
         /\ faults' \in 0..MaxFaults /\ (faults' = 0 => faults = 0)
         /\ \E w \in CustomerRow : GoesOnWith(h, w)
<1> DEFINE key == CreateKey(req[h].read)
           p == req[h].price
           counted == [req[h].read EXCEPT !.attempts = @ + 1]
<1>1. LinkTypeOK /\ Bounded
  BY DEF LinkInv
<1>2. /\ req[h].pc = "call" /\ req[h].read.sub = 0
      /\ row' = row /\ seen' = seen /\ hook' = hook /\ updateKeys' = updateKeys
      /\ events' = events /\ answered' = answered /\ overlap' = overlap /\ links' = links
  BY DEF Create
<1>3. h \in Running
  BY <1>2, NotIdle DEF Running
<1>4. /\ key = req[h].read.attempts + 1 /\ key \in AttemptKeys /\ key \in 0..MaxLinks
  BY <1>1, <1>3, KeyOfAttempt
<1>5. req[h].read \in CustomerRow /\ p \in Prices
  BY <1>1, <1>3, LinkParts
<1>6. /\ counted \in CustomerRow /\ counted.sub = req[h].read.sub /\ counted.price = req[h].read.price
      /\ counted.attempts = req[h].read.attempts + 1 /\ counted.status = req[h].read.status
  BY <1>4, <1>5, CountedRow
<1>7. faults \in 0..MaxFaults /\ MaxFaults \in Nat
  BY SubscriptionAssumption, <1>1 DEF LinkTypeOK
<1>8. \/ /\ Accepts(key, p) /\ Created(key, p)
         /\ CommitWith(h, [counted EXCEPT !.sub = createKeys'[key], !.price = p])
         /\ faults' = faults
      \/ /\ ~Accepts(key, p)
         /\ CommitWith(h, counted)
         /\ subs' = subs /\ createKeys' = createKeys /\ faults' = faults
      \/ /\ Fault
         /\ (createKeys[key] = 0 /\ Created(key, p)) \/ (subs' = subs /\ createKeys' = createKeys)
         /\ CommitWith(h, counted)
  BY DEF Create
<1>9. Created(key, p) =>
        NewSubscription(h) \/ (createKeys[key] # 0 /\ subs' = subs /\ createKeys' = createKeys)
  BY CreatedOrReplayed
<1>10. CASE /\ Accepts(key, p) /\ Created(key, p)
            /\ CommitWith(h, [counted EXCEPT !.sub = createKeys'[key], !.price = p])
            /\ faults' = faults
  <2> DEFINE w == [counted EXCEPT !.sub = createKeys'[key], !.price = p]
  <2>1. createKeys'[key] \in SubId /\ createKeys'[key] # 0
    <3>1. CASE NewSubscription(h)
      <4>1. createKeys'[key] = Len(subs) + 1 /\ Len(subs) + 1 \in SubId /\ Len(subs) \in Nat
        BY <1>1, <1>2, <1>3, <3>1, KeysAfterCreate DEF LinkTypeOK
      <4> QED
        BY <4>1
    <3>2. CASE createKeys[key] # 0 /\ createKeys' = createKeys
      <4>1. createKeys[key] \in 0..Len(subs) /\ Len(subs) \in Nat
        BY <1>1, <1>4 DEF LinkTypeOK
      <4>2. Len(subs) <= links /\ links \in 0..MaxLinks /\ MaxLinks \in Nat
        <5>1. Cardinality(Callers) \in Nat
          BY <1>1, FS_CardinalityType DEF Bounded
        <5> QED
          BY SubscriptionAssumption, <1>1, <4>1, <5>1 DEF Bounded, LinkTypeOK
      <4> QED
        BY <3>2, <4>1, <4>2 DEF SubId
    <3>3. NewSubscription(h) \/ (createKeys[key] # 0 /\ createKeys' = createKeys)
      BY <1>9, <1>10
    <3> HIDE DEF key
    <3> QED
      BY <3>1, <3>2, <3>3
  <2>2. /\ w \in CustomerRow /\ w.sub = createKeys'[key] /\ w.price = p
        /\ w.attempts = counted.attempts /\ w.status = counted.status
    <3>1. w = BookedWith(counted, createKeys'[key], p)
      BY DEF BookedWith
    <3> HIDE DEF w, counted, key, p
    <3> QED
      BY <1>5, <1>6, <2>1, <3>1, BookedRow
  <2>3. CommitWith(h, w)
    BY <1>10
  <2>4. NewSubscription(h) \/ (createKeys[key] # 0 /\ subs' = subs /\ createKeys' = createKeys)
    BY <1>9, <1>10
  <2> HIDE DEF w, counted
  <2>5. GoesOnWith(h, w)
    BY <1>6, <2>1, <2>2, <2>3, <2>4 DEF GoesOnWith
  <2> QED
    BY <1>2, <1>3, <1>7, <1>10, <2>2, <2>4, <2>5
<1>11. CASE /\ ~Accepts(key, p)
            /\ CommitWith(h, counted)
            /\ subs' = subs /\ createKeys' = createKeys /\ faults' = faults
  <2> HIDE DEF counted
  <2>1. GoesOnWith(h, counted)
    BY <1>2, <1>6, <1>11 DEF GoesOnWith
  <2> QED
    BY <1>2, <1>3, <1>6, <1>7, <1>11, <2>1
<1>12. CASE /\ Fault
            /\ (createKeys[key] = 0 /\ Created(key, p)) \/ (subs' = subs /\ createKeys' = createKeys)
            /\ CommitWith(h, counted)
  <2>1. faults' = faults + 1 /\ faults < MaxFaults
    BY <1>12 DEF Fault
  <2>2. faults' \in 0..MaxFaults /\ faults' # 0
    BY <1>7, <2>1
  <2> HIDE DEF counted
  <2>3. GoesOnWith(h, counted)
    BY <1>2, <1>6, <1>12, <2>2 DEF GoesOnWith
  <2> QED
    BY <1>2, <1>3, <1>6, <1>9, <1>12, <2>2, <2>3
<1> QED
  BY <1>8, <1>10, <1>11, <1>12

LEMMA CreateLinkInv ==
  ASSUME LinkInv, NEW h \in Linkers, Create(h)
  PROVE  LinkInv'
<1> DEFINE key == CreateKey(req[h].read)
<1>1. /\ LinkTypeOK /\ Sessions /\ Bounded /\ LinkersFit /\ Booked /\ HooksFit /\ OneAtATime /\ Agreed
      /\ IsFiniteSet(Callers)
  BY DEF LinkInv, Bounded
<1>2. /\ h \in Running /\ req[h].pc = "call" /\ req[h].read.sub = 0
      /\ row' = row /\ seen' = seen /\ hook' = hook /\ updateKeys' = updateKeys
      /\ events' = events /\ answered' = answered /\ overlap' = overlap /\ links' = links
      /\ NewSubscription(h) \/ (subs' = subs /\ createKeys' = createKeys)
      /\ faults' \in 0..MaxFaults /\ (faults' = 0 => faults = 0)
  BY CreateEffect
<1>3. PICK w \in CustomerRow : GoesOnWith(h, w)
  BY CreateEffect
<1>4. /\ w.attempts = req[h].read.attempts + 1 /\ w.status = req[h].read.status
      /\ w.sub = 0 => w.price = req[h].read.price
  BY <1>3 DEF GoesOnWith
<1>5. /\ Sessions' /\ h \in Linkers
      /\ req'[h] \in Linking
      /\ req'[h].pc = "commit" /\ req'[h].price = req[h].price
      /\ req'[h].read = req[h].read /\ req'[h].write = w
      /\ \A g \in Linkers : g # h => req'[g] = req[g]
      /\ Running' = Running
      /\ Callers' = Callers \ {h}
  <2>1. CommitWith(h, w)
    BY <1>3 DEF GoesOnWith
  <2>2. hook' = [g \in Hooks |-> hook'[g]]
    BY <1>1, <1>2 DEF Sessions
  <2> QED
    BY <1>1, <1>2, <2>1, <2>2, CommittingLink
<1>6. \A g \in Running : g \in Linkers /\ (g # h => req'[g] = req[g])
  BY <1>5 DEF Running
<1>7. key = req[h].read.attempts + 1 /\ key \in AttemptKeys /\ key \in 0..MaxLinks /\ key <= links
  BY <1>1, <1>2, KeyOfAttempt
<1>8. /\ NewSubscription(h) =>
           /\ Len(subs') = Len(subs) + 1
           /\ subs'[Len(subs) + 1].price = req[h].price
           /\ subs' \in Seq([price : Prices, status : Statuses \cup {NoStatus}])
           /\ createKeys' \in [AttemptKeys -> 0..Len(subs')]
           /\ createKeys'[key] = Len(subs) + 1
           /\ \A k \in AttemptKeys : k # key => createKeys'[k] = createKeys[k]
  BY <1>1, <1>2, KeysAfterCreate
<1>9. Len(subs) \in Nat
  BY <1>1 DEF LinkTypeOK
<1>10. LinkTypeOK'
  <2>1. \A g \in Linkers : req'[g] = Idle \/ req'[g] \in Linking
    BY <1>1, <1>5 DEF LinkTypeOK
  <2>2. /\ subs' \in Seq([price : Prices, status : Statuses \cup {NoStatus}])
        /\ createKeys' \in [AttemptKeys -> 0..Len(subs')]
    BY <1>1, <1>2, <1>8 DEF LinkTypeOK
  <2> QED
    BY <1>1, <1>2, <2>1, <2>2 DEF LinkTypeOK, AttemptKeys
<1>11. Bounded'
  <2>1. h \in Callers
    BY <1>2 DEF Callers, Running
  <2>2. IsFiniteSet(Callers') /\ Cardinality(Callers') = Cardinality(Callers) - 1
    BY <1>1, <1>5, <2>1, FS_RemoveElement
  <2>3. Cardinality(Callers) \in Nat /\ links \in Nat
    BY SubscriptionAssumption, <1>1, FS_CardinalityType DEF LinkTypeOK
  <2>4. Len(subs') + Cardinality(Callers') <= links'
    <3>1. Len(subs) + Cardinality(Callers) <= links
      BY <1>1 DEF Bounded
    <3>2. Len(subs') <= Len(subs) + 1
      BY <1>2, <1>8, <1>9
    <3>3. Len(subs') \in Nat
      BY <1>2, <1>8, <1>9
    <3> QED
      BY <1>2, <1>9, <2>2, <2>3, <3>1, <3>2, <3>3
  <2>5. ASSUME NEW g \in Running'
        PROVE  req'[g].read.attempts < links' /\ req'[g].write.attempts <= links'
    BY <1>1, <1>2, <1>4, <1>5, <1>6, <1>7 DEF Bounded
  <2> QED
    BY <1>1, <1>2, <2>2, <2>4, <2>5 DEF Bounded
<1>12. LinkersFit'
  BY <1>1, <1>2, <1>4, <1>5, <1>6 DEF LinkersFit
<1>13. Booked'
  BY <1>1, <1>2, <1>4, <1>5, <1>6 DEF Booked
<1>14. HooksFit'
  BY <1>1, <1>2, SameHooks
<1>15. OneAtATime'
  <2> SUFFICES ASSUME overlap' = 0
               PROVE  /\ \A f, g \in Running' : f = g
                      /\ \A g \in Running' :
                           req'[g].read.attempts = row'.attempts /\ req'[g].read.sub = row'.sub
                      /\ \A k \in AttemptKeys : createKeys'[k] # 0 => k <= row'.attempts + 1
                      /\ \A g \in Hooks : hook'[g] # Idle /\ hook'[g].read.sub # 0 =>
                           row'.sub = hook'[g].read.sub
    BY DEF OneAtATime, AttemptKeys
  <2>1. overlap = 0
    BY <1>2
  <2>2. /\ \A f, g \in Running : f = g
        /\ req[h].read.attempts = row.attempts
        /\ \A k \in AttemptKeys : createKeys[k] # 0 => k <= row.attempts + 1
    BY <1>1, <1>2, <2>1 DEF OneAtATime
  <2>3. \A k \in AttemptKeys : createKeys'[k] # 0 => k <= row'.attempts + 1
    <3>1. row.attempts \in Nat /\ key = row.attempts + 1
      BY SubscriptionAssumption, <1>1, <1>7, <2>2, RowParts DEF LinkTypeOK
    <3>2. key <= row.attempts + 1
      BY <3>1
    <3> QED
      BY <1>2, <1>8, <2>2, <3>2
  <2>4. \A g \in Running' :
          req'[g].read.attempts = row'.attempts /\ req'[g].read.sub = row'.sub
    BY <1>1, <1>2, <1>5, <1>6, <2>1 DEF OneAtATime
  <2> QED
    BY <1>1, <1>2, <1>5, <2>1, <2>2, <2>3, <2>4 DEF OneAtATime
<1>16. Agreed'
  <2> SUFFICES ASSUME overlap' < 2, faults' = 0
               PROVE  /\ \A f, g \in Running' : req'[f].price = req'[g].price
                      /\ Len(subs') <= 1
                      /\ Len(subs') = 0 => NoneYet'
                      /\ Len(subs') = 1 => TheOne'
    BY DEF Agreed
  <2>1. overlap < 2 /\ faults = 0
    BY <1>2
  <2>2. \A f, g \in Running : req[f].price = req[g].price
    BY <1>1, <2>1 DEF Agreed
  <2>3. \A g \in Running : req'[g].price = req[h].price
    BY <1>2, <1>5, <1>6, <2>2
  <2>4. Accepts(key, req[h].price) =>
          /\ w.sub = createKeys'[key] /\ w.price = req[h].price
          /\ createKeys[key] = 0 => NewSubscription(h)
    BY <1>3 DEF GoesOnWith
  <2>5. CASE Len(subs) = 0
    <3>1. NoneYet
      BY <1>1, <2>1, <2>5 DEF Agreed
    <3>2. key = 1 /\ createKeys[key] = 0
      <4>1. req[h].read.attempts = 0 /\ \A k \in AttemptKeys : createKeys[k] = 0
        BY <1>2, <3>1 DEF NoneYet
      <4> HIDE DEF key
      <4> QED
        BY <1>7, <4>1
    <3>3. NewSubscription(h) /\ w.sub = createKeys'[1] /\ w.price = req[h].price
      BY <2>4, <3>2 DEF Accepts
    <3>4. /\ Len(subs') = 1 /\ subs'[1].price = req[h].price /\ createKeys'[1] = 1
      BY <1>8, <2>5, <3>2, <3>3
    <3>5. ASSUME NEW g \in Running PROVE FindsIt(g)' /\ req'[g].read.sub = 0
      <4>1. req'[g].read.sub = 0 /\ req'[g].read.attempts = 0
        BY <1>2, <1>5, <1>6, <3>1 DEF NoneYet
      <4>2. req'[g].pc = "commit" => req'[g].write = w
        <5>1. CASE g = h
          BY <1>5, <5>1
        <5>2. CASE g # h
          BY <1>6, <3>1, <5>2 DEF NoneYet
        <5> QED
          BY <5>1, <5>2
      <4>3. row'.sub = 0
        BY <1>2, <3>1 DEF NoneYet
      <4> QED
        BY <2>3, <3>3, <3>4, <4>1, <4>2, <4>3 DEF FindsIt
    <3>6. TheOne'
      <4>1. row'.attempts = 0
        BY <1>2, <3>1 DEF NoneYet
      <4> QED
        BY <1>2, <1>5, <3>5, <4>1 DEF TheOne
    <3> QED
      BY <1>5, <2>3, <3>4, <3>6
  <2>6. CASE Len(subs) # 0
    <3>1. Len(subs) = 1 /\ TheOne
      <4>1. Len(subs) <= 1 /\ (Len(subs) = 1 => TheOne)
        BY <1>1, <2>1, Zenon DEF Agreed
      <4>2. \A n \in Nat : n # 0 /\ n <= 1 => n = 1
        OBVIOUS
      <4>3. Len(subs) = 1
        BY <1>9, <2>6, <4>1, <4>2
      <4> QED
        BY <4>1, <4>3
    <3>2. createKeys[1] = 1 /\ subs[1].price = req[h].price /\ req[h].read.attempts = 0
      BY <1>2, <3>1 DEF TheOne, FindsIt
    <3>3. key = 1
      BY <1>7, <3>2
    <3>4. Accepts(key, req[h].price)
      BY <3>2, <3>3 DEF Accepts
    <3>5. subs' = subs /\ createKeys' = createKeys
      BY <1>2, <3>2, <3>3 DEF NewSubscription
    <3>6. w.sub = 1 /\ w.price = req[h].price
      BY <2>4, <3>2, <3>3, <3>4, <3>5
    <3>7. ASSUME NEW g \in Running, req'[g].read.sub = 0 PROVE FindsIt(g)'
      <4>1. FindsIt(g)
        BY <1>2, <1>5, <1>6, <3>1, <3>7 DEF TheOne
      <4>2. CASE g = h
        BY <1>2, <1>5, <3>5, <3>6, <4>1, <4>2 DEF FindsIt
      <4>3. CASE g # h
        BY <1>2, <1>6, <3>5, <4>1, <4>3 DEF FindsIt
      <4> QED
        BY <4>2, <4>3
    <3>8. ASSUME NEW g \in Running, req'[g].read.sub # 0 PROVE KeepsPrice(g)'
      <4>1. g # h /\ req'[g] = req[g]
        BY <1>2, <1>5, <1>6, <3>8
      <4>2. KeepsPrice(g)
        BY <1>2, <3>1, <3>8, <4>1 DEF TheOne
      <4> QED
        BY <4>1, <4>2 DEF KeepsPrice
    <3>9. row'.sub = 0 =>
            /\ row'.attempts = 0
            /\ \E g \in Running : req'[g].pc = "commit" /\ req'[g].read.sub = 0
      BY <1>2, <1>5, <3>1 DEF TheOne
    <3>10. TheOne'
      BY <1>5, <3>7, <3>8, <3>9 DEF TheOne
    <3>11. Len(subs') = 1
      BY <3>1, <3>5
    <3>12. \A f, g \in Running' : req'[f].price = req'[g].price
      BY <1>5, <2>3
    <3> QED
      BY <3>10, <3>11, <3>12
  <2> QED
    BY <2>5, <2>6
<1> QED
  BY <1>5, <1>10, <1>11, <1>12, <1>13, <1>14, <1>15, <1>16 DEF LinkInv

\* A request that found the subscription: it keeps it, counts no attempt, and
\* changes nothing at Stripe when it asks for the price the row has.
KeepsIt(h, w) ==
  /\ CommitWith(h, w)
  /\ w.sub = req[h].read.sub /\ w.attempts = req[h].read.attempts
  /\ w.status = req[h].read.status
  /\ req[h].read.price = req[h].price => w.price = req[h].price /\ subs' = subs

LEMMA FoundEffect ==
  ASSUME LinkInv, NEW h \in Linkers, Update(h) \/ Noop(h)
  PROVE  /\ h \in Running /\ req[h].pc = "call" /\ req[h].read.sub # 0
         /\ row' = row /\ seen' = seen /\ hook' = hook /\ createKeys' = createKeys
         /\ events' = events /\ answered' = answered /\ overlap' = overlap /\ links' = links
         /\ updateKeys' \subseteq Prices
         /\ Len(subs') = Len(subs)
         /\ subs' \in Seq([price : Prices, status : Statuses \cup {NoStatus}])
         /\ faults' \in 0..MaxFaults /\ (faults' = 0 => faults = 0)
         /\ \E w \in CustomerRow : KeepsIt(h, w)
<1> DEFINE s == req[h]
           S == [price : Prices, status : Statuses \cup {NoStatus}]
<1>1. /\ s.pc = "call" /\ s.read.sub # 0
      /\ row' = row /\ seen' = seen /\ hook' = hook /\ createKeys' = createKeys
      /\ events' = events /\ answered' = answered /\ overlap' = overlap /\ links' = links
  BY DEF Update, Noop, stripeState
<1>2. LinkTypeOK /\ h \in Running
  BY <1>1, NotIdle DEF Running, LinkInv
<1>3. s.read \in CustomerRow /\ s.price \in Prices
  BY <1>2, LinkParts
<1>4. /\ subs \in Seq(S) /\ updateKeys \subseteq Prices
      /\ faults \in 0..MaxFaults /\ MaxFaults \in Nat
  BY SubscriptionAssumption, <1>2 DEF LinkTypeOK
<1>5. CASE Noop(h)
  <2>1. /\ subs' = subs /\ updateKeys' = updateKeys /\ faults' = faults
        /\ CommitWith(h, s.read) /\ s.read.price = s.price
    BY <1>5 DEF Noop, stripeState
  <2>2. KeepsIt(h, s.read)
    BY <2>1 DEF KeepsIt
  <2> QED
    BY <1>1, <1>2, <1>3, <1>4, <2>1, <2>2
<1>6. CASE Update(h)
  <2>1. s.read.price # s.price
    BY <1>6 DEF Update
  <2>2. Modified(s.read.sub, s.price) \/ (subs' = subs /\ updateKeys' = updateKeys)
    BY <1>6 DEF Update
  <2>3. updateKeys' \subseteq Prices /\ Len(subs') = Len(subs) /\ subs' \in Seq(S)
    <3>1. CASE subs' = subs /\ updateKeys' = updateKeys
      BY <1>4, <3>1
    <3>2. CASE /\ subs' = [subs EXCEPT ![s.read.sub].price = s.price]
               /\ updateKeys' = updateKeys \cup {s.price}
      <4>1. updateKeys' \subseteq Prices
        BY <1>3, <1>4, <3>2
      <4>2. \A n \in DOMAIN subs : [subs[n] EXCEPT !.price = s.price] \in S
        <5> SUFFICES ASSUME NEW n \in DOMAIN subs PROVE [subs[n] EXCEPT !.price = s.price] \in S
          OBVIOUS
        <5> DEFINE e == subs[n]
        <5>1. e \in S
          BY <1>4, ElementInSeq, Zenon
        <5> HIDE DEF e
        <5>2. [e EXCEPT !.price = s.price] \in S
          BY <1>3, <5>1
        <5> QED
          BY <5>2 DEF e
      <4>3. Len(subs') = Len(subs) /\ subs' \in Seq(S)
        <5> DEFINE n == s.read.sub
                   e == [subs[n] EXCEPT !.price = s.price]
        <5>1. subs' = [subs EXCEPT ![n] = e]
          BY <3>2
        <5>2. n \in DOMAIN subs => e \in S
          BY <4>2
        <5> HIDE DEF e, n, S
        <5> QED
          BY <1>4, <5>1, <5>2, ReplacedElement
      <4> QED
        BY <4>1, <4>3
    <3> QED
      BY <2>2, <3>1, <3>2 DEF Modified
  <2>4. \/ /\ CommitWith(h, [s.read EXCEPT !.price = s.price]) /\ faults' = faults
        \/ /\ CommitWith(h, s.read) /\ Fault
    BY <1>6 DEF Update
  <2>5. faults' \in 0..MaxFaults /\ (faults' = 0 => faults = 0)
    BY <1>4, <2>4 DEF Fault
  <2>6. CASE CommitWith(h, [s.read EXCEPT !.price = s.price])
    <3> DEFINE w == [s.read EXCEPT !.price = s.price]
    <3>1. w \in CustomerRow /\ w.sub = s.read.sub /\ w.attempts = s.read.attempts /\ w.status = s.read.status
      BY <1>3, RepricedRow
    <3>2. CommitWith(h, w)
      BY <2>6
    <3> HIDE DEF w
    <3>3. KeepsIt(h, w)
      BY <2>1, <3>1, <3>2 DEF KeepsIt
    <3> QED
      BY <1>1, <1>2, <2>3, <2>5, <3>1, <3>3
  <2>7. CASE CommitWith(h, s.read)
    <3>1. KeepsIt(h, s.read)
      BY <2>1, <2>7 DEF KeepsIt
    <3> QED
      BY <1>1, <1>2, <1>3, <2>3, <2>5, <3>1
  <2> QED
    BY <2>4, <2>6, <2>7
<1> QED
  BY <1>5, <1>6

LEMMA FoundLinkInv ==
  ASSUME LinkInv, NEW h \in Linkers, Update(h) \/ Noop(h)
  PROVE  LinkInv'
<1>1. /\ LinkTypeOK /\ Sessions /\ Bounded /\ LinkersFit /\ Booked /\ HooksFit /\ OneAtATime /\ Agreed
      /\ IsFiniteSet(Callers)
  BY DEF LinkInv, Bounded
<1>2. /\ h \in Running /\ req[h].pc = "call" /\ req[h].read.sub # 0
      /\ row' = row /\ seen' = seen /\ hook' = hook /\ createKeys' = createKeys
      /\ events' = events /\ answered' = answered /\ overlap' = overlap /\ links' = links
      /\ updateKeys' \subseteq Prices
      /\ Len(subs') = Len(subs)
      /\ subs' \in Seq([price : Prices, status : Statuses \cup {NoStatus}])
      /\ faults' \in 0..MaxFaults /\ (faults' = 0 => faults = 0)
  BY FoundEffect
<1>3. PICK w \in CustomerRow : KeepsIt(h, w)
  BY FoundEffect
<1>4. /\ w.sub = req[h].read.sub /\ w.attempts = req[h].read.attempts
      /\ w.status = req[h].read.status
      /\ req[h].read.price = req[h].price => w.price = req[h].price /\ subs' = subs
  BY <1>3 DEF KeepsIt
<1>5. /\ Sessions' /\ h \in Linkers
      /\ req'[h] \in Linking
      /\ req'[h].pc = "commit" /\ req'[h].price = req[h].price
      /\ req'[h].read = req[h].read /\ req'[h].write = w
      /\ \A g \in Linkers : g # h => req'[g] = req[g]
      /\ Running' = Running
      /\ Callers' = Callers \ {h}
  <2>1. CommitWith(h, w)
    BY <1>3 DEF KeepsIt
  <2>2. hook' = [g \in Hooks |-> hook'[g]]
    BY <1>1, <1>2 DEF Sessions
  <2> QED
    BY <1>1, <1>2, <2>1, <2>2, CommittingLink
<1>6. \A g \in Running : g \in Linkers /\ (g # h => req'[g] = req[g])
  BY <1>5 DEF Running
<1>7. LinkTypeOK'
  <2>1. \A g \in Linkers : req'[g] = Idle \/ req'[g] \in Linking
    BY <1>1, <1>5 DEF LinkTypeOK
  <2> QED
    BY <1>1, <1>2, <2>1 DEF LinkTypeOK, AttemptKeys
<1>8. Bounded'
  <2>1. h \in Callers
    BY <1>2 DEF Callers, Running
  <2>2. IsFiniteSet(Callers') /\ Cardinality(Callers') = Cardinality(Callers) - 1
    BY <1>1, <1>5, <2>1, FS_RemoveElement
  <2>3. Cardinality(Callers) \in Nat /\ links \in Nat /\ Len(subs) \in Nat
    BY SubscriptionAssumption, <1>1, FS_CardinalityType DEF LinkTypeOK
  <2>4. Len(subs') + Cardinality(Callers') <= links'
    <3>1. Len(subs) + Cardinality(Callers) <= links
      BY <1>1 DEF Bounded
    <3> QED
      BY <1>2, <2>2, <2>3, <3>1
  <2>5. ASSUME NEW g \in Running'
        PROVE  req'[g].read.attempts < links' /\ req'[g].write.attempts <= links'
    <3>1. req[g].read.attempts < links /\ req[g].write.attempts <= links
          /\ req[g].read.attempts \in 0..MaxLinks
      BY <1>1, <1>5, LinkParts, RowParts DEF Bounded
    <3> QED
      BY <1>2, <1>4, <1>5, <1>6, <2>3, <3>1
  <2> QED
    BY <1>1, <1>2, <2>2, <2>4, <2>5 DEF Bounded
<1>9. LinkersFit'
  BY <1>1, <1>2, <1>4, <1>5, <1>6 DEF LinkersFit
<1>10. Booked'
  BY <1>1, <1>2, <1>4, <1>5, <1>6 DEF Booked
<1>11. HooksFit'
  BY <1>1, <1>2, SameHooks
<1>12. OneAtATime'
  BY <1>1, <1>2, <1>5, <1>6 DEF OneAtATime, AttemptKeys
<1>13. Agreed'
  <2> SUFFICES ASSUME overlap' < 2, faults' = 0
               PROVE  /\ \A f, g \in Running' : req'[f].price = req'[g].price
                      /\ Len(subs') <= 1
                      /\ Len(subs') = 0 => NoneYet'
                      /\ Len(subs') = 1 => TheOne'
    BY DEF Agreed
  <2>1. overlap < 2 /\ faults = 0
    BY <1>2
  <2>2. \A f, g \in Running' : req'[f].price = req'[g].price
    BY <1>1, <1>2, <1>5, <1>6, <2>1 DEF Agreed
  <2>3. Len(subs) <= 1 /\ (Len(subs) = 0 => NoneYet) /\ (Len(subs) = 1 => TheOne)
    BY <1>1, <2>1, Zenon DEF Agreed
  <2>4. Len(subs) # 0
    BY <1>2, <2>3 DEF NoneYet
  <2>5. ASSUME TheOne PROVE TheOne'
    <3>1. ASSUME NEW g \in Running, req'[g].read.sub = 0
          PROVE  FindsIt(g)' /\ KeepsPrice(h) /\ w.price = req[h].price
      <4>1. g # h /\ req'[g] = req[g] /\ req[g].read.sub = 0
        BY <1>2, <1>5, <1>6, <3>1
      <4>2. FindsIt(g) /\ KeepsPrice(h)
        BY <1>2, <2>5, <4>1 DEF TheOne
      <4>3. w.price = req[h].price /\ subs' = subs
        BY <1>4, <4>2 DEF KeepsPrice
      <4> QED
        BY <1>2, <4>1, <4>2, <4>3 DEF FindsIt
    <3>2. ASSUME NEW g \in Running, req'[g].read.sub # 0, NEW f \in Running, req'[f].read.sub = 0
          PROVE  KeepsPrice(g)'
      <4>1. CASE g = h
        BY <1>5, <3>1, <3>2, <4>1 DEF KeepsPrice
      <4>2. CASE g # h
        <5>1. req'[g] = req[g] /\ f # h /\ req'[f] = req[f]
          BY <1>2, <1>5, <1>6, <3>2, <4>2
        <5>2. KeepsPrice(g)
          BY <2>5, <3>2, <5>1 DEF TheOne
        <5> QED
          BY <5>1, <5>2 DEF KeepsPrice
      <4> QED
        BY <4>1, <4>2
    <3>3. row'.sub = 0 =>
            /\ row'.attempts = 0
            /\ \E g \in Running : req'[g].pc = "commit" /\ req'[g].read.sub = 0
      BY <1>2, <1>6, <2>5 DEF TheOne
    <3> QED
      BY <1>5, <3>1, <3>2, <3>3 DEF TheOne
  <2> QED
    BY <1>2, <2>2, <2>3, <2>4, <2>5
<1> QED
  BY <1>5, <1>7, <1>8, <1>9, <1>10, <1>11, <1>12, <1>13 DEF LinkInv

LEMMA LinkCommitLinkInv ==
  ASSUME LinkInv, NEW h \in Linkers, LinkCommit(h)
  PROVE  LinkInv'
<1> DEFINE r == req[h].read
           w == req[h].write
<1>1. /\ LinkTypeOK /\ Sessions /\ Bounded /\ LinkersFit /\ Booked /\ HooksFit /\ OneAtATime /\ Agreed
      /\ IsFiniteSet(Callers)
  BY DEF LinkInv, Bounded
<1>2. /\ req[h].pc = "commit" /\ row' = Flush(r, w)
      /\ seen' = seen /\ hook' = hook /\ subs' = subs /\ createKeys' = createKeys
      /\ updateKeys' = updateKeys /\ events' = events /\ answered' = answered
      /\ overlap' = overlap /\ links' = links /\ faults' = faults
  BY DEF LinkCommit, stripeState
<1>3. /\ Sessions' /\ h \in Running
      /\ req'[h] = Idle
      /\ \A g \in Linkers : g # h => req'[g] = req[g]
      /\ Running' = Running \ {h}
      /\ Callers' = Callers
  BY <1>1, EndingLink
<1>4. \A g \in Running' : g \in Running /\ g # h /\ req'[g] = req[g]
  BY <1>3 DEF Running
<1>5. row \in CustomerRow /\ r \in CustomerRow /\ w \in CustomerRow
  BY <1>1, <1>3, LinkParts DEF LinkTypeOK
<1>6. /\ row' \in CustomerRow
      /\ row'.sub = IF w.sub # r.sub THEN w.sub ELSE row.sub
      /\ row'.price = IF w.price # r.price THEN w.price ELSE row.price
      /\ row'.attempts = IF w.attempts # r.attempts THEN w.attempts ELSE row.attempts
      /\ row'.status = IF w.status # r.status THEN w.status ELSE row.status
  BY <1>2, <1>5, FlushedRow
<1>7. /\ w.attempts = r.attempts \/ w.attempts = r.attempts + 1
      /\ r.sub # 0 => w.sub = r.sub
  BY <1>1, <1>3 DEF LinkersFit
<1>8. /\ row.sub = 0 => r.sub = 0 /\ row.price = NoPrice
      /\ r.sub = 0 => r.price = NoPrice
      /\ w.sub = 0 => w.price = NoPrice
  BY <1>1, <1>3 DEF Booked
<1> HIDE DEF r, w
<1>9. row'.sub = 0 => row.sub = 0 /\ w.sub = 0 /\ r.sub = 0
  BY <1>6, <1>7, <1>8
<1>10. LinkTypeOK'
  <2>1. \A g \in Linkers : req'[g] = Idle \/ req'[g] \in Linking
    BY <1>1, <1>3 DEF LinkTypeOK
  <2> QED
    BY <1>1, <1>2, <1>6, <2>1 DEF LinkTypeOK, AttemptKeys
<1>11. Bounded'
  <2>1. row'.attempts <= links'
    BY <1>1, <1>2, <1>3, <1>6 DEF Bounded, w
  <2> QED
    BY <1>1, <1>2, <1>3, <1>4, <2>1 DEF Bounded
<1>12. LinkersFit'
  BY <1>1, <1>4 DEF LinkersFit
<1>13. Booked'
  <2>1. row'.sub = 0 => row'.price = NoPrice
    BY <1>6, <1>8, <1>9
  <2>2. ASSUME NEW g \in Running'
        PROVE  /\ row'.sub = 0 => req'[g].read.sub = 0
               /\ req'[g].read.sub = 0 => req'[g].read.price = NoPrice
               /\ req'[g].write.sub = 0 => req'[g].write.price = NoPrice
    BY <1>1, <1>4, <1>9 DEF Booked
  <2> QED
    BY <2>1, <2>2 DEF Booked
<1>14. HooksFit'
  BY <1>1, <1>2, SameHooks
<1>15. OneAtATime'
  <2> SUFFICES ASSUME overlap' = 0
               PROVE  /\ \A f, g \in Running' : f = g
                      /\ \A g \in Running' :
                           req'[g].read.attempts = row'.attempts /\ req'[g].read.sub = row'.sub
                      /\ \A k \in AttemptKeys : createKeys'[k] # 0 => k <= row'.attempts + 1
                      /\ \A g \in Hooks : hook'[g] # Idle /\ hook'[g].read.sub # 0 =>
                           row'.sub = hook'[g].read.sub
    BY DEF OneAtATime, AttemptKeys
  <2>1. /\ \A f, g \in Running : f = g
        /\ r.attempts = row.attempts /\ r.sub = row.sub
        /\ \A k \in AttemptKeys : createKeys[k] # 0 => k <= row.attempts + 1
        /\ \A g \in Hooks : hook[g] # Idle /\ hook[g].read.sub # 0 => row.sub = hook[g].read.sub
    BY <1>1, <1>2, <1>3 DEF OneAtATime, r
  <2>2. Running' = {}
    BY <1>3, <2>1
  <2>3. row.attempts \in Nat /\ row'.attempts \in Nat /\ row.attempts <= row'.attempts
    BY SubscriptionAssumption, <1>5, <1>6, <1>7, <2>1, RowParts
  <2>4. \A k \in AttemptKeys : createKeys'[k] # 0 => k <= row'.attempts + 1
    <3>1. AttemptKeys \subseteq Nat
      BY SubscriptionAssumption DEF AttemptKeys
    <3> QED
      BY <1>2, <2>1, <2>3, <3>1
  <2>5. row.sub # 0 => row'.sub = row.sub
    BY <1>6, <1>7, <2>1
  <2> QED
    BY <1>2, <2>1, <2>2, <2>4, <2>5
<1>16. Agreed'
  <2> SUFFICES ASSUME overlap' < 2, faults' = 0
               PROVE  /\ \A f, g \in Running' : req'[f].price = req'[g].price
                      /\ Len(subs') <= 1
                      /\ Len(subs') = 0 => NoneYet'
                      /\ Len(subs') = 1 => TheOne'
    BY DEF Agreed
  <2>1. overlap < 2 /\ faults = 0
    BY <1>2
  <2>2. \A f, g \in Running' : req'[f].price = req'[g].price
    BY <1>1, <1>4, <2>1 DEF Agreed
  <2>3. Len(subs) <= 1 /\ (Len(subs) = 0 => NoneYet) /\ (Len(subs) = 1 => TheOne)
    BY <1>1, <2>1, Zenon DEF Agreed
  <2>4. Len(subs) # 0
    BY <1>2, <1>3, <2>3 DEF NoneYet
  <2>5. ASSUME TheOne PROVE TheOne'
    <3>1. r.sub = 0 => w.sub = 1 /\ w.price = req[h].price
      BY <1>2, <1>3, <2>5 DEF TheOne, FindsIt, r, w
    <3>2. row'.sub # 0
      BY <1>9, <3>1
    <3>3. ASSUME NEW g \in Running, req[g].read.sub = 0
          PROVE  row'.price = req[g].price
      <4>1. FindsIt(g) /\ req[g].price = req[h].price
        BY <1>1, <1>3, <2>1, <2>5, <3>3 DEF TheOne, Agreed
      <4>2. row.sub # 0 => row.price = req[h].price
        BY <4>1 DEF FindsIt
      <4>3. CASE r.sub = 0
        BY <1>6, <1>8, <3>1, <4>1, <4>2, <4>3
      <4>4. CASE r.sub # 0
        <5>1. r.price = req[h].price /\ w.price = req[h].price
          BY <1>3, <2>5, <3>3, <4>4 DEF TheOne, KeepsPrice, r, w
        <5>2. row.sub # 0
          BY <1>8, <4>4
        <5> QED
          BY <1>6, <4>1, <4>2, <5>1, <5>2
      <4> QED
        BY <4>3, <4>4
    <3>4. ASSUME NEW g \in Running', req'[g].read.sub = 0 PROVE FindsIt(g)'
      <4>1. g \in Running /\ req'[g] = req[g] /\ FindsIt(g)
        BY <1>4, <2>5, <3>4 DEF TheOne
      <4>2. row'.price = req[g].price
        BY <3>3, <3>4, <4>1
      <4> QED
        BY <1>2, <4>1, <4>2 DEF FindsIt
    <3>5. ASSUME NEW g \in Running', req'[g].read.sub # 0, NEW f \in Running', req'[f].read.sub = 0
          PROVE  KeepsPrice(g)'
      BY <1>4, <2>5, <3>5 DEF TheOne, KeepsPrice
    <3> QED
      BY <3>2, <3>4, <3>5 DEF TheOne
  <2> QED
    BY <1>2, <2>2, <2>3, <2>4, <2>5
<1> QED
  BY <1>3, <1>10, <1>11, <1>12, <1>13, <1>14, <1>15, <1>16 DEF LinkInv

LEMMA KeysExpireLinkInv ==
  ASSUME LinkInv, KeysExpire
  PROVE  LinkInv'
<1>1. /\ LinkTypeOK /\ Sessions /\ Bounded /\ LinkersFit /\ Booked /\ HooksFit /\ OneAtATime /\ Agreed
  BY DEF LinkInv
<1>2. /\ \A h \in Linkers : req[h] = Idle
      /\ updateKeys' = {} /\ createKeys' = [k \in AttemptKeys |-> 0]
      /\ row' = row /\ seen' = seen /\ req' = req /\ hook' = hook /\ subs' = subs
      /\ events' = events /\ answered' = answered /\ overlap' = overlap /\ links' = links
      /\ faults' = faults
  BY DEF KeysExpire
<1>3. Running = {} /\ Running' = {} /\ Callers' = Callers
  BY <1>2, SameLinkers DEF Running
<1>4. LinkTypeOK'
  <2>1. createKeys' \in [AttemptKeys -> 0..Len(subs)]
    BY <1>1, <1>2 DEF LinkTypeOK
  <2> QED
    BY <1>1, <1>2, <2>1 DEF LinkTypeOK, AttemptKeys
<1>5. Sessions' /\ Bounded' /\ LinkersFit' /\ Booked'
  BY <1>1, <1>2, <1>3 DEF Sessions, Bounded, LinkersFit, Booked
<1>6. HooksFit'
  BY <1>1, <1>2, SameHooks
<1>7. OneAtATime'
  <2>1. \A k \in AttemptKeys' : createKeys'[k] = 0
    BY <1>2 DEF AttemptKeys
  <2> QED
    BY <1>1, <1>2, <1>3, <2>1 DEF OneAtATime
<1>8. Agreed'
  <2>1. NoneYet => NoneYet'
    BY <1>2, <1>3 DEF NoneYet, AttemptKeys
  <2>2. TheOne => TheOne'
    BY <1>2, <1>3 DEF TheOne
  <2> QED
    BY <1>1, <1>2, <1>3, <2>1, <2>2 DEF Agreed
<1> QED
  BY <1>4, <1>5, <1>6, <1>7, <1>8 DEF LinkInv

LEMMA StatusChangesLinkInv ==
  ASSUME LinkInv, NEW n \in 1..Len(subs), NEW st \in Statuses,
         StatusChanges(n, st)
  PROVE  LinkInv'
<1> DEFINE S == [price : Prices, status : Statuses \cup {NoStatus}]
<1>1. /\ LinkTypeOK /\ Sessions /\ Bounded /\ LinkersFit /\ Booked /\ HooksFit /\ OneAtATime /\ Agreed
  BY DEF LinkInv
<1>2. /\ Len(events) < MaxEvents
      /\ subs' = [subs EXCEPT ![n].status = st]
      /\ events' = Append(events, [sub |-> n, status |-> st])
      /\ row' = row /\ seen' = seen /\ req' = req /\ hook' = hook /\ createKeys' = createKeys
      /\ updateKeys' = updateKeys /\ answered' = answered /\ overlap' = overlap
      /\ links' = links /\ faults' = faults
  BY DEF StatusChanges
<1>3. Running' = Running /\ Callers' = Callers
  BY <1>2, SameLinkers
<1>4. subs \in Seq(S) /\ events \in Seq(Event) /\ Len(subs) \in Nat /\ Len(events) \in Nat
  BY <1>1 DEF LinkTypeOK
<1>5. n \in DOMAIN subs
  BY <1>4
<1>6. Len(subs') = Len(subs) /\ subs' \in Seq(S)
  <2> DEFINE o == subs[n]
             e == [o EXCEPT !.status = st]
  <2>1. o \in S
    BY <1>4, <1>5, ElementInSeq, Zenon
  <2> HIDE DEF o
  <2>2. e \in S
    BY <2>1
  <2>3. subs' = [subs EXCEPT ![n] = e]
    BY <1>2 DEF o
  <2> HIDE DEF e, S
  <2> QED
    BY <1>4, <2>2, <2>3, ReplacedElement
<1>7. ASSUME Len(subs) = 1 PROVE subs'[1].price = subs[1].price
  <2> DEFINE o == subs[n]
  <2>1. n = 1
    BY <1>7
  <2>2. o \in S
    BY <1>4, <1>5, ElementInSeq, Zenon
  <2>3. subs'[n] = [o EXCEPT !.status = st]
    BY <1>2, <1>5
  <2> HIDE DEF o
  <2>4. [o EXCEPT !.status = st].price = o.price
    BY <2>2
  <2> QED
    BY <2>1, <2>3, <2>4 DEF o
<1>8. [sub |-> n, status |-> st] \in Event
  <2>1. Cardinality(Callers) \in Nat
    BY <1>1, FS_CardinalityType DEF Bounded
  <2>2. n \in SubId
    BY SubscriptionAssumption, <1>1, <1>4, <2>1 DEF Bounded, LinkTypeOK, SubId
  <2> QED
    BY <2>2 DEF Event
<1>9. /\ events' \in Seq(Event) /\ Len(events') = Len(events) + 1
      /\ \A e \in 1..Len(events) : events'[e] = events[e]
  <2> DEFINE v == [sub |-> n, status |-> st]
  <2>1. v \in Event /\ events' = Append(events, v)
    BY <1>2, <1>8
  <2> HIDE DEF v
  <2> QED
    BY <1>4, <2>1
<1>10. LinkTypeOK'
  <2>1. seen \subseteq 1..Len(events')
    BY <1>1, <1>4, <1>9 DEF LinkTypeOK
  <2>2. createKeys' \in [AttemptKeys -> 0..Len(subs')]
    BY <1>1, <1>2, <1>6 DEF LinkTypeOK
  <2> QED
    BY <1>1, <1>2, <1>6, <1>9, <2>1, <2>2 DEF LinkTypeOK, AttemptKeys
<1>11. Sessions' /\ LinkersFit' /\ Booked' /\ OneAtATime'
  BY <1>1, <1>2, <1>3 DEF Sessions, LinkersFit, Booked, OneAtATime, AttemptKeys
<1>12. Bounded'
  <2>1. Len(events') <= MaxEvents
    BY SubscriptionAssumption, <1>2, <1>4, <1>9
  <2> QED
    BY <1>1, <1>2, <1>3, <1>6, <2>1 DEF Bounded
<1>13. HooksFit'
  <2>1. ASSUME NEW g \in Hooks, hook[g] # Idle PROVE HookFits(g)'
    <3>1. HookFits(g)
      BY <1>1, <2>1 DEF HooksFit
    <3>2. hook[g].event \in 1..Len(events)
      BY <3>1 DEF HookFits
    <3>3. hook[g].event \in 1..Len(events') /\ events'[hook[g].event] = events[hook[g].event]
      BY <1>4, <1>9, <3>2
    <3> QED
      BY <1>2, <3>1, <3>3 DEF HookFits
  <2> QED
    BY <1>1, <1>2, <2>1 DEF HooksFit
<1>14. Agreed'
  <2>1. NoneYet => NoneYet'
    BY <1>2, <1>3 DEF NoneYet, AttemptKeys
  <2>2. ASSUME TheOne, Len(subs) = 1 PROVE TheOne'
    <3>1. \A g \in Running : (FindsIt(g) => FindsIt(g)') /\ (KeepsPrice(g) => KeepsPrice(g)')
      BY <1>2, <1>7, <2>2 DEF FindsIt, KeepsPrice
    <3> QED
      BY <1>2, <1>3, <2>2, <3>1 DEF TheOne
  <2> QED
    BY <1>1, <1>2, <1>3, <1>6, <2>1, <2>2 DEF Agreed
<1> QED
  BY <1>10, <1>11, <1>12, <1>13, <1>14 DEF LinkInv

\* What does not touch the endpoint's side keeps its part of the invariant.
LEMMA EndpointKept ==
  ASSUME LinkInv, UNCHANGED <<req, subs, createKeys, overlap, links>>,
         row'.sub = row.sub, row'.price = row.price, row'.attempts = row.attempts,
         faults' = 0 => faults = 0
  PROVE  /\ Running' = Running /\ Callers' = Callers
         /\ LinkersFit' /\ Booked' /\ Agreed'
<1>1. Running' = Running /\ Callers' = Callers
  BY SameLinkers
<1>2. LinkersFit /\ Booked /\ Agreed
  BY DEF LinkInv
<1>3. LinkersFit' /\ Booked'
  BY <1>1, <1>2 DEF LinkersFit, Booked
<1>4. NoneYet => NoneYet'
  BY <1>1 DEF NoneYet, AttemptKeys
<1>5. TheOne => TheOne'
  <2>1. \A g \in Running : (FindsIt(g) => FindsIt(g)') /\ (KeepsPrice(g) => KeepsPrice(g)')
    BY DEF FindsIt, KeepsPrice
  <2> QED
    BY <1>1, <2>1 DEF TheOne
<1>6. Agreed'
  BY <1>1, <1>2, <1>4, <1>5 DEF Agreed
<1> QED
  BY <1>1, <1>3, <1>6

LEMMA InvoiceFailsLinkInv ==
  ASSUME LinkInv, InvoiceFails
  PROVE  LinkInv'
<1> DEFINE v == [sub |-> 0, status |-> PastDue]
<1>1. /\ LinkTypeOK /\ Sessions /\ Bounded /\ HooksFit /\ OneAtATime
  BY DEF LinkInv
<1>2. /\ Len(events) < MaxEvents /\ events' = Append(events, v)
      /\ row' = row /\ seen' = seen /\ req' = req /\ hook' = hook /\ subs' = subs
      /\ createKeys' = createKeys /\ updateKeys' = updateKeys /\ answered' = answered
      /\ overlap' = overlap /\ links' = links /\ faults' = faults
  BY DEF InvoiceFails
<1>3. Running' = Running /\ Callers' = Callers /\ LinkersFit' /\ Booked' /\ Agreed'
  BY <1>2, EndpointKept
<1>4. events \in Seq(Event) /\ Len(events) \in Nat
  BY <1>1 DEF LinkTypeOK
<1>5. v \in Event
  <2>1. 0 \in SubId
    BY SubscriptionAssumption DEF SubId
  <2> QED
    BY <2>1, SubscriptionAssumption DEF Event
<1> HIDE DEF v
<1>6. /\ events' \in Seq(Event) /\ Len(events') = Len(events) + 1
      /\ \A e \in 1..Len(events) : events'[e] = events[e]
  BY <1>2, <1>4, <1>5
<1>7. LinkTypeOK'
  <2>1. seen \subseteq 1..Len(events')
    BY <1>1, <1>4, <1>6 DEF LinkTypeOK
  <2> QED
    BY <1>1, <1>2, <1>6, <2>1 DEF LinkTypeOK, AttemptKeys
<1>8. Sessions' /\ OneAtATime'
  BY <1>1, <1>2, <1>3 DEF Sessions, OneAtATime, AttemptKeys
<1>9. Bounded'
  <2>1. Len(events') <= MaxEvents
    BY SubscriptionAssumption, <1>2, <1>4, <1>6
  <2> QED
    BY <1>1, <1>2, <1>3, <2>1 DEF Bounded
<1>10. HooksFit'
  <2>1. ASSUME NEW g \in Hooks, hook[g] # Idle PROVE HookFits(g)'
    <3>1. HookFits(g)
      BY <1>1, <2>1 DEF HooksFit
    <3>2. hook[g].event \in 1..Len(events)
      BY <3>1 DEF HookFits
    <3>3. hook[g].event \in 1..Len(events') /\ events'[hook[g].event] = events[hook[g].event]
      BY <1>4, <1>6, <3>2
    <3> QED
      BY <1>2, <3>1, <3>3 DEF HookFits
  <2> QED
    BY <1>1, <1>2, <2>1 DEF HooksFit
<1> QED
  BY <1>3, <1>7, <1>8, <1>9, <1>10 DEF LinkInv

LEMMA HookStartLinkInv ==
  ASSUME LinkInv, NEW h \in Hooks, NEW e \in 1..Len(events), HookStart(h, e)
  PROVE  LinkInv'
<1> DEFINE w == WithStatus(e)
           s == [pc |-> "commit", event |-> e, read |-> row, write |-> w]
<1>1. /\ LinkTypeOK /\ Sessions /\ Bounded /\ HooksFit /\ OneAtATime
  BY DEF LinkInv
<1>2. /\ hook[h] = Idle /\ e \notin seen
      /\ \A g \in Hooks : hook[g] # Idle => hook[g].event # e
      /\ hook' = [hook EXCEPT ![h] = s]
      /\ row' = row /\ seen' = seen /\ req' = req /\ subs' = subs /\ createKeys' = createKeys
      /\ updateKeys' = updateKeys /\ events' = events /\ answered' = answered
      /\ overlap' = overlap /\ links' = links /\ faults' = faults
  BY DEF HookStart, stripeState
<1>3. Running' = Running /\ Callers' = Callers /\ LinkersFit' /\ Booked' /\ Agreed'
  BY <1>2, EndpointKept
<1>4. row \in CustomerRow /\ e \in 1..MaxEvents /\ events[e] \in Event
  BY SubscriptionAssumption, <1>1, ElementInSeq DEF LinkTypeOK, Bounded
<1>5. /\ w \in CustomerRow /\ w.sub = row.sub /\ w.price = row.price /\ w.attempts = row.attempts
      /\ IF row.sub = events[e].sub
         THEN w.status = events[e].status ELSE w.status = row.status
  <2>1. CASE row.sub = events[e].sub
    <3> DEFINE st == events[e].status
    <3>1. w = [row EXCEPT !.status = st]
      BY <2>1 DEF WithStatus
    <3>2. st \in Statuses
      BY <1>4 DEF Event
    <3>3. row = [sub |-> row.sub, price |-> row.price, attempts |-> row.attempts, status |-> row.status]
      BY <1>4, RowParts
    <3> HIDE DEF st
    <3>4. [row EXCEPT !.status = st]
            = [sub |-> row.sub, price |-> row.price, attempts |-> row.attempts, status |-> st]
      <4>1. DOMAIN row = {"sub", "price", "attempts", "status"}
        BY <3>3
      <4> QED
        BY <3>3, <4>1
    <3>5. [sub |-> row.sub, price |-> row.price, attempts |-> row.attempts, status |-> st] \in CustomerRow
      BY <1>4, <3>2, RowParts, RowMade
    <3>6. w.status = st
      BY <3>1, <3>4
    <3> HIDE DEF w
    <3> QED
      BY <2>1, <3>1, <3>4, <3>5, <3>6 DEF st
  <2>2. CASE row.sub # events[e].sub
    <3>1. w = row
      BY <2>2 DEF WithStatus
    <3> HIDE DEF w
    <3> QED
      BY <1>4, <2>2, <3>1
  <2> QED
    BY <2>1, <2>2
<1> HIDE DEF w
<1>6. hook' = [g \in Hooks |-> IF g = h THEN s ELSE hook[g]]
  BY <1>1, <1>2, Zenon DEF Sessions
<1>7. /\ hook'[h] = s /\ \A g \in Hooks : g # h => hook'[g] = hook[g]
      /\ hook' = [g \in Hooks |-> hook'[g]]
  BY <1>6
<1>8. s \in Hooking /\ s # Idle
  BY <1>4, <1>5, NotIdle DEF Hooking
<1>9. s.event = e /\ s.read = row /\ s.write = w
  OBVIOUS
<1> HIDE DEF s
<1>10. LinkTypeOK'
  <2>1. \A g \in Hooks : hook'[g] = Idle \/ hook'[g] \in Hooking
    BY <1>1, <1>7, <1>8 DEF LinkTypeOK
  <2> QED
    BY <1>1, <1>2, <2>1 DEF LinkTypeOK, AttemptKeys
<1>11. Sessions'
  BY <1>1, <1>2, <1>7 DEF Sessions
<1>12. Bounded'
  <2>1. \A g \in Hooks : hook'[g] # Idle =>
          hook'[g].read.attempts <= links' /\ hook'[g].write.attempts = hook'[g].read.attempts
    BY <1>1, <1>2, <1>5, <1>7, <1>9 DEF Bounded
  <2> QED
    BY <1>1, <1>2, <1>3, <2>1 DEF Bounded
<1>13. HooksFit'
  <2>1. HookFits(h)'
    BY <1>2, <1>5, <1>7, <1>9 DEF HookFits
  <2>2. ASSUME NEW g \in Hooks, g # h, hook'[g] # Idle
        PROVE  HookFits(g)' /\ hook'[g].event # e
    <3>1. hook'[g] = hook[g] /\ hook[g] # Idle
      BY <1>7, <2>2
    <3>2. HookFits(g)
      BY <1>1, <3>1 DEF HooksFit
    <3> QED
      BY <1>2, <3>1, <3>2 DEF HookFits
  <2>3. ASSUME NEW f \in Hooks, NEW g \in Hooks, hook'[f] # Idle, hook'[g] # Idle,
               hook'[f].event = hook'[g].event
        PROVE  f = g
    <3>1. CASE f = h
      BY <1>7, <1>9, <2>2, <2>3, <3>1
    <3>2. CASE g = h
      BY <1>7, <1>9, <2>2, <2>3, <3>2
    <3>3. CASE f # h /\ g # h
      BY <1>1, <1>7, <2>3, <3>3 DEF HooksFit
    <3> QED
      BY <3>1, <3>2, <3>3
  <2> QED
    BY <2>1, <2>2, <2>3 DEF HooksFit
<1>14. OneAtATime'
  <2> SUFFICES ASSUME overlap' = 0 PROVE
        /\ \A f, g \in Running : f = g
        /\ \A g \in Running : req[g].read.attempts = row.attempts /\ req[g].read.sub = row.sub
        /\ \A k \in AttemptKeys : createKeys[k] # 0 => k <= row.attempts + 1
        /\ \A g \in Hooks : hook'[g] # Idle /\ hook'[g].read.sub # 0 => row.sub = hook'[g].read.sub
    BY <1>2, <1>3 DEF OneAtATime, AttemptKeys
  <2>1. \A g \in Hooks : hook'[g] # Idle /\ hook'[g].read.sub # 0 => row.sub = hook'[g].read.sub
    BY <1>1, <1>2, <1>7, <1>9 DEF OneAtATime
  <2> QED
    BY <1>1, <1>2, <2>1 DEF OneAtATime
<1> QED
  BY <1>3, <1>10, <1>11, <1>12, <1>13, <1>14 DEF LinkInv

\* What the commit of a webhook request writes: the status and nothing else.
LEMMA HookCommitEffect ==
  ASSUME LinkInv, NEW h \in Hooks, HookCommit(h)
  PROVE  /\ hook[h] # Idle /\ HookFits(h)
         /\ row' \in CustomerRow /\ row'.sub = row.sub /\ row'.price = row.price
         /\ row'.attempts = row.attempts
         /\ row'.status = IF hook[h].write.status # hook[h].read.status
                          THEN hook[h].write.status ELSE row.status
<1>1. LinkTypeOK /\ HooksFit
  BY DEF LinkInv
<1>2. hook[h].pc = "commit" /\ row' = Flush(hook[h].read, hook[h].write)
  BY DEF HookCommit
<1>3. hook[h] # Idle
  BY <1>2, NotIdle
<1>4. hook[h].read \in CustomerRow /\ hook[h].write \in CustomerRow /\ row \in CustomerRow
  BY <1>1, <1>3, HookParts DEF LinkTypeOK
<1>5. HookFits(h)
  BY <1>1, <1>3 DEF HooksFit
<1>6. /\ hook[h].write.sub = hook[h].read.sub /\ hook[h].write.price = hook[h].read.price
      /\ hook[h].write.attempts = hook[h].read.attempts
  BY <1>5 DEF HookFits
<1> QED
  BY <1>2, <1>3, <1>4, <1>5, <1>6, FlushedRow

LEMMA HookCommitLinkInv ==
  ASSUME LinkInv, NEW h \in Hooks, HookCommit(h)
  PROVE  LinkInv'
<1> DEFINE e == hook[h].event
<1>1. /\ LinkTypeOK /\ Sessions /\ Bounded /\ HooksFit /\ OneAtATime
  BY DEF LinkInv
<1>2. /\ seen' = seen \cup {e} /\ hook' = [hook EXCEPT ![h] = Idle]
      /\ req' = req /\ subs' = subs /\ createKeys' = createKeys /\ updateKeys' = updateKeys
      /\ events' = events /\ overlap' = overlap /\ links' = links
  BY DEF HookCommit
<1>3. answered' \subseteq seen' /\ faults' \in 0..MaxFaults /\ (faults' = 0 => faults = 0)
  <2>1. answered \subseteq seen /\ faults \in 0..MaxFaults /\ MaxFaults \in Nat
    BY SubscriptionAssumption, <1>1 DEF LinkTypeOK
  <2>2. \/ answered' = answered \cup {e} /\ faults' = faults
        \/ Fault /\ answered' = answered
    BY DEF HookCommit
  <2> QED
    BY <1>2, <2>1, <2>2 DEF Fault
<1>4. /\ hook[h] # Idle /\ HookFits(h)
      /\ row' \in CustomerRow /\ row'.sub = row.sub /\ row'.price = row.price
      /\ row'.attempts = row.attempts
  BY HookCommitEffect
<1>5. e \in 1..Len(events) /\ e \notin seen
  BY <1>4 DEF HookFits
<1>6. Running' = Running /\ Callers' = Callers /\ LinkersFit' /\ Booked' /\ Agreed'
  BY <1>2, <1>3, <1>4, EndpointKept
<1>7. hook' = [g \in Hooks |-> IF g = h THEN Idle ELSE hook[g]]
  BY <1>1, <1>2, Zenon DEF Sessions
<1>8. /\ hook'[h] = Idle /\ \A g \in Hooks : g # h => hook'[g] = hook[g]
      /\ hook' = [g \in Hooks |-> hook'[g]]
  BY <1>7
<1>9. \A g \in Hooks : hook'[g] # Idle => g # h /\ hook'[g] = hook[g] /\ hook[g] # Idle
  BY <1>8
<1>10. LinkTypeOK'
  <2>1. \A g \in Hooks : hook'[g] = Idle \/ hook'[g] \in Hooking
    BY <1>1, <1>8 DEF LinkTypeOK
  <2>2. seen' \subseteq 1..Len(events')
    BY <1>1, <1>2, <1>5 DEF LinkTypeOK
  <2> QED
    BY <1>1, <1>2, <1>3, <1>4, <2>1, <2>2 DEF LinkTypeOK, AttemptKeys
<1>11. Sessions'
  BY <1>1, <1>2, <1>8 DEF Sessions
<1>12. Bounded'
  <2>1. \A g \in Hooks : hook'[g] # Idle =>
          hook'[g].read.attempts <= links' /\ hook'[g].write.attempts = hook'[g].read.attempts
    BY <1>1, <1>2, <1>9 DEF Bounded
  <2> QED
    BY <1>1, <1>2, <1>4, <1>6, <2>1 DEF Bounded
<1>13. HooksFit'
  <2>1. ASSUME NEW g \in Hooks, hook'[g] # Idle PROVE HookFits(g)'
    <3>1. g # h /\ hook'[g] = hook[g] /\ hook[g] # Idle
      BY <1>9, <2>1
    <3>2. HookFits(g) /\ hook[g].event # e
      BY <1>1, <1>4, <3>1 DEF HooksFit
    <3>3. hook[g].event \notin seen'
      BY <1>2, <3>2 DEF HookFits
    <3> QED
      BY <1>2, <3>1, <3>2, <3>3 DEF HookFits
  <2>2. ASSUME NEW f \in Hooks, NEW g \in Hooks, hook'[f] # Idle, hook'[g] # Idle,
               hook'[f].event = hook'[g].event
        PROVE  f = g
    BY <1>1, <1>9, <2>2 DEF HooksFit
  <2> QED
    BY <2>1, <2>2 DEF HooksFit
<1>14. OneAtATime'
  <2> SUFFICES ASSUME overlap' = 0 PROVE
        /\ \A f, g \in Running : f = g
        /\ \A g \in Running : req[g].read.attempts = row.attempts /\ req[g].read.sub = row.sub
        /\ \A k \in AttemptKeys : createKeys[k] # 0 => k <= row.attempts + 1
        /\ \A g \in Hooks : hook'[g] # Idle /\ hook'[g].read.sub # 0 => row.sub = hook'[g].read.sub
    BY <1>2, <1>4, <1>6 DEF OneAtATime, AttemptKeys
  <2>1. \A g \in Hooks : hook'[g] # Idle /\ hook'[g].read.sub # 0 => row.sub = hook'[g].read.sub
    BY <1>1, <1>2, <1>9 DEF OneAtATime
  <2> QED
    BY <1>1, <1>2, <2>1 DEF OneAtATime
<1> QED
  BY <1>6, <1>10, <1>11, <1>12, <1>13, <1>14 DEF LinkInv

LEMMA HookDuplicateLinkInv ==
  ASSUME LinkInv, NEW e \in 1..Len(events), HookDuplicate(e)
  PROVE  LinkInv'
<1>1. /\ e \in seen /\ answered' = answered \cup {e}
      /\ row' = row /\ seen' = seen /\ req' = req /\ hook' = hook /\ subs' = subs
      /\ createKeys' = createKeys /\ updateKeys' = updateKeys /\ events' = events
      /\ overlap' = overlap /\ links' = links /\ faults' = faults
  BY DEF HookDuplicate
<1>2. Running' = Running /\ Callers' = Callers /\ LinkersFit' /\ Booked' /\ Agreed'
  BY <1>1, EndpointKept
<1>3. LinkTypeOK /\ Sessions /\ Bounded /\ HooksFit /\ OneAtATime
  BY DEF LinkInv
<1>4. LinkTypeOK'
  BY <1>1, <1>3 DEF LinkTypeOK, AttemptKeys
<1>5. HooksFit'
  BY <1>1, <1>3, SameHooks
<1>6. Sessions' /\ Bounded' /\ OneAtATime'
  BY <1>1, <1>2, <1>3 DEF Sessions, Bounded, OneAtATime, AttemptKeys
<1> QED
  BY <1>2, <1>4, <1>5, <1>6 DEF LinkInv

LEMMA CrashLinkInv ==
  ASSUME LinkInv, LinkCrash
  PROVE  LinkInv'
<1>1. /\ Fault /\ req' = [h \in Linkers |-> Idle] /\ hook' = [h \in Hooks |-> Idle]
      /\ row' = row /\ seen' = seen /\ subs' = subs /\ createKeys' = createKeys
      /\ updateKeys' = updateKeys /\ events' = events /\ answered' = answered
      /\ overlap' = overlap /\ links' = links
  BY DEF LinkCrash, stripeState
<1>2. LinkTypeOK /\ Bounded /\ OneAtATime /\ Booked
  BY DEF LinkInv
<1>3. Running' = {} /\ Callers' = {} /\ \A h \in Hooks : hook'[h] = Idle
  BY <1>1 DEF Running, Callers
<1>4. faults' \in 0..MaxFaults /\ faults' # 0
  BY SubscriptionAssumption, <1>1, <1>2 DEF Fault, LinkTypeOK
<1>5. LinkTypeOK'
  <2>1. /\ \A h \in Linkers : req'[h] = Idle
        /\ \A h \in Hooks : hook'[h] = Idle
    BY <1>1
  <2> QED
    BY <1>1, <1>2, <1>4, <2>1 DEF LinkTypeOK, AttemptKeys
<1>6. Sessions'
  BY <1>1 DEF Sessions
<1>7. Bounded'
  <2>1. IsFiniteSet(Callers') /\ Cardinality(Callers') = 0
    BY <1>3, FS_EmptySet
  <2>2. Len(subs) \in Nat /\ Cardinality(Callers) \in Nat /\ links \in Nat
    BY SubscriptionAssumption, <1>2, FS_CardinalityType DEF Bounded, LinkTypeOK
  <2>3. Len(subs') + Cardinality(Callers') <= links'
    BY <1>1, <1>2, <2>1, <2>2 DEF Bounded
  <2> QED
    BY <1>1, <1>2, <1>3, <2>1, <2>3 DEF Bounded
<1>8. LinkersFit' /\ Booked' /\ HooksFit'
  BY <1>1, <1>2, <1>3 DEF LinkersFit, Booked, HooksFit
<1>9. OneAtATime' /\ Agreed'
  BY <1>1, <1>2, <1>3, <1>4 DEF OneAtATime, Agreed, AttemptKeys
<1> QED
  BY <1>5, <1>6, <1>7, <1>8, <1>9 DEF LinkInv

LEMMA NextLinkInv ==
  ASSUME LinkInv, [LinkNext]_linkVars
  PROVE  LinkInv'
<1>1. CASE UNCHANGED linkVars
  <2>1. UNCHANGED <<req, subs, createKeys, overlap, links, row, faults, hook, events, seen>>
        /\ UNCHANGED <<updateKeys, answered>>
    BY <1>1 DEF linkVars
  <2>2. LinkTypeOK /\ Sessions /\ Bounded /\ HooksFit /\ OneAtATime
    BY DEF LinkInv
  <2>3. Running' = Running /\ Callers' = Callers /\ LinkersFit' /\ Booked' /\ Agreed'
    BY <2>1, EndpointKept
  <2>4. LinkTypeOK' /\ Sessions' /\ Bounded' /\ OneAtATime'
    BY <2>1, <2>2, <2>3 DEF LinkTypeOK, Sessions, Bounded, OneAtATime, AttemptKeys
  <2>5. HooksFit'
    BY <2>1, <2>2, SameHooks
  <2> QED
    BY <2>3, <2>4, <2>5 DEF LinkInv
<1>2. ASSUME NEW h \in Linkers, Link(h) PROVE LinkInv'
  <2>1. CASE \E p \in Prices : LinkStart(h, p)
    BY <2>1, LinkStartLinkInv
  <2>2. CASE Create(h)
    BY <2>2, CreateLinkInv
  <2>3. CASE Update(h) \/ Noop(h)
    BY <2>3, FoundLinkInv
  <2>4. CASE LinkCommit(h)
    BY <2>4, LinkCommitLinkInv
  <2> QED
    BY <1>2, <2>1, <2>2, <2>3, <2>4 DEF Link
<1>3. CASE Webhook
  <2>1. CASE \E h \in Hooks : HookCommit(h)
    BY <2>1, HookCommitLinkInv
  <2>2. ASSUME NEW e \in 1..Len(events), HookDuplicate(e) PROVE LinkInv'
    BY <2>2, HookDuplicateLinkInv
  <2>3. ASSUME NEW e \in 1..Len(events), NEW h \in Hooks, HookStart(h, e) PROVE LinkInv'
    BY <2>3, HookStartLinkInv
  <2> QED
    BY <1>3, <2>1, <2>2, <2>3 DEF Webhook
<1>4. CASE LinkCrash
  BY <1>4, CrashLinkInv
<1>5. CASE KeysExpire
  BY <1>5, KeysExpireLinkInv
<1>6. ASSUME NEW n \in 1..Len(subs), NEW st \in Statuses, StatusChanges(n, st) PROVE LinkInv'
  BY <1>6, StatusChangesLinkInv
<1>7. CASE InvoiceFails
  BY <1>7, InvoiceFailsLinkInv
<1> QED
  BY <1>1, <1>2, <1>3, <1>4, <1>5, <1>6, <1>7 DEF LinkNext

-----------------------------------------------------------------------------
(* The theorems.                                                           *)

\* The invariant holds in every behaviour.
THEOREM LinkInvHolds ==
  LinkSpec => []LinkInv
<1>1. LinkInit => LinkInv
  BY InitLinkInv
<1>2. LinkInv /\ [LinkNext]_linkVars => LinkInv'
  BY NextLinkInv
<1> QED
  BY <1>1, <1>2, PTL DEF LinkSpec

\* Every variable keeps its type: an attempt, a subscription number and an
\* event stay within the requests and the status changes there were.
THEOREM LinkTypes ==
  LinkSpec => []LinkTypeOK
<1>1. LinkInv => LinkTypeOK
  BY DEF LinkInv
<1> QED
  BY <1>1, LinkInvHolds, PTL

\* Link requests that overlap agree on one subscription.
THEOREM OneSubscription ==
  LinkSpec => []OverlappingLinksAgree
<1>1. LinkInv => OverlappingLinksAgree
  BY DEF LinkInv, Agreed, OverlappingLinksAgree
<1> QED
  BY <1>1, LinkInvHolds, PTL

\* Only a call under a key Stripe does not know makes a subscription.
LEMMA OnlyCreateSubscribes ==
  ASSUME LinkInv, [LinkNext]_linkVars, Len(subs') > Len(subs)
  PROVE  \E h \in Linkers : Create(h)
<1>1. Len(subs) \in Nat
  BY DEF LinkInv, LinkTypeOK
<1>2. Len(subs') # Len(subs)
  BY <1>1
<1>3. ~UNCHANGED subs
  BY <1>2
<1>4. ASSUME NEW h \in Linkers, Link(h) PROVE Create(h)
  <2>1. ~(Update(h) \/ Noop(h))
    BY <1>2, FoundEffect
  <2> QED
    BY <1>3, <1>4, <2>1 DEF Link, LinkStart, LinkCommit, stripeState
<1>5. ~(Webhook \/ LinkCrash \/ KeysExpire \/ UNCHANGED linkVars)
  BY <1>3 DEF Webhook, HookCommit, HookDuplicate, HookStart, LinkCrash, KeysExpire,
     stripeState, linkVars
<1>6. ASSUME NEW n \in 1..Len(subs), NEW st \in Statuses, StatusChanges(n, st) PROVE FALSE
  <2>1. subs' = [subs EXCEPT ![n].status = st]
    BY <1>6 DEF StatusChanges
  <2>2. Len(subs') = Len(subs)
    <3> DEFINE e == [subs[n] EXCEPT !.status = st]
               S == [price : Prices, status : Statuses \cup {NoStatus}]
    <3>1. subs \in Seq(S)
      BY DEF LinkInv, LinkTypeOK
    <3>2. subs' = [subs EXCEPT ![n] = e]
      BY <2>1
    <3> HIDE DEF e, S
    <3> QED
      BY <3>1, <3>2
  <2> QED
    BY <1>2, <2>2
<1>7. CASE InvoiceFails
  BY <1>7 DEF InvoiceFails
<1> QED
  BY <1>4, <1>5, <1>6, <1>7 DEF LinkNext

\* A new subscription is made only after every earlier attempt was booked,
\* while keys live and requests come one at a time.
THEOREM CrashSubscribesOnce ==
  LinkSpec => CrashNeverDoubleSubscribes
<1>1. ASSUME LinkInv, [LinkNext]_linkVars, Len(subs') > Len(subs) /\ overlap = 0
      PROVE  \A k \in AttemptKeys : createKeys[k] # 0 => k <= row.attempts
  <2>1. PICK h \in Linkers : Create(h)
    BY <1>1, OnlyCreateSubscribes
  <2> DEFINE key == CreateKey(req[h].read)
  <2>2. h \in Running /\ NewSubscription(h)
    <3>1. Len(subs) \in Nat
      BY <1>1 DEF LinkInv, LinkTypeOK
    <3>2. subs' # subs
      BY <1>1, <3>1
    <3> QED
      BY <1>1, <2>1, <3>2, CreateEffect
  <2>3. key = req[h].read.attempts + 1
    BY <1>1, <2>2, KeyOfAttempt DEF LinkInv
  <2>4. /\ req[h].read.attempts = row.attempts
        /\ \A k \in AttemptKeys : createKeys[k] # 0 => k <= row.attempts + 1
    BY <1>1, <2>2 DEF LinkInv, OneAtATime
  <2>5. createKeys[key] = 0
    BY <2>2 DEF NewSubscription
  <2>6. row.attempts \in Nat /\ AttemptKeys \subseteq Nat
    BY SubscriptionAssumption, <1>1, RowParts DEF LinkInv, LinkTypeOK, AttemptKeys
  <2>7. key = row.attempts + 1
    BY <2>3, <2>4
  <2> HIDE DEF key
  <2> QED
    BY <2>4, <2>5, <2>6, <2>7
<1>2. LinkInv /\ [LinkNext]_linkVars =>
        [Len(subs') > Len(subs) /\ overlap = 0 =>
           \A k \in AttemptKeys : createKeys[k] # 0 => k <= row.attempts]_linkVars
  BY <1>1
<1> QED
  BY <1>2, LinkInvHolds, PTL DEF LinkSpec, CrashNeverDoubleSubscribes

\* Only a webhook's commit records an event.
LEMMA OnlyCommitRecords ==
  ASSUME [LinkNext]_linkVars, seen' # seen
  PROVE  \E h \in Hooks : HookCommit(h)
<1>1. \A h \in Linkers : ~Link(h)
  BY DEF Link, LinkStart, Create, Update, Noop, LinkCommit
<1>2. ~(LinkCrash \/ KeysExpire \/ InvoiceFails \/ UNCHANGED linkVars)
  BY DEF LinkCrash, KeysExpire, InvoiceFails, linkVars
<1>3. \A n, st : ~StatusChanges(n, st)
  BY DEF StatusChanges
<1>4. \A h, e : ~HookDuplicate(e) /\ ~HookStart(h, e)
  BY DEF HookDuplicate, HookStart
<1> QED
  BY <1>1, <1>2, <1>3, <1>4 DEF LinkNext, Webhook

\* Only a webhook's commit changes the status of the row.
LEMMA OnlyCommitSetsStatus ==
  ASSUME LinkInv, [LinkNext]_linkVars, row'.status # row.status
  PROVE  \E h \in Hooks : HookCommit(h)
<1>1. ~UNCHANGED row
  OBVIOUS
<1>2. ASSUME NEW h \in Linkers, Link(h) PROVE FALSE
  <2>1. LinkCommit(h)
    BY <1>1, <1>2 DEF Link, LinkStart, Create, Update, Noop
  <2>2. LinkTypeOK /\ row \in CustomerRow
    BY DEF LinkInv, LinkTypeOK
  <2>3. h \in Running
    BY <2>1, NotIdle DEF LinkCommit, Running
  <2>4. req[h].read \in CustomerRow /\ req[h].write \in CustomerRow
    BY <2>2, <2>3, LinkParts
  <2>5. req[h].write.status = req[h].read.status
    BY <2>3 DEF LinkInv, LinkersFit
  <2>6. row' = Flush(req[h].read, req[h].write)
    BY <2>1 DEF LinkCommit
  <2> QED
    BY <2>2, <2>4, <2>5, <2>6, FlushedRow
<1>3. ~(LinkCrash \/ KeysExpire \/ InvoiceFails \/ UNCHANGED linkVars)
  BY <1>1 DEF LinkCrash, KeysExpire, InvoiceFails, linkVars
<1>4. \A n, st : ~StatusChanges(n, st)
  BY <1>1 DEF StatusChanges
<1>5. \A h, e : ~HookDuplicate(e) /\ ~HookStart(h, e)
  BY <1>1 DEF HookDuplicate, HookStart
<1> QED
  BY <1>2, <1>3, <1>4, <1>5 DEF LinkNext, Webhook

\* A status changes only in the commit that records its event, which is of the
\* row's own subscription unless requests overlapped or it names none.
LEMMA EffectWithRecord ==
  LinkSpec => EffectOnlyWithRecord
<1>1. ASSUME LinkInv, [LinkNext]_linkVars, row'.status # row.status
      PROVE  \E h \in Hooks :
               LET e == hook[h].event IN
               /\ hook[h] # Idle /\ e \in seen' \ seen
               /\ events[e].status = row'.status
               /\ IF events[e].sub = 0 THEN hook[h].read.sub = 0
                  ELSE overlap = 0 => events[e].sub = row.sub
  <2>1. PICK h \in Hooks : HookCommit(h)
    BY <1>1, OnlyCommitSetsStatus
  <2> DEFINE e == hook[h].event
             r == hook[h].read
             w == hook[h].write
  <2>2. /\ hook[h] # Idle /\ HookFits(h)
        /\ row'.status = IF w.status # r.status THEN w.status ELSE row.status
    BY <1>1, <2>1, HookCommitEffect
  <2>3. e \in seen' \ seen
    BY <2>1, <2>2 DEF HookCommit, HookFits
  <2>4. w.status # r.status /\ row'.status = w.status
    BY <1>1, <2>2
  <2>5. r.sub = events[e].sub /\ w.status = events[e].status
    BY <2>2, <2>4 DEF HookFits
  <2>6. r.sub # 0 /\ overlap = 0 => events[e].sub = row.sub
    BY <1>1, <2>2, <2>5 DEF LinkInv, OneAtATime
  <2>7. events[e].status = row'.status
    BY <2>4, <2>5
  <2>8. IF events[e].sub = 0 THEN r.sub = 0 ELSE overlap = 0 => events[e].sub = row.sub
    BY <2>5, <2>6
  <2> QED
    BY <2>2, <2>3, <2>7, <2>8
<1>2. LinkInv /\ [LinkNext]_linkVars =>
        [row'.status # row.status =>
           \E h \in Hooks :
             LET e == hook[h].event IN
             /\ hook[h] # Idle /\ e \in seen' \ seen
             /\ events[e].status = row'.status
             /\ IF events[e].sub = 0 THEN hook[h].read.sub = 0
                ELSE overlap = 0 => events[e].sub = row.sub]_linkVars
  BY <1>1
<1> QED
  BY <1>2, LinkInvHolds, PTL DEF LinkSpec, EffectOnlyWithRecord

\* An event is recorded only by a request that found its subscription's row
\* and writes its status, or found no such row.
LEMMA RecordWithEffect ==
  LinkSpec => RecordedIsApplied
<1>1. ASSUME LinkInv, [LinkNext]_linkVars, NEW e \in seen' \ seen
      PROVE  \E h \in Hooks :
               /\ hook[h] # Idle /\ hook[h].event = e
               /\ hook[h].read.sub = events[e].sub =>
                    row'.status = events[e].status \/ hook[h].read.status = events[e].status
  <2>1. PICK h \in Hooks : HookCommit(h)
    BY <1>1, OnlyCommitRecords
  <2>2. /\ hook[h] # Idle /\ HookFits(h)
        /\ row'.status = IF hook[h].write.status # hook[h].read.status
                         THEN hook[h].write.status ELSE row.status
    BY <1>1, <2>1, HookCommitEffect
  <2>3. hook[h].event = e
    BY <1>1, <2>1 DEF HookCommit
  <2> QED
    BY <2>2, <2>3 DEF HookFits
<1>2. LinkInv /\ [LinkNext]_linkVars =>
        [\A e \in seen' \ seen : \E h \in Hooks :
           /\ hook[h] # Idle /\ hook[h].event = e
           /\ hook[h].read.sub = events[e].sub =>
                row'.status = events[e].status \/ hook[h].read.status = events[e].status]_linkVars
  BY <1>1
<1> QED
  BY <1>2, LinkInvHolds, PTL DEF LinkSpec, RecordedIsApplied

\* Stripe's events take effect at most once, in the commit that records them,
\* and no event is recorded without its effect: the safety part of
\* EventsTakeEffectOnce.
THEOREM EventsOnce == LinkSpec => EffectOnlyWithRecord /\ RecordedIsApplied
BY EffectWithRecord, RecordWithEffect
=============================================================================
