------------------------- MODULE StripeSubscriptions -------------------------
(***************************************************************************)
(* One org's Stripe subscription in the billing service: the internal      *)
(* endpoint that creates or updates it (billing/src/subscriptions.py,      *)
(* router.link_subscription) and the webhook that follows its status       *)
(* (billing/src/webhooks.py).  The org's stripe_customers row exists       *)
(* already; the race to create it is in StripeReporter.                    *)
(*                                                                         *)
(* A handler is a request with a database session of its own: it reads the *)
(* row, awaits Stripe, and writes the columns it changed at its commit.    *)
(* Stripe is external: it replays the stored answer of an idempotency key, *)
(* may apply a call and lose the answer, and delivers every webhook event  *)
(* at least once and in any order.                                         *)
(*                                                                         *)
(* Its names are not those of StripeReporter: BillingProofs extends both.  *)
(***************************************************************************)
EXTENDS Naturals, FiniteSets, FiniteSetsExt, Sequences

CONSTANTS
  Linkers,       \* concurrent POST /internal/v1/subscriptions
  Hooks,         \* concurrent POST /webhooks/stripe
  Prices,
  Statuses,      \* subscription statuses Stripe reports
  PastDue,       \* the status of a failed payment
  MaxLinks,      \* bound: link requests
  MaxEvents,     \* bound: status changes at Stripe
  MaxFaults      \* bound: lost answers, crashes

ASSUME SubscriptionAssumption ==
  PastDue \in Statuses /\ MaxLinks \in Nat /\ MaxEvents \in Nat /\ MaxFaults \in Nat

VARIABLES
  row,           \* the committed stripe_customers row of the org
  seen,          \* committed webhook_events
  req,           \* req[h]: the session of linker h
  hook,          \* hook[h]: the session of webhook request h
  subs,          \* external: subs[n]: the n-th subscription Stripe created
  createKeys,    \* external: createKeys[k]: subscription created under key k, 0 if none
  updateKeys,    \* external: prices whose update key Stripe has applied
  events,        \* external: the events Stripe emitted, in order
  answered,      \* external: events whose 200 Stripe received
  overlap,       \* history: link requests overlapped, for one price or for more
  links,
  faults

linkVars == <<row, seen, req, hook, subs, createKeys, updateKeys, events, answered, overlap,
              links, faults>>
stripeState == <<subs, createKeys, updateKeys, events, answered>>

NoPrice == "no price"
NoStatus == "no status"
AttemptKeys == 1..(MaxLinks + 1)
SubId == 0..(MaxLinks + 1)
CustomerRow == [sub : SubId, price : Prices \cup {NoPrice}, attempts : 0..MaxLinks,
                status : Statuses \cup {NoStatus}]
Event == [sub : SubId, status : Statuses]     \* sub = 0: it names no subscription

\* The session of a linker: the row as read, the request, and the row to write.
Idle == [pc |-> "idle"]
Linking == [pc : {"call", "commit"}, price : Prices, read : CustomerRow, write : CustomerRow]
Hooking == [pc : {"commit"}, event : 1..MaxEvents, read : CustomerRow, write : CustomerRow]

LinkTypeOK ==
  /\ row \in CustomerRow
  /\ seen \subseteq 1..Len(events)
  /\ \A h \in Linkers : req[h] = Idle \/ req[h] \in Linking
  /\ \A h \in Hooks : hook[h] = Idle \/ hook[h] \in Hooking
  /\ subs \in Seq([price : Prices, status : Statuses \cup {NoStatus}])
  /\ createKeys \in [AttemptKeys -> 0..Len(subs)]
  /\ updateKeys \subseteq Prices
  /\ events \in Seq(Event)
  /\ answered \subseteq seen
  /\ overlap \in 0..2 /\ links \in 0..MaxLinks /\ faults \in 0..MaxFaults

LinkInit ==
  /\ row = [sub |-> 0, price |-> NoPrice, attempts |-> 0, status |-> NoStatus]
  /\ seen = {}
  /\ req = [h \in Linkers |-> Idle]
  /\ hook = [h \in Hooks |-> Idle]
  /\ subs = <<>>
  /\ createKeys = [k \in AttemptKeys |-> 0]
  /\ updateKeys = {}
  /\ events = <<>> /\ answered = {}
  /\ overlap = 0 /\ links = 0 /\ faults = 0

Fault == faults < MaxFaults /\ faults' = faults + 1

\* The ORM writes the columns that changed since they were read, and no other.
Flush(read, write) ==
  [c \in DOMAIN row |-> IF write[c] # read[c] THEN write[c] ELSE row[c]]

-----------------------------------------------------------------------------
(* The endpoint *)

Running == {h \in Linkers : req[h] # Idle}

LinkStart(h, p) ==
  /\ req[h] = Idle /\ links < MaxLinks
  /\ links' = links + 1
  /\ req' = [req EXCEPT ![h] = [pc |-> "call", price |-> p, read |-> row, write |-> row]]
  /\ overlap' = Max({overlap} \cup {IF req[g].price = p THEN 1 ELSE 2 : g \in Running})
  /\ UNCHANGED <<row, seen, hook, stripeState, faults>>

\* The session of h goes on to its commit with the row it will write.
CommitWith(h, write) == req' = [req EXCEPT ![h].pc = "commit", ![h].write = write]

CreateKeyPerCall(read) == links

\* billing:subscription:create:{principal}:{attempts}
CreateKey(read) == read.attempts + 1

\* Stripe refuses a key it knows when the price is another.
Accepts(key, p) == IF createKeys[key] = 0 THEN TRUE ELSE subs[createKeys[key]].price = p

\* subscriptions.create: a key Stripe knows replays its subscription.
Created(key, p) ==
  IF createKeys[key] = 0
  THEN /\ subs' = Append(subs, [price |-> p, status |-> NoStatus])
       /\ createKeys' = [createKeys EXCEPT ![key] = Len(subs) + 1]
  ELSE UNCHANGED <<subs, createKeys>>

CreateCountingAfter(h) ==
  LET s == req[h]  key == CreateKey(s.read) IN
  /\ s.pc = "call" /\ s.read.sub = 0
  /\ \/ /\ Accepts(key, s.price)
        /\ Created(key, s.price)
        /\ CommitWith(h, [s.read EXCEPT !.sub = createKeys'[key], !.price = s.price,
                                        !.attempts = key])
        /\ UNCHANGED faults
     \/ /\ Fault
        /\ Created(key, s.price) \/ UNCHANGED <<subs, createKeys>>
        /\ req' = [req EXCEPT ![h].pc = "call", ![h].read.attempts = key]
  /\ UNCHANGED <<row, seen, hook, updateKeys, events, answered, overlap, links>>

Create(h) ==
  LET s == req[h]  key == CreateKey(s.read)
      counted == [s.read EXCEPT !.attempts = @ + 1] IN
  /\ s.pc = "call" /\ s.read.sub = 0
  /\ \/ /\ Accepts(key, s.price)
        /\ Created(key, s.price)
        /\ CommitWith(h, [counted EXCEPT !.sub = createKeys'[key], !.price = s.price])
        /\ UNCHANGED faults
     \/ /\ ~Accepts(key, s.price)
        /\ CommitWith(h, counted)
        /\ UNCHANGED <<subs, createKeys, faults>>
     \/ /\ Fault
        /\ (createKeys[key] = 0 /\ Created(key, s.price)) \/ UNCHANGED <<subs, createKeys>>
        /\ CommitWith(h, counted)
  /\ UNCHANGED <<row, seen, hook, updateKeys, events, answered, overlap, links>>

\* subscriptions.modify under billing:subscription:update:{principal}:{price}:
\* a key Stripe knows is answered without being applied again.
Modified(sub, p) ==
  IF p \in updateKeys
  THEN UNCHANGED <<subs, updateKeys>>
  ELSE /\ subs' = [subs EXCEPT ![sub].price = p]
       /\ updateKeys' = updateKeys \cup {p}

Update(h) ==
  LET s == req[h] IN
  /\ s.pc = "call" /\ s.read.sub # 0 /\ s.read.price # s.price
  /\ \/ /\ Modified(s.read.sub, s.price)
        /\ CommitWith(h, [s.read EXCEPT !.price = s.price])
        /\ UNCHANGED faults
     \/ /\ Fault
        /\ Modified(s.read.sub, s.price) \/ UNCHANGED <<subs, updateKeys>>
        /\ CommitWith(h, s.read)
  /\ UNCHANGED <<row, seen, hook, createKeys, events, answered, overlap, links>>

Noop(h) ==
  LET s == req[h] IN
  /\ s.pc = "call" /\ s.read.sub # 0 /\ s.read.price = s.price
  /\ CommitWith(h, s.read)
  /\ UNCHANGED <<row, seen, hook, stripeState, overlap, links, faults>>

LinkCommit(h) ==
  /\ req[h].pc = "commit"
  /\ row' = Flush(req[h].read, req[h].write)
  /\ req' = [req EXCEPT ![h] = Idle]
  /\ UNCHANGED <<seen, hook, stripeState, overlap, links, faults>>

-----------------------------------------------------------------------------
(* The webhook *)

\* Stripe: idempotency keys are forgotten after a day or more.
KeysExpire ==
  /\ updateKeys = {} => \E k \in AttemptKeys : createKeys[k] # 0
  /\ \A h \in Linkers : req[h] = Idle
  /\ updateKeys' = {} /\ createKeys' = [k \in AttemptKeys |-> 0]
  /\ UNCHANGED <<row, seen, req, hook, subs, events, answered, overlap, links, faults>>

\* Stripe: a subscription changes status and an event says so.
StatusChanges(n, st) ==
  /\ Len(events) < MaxEvents /\ subs[n].status # st
  /\ subs' = [subs EXCEPT ![n].status = st]
  /\ events' = Append(events, [sub |-> n, status |-> st])
  /\ UNCHANGED <<row, seen, req, hook, createKeys, updateKeys, answered, overlap, links, faults>>

\* Stripe: the payment of an invoice fails that is no subscription's.
InvoiceFails ==
  /\ Len(events) < MaxEvents
  /\ events' = Append(events, [sub |-> 0, status |-> PastDue])
  /\ UNCHANGED <<row, seen, req, hook, subs, createKeys, updateKeys, answered, overlap, links,
                 faults>>

\* The row after the effect of event e, if the row is the one its query finds.
\* An event without a subscription finds the row that has none: the comparison
\* with None is IS NULL.
WithStatus(e) ==
  IF row.sub = events[e].sub THEN [row EXCEPT !.status = events[e].status] ELSE row

HookStartAnswering(h, e) ==
  /\ hook[h] = Idle /\ e \notin seen
  /\ hook' = [hook EXCEPT ![h] =
       [pc |-> "commit", event |-> e, read |-> row, write |-> WithStatus(e)]]
  /\ answered' = answered \cup {e}
  /\ UNCHANGED <<row, seen, req, subs, createKeys, updateKeys, events, overlap, links, faults>>

\* process_webhook up to the commit: the flush of the event's row waits for
\* another request that holds the same event, and fails on one that is seen.
\* A request whose query finds several rows (an event without a subscription,
\* and other orgs' rows that have none) raises and is rolled back: no step.
HookStart(h, e) ==
  /\ hook[h] = Idle
  /\ \A g \in Hooks : hook[g] # Idle => hook[g].event # e
  /\ e \notin seen
  /\ hook' = [hook EXCEPT ![h] =
       [pc |-> "commit", event |-> e, read |-> row, write |-> WithStatus(e)]]
  /\ UNCHANGED <<row, seen, req, stripeState, overlap, links, faults>>

HookDuplicateRefused(e) == e \in seen \ answered /\ UNCHANGED linkVars

HookDuplicate(e) ==
  /\ e \in seen \ answered
  /\ answered' = answered \cup {e}
  /\ UNCHANGED <<row, seen, req, hook, subs, createKeys, updateKeys, events, overlap, links, faults>>

HookCommitSeenFirst(h) ==
  /\ hook[h].pc = "commit"
  /\ \/ hook[h].event \notin seen /\ UNCHANGED <<row, hook, answered, faults>>
     \/ /\ hook[h].event \in seen
        /\ row' = Flush(hook[h].read, hook[h].write)
        /\ hook' = [hook EXCEPT ![h] = Idle]
        /\ answered' = answered \cup {hook[h].event}
        /\ UNCHANGED faults
  /\ seen' = seen \cup {hook[h].event}
  /\ UNCHANGED <<req, subs, createKeys, updateKeys, events, overlap, links>>

HookCommitUnrecorded(h) ==
  /\ hook[h].pc = "commit"
  /\ row' = Flush(hook[h].read, hook[h].write)
  /\ hook' = [hook EXCEPT ![h] = Idle]
  /\ UNCHANGED <<seen, answered, req, subs, createKeys, updateKeys, events, overlap, links, faults>>

\* The single trailing commit: the event's row and its effect together.  The
\* 200 reaches Stripe or is lost.
HookCommit(h) ==
  /\ hook[h].pc = "commit"
  /\ row' = Flush(hook[h].read, hook[h].write)
  /\ seen' = seen \cup {hook[h].event}
  /\ hook' = [hook EXCEPT ![h] = Idle]
  /\ \/ answered' = answered \cup {hook[h].event} /\ UNCHANGED faults
     \/ Fault /\ UNCHANGED answered
  /\ UNCHANGED <<req, subs, createKeys, updateKeys, events, overlap, links>>

\* The billing process dies: every open session is rolled back.
LinkCrash ==
  /\ Fault
  /\ req' = [h \in Linkers |-> Idle]
  /\ hook' = [h \in Hooks |-> Idle]
  /\ UNCHANGED <<row, seen, stripeState, overlap, links>>

-----------------------------------------------------------------------------

Link(h) ==
  \/ \E p \in Prices : LinkStart(h, p)
  \/ Create(h) \/ Update(h) \/ Noop(h) \/ LinkCommit(h)

Webhook ==
  \/ \E h \in Hooks : HookCommit(h)
  \/ \E e \in 1..Len(events) : HookDuplicate(e) \/ \E h \in Hooks : HookStart(h, e)

LinkNext ==
  \/ \E h \in Linkers : Link(h)
  \/ Webhook \/ LinkCrash \/ KeysExpire \/ InvoiceFails
  \/ \E n \in 1..Len(subs), st \in Statuses : StatusChanges(n, st)

LinkSpec == LinkInit /\ [][LinkNext]_linkVars

\* Stripe redelivers until it has its 200.  For an event without a subscription
\* that may be never: each of its requests may find several rows.
Answering ==
  \/ \E h \in Hooks : HookCommit(h)
  \/ \E e \in 1..Len(events) :
       events[e].sub # 0 /\ (HookDuplicate(e) \/ \E h \in Hooks : HookStart(h, e))

FairLinkSpec == LinkSpec /\ WF_linkVars(Answering)

-----------------------------------------------------------------------------
(* Properties *)

\* A webhook event takes effect at most once, in the commit that records it
\* (webhooks.py:9-18): no redelivery, race or crash applies it twice.  It is the
\* status of the row's own subscription, unless overlapping link requests gave
\* the row another one between the webhook's read and its commit, or the event
\* names no subscription: then it is of a row that had none when it was read.
EffectOnlyWithRecord ==
  [][row'.status # row.status =>
       \E h \in Hooks :
         LET e == hook[h].event IN
         /\ hook[h] # Idle /\ e \in seen' \ seen
         /\ events[e].status = row'.status
         /\ IF events[e].sub = 0 THEN hook[h].read.sub = 0
            ELSE overlap = 0 => events[e].sub = row.sub]_linkVars

\* No crash leaves an event marked seen with its effect lost: a request that
\* found the row by the event's subscription (or, for an event without one, by
\* its having none) records the event only together with its status, or found
\* that status already there.
RecordedIsApplied ==
  [][\A e \in seen' \ seen : \E h \in Hooks :
       /\ hook[h] # Idle /\ hook[h].event = e
       /\ hook[h].read.sub = events[e].sub =>
            row'.status = events[e].status \/ hook[h].read.status = events[e].status]_linkVars

\* Every event of a subscription is recorded in the end, however often the
\* process dies or the answer is lost.
EveryEventRecorded ==
  \A e \in 1..MaxEvents : e <= Len(events) /\ events[e].sub # 0 ~> e \in answered

\* Stripe's events take effect once, with their record, and each of a
\* subscription does.
EventsTakeEffectOnce == EffectOnlyWithRecord /\ RecordedIsApplied /\ EveryEventRecorded

\* "Looks up the row by `stripe_subscription_id`" (webhooks.py:6-7): an org
\* that has no subscription is not found by any event.
UnsubscribedHasNoStatus == [][row'.status # row.status => row.sub # 0]_linkVars

\* A crash between Stripe's create and the commit never leaves a second
\* subscription: while keys live and requests come one at a time, a new one is
\* only created after every earlier attempt was booked.
CrashNeverDoubleSubscribes ==
  [][Len(subs') > Len(subs) /\ overlap = 0 =>
       \A k \in AttemptKeys : createKeys[k] # 0 => k <= row.attempts]_linkVars

\* Link requests that overlap agree on one subscription, as long as no call
\* failed and they ask for one price: until an attempt is booked they present
\* the same key.
OverlappingLinksAgree == overlap < 2 /\ faults = 0 => Len(subs) <= 1

\* "Update the existing one in place when the requested price differs"
\* (subscriptions.py:27-28): at rest the subscription has the price billing booked.
BookedPriceIsStripes ==
  row.sub # 0 /\ faults = 0 /\ (\A h \in Linkers : req[h] = Idle) =>
    subs[row.sub].price = row.price
=============================================================================
