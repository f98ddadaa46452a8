---------------------------- MODULE RateLimiter ----------------------------
(***************************************************************************)
(* One scope of a rate limiter (rate-limiter-rpm, rate-limiter-tpm): the   *)
(* read-only check the gateway asks before it forwards, and the count a    *)
(* durable consumer makes later of every event, in fixed windows of a      *)
(* shared Valkey.                                                          *)
(*                                                                         *)
(* The two services differ in the amount of an event: 1 per request for    *)
(* rpm, the tokens of the response for tpm (0: no reliable count).  Time   *)
(* is in ticks, a window is Window of them.  A subscription's callbacks    *)
(* run one after the other; after a reconnect the callback of the former   *)
(* subscription may still be running beside the new one.                   *)
(*                                                                         *)
(* Its names are not those of AuthSessions: AccessProofs extends both.     *)
(***************************************************************************)
EXTENDS Naturals, FiniteSets, Functions

CONSTANTS
  Calls,
  Amount,        \* Amount[r]: what the event of call r counts
  Subs,          \* subscriptions of the consumer, former and current
  NoSub,
  Plans,         \* limits the org's plan may set (0: unlimited)
  Unknown,       \* the plan could not be looked up
  StaticLimit,   \* RATE_LIMITS user_default (0: unlimited)
  Window,        \* ticks of a minute
  DedupeTtl,     \* ticks a request id is remembered
  PlanTtl,       \* ticks a plan limit is cached
  MaxTime,       \* bound: ticks
  MaxErrors,     \* bound: Valkey errors
  MaxFaults      \* bound: lost acks, failed subscribes, disconnects, crashes, failed
                 \* lookups

ASSUME LimiterAssumption ==
  /\ IsFiniteSet(Calls) /\ Amount \in [Calls -> Nat] /\ Plans \subseteq Nat /\ StaticLimit \in Nat
  /\ Unknown \notin Nat /\ NoSub \notin Subs
  /\ Window \in Nat \ {0} /\ PlanTtl \in Nat
  /\ MaxTime \in Nat /\ MaxErrors \in Nat /\ MaxFaults \in Nat
  /\ DedupeTtl \in Nat /\ DedupeTtl > Window   \* 120 s and 60 s in settings.py

VARIABLES
  now,
  counter,       \* Valkey: counter[m]: key of minute m, its value and expiry
  seen,          \* Valkey: seen[r]: expiry of the seen key of r, 0 if none
  plan,          \* external: the plan limit the admin control plane answers
  planSince,     \* history: when the plan last changed
  cache,         \* PlanClient: cached limit and its expiry
  verdict,       \* verdict[r]: the gateway's, on call r
  event,         \* external: event[r] in the stream
  durable,       \* external: the durable consumer exists in JetStream
  sub,           \* the bound subscription
  unbound,       \* the subscribe of this connection failed
  callback,      \* callback[s]: the message a subscription's callback is at
  counts,        \* history: counts[r][m]: times r was added to minute m
  errors,
  faults

limiterVars == <<now, counter, seen, plan, planSince, cache, verdict, event, durable, sub, unbound,
                 callback, counts, errors, faults>>
bounds == <<errors, faults>>
valkey == <<counter, seen>>
planVars == <<plan, planSince, cache>>
link == <<durable, sub, unbound>>

Minutes == 0..(MaxTime \div Window)
minute == now \div Window
NoMsg == [pc |-> "none"]
Callback == [r : Calls, at : 0..MaxTime, pc : {"scopes", "dedupe", "incr", "ack"}]

LimiterTypeOK ==
  /\ now \in 0..MaxTime /\ errors \in 0..MaxErrors /\ faults \in 0..MaxFaults
  /\ counter \in [Minutes -> [n : Nat, until : 0..(MaxTime + Window)]]
  /\ seen \in [Calls -> 0..(MaxTime + DedupeTtl)]
  /\ plan \in Plans /\ planSince \in 0..now
  /\ cache \in [value : Plans \cup {Unknown}, until : 0..(MaxTime + PlanTtl)]
  /\ verdict \in [Calls -> {"new", "allowed", "denied"}]
  /\ event \in [Calls -> {"none", "stored", "skipped", "acked"}]
  /\ \A r \in Calls : event[r] # "none" => verdict[r] = "allowed"
  /\ durable \in BOOLEAN /\ sub \in Subs \cup {NoSub} /\ unbound \in BOOLEAN
  /\ \A s \in Subs : callback[s] = NoMsg \/ callback[s] \in Callback
  /\ counts \in [Calls -> [Minutes -> Nat]]

LimiterInit ==
  /\ now = 0 /\ errors = 0 /\ faults = 0
  /\ counter = [m \in Minutes |-> [n |-> 0, until |-> 0]]
  /\ seen = [r \in Calls |-> 0]
  /\ plan \in Plans /\ planSince = 0
  /\ cache = [value |-> Unknown, until |-> 0]
  /\ verdict = [r \in Calls |-> "new"]
  /\ event = [r \in Calls |-> "none"]
  /\ durable = FALSE /\ sub = NoSub /\ unbound = FALSE
  /\ callback = [s \in Subs |-> NoMsg]
  /\ counts = [r \in Calls |-> [m \in Minutes |-> 0]]

Fault == faults < MaxFaults /\ faults' = faults + 1 /\ UNCHANGED errors
ValkeyError == errors < MaxErrors /\ errors' = errors + 1 /\ UNCHANGED faults
NoFault == UNCHANGED bounds

\* From the answer of the SET to the INCR at most one tick passes (bound).
Tick ==
  /\ now < MaxTime /\ now' = now + 1
  /\ \A s \in Subs : callback[s].pc = "incr" => callback[s].at = now
  /\ UNCHANGED <<valkey, planVars, verdict, event, link, callback, counts, bounds>>

\* Valkey: a key past its expiry reads as absent.
Value(m) == IF counter[m].until > now THEN counter[m].n ELSE 0

-----------------------------------------------------------------------------
(* The plan limit *)

PlanChanges ==
  /\ planSince = 0 /\ now > 0
  /\ plan' \in Plans \ {plan} /\ planSince' = now
  /\ UNCHANGED <<now, valkey, cache, verdict, event, link, callback, counts, bounds>>

PlanLimitSliding(v) ==
  \/ /\ cache.until > now /\ v = cache.value
     /\ cache' = [cache EXCEPT !.until = now + PlanTtl] /\ NoFault
  \/ /\ cache.until <= now /\ v = plan
     /\ cache' = [value |-> plan, until |-> now + PlanTtl] /\ NoFault

\* get_rpm_limit / get_tpm_limit: v is cached, looked up, or unknown; a failed
\* lookup is cached too.
PlanLimit(v) ==
  \/ cache.until > now /\ v = cache.value /\ UNCHANGED cache /\ NoFault
  \/ /\ cache.until <= now /\ v = plan
     /\ cache' = [value |-> plan, until |-> now + PlanTtl] /\ NoFault
  \/ /\ cache.until <= now /\ v = Unknown /\ Fault
     /\ cache' = [value |-> Unknown, until |-> now + PlanTtl]

\* _scopes: the plan's limit, else the static one; 0 leaves the scope out.
Limit(v) == IF v = Unknown THEN StaticLimit ELSE v

-----------------------------------------------------------------------------
(* check *)

\* The scope's counter has reached its limit.
Reached(v) == Limit(v) # 0 /\ Value(minute) >= Limit(v)

Decide(r, d) == verdict' = [verdict EXCEPT ![r] = d]

Check(r) ==
  /\ verdict[r] = "new"
  /\ \/ \E v \in Plans \cup {Unknown} :
          /\ PlanLimit(v)
          /\ Decide(r, IF Reached(v) THEN "denied" ELSE "allowed")
     \/ ValkeyError /\ Decide(r, "allowed") /\ UNCHANGED cache
  /\ UNCHANGED <<now, valkey, plan, planSince, event, link, callback, counts>>

PublishWhateverDecided(r) ==
  /\ verdict[r] # "new" /\ event[r] = "none"
  /\ event' = [event EXCEPT ![r] = "stored"]
  /\ UNCHANGED <<now, valkey, planVars, verdict, link, callback, counts, bounds>>

\* The gateway's event of an allowed request reaches the stream, some time.
Publish(r) ==
  /\ verdict[r] = "allowed" /\ event[r] = "none"
  /\ event' = [event EXCEPT ![r] = "stored"]
  /\ UNCHANGED <<now, valkey, planVars, verdict, link, callback, counts, bounds>>

-----------------------------------------------------------------------------
(* The consumer *)

\* DeliverPolicy.NEW: the subscribe that creates the durable skips what the
\* stream holds; a later one goes on where the durable is.
Skip ==
  event' = [r \in Calls |->
    IF ~durable /\ event[r] = "stored" THEN "skipped" ELSE event[r]]

Bind(s) ==
  /\ sub = NoSub /\ ~unbound /\ callback[s] = NoMsg
  /\ sub' = s /\ durable' = TRUE /\ Skip
  /\ UNCHANGED <<now, valkey, planVars, verdict, unbound, callback, counts, bounds>>

\* The subscribe fails, with or without the durable made: it is tried again on a
\* reconnect, no sooner.
BindFails ==
  /\ sub = NoSub /\ ~unbound /\ Fault
  /\ unbound' = TRUE
  /\ \/ UNCHANGED <<durable, event>>
     \/ durable' = TRUE /\ Skip
  /\ UNCHANGED <<now, valkey, planVars, verdict, sub, callback, counts>>

\* _on_disconnected: a callback that is running runs on.  A connection that has
\* no subscription is lost for free: BindFails was a fault.
Disconnect ==
  /\ \/ sub # NoSub /\ Fault
     \/ unbound /\ NoFault
  /\ sub' = NoSub /\ unbound' = FALSE
  /\ UNCHANGED <<now, valkey, planVars, verdict, event, durable, callback, counts>>

\* at: when the SET was answered.
GoOn(s, pc) ==
  callback' = [callback EXCEPT ![s].pc = pc, ![s].at = IF pc = "incr" THEN now ELSE 0]

\* _on_msg: an unacked message, for the first time or again.
Deliver(r) ==
  /\ sub # NoSub /\ callback[sub] = NoMsg /\ event[r] = "stored"
  /\ callback' = [callback EXCEPT ![sub] =
       [r |-> r, at |-> 0, pc |-> IF Amount[r] = 0 THEN "ack" ELSE "scopes"]]
  /\ UNCHANGED <<now, valkey, planVars, verdict, event, link, counts, bounds>>

Scopes(s) ==
  /\ callback[s].pc = "scopes"
  /\ \E v \in Plans \cup {Unknown} :
       PlanLimit(v) /\ GoOn(s, IF Limit(v) = 0 THEN "ack" ELSE "dedupe")
  /\ UNCHANGED <<now, valkey, plan, planSince, verdict, event, link, counts>>

SeenUntilTooSoon == now + 1

SeenUntil == now + DedupeTtl

\* SET NX EX: the first sighting goes on, a replay is done.  When Valkey fails
\* the event is counted anyway; the key may have been set all the same.
Dedupe(s) ==
  LET r == callback[s].r
      Mark == seen' = [seen EXCEPT ![r] = SeenUntil] IN
  /\ callback[s].pc = "dedupe"
  /\ \/ seen[r] > now /\ GoOn(s, "ack") /\ UNCHANGED seen /\ NoFault
     \/ seen[r] <= now /\ GoOn(s, "incr") /\ Mark /\ NoFault
     \/ GoOn(s, "incr") /\ ValkeyError /\ UNCHANGED seen
     \/ seen[r] <= now /\ GoOn(s, "incr") /\ ValkeyError /\ Mark
  /\ UNCHANGED <<now, counter, planVars, verdict, event, link, counts>>

IncrWithoutRefresh(r) ==
  /\ counter' = [counter EXCEPT ![minute] =
       [n |-> Value(minute) + Amount[r], until |-> IF @.until > now THEN @.until ELSE now + 1]]
  /\ counts' = [counts EXCEPT ![r][minute] = @ + 1]

\* INCRBY and EXPIRE in one transaction.
IncrBy(r) ==
  /\ counter' = [counter EXCEPT ![minute] =
       [n |-> Value(minute) + Amount[r], until |-> now + Window]]
  /\ counts' = [counts EXCEPT ![r][minute] = @ + 1]

CountEvent(s) ==
  /\ callback[s].pc = "incr"
  /\ GoOn(s, "ack")
  /\ \/ IncrBy(callback[s].r) /\ NoFault
     \/ ValkeyError /\ UNCHANGED <<counter, counts>>
     \/ ValkeyError /\ IncrBy(callback[s].r)
  /\ UNCHANGED <<now, seen, planVars, verdict, event, link>>

AckWhenCounted(s) ==
  LET r == callback[s].r IN
  /\ callback[s].pc = "ack"
  /\ callback' = [callback EXCEPT ![s] = NoMsg]
  /\ event' = IF counts[r] = [m \in Minutes |-> 0] THEN event ELSE [event EXCEPT ![r] = "acked"]
  /\ UNCHANGED <<now, valkey, planVars, verdict, link, counts, bounds>>

\* The finally of _on_msg: acked whatever happened, unless the ack is lost.
Ack(s) ==
  /\ callback[s].pc = "ack"
  /\ callback' = [callback EXCEPT ![s] = NoMsg]
  /\ \/ event' = [event EXCEPT ![callback[s].r] = "acked"] /\ NoFault
     \/ Fault /\ UNCHANGED event
  /\ UNCHANGED <<now, valkey, planVars, verdict, link, counts>>

\* The process dies; the durable consumer and Valkey stay.
Crash ==
  /\ Fault
  /\ sub' = NoSub /\ unbound' = FALSE /\ callback' = [s \in Subs |-> NoMsg]
  /\ UNCHANGED <<now, valkey, planVars, verdict, event, durable, counts>>

-----------------------------------------------------------------------------

OnMsg(s) == Scopes(s) \/ Dedupe(s) \/ CountEvent(s) \/ Ack(s)

Consumer ==
  \/ \E s \in Subs : Bind(s) \/ OnMsg(s)
  \/ \E r \in Calls : Deliver(r)

Gateway == \E r \in Calls : Check(r) \/ Publish(r)

LimiterNext == Tick \/ PlanChanges \/ Gateway \/ Consumer \/ BindFails \/ Disconnect \/ Crash

LimiterSpec == LimiterInit /\ [][LimiterNext]_limiterVars

\* A subscription is bound once per connection, its callbacks return, messages
\* are delivered.
FairLimiterSpec == LimiterSpec /\ WF_limiterVars(Consumer)

-----------------------------------------------------------------------------
(* Properties *)

\* What was counted in minute m, by the history.
CountedIn(m) == SumFunction([r \in Calls |-> Amount[r] * counts[r][m]])

\* The counter the check reads is what was counted in the current minute: no key
\* expires inside its window (EXPIRE 60 on every INCR) and none outlives it.
CounterIsWindow == Value(minute) = CountedIn(minute)

\* Without Valkey errors an event enters one window at most once, though it is
\* delivered again, to two subscriptions at a time, across crashes, and after
\* its seen key has expired (DedupeTtl > Window).
WindowCountsOnce ==
  errors = 0 => \A r \in Calls, m \in Minutes : counts[r][m] <= 1

\* A plan change takes effect within the cache's TTL (plan_cache_ttl), however
\* often the limit is asked for.
PlanTakesEffect ==
  now >= planSince + PlanTtl /\ cache.until > now => cache.value \in {plan, Unknown}

\* What a check compares: the usage of this minute, each event once, with a
\* limit no staler than the cache may be.
CheckComparesTrueValues == CounterIsWindow /\ WindowCountsOnce /\ PlanTakesEffect

\* Only until its seen key expires, and only when Valkey kept it ("a redelivered
\* event is counted at most once").
CountedAtMostOnce == \A r \in Calls, m \in Minutes : counts[r][m] <= 1

\* No event is lost to the count and no message loops ("once durable, it resumes
\* from the last ack"; "soft: ack even on error so a poison msg can't loop
\* forever"): what is stored when there is a durable is acked in the end, across
\* reconnects, crashes and lost acks, or the subscribe of the connection failed.
EveryEventAcked ==
  \A r \in Calls : durable /\ event[r] = "stored" ~> event[r] = "acked" \/ unbound
=============================================================================
