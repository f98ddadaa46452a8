-------------------------- MODULE MeteringPipeline --------------------------
(***************************************************************************)
(* The usage pipeline of M-Stack, from a served request to a usage row:    *)
(*   model-gateway  router._respond, events.EventPublisher                 *)
(*   GATEWAY_EVENTS stream -> enricher.EnricherConsumer                    *)
(*   GATEWAY_EVENTS_ENRICHED stream -> billing.BillingConsumer             *)
(*                                                                         *)
(* JetStream is external: it stores a published message unless its         *)
(* Nats-Msg-Id is still in the duplicate window, delivers each stored      *)
(* message of a durable consumer until it is acked (at most max_deliver    *)
(* times for the enricher), and may lose an answer or an ack.  A client's  *)
(* callbacks run one at a time; delivered messages wait in `inbox`.        *)
(***************************************************************************)
EXTENDS Naturals, Sequences, FiniteSets

CONSTANTS
  Requests,      \* requests served by the gateway
  Ids,           \* request ids
  IdOf,          \* X-Request-Id or a fresh uuid
  MaxInflight,   \* settings.event_max_inflight
  MaxDeliver,    \* the enricher's settings.max_deliver
  FirstDeploy,   \* TRUE: the durables are yet to be created by the first bind
  MaxChunks,     \* bound: chunks of a streamed response
  MaxFaults      \* bound: crashes, lost answers and acks, late redeliveries

ASSUME PipelineAssumption ==
  /\ IdOf \in [Requests -> Ids]
  /\ MaxInflight \in Nat \ {0}
  /\ MaxDeliver \in Nat \ {0}
  /\ FirstDeploy \in BOOLEAN
  /\ MaxChunks \in Nat
  /\ MaxFaults \in Nat

VARIABLES
  js,            \* the gateway's publisher holds a JetStream context
  phase,         \* phase[r]: where _respond is
  chunks,        \* chunks[r]: chunk events emitted so far
  tasks,         \* background publishes in flight
  published,     \* ids whose response event JetStream answered (PUBLISHED counter)
  raw,           \* external: the GATEWAY_EVENTS stream
  rawIds,        \* external: its duplicate window
  enriched,      \* external: the GATEWAY_EVENTS_ENRICHED stream
  enrichedIds,   \* external: its duplicate window
  link,          \* link[c]: connection and subscription of consumer c
  from,          \* from[c]: external: first sequence of c's durable, 0 if none
  inbox,         \* inbox[c]: delivered messages waiting for the callback
  at,            \* at[c]: the message in the callback, 0 if none
  step,          \* step[c]: where the callback is
  built,         \* the usage the enricher resolved for the message in hand
  acked,         \* acked[c]: external: acknowledged sequences
  tries,         \* tries[s]: external: deliveries of s to the enricher
  usage,         \* usage[i]: the committed usage row of request id i
  outbox,        \* request ids with a committed outbox row
  faults

gatewayVars == <<js, phase, chunks, tasks, published>>
rawVars == <<raw, rawIds>>
enrichedVars == <<enriched, enrichedIds>>
durableVars == <<link, from>>
callbackVars == <<at, step, built>>
billVars == <<usage, outbox>>
vars == <<gatewayVars, rawVars, enrichedVars, durableVars, inbox, callbackVars,
          acked, tries, billVars, faults>>

Consumers == {"enricher", "billing"}
\* What a response event says of usage: a numeric total, a captured body, neither,
\* or a number int() refuses (json.loads accepts NaN and Infinity).
RawUsage == {"provider", "body", "nothing", "nonfinite"}
RawEvent == [type : {"request", "chunk", "response"}, id : Ids, seq : Nat, usage : RawUsage]
EnrichedEvent == [id : Ids, total : {"count", "null"}]

TypeOK ==
  /\ js \in BOOLEAN
  /\ phase \in [Requests -> {"new", "forwarding", "streaming", "done", "gone"}]
  /\ chunks \in [Requests -> 0..MaxChunks]
  /\ tasks \subseteq [req : Requests, event : RawEvent]
  /\ Cardinality(tasks) <= MaxInflight
  /\ published \subseteq Ids
  /\ raw \in Seq(RawEvent) /\ Len(tries) = Len(raw)
  /\ enriched \in Seq(EnrichedEvent)
  /\ enrichedIds \subseteq Ids
  /\ link \in [Consumers -> {"down", "unbound", "bound"}]
  /\ from \in [Consumers -> Nat]
  /\ inbox["enricher"] \cup acked["enricher"] \subseteq 1..Len(raw)
  /\ inbox["billing"] \cup acked["billing"] \subseteq 1..Len(enriched)
  /\ at["enricher"] \in 0..Len(raw) /\ at["billing"] \in 0..Len(enriched)
  /\ step \in [Consumers -> {"idle", "build", "publish", "persist", "ack"}]
  /\ built \in {"count", "null"}
  /\ tries \in Seq(0..MaxDeliver)
  /\ usage \in [Ids -> {"absent", "count", "null"}]
  /\ outbox \subseteq Ids
  /\ faults \in 0..MaxFaults

Init ==
  /\ js \in BOOLEAN
  /\ phase = [r \in Requests |-> "new"]
  /\ chunks = [r \in Requests |-> 0]
  /\ tasks = {} /\ published = {}
  /\ raw = <<>> /\ rawIds = {}
  /\ enriched = <<>> /\ enrichedIds = {}
  /\ link = [c \in Consumers |-> "down"]
  /\ from = [c \in Consumers |-> IF FirstDeploy THEN 0 ELSE 1]
  /\ inbox = [c \in Consumers |-> {}]
  /\ at = [c \in Consumers |-> 0]
  /\ step = [c \in Consumers |-> "idle"]
  /\ built = "null"
  /\ acked = [c \in Consumers |-> {}]
  /\ tries = <<>>
  /\ usage = [i \in Ids |-> "absent"]
  /\ outbox = {}
  /\ faults = 0

Fault == faults < MaxFaults /\ faults' = faults + 1

-----------------------------------------------------------------------------
(* The gateway *)

Event(r, type, seq, u) == [type |-> type, id |-> IdOf[r], seq |-> seq, usage |-> u]

EmitUncapped(r, e) == tasks' = IF js THEN tasks \cup {[req |-> r, event |-> e]} ELSE tasks

\* emit: dropped when not connected or over the in-flight cap, else a background
\* publish is scheduled.
Emit(r, e) ==
  tasks' = IF js /\ Cardinality(tasks) < MaxInflight
           THEN tasks \cup {[req |-> r, event |-> e]} ELSE tasks

Respond(r) ==
  /\ phase[r] = "new"
  /\ Emit(r, Event(r, "request", 0, "nothing"))
  /\ phase' = [phase EXCEPT ![r] = "forwarding"]
  /\ UNCHANGED <<js, chunks, published, rawVars, enrichedVars, durableVars, inbox,
                 callbackVars, acked, tries, billVars, faults>>

\* The upstream answered, failed, or started a stream.
Answered(r) ==
  /\ phase[r] = "forwarding"
  /\ \/ \E u \in RawUsage :
          /\ Emit(r, Event(r, "response", 0, u))
          /\ phase' = [phase EXCEPT ![r] = "done"]
     \/ /\ phase' = [phase EXCEPT ![r] = "streaming"]
        /\ UNCHANGED tasks
  /\ UNCHANGED <<js, chunks, published, rawVars, enrichedVars, durableVars, inbox,
                 callbackVars, acked, tries, billVars, faults>>

StreamChunk(r) ==
  /\ phase[r] = "streaming" /\ chunks[r] < MaxChunks
  /\ Emit(r, Event(r, "chunk", chunks[r], "nothing"))
  /\ chunks' = [chunks EXCEPT ![r] = @ + 1]
  /\ UNCHANGED <<js, phase, published, rawVars, enrichedVars, durableVars, inbox,
                 callbackVars, acked, tries, billVars, faults>>

\* The stream ended, or it broke: one response event either way.  A streamed
\* response carries no body, only the usage seen in its lines.
StreamEnd(r) ==
  /\ phase[r] = "streaming"
  /\ \E u \in {"provider", "nothing", "nonfinite"} : Emit(r, Event(r, "response", 0, u))
  /\ phase' = [phase EXCEPT ![r] = "done"]
  /\ UNCHANGED <<js, chunks, published, rawVars, enrichedVars, durableVars, inbox,
                 callbackVars, acked, tries, billVars, faults>>

MsgIdOfRequest(e) == <<e.id, "event", 0>>

\* Nats-Msg-Id: {request_id}:{seq} for a chunk, {request_id}:{type} otherwise.
MsgId(e) == <<e.id, e.type, e.seq>>

StoreRaw(e) ==
  IF MsgId(e) \in rawIds
  THEN UNCHANGED <<raw, rawIds, tries>>
  ELSE /\ raw' = Append(raw, e)
       /\ rawIds' = rawIds \cup {MsgId(e)}
       /\ tries' = Append(tries, 0)

\* _safe_publish: answered; or an error, with or without the message stored.
SafePublish(t) ==
  /\ tasks' = tasks \ {t}
  /\ \/ /\ StoreRaw(t.event)
        /\ published' = IF t.event.type = "response" THEN published \cup {t.event.id}
                        ELSE published
        /\ UNCHANGED faults
     \/ /\ Fault
        /\ StoreRaw(t.event) \/ UNCHANGED <<raw, rawIds, tries>>
        /\ UNCHANGED published
  /\ UNCHANGED <<js, phase, chunks, enrichedVars, durableVars, inbox, callbackVars,
                 acked, billVars>>

\* The gateway dies, or drains for two seconds and closes; it restarts and
\* tries to connect once.
GatewayRestart ==
  /\ Fault
  /\ js' \in BOOLEAN
  /\ tasks' = {}
  /\ phase' = [r \in Requests |->
       IF phase[r] \in {"forwarding", "streaming"} THEN "gone" ELSE phase[r]]
  /\ UNCHANGED <<chunks, published, rawVars, enrichedVars, durableVars, inbox,
                 callbackVars, acked, tries, billVars>>

-----------------------------------------------------------------------------
(* JetStream and the life of a subscription, the same in both consumers *)

Stream(c) == IF c = "enricher" THEN raw ELSE enriched

WindowExpires ==
  /\ \/ \E i \in rawIds : rawIds' = rawIds \ {i} /\ UNCHANGED enrichedIds
     \/ \E i \in enrichedIds : enrichedIds' = enrichedIds \ {i} /\ UNCHANGED rawIds
  /\ UNCHANGED <<gatewayVars, raw, enriched, durableVars, inbox, callbackVars, acked,
                 tries, billVars, faults>>

\* A connection was made, or made again: _bind subscribes the durable, which
\* DeliverPolicy.NEW creates at the end of the stream; or the bind fails and
\* waits for the next reconnect.
Bind(c) ==
  /\ link[c] = "down"
  /\ \/ /\ link' = [link EXCEPT ![c] = "bound"]
        /\ from' = IF from[c] = 0 THEN [from EXCEPT ![c] = Len(Stream(c)) + 1] ELSE from
        /\ UNCHANGED faults
     \/ /\ Fault
        /\ link' = [link EXCEPT ![c] = "unbound"]
        /\ UNCHANGED from
  /\ UNCHANGED <<gatewayVars, rawVars, enrichedVars, inbox, callbackVars, acked, tries,
                 billVars>>

\* _on_disconnected; what was delivered before is still processed.
Disconnect(c) ==
  /\ link[c] # "down" /\ Fault
  /\ link' = [link EXCEPT ![c] = "down"]
  /\ UNCHANGED <<gatewayVars, rawVars, enrichedVars, from, inbox, callbackVars, acked,
                 tries, billVars>>

Deliverable(c, s) ==
  /\ link[c] = "bound"
  /\ from[c] # 0 /\ s >= from[c] /\ s \notin acked[c]
  /\ c = "enricher" => tries[s] < MaxDeliver

\* Delivery; AckWait delivers again what neither waits nor is in hand.
Deliver(c, s) ==
  /\ Deliverable(c, s) /\ s \notin inbox[c] \cup {at[c]}
  /\ inbox' = [inbox EXCEPT ![c] = @ \cup {s}]
  /\ tries' = IF c = "enricher" THEN [tries EXCEPT ![s] = @ + 1] ELSE tries
  /\ UNCHANGED <<gatewayVars, rawVars, enrichedVars, durableVars, callbackVars, acked,
                 billVars, faults>>

\* AckWait expires on a message that is still in hand.
DeliverAgain(c) ==
  /\ at[c] # 0 /\ Deliverable(c, at[c]) /\ at[c] \notin inbox[c] /\ Fault
  /\ inbox' = [inbox EXCEPT ![c] = @ \cup {at[c]}]
  /\ tries' = IF c = "enricher" THEN [tries EXCEPT ![at[c]] = @ + 1] ELSE tries
  /\ UNCHANGED <<gatewayVars, rawVars, enrichedVars, durableVars, callbackVars, acked,
                 billVars>>

Idle(c) ==
  /\ at' = [at EXCEPT ![c] = 0]
  /\ step' = [step EXCEPT ![c] = "idle"]
  /\ built' = IF c = "enricher" THEN "null" ELSE built

\* _safe_ack: the ack arrives or is lost; either way the callback returns.
SafeAck(c) ==
  /\ step[c] = "ack"
  /\ Idle(c)
  /\ \/ acked' = [acked EXCEPT ![c] = @ \cup {at[c]}] /\ UNCHANGED faults
     \/ Fault /\ UNCHANGED acked
  /\ UNCHANGED <<gatewayVars, rawVars, enrichedVars, durableVars, inbox, tries, billVars>>

\* A consumer process dies and restarts; what it had in memory is gone.
ConsumerCrash(c) ==
  /\ Fault
  /\ link' = [link EXCEPT ![c] = "down"]
  /\ inbox' = [inbox EXCEPT ![c] = {}]
  /\ Idle(c)
  /\ UNCHANGED <<gatewayVars, rawVars, enrichedVars, from, acked, tries, billVars>>

-----------------------------------------------------------------------------
(* The enricher's callback *)

\* Anything but a response is acked and skipped.
EnricherSkips(s) ==
  /\ step["enricher"] = "idle" /\ s \in inbox["enricher"] /\ raw[s].type # "response"
  /\ inbox' = [inbox EXCEPT !["enricher"] = @ \ {s}]
  /\ \/ acked' = [acked EXCEPT !["enricher"] = @ \cup {s}] /\ UNCHANGED faults
     \/ Fault /\ UNCHANGED acked
  /\ UNCHANGED <<gatewayVars, rawVars, enrichedVars, durableVars, callbackVars, tries,
                 billVars>>

EnricherReceives(s) ==
  /\ step["enricher"] = "idle" /\ s \in inbox["enricher"] /\ raw[s].type = "response"
  /\ inbox' = [inbox EXCEPT !["enricher"] = @ \ {s}]
  /\ at' = [at EXCEPT !["enricher"] = s]
  /\ step' = [step EXCEPT !["enricher"] = "build"]
  /\ UNCHANGED <<gatewayVars, rawVars, enrichedVars, durableVars, built, acked, tries,
                 billVars, faults>>

ResolveUsageGuessing(u) == IF u = "provider" THEN {"count"} ELSE {"count", "null"}

\* resolve_usage: the provider's number, else an estimate of the captured body,
\* which the tokenizer may fail to give, else null.
ResolveUsage(u) ==
  CASE u = "provider" -> {"count"}
    [] u = "body"     -> {"count", "null"}
    [] u = "nothing"  -> {"null"}

BuildEnriched ==
  /\ step["enricher"] = "build"
  /\ LET u == raw[at["enricher"]].usage IN
     \/ /\ u = "nonfinite"
        /\ step' = [step EXCEPT !["enricher"] = "ack"]
        /\ UNCHANGED built
     \/ /\ u # "nonfinite"
        /\ built' \in ResolveUsage(u)
        /\ step' = [step EXCEPT !["enricher"] = "publish"]
  /\ UNCHANGED <<gatewayVars, rawVars, enrichedVars, durableVars, inbox, at, acked, tries,
                 billVars, faults>>

StoreEnriched(i) ==
  IF i \in enrichedIds
  THEN UNCHANGED enrichedVars
  ELSE /\ enriched' = Append(enriched, [id |-> i, total |-> built])
       /\ enrichedIds' = enrichedIds \cup {i}

PublishEnrichedThenAckAnyway ==
  /\ step["enricher"] = "publish"
  /\ LET i == raw[at["enricher"]].id IN
     \/ StoreEnriched(i) /\ UNCHANGED faults
     \/ Fault /\ UNCHANGED enrichedVars
  /\ step' = [step EXCEPT !["enricher"] = "ack"]
  /\ UNCHANGED <<gatewayVars, rawVars, durableVars, inbox, at, built, acked, tries, billVars>>

\* _publish_enriched with Nats-Msg-Id = request_id; a failure returns without
\* an ack.
PublishEnriched ==
  /\ step["enricher"] = "publish"
  /\ LET i == raw[at["enricher"]].id IN
     \/ /\ StoreEnriched(i)
        /\ step' = [step EXCEPT !["enricher"] = "ack"]
        /\ built' = "null"
        /\ UNCHANGED <<at, faults>>
     \/ /\ Fault
        /\ StoreEnriched(i) \/ UNCHANGED enrichedVars
        /\ Idle("enricher")
  /\ UNCHANGED <<gatewayVars, rawVars, durableVars, inbox, acked, tries, billVars>>

-----------------------------------------------------------------------------
(* The billing consumer's callback *)

BillingReceives(s) ==
  /\ step["billing"] = "idle" /\ s \in inbox["billing"]
  /\ inbox' = [inbox EXCEPT !["billing"] = @ \ {s}]
  /\ at' = [at EXCEPT !["billing"] = s]
  /\ step' = [step EXCEPT !["billing"] = "persist"]
  /\ UNCHANGED <<gatewayVars, rawVars, enrichedVars, durableVars, built, acked, tries,
                 billVars, faults>>

\* One transaction: the usage row and, when countable, its pending outbox row.
CommitRows(e) ==
  /\ usage' = [usage EXCEPT ![e.id] = e.total]
  /\ outbox' = IF e.total = "count" THEN outbox \cup {e.id} ELSE outbox

PersistAckingFaults ==
  /\ step["billing"] = "persist"
  /\ LET e == enriched[at["billing"]] IN
     \/ usage[e.id] = "absent" /\ CommitRows(e) /\ UNCHANGED faults
     \/ usage[e.id] # "absent" /\ UNCHANGED <<billVars, faults>>
     \/ Fault /\ UNCHANGED billVars
  /\ step' = [step EXCEPT !["billing"] = "ack"]
  /\ UNCHANGED <<gatewayVars, rawVars, enrichedVars, durableVars, inbox, at, built,
                 acked, tries>>

PersistUpserting ==
  /\ step["billing"] = "persist"
  /\ CommitRows(enriched[at["billing"]])
  /\ step' = [step EXCEPT !["billing"] = "ack"]
  /\ UNCHANGED <<gatewayVars, rawVars, enrichedVars, durableVars, inbox, at, built,
                 acked, tries, faults>>

PersistInTwoCommits ==
  /\ step["billing"] = "persist"
  /\ LET e == enriched[at["billing"]] IN
     \/ usage[e.id] = "absent" /\ CommitRows(e) /\ UNCHANGED faults
     \/ usage[e.id] # "absent" /\ UNCHANGED <<billVars, faults>>
     \/ Fault /\ usage[e.id] = "absent" /\ usage' = [usage EXCEPT ![e.id] = e.total]
        /\ UNCHANGED outbox
  /\ step' = [step EXCEPT !["billing"] = "ack"]
  /\ UNCHANGED <<gatewayVars, rawVars, enrichedVars, durableVars, inbox, at, built,
                 acked, tries>>

\* _persist: committed; or the request id is already there, a no-op; or a fault,
\* with the transaction rolled back or, when only the commit's answer was lost,
\* applied, and no ack.
Persist ==
  /\ step["billing"] = "persist"
  /\ LET e == enriched[at["billing"]] IN
     \/ /\ usage[e.id] = "absent" /\ CommitRows(e)
        /\ step' = [step EXCEPT !["billing"] = "ack"]
        /\ UNCHANGED <<at, built, faults>>
     \/ /\ usage[e.id] # "absent"
        /\ step' = [step EXCEPT !["billing"] = "ack"]
        /\ UNCHANGED <<at, built, billVars, faults>>
     \/ /\ Fault
        /\ (usage[e.id] = "absent" /\ CommitRows(e)) \/ UNCHANGED billVars
        /\ Idle("billing")
  /\ UNCHANGED <<gatewayVars, rawVars, enrichedVars, durableVars, inbox, acked, tries>>

-----------------------------------------------------------------------------

Gateway ==
  \/ \E r \in Requests : Respond(r) \/ Answered(r) \/ StreamChunk(r) \/ StreamEnd(r)
  \/ \E t \in tasks : SafePublish(t)
  \/ GatewayRestart

Enricher ==
  \/ \E s \in inbox["enricher"] : EnricherSkips(s) \/ EnricherReceives(s)
  \/ BuildEnriched \/ PublishEnriched

Billing == (\E s \in inbox["billing"] : BillingReceives(s)) \/ Persist

Consumer(c) ==
  \/ Bind(c) \/ Disconnect(c) \/ DeliverAgain(c) \/ SafeAck(c) \/ ConsumerCrash(c)
  \/ \E s \in 1..Len(Stream(c)) : Deliver(c, s)

Next == Gateway \/ Enricher \/ Billing \/ WindowExpires \/ \E c \in Consumers : Consumer(c)

Spec == Init /\ [][Next]_vars

\* Callbacks return, JetStream redelivers, clients reconnect.
FairSpec ==
  /\ Spec
  /\ WF_vars(Enricher) /\ WF_vars(Billing)
  /\ \A c \in Consumers :
       WF_vars(Bind(c)) /\ WF_vars(SafeAck(c))
  /\ \A c \in Consumers : \A s \in 1..(3 * Cardinality(Requests)) :
       WF_vars(s <= Len(Stream(c)) /\ Deliver(c, s))

-----------------------------------------------------------------------------
(* Properties *)

\* A publish JetStream answered is in the stream: no response event is taken for
\* a duplicate of its own request event (events.py:155-171).
AnsweredIsStored ==
  \A i \in published :
    \E s \in 1..Len(raw) : raw[s].type = "response" /\ raw[s].id = i

\* The enricher is the only producer of billing's stream (consumer.py:13-19): what
\* it acks it has republished, unless no count can be built for it at all.
EnrichedBeforeAck ==
  \A s \in acked["enricher"] :
    raw[s].type = "response" /\ raw[s].usage # "nonfinite" =>
      \E q \in 1..Len(enriched) : enriched[q].id = raw[s].id

\* What the billing consumer acks has a committed usage row, whatever is lost,
\* redelivered or crashes in between.
MeteredBeforeAck ==
  \A s \in acked["billing"] : usage[enriched[s].id] # "absent"

\* What one stage takes off the hands of the one before it keeps: whichever
\* message is lost, redelivered or refused, and whichever process crashes.
AckedIsKept == AnsweredIsStored /\ EnrichedBeforeAck /\ MeteredBeforeAck

\* Un-countable usage is audited and never billed on a guess (consumer.py:9-12),
\* countable usage has its outbox row; and each row stems from a response the
\* gateway published whose usage allows it.
NeverBilledOnAGuess ==
  /\ \A i \in Ids : usage[i] = "count" <=> i \in outbox
  /\ \A i \in Ids : usage[i] # "absent" =>
       \E s \in 1..Len(raw) :
         /\ raw[s].type = "response" /\ raw[s].id = i
         /\ raw[s].usage \in IF usage[i] = "count" THEN {"provider", "body"} ELSE {"body", "nothing"}

\* A request id is metered once: no redelivery, duplicate or differing second
\* estimate ever changes a committed usage row.
MeteredOnce ==
  [][\A i \in Ids : usage[i] # "absent" => usage'[i] = usage[i]]_vars

\* With fewer faults than max_deliver every published countable response is
\* metered in the end, unless it was stored before the durable existed or a
\* consumer is waiting for a reconnect after a failed bind.
PublishedIsMetered ==
  \A i \in Ids :
    (\E s \in 1..Len(raw) : raw[s].type = "response" /\ raw[s].id = i
                            /\ raw[s].usage # "nonfinite" /\ from["enricher"] \in 1..s)
    ~> \/ usage[i] # "absent"
       \/ \E c \in Consumers : link[c] = "unbound"
       \/ from["billing"] = 0
       \/ \E q \in 1..Len(enriched) : enriched[q].id = i /\ from["billing"] > q

\* "Metering paused, never silently dropped - messages simply queue on the
\* retained stream" (billing consumer.py:82-85).
NeverSilentlyDropped ==
  from["billing"] # 0 =>
    \A q \in 1..Len(enriched) : q >= from["billing"] \/ usage[enriched[q].id] # "absent"
=============================================================================
