------------------------ MODULE MeteringPipelineProofs ------------------------
(***************************************************************************)
(* For any number of requests, ids, faults, redeliveries and crashes: what *)
(* one stage of the pipeline acknowledges the next one keeps, a usage row  *)
(* stems from a response the gateway published, and it never changes.      *)
(*                                                                         *)
(* The induction is over what each callback has in its hands: what it may  *)
(* acknowledge next is kept already.                                       *)
(***************************************************************************)
EXTENDS MeteringPipeline, FiniteSetTheorems, SequenceTheorems, TLAPS

\* The functions and sets that TypeOK says the elements of.
Shapes ==
  /\ IsFiniteSet(tasks)
  /\ inbox \in [Consumers -> SUBSET Nat]
  /\ acked \in [Consumers -> SUBSET Nat]
  /\ at \in [Consumers -> Nat]

Types == TypeOK /\ Shapes

\* A message id in a duplicate window is of a message that is stored.
Windows ==
  /\ \A k \in rawIds : \E s \in 1..Len(raw) : MsgId(raw[s]) = k
  /\ \A i \in enrichedIds : \E q \in 1..Len(enriched) : enriched[q].id = i

\* A published response of the request id says this much of its usage.
Stems(i, total) ==
  \E s \in 1..Len(raw) :
    /\ raw[s].type = "response" /\ raw[s].id = i
    /\ raw[s].usage \in IF total = "count" THEN {"provider", "body"} ELSE {"body", "nothing"}

Republished(i) == \E q \in 1..Len(enriched) : enriched[q].id = i

\* The enricher holds a response; what it is about to publish is resolved from
\* it, and what it is about to ack is published.
EnricherHand ==
  /\ step["enricher"] # "persist"
  /\ step["enricher"] # "idle" =>
       at["enricher"] # 0 /\ raw[at["enricher"]].type = "response"
  /\ step["enricher"] = "publish" =>
       /\ raw[at["enricher"]].usage # "nonfinite"
       /\ Stems(raw[at["enricher"]].id, built)
  /\ step["enricher"] = "ack" /\ raw[at["enricher"]].usage # "nonfinite" =>
       Republished(raw[at["enricher"]].id)

\* What the billing consumer is about to ack has its row.
BillingHand ==
  /\ step["billing"] \in {"idle", "persist", "ack"}
  /\ step["billing"] # "idle" => at["billing"] # 0
  /\ step["billing"] = "ack" => usage[enriched[at["billing"]].id] # "absent"

\* Nothing is enriched that no response asked for.
EnrichedStems == \A q \in 1..Len(enriched) : Stems(enriched[q].id, enriched[q].total)

Hands == Windows /\ EnricherHand /\ BillingHand /\ EnrichedStems

IInv == Types /\ Hands /\ AckedIsKept /\ NeverBilledOnAGuess

-------------------------------------------------------------------------------
(* What the proofs need to know of the state in one piece.                 *)

LEMMA InitTypes == Init => Types
<1> SUFFICES ASSUME Init PROVE Types
  OBVIOUS
<1>1. IsFiniteSet(tasks) /\ Cardinality(tasks) = 0
  BY FS_EmptySet DEF Init
<1>2. Shapes
  BY <1>1 DEF Init, Shapes
<1>3. js \in BOOLEAN
  BY Zenon DEF Init
<1>4. raw \in Seq(RawEvent) /\ Len(raw) = 0 /\ enriched \in Seq(EnrichedEvent) /\ Len(enriched) = 0
      /\ tries \in Seq(0..MaxDeliver) /\ Len(tries) = 0
  BY DEF Init
<1>5. from \in [Consumers -> Nat]
  BY DEF Init
<1>6. 0 \in 0..MaxFaults /\ 0 \in 0..MaxChunks /\ 0 <= MaxInflight
  BY PipelineAssumption
<1>7. /\ inbox["enricher"] = {} /\ inbox["billing"] = {}
      /\ acked["enricher"] = {} /\ acked["billing"] = {}
      /\ at["enricher"] = 0 /\ at["billing"] = 0
  BY DEF Init, Consumers
<1>8. /\ phase \in [Requests -> {"new", "forwarding", "streaming", "done", "gone"}]
      /\ chunks \in [Requests -> 0..MaxChunks]
      /\ link \in [Consumers -> {"down", "unbound", "bound"}]
      /\ step \in [Consumers -> {"idle", "build", "publish", "persist", "ack"}]
      /\ usage \in [Ids -> {"absent", "count", "null"}]
  BY <1>6 DEF Init
<1>9. /\ tasks = {} /\ published = {} /\ enrichedIds = {} /\ built = "null" /\ outbox = {}
      /\ faults = 0
  BY DEF Init
<1>10. TypeOK
  BY <1>1, <1>3, <1>4, <1>5, <1>6, <1>7, <1>8, <1>9 DEF TypeOK
<1> QED
  BY <1>2, <1>10 DEF Types

LEMMA InitOK == Init => IInv
<1> SUFFICES ASSUME Init PROVE IInv
  OBVIOUS
<1>1. /\ raw = <<>> /\ enriched = <<>> /\ rawIds = {} /\ enrichedIds = {} /\ published = {}
      /\ step["enricher"] = "idle" /\ step["billing"] = "idle"
      /\ acked["enricher"] = {} /\ acked["billing"] = {}
      /\ Len(raw) = 0 /\ Len(enriched) = 0
  BY DEF Init, Consumers
<1>2. Hands
  BY <1>1 DEF Hands, Windows, EnricherHand, BillingHand, EnrichedStems
<1>3. AckedIsKept
  BY <1>1 DEF AckedIsKept, AnsweredIsStored, EnrichedBeforeAck, MeteredBeforeAck
<1>4. NeverBilledOnAGuess
  BY DEF Init, NeverBilledOnAGuess
<1> QED
  BY <1>2, <1>3, <1>4, InitTypes DEF IInv

\* What a step leaves alone that touches neither a stream nor a callback.
LEMMA QuietKeeps ==
  ASSUME Hands, AckedIsKept, NeverBilledOnAGuess,
         UNCHANGED <<published, raw, rawIds, enriched, enrichedIds, at, step, built, acked,
                     usage, outbox>>
  PROVE  Hands' /\ AckedIsKept' /\ NeverBilledOnAGuess'
<1>1. Windows' /\ EnrichedStems'
  BY DEF Hands, Windows, EnrichedStems, Stems, MsgId
<1>2. EnricherHand'
  BY DEF Hands, EnricherHand, Stems, Republished
<1>3. BillingHand'
  BY DEF Hands, BillingHand
<1>4. AckedIsKept'
  BY DEF AckedIsKept, AnsweredIsStored, EnrichedBeforeAck, MeteredBeforeAck
<1>5. NeverBilledOnAGuess'
  BY DEF NeverBilledOnAGuess
<1> QED
  BY <1>1, <1>2, <1>3, <1>4, <1>5 DEF Hands

-------------------------------------------------------------------------------
(* The gateway.                                                            *)

LEMMA EventType ==
  ASSUME NEW r \in Requests, NEW type \in {"request", "chunk", "response"}, NEW seq \in Nat,
         NEW u \in RawUsage
  PROVE  [req |-> r, event |-> Event(r, type, seq, u)] \in [req : Requests, event : RawEvent]
<1>1. IdOf[r] \in Ids
  BY PipelineAssumption
<1> QED
  BY <1>1 DEF Event, RawEvent

\* The publishes in flight stay within the cap.
LEMMA EmitOK ==
  ASSUME Types, NEW r, NEW e, [req |-> r, event |-> e] \in [req : Requests, event : RawEvent],
         Emit(r, e)
  PROVE  /\ tasks' \subseteq [req : Requests, event : RawEvent]
         /\ IsFiniteSet(tasks') /\ Cardinality(tasks') <= MaxInflight
<1> DEFINE t == [req |-> r, event |-> e]
<1>1. /\ IsFiniteSet(tasks) /\ tasks \subseteq [req : Requests, event : RawEvent]
      /\ Cardinality(tasks) <= MaxInflight /\ Cardinality(tasks) \in Nat
  BY FS_CardinalityType DEF Types, Shapes, TypeOK
<1>2. tasks' = tasks \/ (Cardinality(tasks) < MaxInflight /\ tasks' = tasks \cup {t})
  BY DEF Emit
<1> HIDE DEF t
<1>3. /\ IsFiniteSet(tasks \cup {t})
      /\ Cardinality(tasks \cup {t}) \in {Cardinality(tasks), Cardinality(tasks) + 1}
  BY <1>1, FS_AddElement
<1>4. t \in [req : Requests, event : RawEvent]
  BY DEF t
<1>5. CASE tasks' = tasks
  BY <1>1, <1>5
<1>6. CASE Cardinality(tasks) < MaxInflight /\ tasks' = tasks \cup {t}
  <2>1. Cardinality(tasks \cup {t}) <= MaxInflight
    BY <1>1, <1>3, <1>6, PipelineAssumption
  <2> QED
    BY <1>1, <1>3, <1>4, <1>6, <2>1
<1> QED
  BY <1>2, <1>5, <1>6

\* The request's own steps.
LEMMA RequestOK ==
  ASSUME IInv, NEW r \in Requests,
         Respond(r) \/ Answered(r) \/ StreamChunk(r) \/ StreamEnd(r)
  PROVE  IInv'
<1>1. Types
  BY DEF IInv
<1>2. /\ UNCHANGED <<js, published, raw, rawIds, enriched, enrichedIds, link, from, inbox,
                     at, step, built, acked, tries, usage, outbox, faults>>
  BY DEF Respond, Answered, StreamChunk, StreamEnd, rawVars, enrichedVars, durableVars,
         callbackVars, billVars
<1>3. /\ phase' \in [Requests -> {"new", "forwarding", "streaming", "done", "gone"}]
      /\ chunks' \in [Requests -> 0..MaxChunks]
  <2>1. /\ phase \in [Requests -> {"new", "forwarding", "streaming", "done", "gone"}]
        /\ chunks \in [Requests -> 0..MaxChunks]
    BY <1>1 DEF Types, TypeOK
  <2>2. CASE Respond(r) \/ Answered(r) \/ StreamEnd(r)
    BY <2>1, <2>2 DEF Respond, Answered, StreamEnd
  <2>3. CASE StreamChunk(r)
    BY <2>1, <2>3, PipelineAssumption DEF StreamChunk
  <2> QED
    BY <2>2, <2>3
<1>4. /\ tasks' \subseteq [req : Requests, event : RawEvent]
      /\ IsFiniteSet(tasks') /\ Cardinality(tasks') <= MaxInflight
  <2>1. \/ tasks' = tasks
        \/ \E type \in {"request", "chunk", "response"}, seq \in Nat, u \in RawUsage :
              Emit(r, Event(r, type, seq, u))
    <3>1. chunks[r] \in Nat /\ 0 \in Nat
      BY <1>1, PipelineAssumption DEF Types, TypeOK
    <3>2. CASE Respond(r)
      BY <3>1, <3>2 DEF Respond, RawUsage
    <3>3. CASE Answered(r)
      BY <3>1, <3>3 DEF Answered
    <3>4. CASE StreamChunk(r)
      BY <3>1, <3>4 DEF StreamChunk, RawUsage
    <3>5. CASE StreamEnd(r)
      BY <3>1, <3>5 DEF StreamEnd, RawUsage
    <3> QED
      BY <3>2, <3>3, <3>4, <3>5
  <2>2. ASSUME NEW type \in {"request", "chunk", "response"}, NEW seq \in Nat, NEW u \in RawUsage,
               Emit(r, Event(r, type, seq, u))
        PROVE  /\ tasks' \subseteq [req : Requests, event : RawEvent]
               /\ IsFiniteSet(tasks') /\ Cardinality(tasks') <= MaxInflight
    BY <1>1, <2>2, EventType, EmitOK
  <2>3. /\ tasks \subseteq [req : Requests, event : RawEvent]
        /\ IsFiniteSet(tasks) /\ Cardinality(tasks) <= MaxInflight
    BY <1>1 DEF Types, Shapes, TypeOK
  <2> QED
    BY <2>1, <2>2, <2>3
<1>5. Types'
  BY <1>1, <1>2, <1>3, <1>4 DEF Types, TypeOK, Shapes
<1> QED
  BY <1>2, <1>5, QuietKeeps DEF IInv

LEMMA GatewayRestartOK == ASSUME IInv, GatewayRestart PROVE IInv'
<1>1. Types
  BY DEF IInv
<1>2. UNCHANGED <<chunks, published, raw, rawIds, enriched, enrichedIds, link, from, inbox,
                  at, step, built, acked, tries, usage, outbox>>
  BY DEF GatewayRestart, rawVars, enrichedVars, durableVars, callbackVars, billVars
<1>3. /\ phase' \in [Requests -> {"new", "forwarding", "streaming", "done", "gone"}]
      /\ tasks' = {} /\ faults' \in 0..MaxFaults
  BY <1>1, PipelineAssumption DEF GatewayRestart, Fault, Types, TypeOK
<1>4. IsFiniteSet(tasks') /\ Cardinality(tasks') <= MaxInflight
  BY <1>3, FS_EmptySet, PipelineAssumption
<1>5. js' \in BOOLEAN
  BY Zenon DEF GatewayRestart
<1>6. Types'
  BY <1>1, <1>2, <1>3, <1>4, <1>5 DEF Types, TypeOK, Shapes
<1> QED
  BY <1>2, <1>6, QuietKeeps DEF IInv

-------------------------------------------------------------------------------
(* The streams grow.                                                       *)

\* What was said of a stream is said of a longer one.
LEMMA RawGrows ==
  ASSUME Types, NEW e \in RawEvent, raw' = Append(raw, e)
  PROVE  /\ raw' \in Seq(RawEvent) /\ Len(raw') = Len(raw) + 1 /\ raw'[Len(raw) + 1] = e
         /\ \A s \in 1..Len(raw) : s \in 1..Len(raw') /\ raw'[s] = raw[s]
         /\ \A s \in 1..Len(raw') : s \in 1..Len(raw) \/ s = Len(raw) + 1
         /\ \A i, total : Stems(i, total) => Stems(i, total)'
<1>1. raw \in Seq(RawEvent) /\ Len(raw) \in Nat
  BY DEF Types, TypeOK
<1>2. /\ raw' \in Seq(RawEvent) /\ Len(raw') = Len(raw) + 1 /\ raw'[Len(raw) + 1] = e
      /\ \A s \in 1..Len(raw) : raw'[s] = raw[s]
  BY <1>1, AppendProperties
<1>3. /\ \A s \in 1..Len(raw) : s \in 1..Len(raw')
      /\ \A s \in 1..Len(raw') : s \in 1..Len(raw) \/ s = Len(raw) + 1
  BY <1>1, <1>2
<1>4. \A i, total : Stems(i, total) => Stems(i, total)'
  BY <1>2, <1>3 DEF Stems
<1> QED
  BY <1>2, <1>3, <1>4

\* A publish in the background: answered, or failed with or without being stored.
LEMMA SafePublishOK == ASSUME IInv, NEW t \in tasks, SafePublish(t) PROVE IInv'
<1>1. Types /\ Hands /\ AckedIsKept /\ NeverBilledOnAGuess
  BY DEF IInv
<1>2. t.event \in RawEvent /\ t.event.id \in Ids
  BY <1>1 DEF Types, TypeOK, RawEvent
<1>3. UNCHANGED <<js, phase, chunks, enriched, enrichedIds, link, from, inbox, at, step, built,
                  acked, usage, outbox>>
  BY DEF SafePublish, enrichedVars, durableVars, callbackVars, billVars
<1>4. /\ tasks' \subseteq [req : Requests, event : RawEvent]
      /\ IsFiniteSet(tasks') /\ Cardinality(tasks') <= MaxInflight
  <2>1. tasks' = tasks \ {t} /\ IsFiniteSet(tasks) /\ Cardinality(tasks) \in Nat
    BY <1>1, FS_CardinalityType DEF SafePublish, Types, Shapes
  <2>2. IsFiniteSet(tasks') /\ Cardinality(tasks') = Cardinality(tasks) - 1
    BY <2>1, FS_RemoveElement
  <2> QED
    BY <1>1, <2>1, <2>2, PipelineAssumption DEF Types, TypeOK
<1>5. faults' \in 0..MaxFaults
  BY <1>1, PipelineAssumption DEF SafePublish, Fault, Types, TypeOK
<1>6. CASE UNCHANGED <<raw, rawIds, tries, published>>
  <2>1. Types'
    BY <1>1, <1>3, <1>4, <1>5, <1>6 DEF Types, TypeOK, Shapes
  <2> QED
    BY <1>1, <1>3, <1>6, <2>1, QuietKeeps DEF IInv
<1>7. CASE /\ StoreRaw(t.event)
           /\ \/ published' = published
              \/ t.event.type = "response" /\ published' = published \cup {t.event.id}
  <2>1. \/ MsgId(t.event) \in rawIds /\ UNCHANGED <<raw, rawIds, tries>>
        \/ /\ raw' = Append(raw, t.event) /\ rawIds' = rawIds \cup {MsgId(t.event)}
           /\ tries' = Append(tries, 0)
    BY <1>7 DEF StoreRaw
  <2>2. /\ raw' \in Seq(RawEvent) /\ Len(tries') = Len(raw') /\ tries' \in Seq(0..MaxDeliver)
        /\ \A s \in 1..Len(raw) : s \in 1..Len(raw') /\ raw'[s] = raw[s]
        /\ \A s \in 1..Len(raw') : s \in 1..Len(raw) \/ raw'[s] = t.event
        /\ \A i, total : Stems(i, total) => Stems(i, total)'
        /\ Len(raw) \in Nat /\ Len(raw') \in Nat /\ Len(raw) <= Len(raw')
        /\ \A k \in rawIds' : \E s \in 1..Len(raw') : MsgId(raw'[s]) = k
        /\ MsgId(t.event) \in rawIds'
    <3>1. /\ raw \in Seq(RawEvent) /\ Len(tries) = Len(raw) /\ tries \in Seq(0..MaxDeliver)
          /\ Len(raw) \in Nat
      BY <1>1 DEF Types, TypeOK
    <3>2. CASE MsgId(t.event) \in rawIds /\ UNCHANGED <<raw, rawIds, tries>>
      BY <1>1, <3>1, <3>2 DEF Stems, Hands, Windows
    <3>3. CASE /\ raw' = Append(raw, t.event) /\ rawIds' = rawIds \cup {MsgId(t.event)}
               /\ tries' = Append(tries, 0)
      <4>1. tries' \in Seq(0..MaxDeliver) /\ Len(tries') = Len(tries) + 1
        <5>1. 0 \in 0..MaxDeliver
          BY PipelineAssumption
        <5> QED
          BY <3>1, <3>3, <5>1, AppendProperties
      <4>2. /\ raw' \in Seq(RawEvent) /\ Len(raw') = Len(raw) + 1 /\ raw'[Len(raw) + 1] = t.event
            /\ \A s \in 1..Len(raw) : s \in 1..Len(raw') /\ raw'[s] = raw[s]
            /\ \A s \in 1..Len(raw') : s \in 1..Len(raw) \/ s = Len(raw) + 1
            /\ \A i, total : Stems(i, total) => Stems(i, total)'
        BY <1>1, <1>2, <3>3, RawGrows
      <4>3. \A k \in rawIds' : \E s \in 1..Len(raw') : MsgId(raw'[s]) = k
        <5>1. Len(raw) + 1 \in 1..Len(raw')
          BY <3>1, <4>2
        <5>2. MsgId(raw'[Len(raw) + 1]) = MsgId(t.event)
          BY <4>2
        <5> QED
          BY <1>1, <3>3, <4>2, <5>1, <5>2 DEF Hands, Windows
      <4> QED
        BY <3>1, <3>3, <4>1, <4>2, <4>3
    <3> QED
      BY <2>1, <3>2, <3>3
  <2>3. /\ inbox["enricher"] \cup acked["enricher"] \subseteq 1..Len(raw)
        /\ at["enricher"] \in 0..Len(raw)
        /\ published \subseteq Ids
    BY <1>1 DEF Types, TypeOK
  <2>4. /\ inbox["enricher"] \cup acked["enricher"] \subseteq 1..Len(raw')
        /\ at["enricher"] \in 0..Len(raw') /\ published' \subseteq Ids
        /\ at["enricher"] # 0 => raw'[at["enricher"]] = raw[at["enricher"]]
    BY <1>2, <1>7, <2>2, <2>3
  <2>5. Types'
    BY <1>1, <1>3, <1>4, <1>5, <2>2, <2>4 DEF Types, TypeOK, Shapes
  <2>6. Windows'
    BY <1>1, <1>3, <2>2 DEF Hands, Windows, MsgId
  <2>7. EnricherHand'
    BY <1>1, <1>3, <2>2, <2>4 DEF Hands, EnricherHand, Republished
  <2>8. BillingHand' /\ EnrichedStems'
    BY <1>1, <1>3, <2>2 DEF Hands, BillingHand, EnrichedStems
  <2>9. AnsweredIsStored'
    <3>1. \E s \in 1..Len(raw') : MsgId(raw'[s]) = MsgId(t.event)
      BY <2>2
    <3>2. \E s \in 1..Len(raw') : raw'[s].type = t.event.type /\ raw'[s].id = t.event.id
      BY <3>1 DEF MsgId
    <3> QED
      BY <1>1, <1>7, <2>2, <3>2 DEF AckedIsKept, AnsweredIsStored
  <2>10. EnrichedBeforeAck' /\ MeteredBeforeAck'
    BY <1>1, <1>3, <2>2, <2>3 DEF AckedIsKept, EnrichedBeforeAck, MeteredBeforeAck
  <2>11. NeverBilledOnAGuess'
    <3>1. \A i \in Ids : usage[i] # "absent" => Stems(i, usage[i])
      BY <1>1 DEF NeverBilledOnAGuess, Stems
    <3>2. \A i \in Ids : usage[i] # "absent" => Stems(i, usage[i])'
      BY <1>3, <2>2, <3>1
    <3> QED
      BY <1>1, <1>3, <3>2 DEF NeverBilledOnAGuess, Stems
  <2> QED
    BY <2>5, <2>6, <2>7, <2>8, <2>9, <2>10, <2>11 DEF IInv, Hands, AckedIsKept
<1> QED
  BY <1>6, <1>7 DEF SafePublish

-------------------------------------------------------------------------------
(* JetStream and the subscriptions.                                        *)

LEMMA WindowExpiresOK == ASSUME IInv, WindowExpires PROVE IInv'
<1>1. Types /\ Hands /\ AckedIsKept /\ NeverBilledOnAGuess
  BY DEF IInv
<1>2. /\ UNCHANGED <<js, phase, chunks, tasks, published, raw, enriched, link, from, inbox,
                     at, step, built, acked, tries, usage, outbox, faults>>
      /\ rawIds' \subseteq rawIds /\ enrichedIds' \subseteq enrichedIds
  BY DEF WindowExpires, gatewayVars, durableVars, callbackVars, billVars
<1>3. Types'
  BY <1>1, <1>2 DEF Types, TypeOK, Shapes
<1>4. Windows' /\ EnrichedStems'
  BY <1>1, <1>2 DEF Hands, Windows, EnrichedStems, Stems, MsgId
<1>5. EnricherHand' /\ BillingHand'
  BY <1>1, <1>2 DEF Hands, EnricherHand, BillingHand, Stems, Republished
<1>6. AckedIsKept' /\ NeverBilledOnAGuess'
  BY <1>1, <1>2 DEF AckedIsKept, AnsweredIsStored, EnrichedBeforeAck, MeteredBeforeAck,
                    NeverBilledOnAGuess
<1> QED
  BY <1>3, <1>4, <1>5, <1>6 DEF IInv, Hands

LEMMA StreamFacts ==
  ASSUME Types, NEW c \in Consumers
  PROVE  /\ Len(raw) \in Nat /\ Len(enriched) \in Nat /\ Len(Stream(c)) \in Nat
         /\ inbox[c] \subseteq 1..Len(Stream(c)) /\ acked[c] \subseteq 1..Len(Stream(c))
         /\ at[c] \in 0..Len(Stream(c))
<1>1. Len(raw) \in Nat /\ Len(enriched) \in Nat
  BY DEF Types, TypeOK
<1> QED
  BY <1>1 DEF Types, TypeOK, Consumers, Stream

\* What the streams hold.
LEMMA Stored ==
  ASSUME Types
  PROVE  /\ \A s \in 1..Len(raw) :
              raw[s] \in RawEvent /\ raw[s].id \in Ids /\ raw[s].usage \in RawUsage
         /\ \A q \in 1..Len(enriched) : enriched[q] \in EnrichedEvent /\ enriched[q].id \in Ids
<1>1. raw \in Seq(RawEvent) /\ enriched \in Seq(EnrichedEvent)
  BY DEF Types, TypeOK
<1>2. /\ \A s \in 1..Len(raw) : raw[s] \in RawEvent
      /\ \A q \in 1..Len(enriched) : enriched[q] \in EnrichedEvent
  BY <1>1
<1> QED
  BY <1>2 DEF RawEvent, EnrichedEvent

\* The connection and its subscription, up or down.
LEMMA LinkOK == ASSUME IInv, NEW c \in Consumers, Bind(c) \/ Disconnect(c) PROVE IInv'
<1>1. Types
  BY DEF IInv
<1>2. UNCHANGED <<js, phase, chunks, tasks, published, raw, rawIds, enriched, enrichedIds,
                  inbox, at, step, built, acked, tries, usage, outbox>>
  BY DEF Bind, Disconnect, gatewayVars, rawVars, enrichedVars, callbackVars, billVars
<1>3. /\ link' \in [Consumers -> {"down", "unbound", "bound"}]
      /\ from' \in [Consumers -> Nat] /\ faults' \in 0..MaxFaults
  <2>1. /\ link \in [Consumers -> {"down", "unbound", "bound"}]
        /\ from \in [Consumers -> Nat] /\ faults \in 0..MaxFaults
        /\ Len(Stream(c)) + 1 \in Nat
    BY <1>1, StreamFacts DEF Types, TypeOK
  <2>2. faults' = faults \/ Fault
    BY DEF Bind, Disconnect
  <2>3. faults' \in 0..MaxFaults
    BY <2>1, <2>2, PipelineAssumption DEF Fault
  <2>4. \/ link' = [link EXCEPT ![c] = "bound"] \/ link' = [link EXCEPT ![c] = "unbound"]
        \/ link' = [link EXCEPT ![c] = "down"]
    BY DEF Bind, Disconnect
  <2>5. from' = from \/ from' = [from EXCEPT ![c] = Len(Stream(c)) + 1]
    BY DEF Bind, Disconnect
  <2> QED
    BY <2>1, <2>3, <2>4, <2>5
<1>4. Types'
  BY <1>1, <1>2, <1>3 DEF Types, TypeOK, Shapes
<1> QED
  BY <1>2, <1>4, QuietKeeps DEF IInv

\* A delivery to the enricher is counted.
LEMMA OneMoreTry ==
  ASSUME NEW q \in Seq(0..MaxDeliver), NEW s \in 1..Len(q), q[s] < MaxDeliver
  PROVE  /\ [q EXCEPT ![s] = @ + 1] \in Seq(0..MaxDeliver)
         /\ Len([q EXCEPT ![s] = @ + 1]) = Len(q)
<1> DEFINE S == 0..MaxDeliver
           e == q[s] + 1
<1>1. q \in Seq(S)
  OBVIOUS
<1>2. q[s] \in S
  <2> HIDE DEF S
  <2> QED
    BY <1>1
<1>3. e \in S
  BY <1>2, PipelineAssumption
<1> HIDE DEF S, e
<1>4. [q EXCEPT ![s] = e] \in Seq(S) /\ Len([q EXCEPT ![s] = e]) = Len(q)
  BY <1>1, <1>3, ExceptSeq
<1> QED
  BY <1>4 DEF S, e

\* A message is handed to a consumer, for the first time or again.
LEMMA DeliverOK ==
  ASSUME IInv, NEW c \in Consumers, NEW s \in 1..Len(Stream(c)), Deliverable(c, s),
         inbox' = [inbox EXCEPT ![c] = @ \cup {s}],
         tries' = IF c = "enricher" THEN [tries EXCEPT ![s] = @ + 1] ELSE tries,
         faults' \in 0..MaxFaults,
         UNCHANGED <<gatewayVars, rawVars, enrichedVars, durableVars, callbackVars, acked,
                     billVars>>
  PROVE  IInv'
<1>1. Types
  BY DEF IInv
<1>2. UNCHANGED <<js, phase, chunks, tasks, published, raw, rawIds, enriched, enrichedIds,
                  link, from, at, step, built, acked, usage, outbox>>
  BY DEF gatewayVars, rawVars, enrichedVars, durableVars, callbackVars, billVars
<1>3. /\ inbox' \in [Consumers -> SUBSET Nat]
      /\ inbox'["enricher"] \subseteq 1..Len(raw) /\ inbox'["billing"] \subseteq 1..Len(enriched)
  BY <1>1, StreamFacts DEF Types, Shapes, TypeOK, Consumers, Stream
<1>4. tries' \in Seq(0..MaxDeliver) /\ Len(tries') = Len(tries)
  <2>1. tries \in Seq(0..MaxDeliver) /\ Len(tries) = Len(raw)
    BY <1>1 DEF Types, TypeOK
  <2>2. CASE c = "enricher"
    <3>1. s \in 1..Len(tries) /\ tries[s] < MaxDeliver
      BY <2>1, <2>2 DEF Deliverable, Stream
    <3>2. tries' = [tries EXCEPT ![s] = @ + 1]
      BY <2>2
    <3> QED
      BY <2>1, <3>1, <3>2, OneMoreTry
  <2> QED
    BY <2>1, <2>2
<1>5. Types'
  BY <1>1, <1>2, <1>3, <1>4 DEF Types, TypeOK, Shapes
<1> QED
  BY <1>2, <1>5, QuietKeeps DEF IInv

\* A callback ends, with its ack or without it, or its process dies: what is
\* acked then is kept already.
LEMMA IdleOK ==
  ASSUME IInv, NEW c \in Consumers, Idle(c),
         \/ acked' = acked
         \/ step[c] = "ack" /\ acked' = [acked EXCEPT ![c] = @ \cup {at[c]}],
         inbox' \in {inbox, [inbox EXCEPT ![c] = {}]},
         link' \in [Consumers -> {"down", "unbound", "bound"}],
         faults' \in 0..MaxFaults,
         UNCHANGED <<gatewayVars, rawVars, enrichedVars, from, tries, billVars>>
  PROVE  IInv'
<1>1. Types /\ Hands /\ AckedIsKept /\ NeverBilledOnAGuess
  BY DEF IInv
<1>2. UNCHANGED <<js, phase, chunks, tasks, published, raw, rawIds, enriched, enrichedIds,
                  from, tries, usage, outbox>>
  BY DEF gatewayVars, rawVars, enrichedVars, billVars
<1>3. /\ step \in [Consumers -> {"idle", "build", "publish", "persist", "ack"}]
      /\ at \in [Consumers -> Nat] /\ acked \in [Consumers -> SUBSET Nat]
      /\ inbox \in [Consumers -> SUBSET Nat] /\ built \in {"count", "null"}
  BY <1>1 DEF Types, TypeOK, Shapes
<1>4. /\ at' \in [Consumers -> Nat] /\ at'[c] = 0
      /\ step' \in [Consumers -> {"idle", "build", "publish", "persist", "ack"}]
      /\ step'[c] = "idle"
      /\ \A d \in Consumers \ {c} : at'[d] = at[d] /\ step'[d] = step[d]
      /\ built' \in {"count", "null"}
      /\ c = "billing" => built' = built
  BY <1>3 DEF Idle
<1>5. step[c] = "ack" => at[c] \in 1..Len(Stream(c))
  BY <1>1, StreamFacts DEF Hands, EnricherHand, BillingHand, Consumers
<1>6. /\ acked' \in [Consumers -> SUBSET Nat] /\ inbox' \in [Consumers -> SUBSET Nat]
      /\ \A d \in Consumers \ {c} : acked'[d] = acked[d]
      /\ \A d \in Consumers : inbox'[d] \subseteq inbox[d]
      /\ acked'[c] = acked[c] \/ (step[c] = "ack" /\ acked'[c] = acked[c] \cup {at[c]})
  BY <1>3
<1>7. Types'
  <2>1. \A d \in Consumers : /\ acked'[d] \subseteq 1..Len(Stream(d))
                             /\ inbox'[d] \subseteq 1..Len(Stream(d))
                             /\ at'[d] \in 0..Len(Stream(d))
    <3> TAKE d \in Consumers
    <3>1. /\ inbox[d] \subseteq 1..Len(Stream(d)) /\ acked[d] \subseteq 1..Len(Stream(d))
          /\ at[d] \in 0..Len(Stream(d)) /\ 0 \in 0..Len(Stream(d))
      BY <1>1, StreamFacts
    <3>2. CASE d = c
      BY <1>4, <1>5, <1>6, <3>1, <3>2
    <3>3. CASE d # c
      BY <1>4, <1>6, <3>1, <3>3
    <3> QED
      BY <3>2, <3>3
  <2>2. /\ inbox'["enricher"] \cup acked'["enricher"] \subseteq 1..Len(raw)
        /\ inbox'["billing"] \cup acked'["billing"] \subseteq 1..Len(enriched)
        /\ at'["enricher"] \in 0..Len(raw) /\ at'["billing"] \in 0..Len(enriched)
    BY <2>1 DEF Consumers, Stream
  <2> QED
    BY <1>1, <1>2, <1>4, <1>6, <2>2 DEF Types, TypeOK, Shapes, Consumers
<1>8. Windows' /\ EnrichedStems'
  BY <1>1, <1>2 DEF Hands, Windows, EnrichedStems, Stems, MsgId
<1>9. EnricherHand'
  <2>1. CASE c = "enricher"
    BY <1>4, <2>1 DEF EnricherHand
  <2>2. CASE c = "billing"
    <3>1. step'["enricher"] = step["enricher"] /\ at'["enricher"] = at["enricher"] /\ built' = built
      BY <1>4, <2>2 DEF Consumers
    <3> QED
      BY <1>1, <1>2, <3>1 DEF Hands, EnricherHand, Stems, Republished
  <2> QED
    BY <2>1, <2>2 DEF Consumers
<1>10. BillingHand'
  BY <1>1, <1>2, <1>4 DEF Hands, BillingHand, Consumers
<1>11. AnsweredIsStored' /\ NeverBilledOnAGuess'
  BY <1>1, <1>2 DEF AckedIsKept, AnsweredIsStored, NeverBilledOnAGuess
<1>12. EnrichedBeforeAck'
  <2>1. \A s \in acked'["enricher"] \ acked["enricher"] :
           step["enricher"] = "ack" /\ s = at["enricher"]
    BY <1>6 DEF Consumers
  <2> QED
    BY <1>1, <1>2, <2>1 DEF AckedIsKept, EnrichedBeforeAck, Hands, EnricherHand, Republished
<1>13. MeteredBeforeAck'
  <2>1. \A s \in acked'["billing"] \ acked["billing"] :
           step["billing"] = "ack" /\ s = at["billing"]
    BY <1>6 DEF Consumers
  <2> QED
    BY <1>1, <1>2, <2>1 DEF AckedIsKept, MeteredBeforeAck, Hands, BillingHand
<1> QED
  BY <1>7, <1>8, <1>9, <1>10, <1>11, <1>12, <1>13 DEF IInv, Hands, AckedIsKept

\* Every step of a consumer's client and of its durable.
LEMMA ConsumerOK == ASSUME IInv, NEW c \in Consumers, Consumer(c) PROVE IInv'
<1>1. Types
  BY DEF IInv
<1>2. faults \in 0..MaxFaults /\ (Fault => faults' \in 0..MaxFaults)
  BY <1>1, PipelineAssumption DEF Fault, Types, TypeOK
<1>3. CASE Bind(c) \/ Disconnect(c)
  BY <1>3, LinkOK
<1>4. ASSUME NEW s \in 1..Len(Stream(c)), Deliver(c, s) PROVE IInv'
  BY <1>2, <1>4, DeliverOK DEF Deliver
<1>5. CASE DeliverAgain(c)
  <2>1. at[c] \in 1..Len(Stream(c))
    BY <1>1, <1>5, StreamFacts DEF DeliverAgain
  <2> QED
    BY <1>2, <1>5, <2>1, DeliverOK DEF DeliverAgain
<1>6. CASE SafeAck(c)
  <2>1. link' \in [Consumers -> {"down", "unbound", "bound"}] /\ from' = from /\ inbox' = inbox
    BY <1>1, <1>6 DEF SafeAck, durableVars, Types, TypeOK
  <2> QED
    BY <1>2, <1>6, <2>1, IdleOK DEF SafeAck
<1>7. CASE ConsumerCrash(c)
  <2>1. link' \in [Consumers -> {"down", "unbound", "bound"}]
    BY <1>1, <1>7 DEF ConsumerCrash, Types, TypeOK
  <2> QED
    BY <1>2, <1>7, <2>1, IdleOK DEF ConsumerCrash
<1> QED
  BY <1>3, <1>4, <1>5, <1>6, <1>7 DEF Consumer

-------------------------------------------------------------------------------
(* The enricher's callback.                                                *)

LEMMA EnricherSkipsOK ==
  ASSUME IInv, NEW s \in inbox["enricher"], EnricherSkips(s) PROVE IInv'
<1>1. Types /\ Hands /\ AckedIsKept /\ NeverBilledOnAGuess
  BY DEF IInv
<1>2. /\ UNCHANGED <<js, phase, chunks, tasks, published, raw, rawIds, enriched, enrichedIds,
                     link, from, at, step, built, tries, usage, outbox>>
      /\ raw[s].type # "response"
  BY DEF EnricherSkips, gatewayVars, rawVars, enrichedVars, durableVars, callbackVars, billVars
<1>3. s \in 1..Len(raw)
  BY <1>1 DEF Types, TypeOK
<1>4. faults' \in 0..MaxFaults
  BY <1>1, PipelineAssumption DEF EnricherSkips, Fault, Types, TypeOK
<1>5. /\ inbox \in [Consumers -> SUBSET Nat] /\ acked \in [Consumers -> SUBSET Nat]
      /\ "enricher" \in Consumers /\ "billing" \in Consumers /\ s \in Nat
  BY <1>1, <1>3 DEF Types, Shapes, Consumers
<1>6. /\ inbox' = [inbox EXCEPT !["enricher"] = @ \ {s}]
      /\ acked' = acked \/ acked' = [acked EXCEPT !["enricher"] = @ \cup {s}]
  BY DEF EnricherSkips
<1>7. /\ inbox' \in [Consumers -> SUBSET Nat] /\ acked' \in [Consumers -> SUBSET Nat]
      /\ inbox'["enricher"] \subseteq inbox["enricher"] /\ inbox'["billing"] = inbox["billing"]
      /\ acked'["enricher"] \subseteq acked["enricher"] \cup {s}
      /\ acked'["billing"] = acked["billing"]
  BY <1>5, <1>6
<1>8. Types'
  BY <1>1, <1>2, <1>3, <1>4, <1>7 DEF Types, TypeOK, Shapes
<1>9. Windows' /\ EnrichedStems'
  BY <1>1, <1>2 DEF Hands, Windows, EnrichedStems, Stems, MsgId
<1>10. EnricherHand' /\ BillingHand'
  BY <1>1, <1>2 DEF Hands, EnricherHand, BillingHand, Stems, Republished
<1>11. AckedIsKept' /\ NeverBilledOnAGuess'
  BY <1>1, <1>2, <1>7 DEF AckedIsKept, AnsweredIsStored, EnrichedBeforeAck, MeteredBeforeAck,
                          NeverBilledOnAGuess
<1> QED
  BY <1>8, <1>9, <1>10, <1>11 DEF IInv, Hands

LEMMA EnricherReceivesOK ==
  ASSUME IInv, NEW s \in inbox["enricher"], EnricherReceives(s) PROVE IInv'
<1>1. Types /\ Hands /\ AckedIsKept /\ NeverBilledOnAGuess
  BY DEF IInv
<1>2. /\ UNCHANGED <<js, phase, chunks, tasks, published, raw, rawIds, enriched, enrichedIds,
                     link, from, built, acked, tries, usage, outbox, faults>>
      /\ raw[s].type = "response"
  BY DEF EnricherReceives, gatewayVars, rawVars, enrichedVars, durableVars, billVars
<1>3. s \in 1..Len(raw) /\ Len(raw) \in Nat
  BY <1>1, StreamFacts DEF Types, TypeOK, Consumers
<1>4. /\ inbox \in [Consumers -> SUBSET Nat] /\ at \in [Consumers -> Nat]
      /\ step \in [Consumers -> {"idle", "build", "publish", "persist", "ack"}]
      /\ "enricher" \in Consumers /\ "billing" \in Consumers /\ s \in Nat
      /\ s \in 0..Len(raw) /\ s # 0
  BY <1>1, <1>3 DEF Types, TypeOK, Shapes, Consumers
<1>5. /\ inbox' \in [Consumers -> SUBSET Nat] /\ at' \in [Consumers -> Nat]
      /\ step' \in [Consumers -> {"idle", "build", "publish", "persist", "ack"}]
      /\ inbox'["enricher"] \subseteq inbox["enricher"] /\ inbox'["billing"] = inbox["billing"]
      /\ at'["enricher"] = s /\ at'["billing"] = at["billing"]
      /\ step'["enricher"] = "build" /\ step'["billing"] = step["billing"]
  BY <1>4 DEF EnricherReceives
<1>6. Types'
  BY <1>1, <1>2, <1>4, <1>5 DEF Types, TypeOK, Shapes
<1>7. Windows' /\ EnrichedStems'
  BY <1>1, <1>2 DEF Hands, Windows, EnrichedStems, Stems, MsgId
<1>8. EnricherHand'
  BY <1>2, <1>4, <1>5 DEF EnricherHand
<1>9. BillingHand'
  BY <1>1, <1>2, <1>5 DEF Hands, BillingHand
<1>10. AckedIsKept' /\ NeverBilledOnAGuess'
  BY <1>1, <1>2 DEF AckedIsKept, AnsweredIsStored, EnrichedBeforeAck, MeteredBeforeAck,
                    NeverBilledOnAGuess
<1> QED
  BY <1>6, <1>7, <1>8, <1>9, <1>10 DEF IInv, Hands

\* What is resolved for a response is what the response allows.
LEMMA BuildEnrichedOK == ASSUME IInv, BuildEnriched PROVE IInv'
<1>1. Types /\ Hands /\ AckedIsKept /\ NeverBilledOnAGuess
  BY DEF IInv
<1>2. /\ UNCHANGED <<js, phase, chunks, tasks, published, raw, rawIds, enriched, enrichedIds,
                     link, from, inbox, at, acked, tries, usage, outbox, faults>>
      /\ step["enricher"] = "build"
  BY DEF BuildEnriched, gatewayVars, rawVars, enrichedVars, durableVars, billVars
<1> DEFINE a == at["enricher"]
<1>3. a \in 1..Len(raw) /\ raw[a].type = "response" /\ raw[a].usage \in RawUsage
  <2>1. a \in 0..Len(raw) /\ a # 0 /\ raw[a].type = "response" /\ raw \in Seq(RawEvent)
    BY <1>1, <1>2 DEF Types, TypeOK, Hands, EnricherHand
  <2>2. a \in 1..Len(raw)
    BY <2>1
  <2> QED
    BY <1>1, <2>1, <2>2, Stored
<1>4. /\ step \in [Consumers -> {"idle", "build", "publish", "persist", "ack"}]
      /\ "enricher" \in Consumers /\ "billing" \in Consumers /\ built \in {"count", "null"}
  BY <1>1 DEF Types, TypeOK, Consumers
<1>5. \/ /\ raw[a].usage = "nonfinite"
         /\ step' = [step EXCEPT !["enricher"] = "ack"] /\ built' = built
      \/ /\ raw[a].usage # "nonfinite"
         /\ step' = [step EXCEPT !["enricher"] = "publish"]
         /\ built' \in ResolveUsage(raw[a].usage)
  BY DEF BuildEnriched
<1>6. raw[a].usage # "nonfinite" => \A b \in ResolveUsage(raw[a].usage) :
         b \in {"count", "null"} /\ Stems(raw[a].id, b)
  BY <1>3 DEF ResolveUsage, RawUsage, Stems
<1>7. /\ step' \in [Consumers -> {"idle", "build", "publish", "persist", "ack"}]
      /\ built' \in {"count", "null"} /\ step'["billing"] = step["billing"]
      /\ \/ step'["enricher"] = "ack" /\ raw[a].usage = "nonfinite"
         \/ step'["enricher"] = "publish" /\ raw[a].usage # "nonfinite" /\ Stems(raw[a].id, built')
  BY <1>4, <1>5, <1>6
<1>8. Types'
  BY <1>1, <1>2, <1>7 DEF Types, TypeOK, Shapes
<1>9. Windows' /\ EnrichedStems'
  BY <1>1, <1>2 DEF Hands, Windows, EnrichedStems, Stems, MsgId
<1>10. EnricherHand'
  <2>1. a' = a /\ a # 0
    BY <1>2, <1>3
  <2> QED
    BY <1>2, <1>3, <1>7, <2>1 DEF EnricherHand, Stems
<1>11. BillingHand'
  BY <1>1, <1>2, <1>7 DEF Hands, BillingHand
<1>12. AckedIsKept' /\ NeverBilledOnAGuess'
  BY <1>1, <1>2 DEF AckedIsKept, AnsweredIsStored, EnrichedBeforeAck, MeteredBeforeAck,
                    NeverBilledOnAGuess
<1> QED
  BY <1>8, <1>9, <1>10, <1>11, <1>12 DEF IInv, Hands

\* The publish: answered, or an error with or without the message stored.
LEMMA PublishEnrichedOK == ASSUME IInv, PublishEnriched PROVE IInv'
<1>1. Types /\ Hands /\ AckedIsKept /\ NeverBilledOnAGuess
  BY DEF IInv
<1>2. /\ UNCHANGED <<js, phase, chunks, tasks, published, raw, rawIds, link, from, inbox,
                     acked, tries, usage, outbox>>
      /\ step["enricher"] = "publish"
  BY DEF PublishEnriched, gatewayVars, rawVars, durableVars, billVars
<1> DEFINE a == at["enricher"]
           i == raw[a].id
           e == [id |-> i, total |-> built]
<1>3. /\ a \in 1..Len(raw) /\ raw[a].type = "response" /\ raw[a].usage # "nonfinite"
      /\ i \in Ids /\ Stems(i, built) /\ built \in {"count", "null"}
  <2>1. /\ a \in 0..Len(raw) /\ a # 0 /\ raw[a].type = "response" /\ raw \in Seq(RawEvent)
        /\ raw[a].usage # "nonfinite" /\ Stems(i, built) /\ built \in {"count", "null"}
    BY <1>1, <1>2 DEF Types, TypeOK, Hands, EnricherHand
  <2>2. a \in 1..Len(raw)
    BY <2>1
  <2> QED
    BY <1>1, <2>1, <2>2, Stored
<1>4. /\ step \in [Consumers -> {"idle", "build", "publish", "persist", "ack"}]
      /\ at \in [Consumers -> Nat]
      /\ "enricher" \in Consumers /\ "billing" \in Consumers
      /\ enriched \in Seq(EnrichedEvent) /\ Len(enriched) \in Nat /\ Len(raw) \in Nat
  BY <1>1, StreamFacts DEF Types, TypeOK, Shapes, Consumers
<1>5. e \in EnrichedEvent /\ e.id = i /\ e.total = built
  BY <1>3 DEF EnrichedEvent
<1>6. \/ /\ StoreEnriched(i) /\ step' = [step EXCEPT !["enricher"] = "ack"] /\ at' = at
         /\ built' = "null"
      \/ /\ StoreEnriched(i) \/ UNCHANGED enrichedVars
         /\ Idle("enricher")
  BY DEF PublishEnriched
<1>7. \/ UNCHANGED <<enriched, enrichedIds>> /\ (i \in enrichedIds \/ Idle("enricher"))
      \/ enriched' = Append(enriched, e) /\ enrichedIds' = enrichedIds \cup {i}
  BY <1>6 DEF StoreEnriched, enrichedVars
<1> HIDE DEF e
<1>8. /\ enriched' \in Seq(EnrichedEvent) /\ Len(enriched') \in Nat
      /\ Len(enriched) <= Len(enriched')
      /\ \A q \in 1..Len(enriched) : q \in 1..Len(enriched') /\ enriched'[q] = enriched[q]
      /\ \A q \in 1..Len(enriched') : q \in 1..Len(enriched) \/ enriched'[q] = e
      /\ enrichedIds' \subseteq Ids
      /\ \A k \in enrichedIds' : \E q \in 1..Len(enriched') : enriched'[q].id = k
      /\ i \in enrichedIds' \/ Idle("enricher")
  <2>1. enrichedIds \subseteq Ids /\ \A k \in enrichedIds : Republished(k)
    BY <1>1 DEF Types, TypeOK, Hands, Windows, Republished
  <2>2. CASE UNCHANGED <<enriched, enrichedIds>>
    BY <1>4, <1>7, <2>1, <2>2 DEF Republished
  <2>3. CASE enriched' = Append(enriched, e) /\ enrichedIds' = enrichedIds \cup {i}
    <3>1. /\ enriched' \in Seq(EnrichedEvent) /\ Len(enriched') = Len(enriched) + 1
          /\ enriched'[Len(enriched) + 1] = e
          /\ \A q \in 1..Len(enriched) : enriched'[q] = enriched[q]
      BY <1>4, <1>5, <2>3, AppendProperties
    <3>2. /\ \A q \in 1..Len(enriched) : q \in 1..Len(enriched')
          /\ \A q \in 1..Len(enriched') : q \in 1..Len(enriched) \/ q = Len(enriched) + 1
          /\ Len(enriched) + 1 \in 1..Len(enriched')
      BY <1>4, <3>1
    <3>3. \A k \in enrichedIds' : \E q \in 1..Len(enriched') : enriched'[q].id = k
      BY <1>5, <2>1, <2>3, <3>1, <3>2 DEF Republished
    <3> QED
      BY <1>3, <1>4, <2>1, <2>3, <3>1, <3>2, <3>3
  <2> QED
    BY <1>7, <2>2, <2>3
<1>9. /\ step' \in [Consumers -> {"idle", "build", "publish", "persist", "ack"}]
      /\ at' \in [Consumers -> Nat] /\ at'["billing"] = at["billing"]
      /\ step'["billing"] = step["billing"] /\ built' = "null"
      /\ \/ step'["enricher"] = "idle" /\ at'["enricher"] = 0
         \/ step'["enricher"] = "ack" /\ at'["enricher"] = a /\ i \in enrichedIds'
  <2>1. CASE StoreEnriched(i) /\ step' = [step EXCEPT !["enricher"] = "ack"] /\ at' = at
             /\ built' = "null"
    <3>1. i \in enrichedIds'
      BY <1>7, <2>1 DEF StoreEnriched, enrichedVars
    <3> QED
      BY <1>4, <2>1, <3>1
  <2>2. CASE Idle("enricher")
    BY <1>4, <2>2 DEF Idle
  <2> QED
    BY <1>6, <2>1, <2>2
<1>10. faults' \in 0..MaxFaults
  BY <1>1, PipelineAssumption DEF PublishEnriched, Fault, Types, TypeOK
<1>11. Types'
  <2>1. /\ inbox["billing"] \cup acked["billing"] \subseteq 1..Len(enriched')
        /\ at'["billing"] \in 0..Len(enriched') /\ at'["enricher"] \in 0..Len(raw)
    <3>1. /\ inbox["billing"] \cup acked["billing"] \subseteq 1..Len(enriched)
          /\ at["billing"] \in 0..Len(enriched)
      BY <1>1 DEF Types, TypeOK
    <3> QED
      BY <1>3, <1>4, <1>8, <1>9, <3>1
  <2> QED
    BY <1>1, <1>2, <1>8, <1>9, <1>10, <2>1 DEF Types, TypeOK, Shapes
<1>12. Windows'
  BY <1>1, <1>2, <1>8 DEF Hands, Windows, MsgId
<1>13. EnrichedStems'
  <2>1. \A j, total : Stems(j, total)' <=> Stems(j, total)
    BY <1>2 DEF Stems
  <2> QED
    BY <1>1, <1>3, <1>5, <1>8, <2>1 DEF Hands, EnrichedStems
<1>14. EnricherHand'
  BY <1>2, <1>3, <1>8, <1>9 DEF EnricherHand, Republished
<1>15. BillingHand'
  <2>1. step["billing"] # "idle" => at["billing"] \in 1..Len(enriched)
    BY <1>1, <1>4 DEF Hands, BillingHand, Types, TypeOK
  <2> QED
    BY <1>1, <1>2, <1>8, <1>9, <2>1 DEF Hands, BillingHand
<1>16. AckedIsKept'
  <2>1. AnsweredIsStored'
    BY <1>1, <1>2 DEF AckedIsKept, AnsweredIsStored
  <2>2. EnrichedBeforeAck'
    BY <1>1, <1>2, <1>8 DEF AckedIsKept, EnrichedBeforeAck
  <2>3. MeteredBeforeAck'
    BY <1>1, <1>2, <1>8 DEF AckedIsKept, MeteredBeforeAck, Types, TypeOK
  <2> QED
    BY <2>1, <2>2, <2>3 DEF AckedIsKept
<1>17. NeverBilledOnAGuess'
  BY <1>1, <1>2 DEF NeverBilledOnAGuess
<1> QED
  BY <1>11, <1>12, <1>13, <1>14, <1>15, <1>16, <1>17 DEF IInv, Hands

-------------------------------------------------------------------------------
(* The billing consumer's callback.                                        *)

LEMMA BillingReceivesOK ==
  ASSUME IInv, NEW s \in inbox["billing"], BillingReceives(s) PROVE IInv'
<1>1. Types /\ Hands /\ AckedIsKept /\ NeverBilledOnAGuess
  BY DEF IInv
<1>2. UNCHANGED <<js, phase, chunks, tasks, published, raw, rawIds, enriched, enrichedIds,
                  link, from, built, acked, tries, usage, outbox, faults>>
  BY DEF BillingReceives, gatewayVars, rawVars, enrichedVars, durableVars, billVars
<1>3. s \in 1..Len(enriched) /\ Len(enriched) \in Nat
  BY <1>1, StreamFacts DEF Types, TypeOK, Consumers
<1>4. /\ inbox \in [Consumers -> SUBSET Nat] /\ at \in [Consumers -> Nat]
      /\ step \in [Consumers -> {"idle", "build", "publish", "persist", "ack"}]
      /\ "enricher" \in Consumers /\ "billing" \in Consumers /\ s \in Nat
      /\ s \in 0..Len(enriched) /\ s # 0
  BY <1>1, <1>3 DEF Types, TypeOK, Shapes, Consumers
<1>5. /\ inbox' \in [Consumers -> SUBSET Nat] /\ at' \in [Consumers -> Nat]
      /\ step' \in [Consumers -> {"idle", "build", "publish", "persist", "ack"}]
      /\ inbox'["billing"] \subseteq inbox["billing"] /\ inbox'["enricher"] = inbox["enricher"]
      /\ at'["billing"] = s /\ at'["enricher"] = at["enricher"]
      /\ step'["billing"] = "persist" /\ step'["enricher"] = step["enricher"]
  BY <1>4 DEF BillingReceives
<1>6. Types'
  BY <1>1, <1>2, <1>4, <1>5 DEF Types, TypeOK, Shapes
<1>7. Windows' /\ EnrichedStems'
  BY <1>1, <1>2 DEF Hands, Windows, EnrichedStems, Stems, MsgId
<1>8. EnricherHand'
  BY <1>1, <1>2, <1>5 DEF Hands, EnricherHand, Stems, Republished
<1>9. BillingHand'
  BY <1>4, <1>5 DEF BillingHand
<1>10. AckedIsKept' /\ NeverBilledOnAGuess'
  BY <1>1, <1>2 DEF AckedIsKept, AnsweredIsStored, EnrichedBeforeAck, MeteredBeforeAck,
                    NeverBilledOnAGuess
<1> QED
  BY <1>6, <1>7, <1>8, <1>9, <1>10 DEF IInv, Hands

\* The transaction: committed, a no-op, or rolled back; a row is written once.
LEMMA PersistWrites ==
  ASSUME IInv, Persist
  PROVE  LET e == enriched[at["billing"]]
         IN  /\ e \in EnrichedEvent /\ Stems(e.id, e.total)
             /\ \/ UNCHANGED <<usage, outbox>>
                \/ usage[e.id] = "absent" /\ CommitRows(e)
<1>1. Types /\ Hands /\ step["billing"] = "persist"
  BY DEF IInv, Persist
<1>2. at["billing"] \in 1..Len(enriched) /\ enriched \in Seq(EnrichedEvent)
  BY <1>1, StreamFacts DEF Types, TypeOK, Hands, BillingHand
<1>3. Stems(enriched[at["billing"]].id, enriched[at["billing"]].total)
  BY <1>1, <1>2 DEF Hands, EnrichedStems
<1> QED
  BY <1>2, <1>3 DEF Persist, billVars

LEMMA PersistOK == ASSUME IInv, Persist PROVE IInv'
<1>1. Types /\ Hands /\ AckedIsKept /\ NeverBilledOnAGuess
  BY DEF IInv
<1>2. UNCHANGED <<js, phase, chunks, tasks, published, raw, rawIds, enriched, enrichedIds,
                  link, from, inbox, acked, tries>>
  BY DEF Persist, gatewayVars, rawVars, enrichedVars, durableVars
<1> DEFINE a == at["billing"]
           e == enriched[a]
<1>3. /\ e.id \in Ids /\ e.total \in {"count", "null"} /\ Stems(e.id, e.total)
      /\ \/ UNCHANGED <<usage, outbox>>
         \/ usage[e.id] = "absent" /\ CommitRows(e)
  BY PersistWrites DEF EnrichedEvent
<1>4. /\ step \in [Consumers -> {"idle", "build", "publish", "persist", "ack"}]
      /\ at \in [Consumers -> Nat] /\ a # 0 /\ built \in {"count", "null"}
      /\ "enricher" \in Consumers /\ "billing" \in Consumers
      /\ usage \in [Ids -> {"absent", "count", "null"}] /\ outbox \subseteq Ids
  BY <1>1 DEF Persist, Types, TypeOK, Shapes, Hands, BillingHand, Consumers
<1> HIDE DEF e
<1>5. /\ usage' \in [Ids -> {"absent", "count", "null"}] /\ outbox' \subseteq Ids
      /\ \A i \in Ids : usage[i] # "absent" => usage'[i] = usage[i]
      /\ \A i \in Ids : usage'[i] # usage[i] => i = e.id /\ usage'[i] = e.total
      /\ \A i \in Ids : usage'[i] = "count" <=> i \in outbox'
  <2>1. \A i \in Ids : usage[i] = "count" <=> i \in outbox
    BY <1>1 DEF NeverBilledOnAGuess
  <2>2. CASE UNCHANGED <<usage, outbox>>
    BY <1>4, <2>1, <2>2
  <2>3. CASE usage[e.id] = "absent" /\ CommitRows(e)
    <3>1. /\ usage' = [usage EXCEPT ![e.id] = e.total]
          /\ outbox' = IF e.total = "count" THEN outbox \cup {e.id} ELSE outbox
      BY <2>3 DEF CommitRows
    <3> QED
      BY <1>3, <1>4, <2>1, <2>3, <3>1
  <2> QED
    BY <1>3, <2>2, <2>3
<1>6. /\ step' \in [Consumers -> {"idle", "build", "publish", "persist", "ack"}]
      /\ at' \in [Consumers -> Nat] /\ at'["enricher"] = at["enricher"]
      /\ step'["enricher"] = step["enricher"] /\ built' = built
      /\ \/ step'["billing"] = "idle" /\ at'["billing"] = 0
         \/ step'["billing"] = "ack" /\ at'["billing"] = a /\ usage'[e.id] # "absent"
  <2>1. CASE step' = [step EXCEPT !["billing"] = "ack"] /\ UNCHANGED <<at, built>>
             /\ usage'[e.id] # "absent"
    BY <1>4, <2>1
  <2>2. CASE Idle("billing")
    BY <1>4, <2>2 DEF Idle
  <2>3. CommitRows(e) => usage'[e.id] # "absent"
    BY <1>3, <1>4 DEF CommitRows
  <2> QED
    BY <1>3, <2>1, <2>2, <2>3 DEF Persist, billVars, e
<1>7. faults' \in 0..MaxFaults
  BY <1>1, PipelineAssumption DEF Persist, Fault, Types, TypeOK
<1>8. Types'
  <2>1. at'["billing"] \in 0..Len(enriched)
    BY <1>1, <1>6, StreamFacts DEF Types, TypeOK
  <2> QED
    BY <1>1, <1>2, <1>5, <1>6, <1>7, <2>1 DEF Types, TypeOK, Shapes
<1>9. Windows' /\ EnrichedStems'
  BY <1>1, <1>2 DEF Hands, Windows, EnrichedStems, Stems, MsgId
<1>10. EnricherHand'
  BY <1>1, <1>2, <1>6 DEF Hands, EnricherHand, Stems, Republished
<1>11. BillingHand'
  BY <1>2, <1>4, <1>6 DEF BillingHand, e
<1>12. AnsweredIsStored' /\ EnrichedBeforeAck'
  BY <1>1, <1>2 DEF AckedIsKept, AnsweredIsStored, EnrichedBeforeAck
<1>13. MeteredBeforeAck'
  <2>1. \A s \in acked["billing"] : enriched[s].id \in Ids
    BY <1>1, Stored DEF Types, TypeOK
  <2> QED
    BY <1>1, <1>2, <1>5, <2>1 DEF AckedIsKept, MeteredBeforeAck
<1>14. NeverBilledOnAGuess'
  <2>1. \A i \in Ids : usage'[i] # "absent" => Stems(i, usage'[i])
    BY <1>1, <1>3, <1>5 DEF NeverBilledOnAGuess, Stems
  <2> QED
    BY <1>2, <1>5, <2>1 DEF NeverBilledOnAGuess, Stems
<1> QED
  BY <1>8, <1>9, <1>10, <1>11, <1>12, <1>13, <1>14 DEF IInv, Hands, AckedIsKept

-------------------------------------------------------------------------------
LEMMA StepOK == IInv /\ [Next]_vars => IInv'
<1> SUFFICES ASSUME IInv, [Next]_vars PROVE IInv'
  OBVIOUS
<1>1. CASE Gateway
  BY <1>1, RequestOK, SafePublishOK, GatewayRestartOK DEF Gateway
<1>2. CASE Enricher
  BY <1>2, EnricherSkipsOK, EnricherReceivesOK, BuildEnrichedOK, PublishEnrichedOK DEF Enricher
<1>3. CASE Billing
  BY <1>3, BillingReceivesOK, PersistOK DEF Billing
<1>4. CASE WindowExpires
  BY <1>4, WindowExpiresOK
<1>5. ASSUME NEW c \in Consumers, Consumer(c) PROVE IInv'
  BY <1>5, ConsumerOK
<1>6. CASE UNCHANGED vars
  <2>1. UNCHANGED <<js, phase, chunks, tasks, published, raw, rawIds, enriched, enrichedIds,
                    link, from, inbox, at, step, built, acked, tries, usage, outbox, faults>>
    BY <1>6 DEF vars, gatewayVars, rawVars, enrichedVars, durableVars, callbackVars, billVars
  <2>2. Types'
    BY <2>1 DEF IInv, Types, TypeOK, Shapes
  <2> QED
    BY <2>1, <2>2, QuietKeeps DEF IInv
<1> QED
  BY <1>1, <1>2, <1>3, <1>4, <1>5, <1>6 DEF Next

-------------------------------------------------------------------------------
(* The theorems.                                                           *)

\* The inductive invariant holds in every state of the pipeline.
THEOREM Inductive == Spec => []IInv
<1> QED
  BY InitOK, StepOK, PTL DEF Spec

\* Streams, windows, callbacks and rows have their types, and the publishes in
\* flight stay within event_max_inflight.
THEOREM PipelineTypes == Spec => []TypeOK
<1>1. IInv => TypeOK
  BY DEF IInv, Types
<1> QED
  BY <1>1, Inductive, PTL

\* What JetStream answered is stored, what the enricher acked is republished and
\* what billing acked has its row, whatever is lost, redelivered or crashes.
THEOREM NothingAckedIsLost == Spec => []AckedIsKept
<1>1. IInv => AckedIsKept
  BY DEF IInv
<1> QED
  BY <1>1, Inductive, PTL

\* A usage row stems from a published response that allows it; a countable one
\* has its outbox row, and no other has.
THEOREM BilledAsPublished == Spec => []NeverBilledOnAGuess
<1>1. IInv => NeverBilledOnAGuess
  BY DEF IInv
<1> QED
  BY <1>1, Inductive, PTL

\* A committed usage row never changes.
THEOREM RowsNeverChange == Spec => MeteredOnce
<1>1. ASSUME IInv, [Next]_vars
      PROVE  \A i \in Ids : usage[i] # "absent" => usage'[i] = usage[i]
  <2>1. CASE Persist
    <3>1. usage \in [Ids -> {"absent", "count", "null"}]
      BY <1>1 DEF IInv, Types, TypeOK
    <3> QED
      BY <1>1, <2>1, <3>1, PersistWrites DEF CommitRows
  <2>2. CASE ~Persist
    <3>1. usage' = usage
      BY <1>1, <2>2
      DEF Next, Gateway, Respond, Answered, StreamChunk, StreamEnd, SafePublish, GatewayRestart,
          Enricher, EnricherSkips, EnricherReceives, BuildEnriched, PublishEnriched, Billing,
          BillingReceives, WindowExpires, Consumer, Bind, Disconnect, Deliver, DeliverAgain,
          SafeAck, ConsumerCrash, vars, billVars
    <3> QED
      BY <3>1
  <2> QED
    BY <2>1, <2>2
<1> QED
  BY <1>1, Inductive, PTL DEF Spec, MeteredOnce

===============================================================================
