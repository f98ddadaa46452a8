------------------------------ MODULE ApiKeys ------------------------------
(***************************************************************************)
(* The life of API keys across two services: the organization control      *)
(* plane creates, rotates, updates and revokes them and suspends or        *)
(* deletes their owner (modules/api_keys, modules/users), each mutation    *)
(* committed first and evicted from the shared Valkey after; the model     *)
(* gateway verifies every request by a read-through cache in that Valkey   *)
(* (dependencies.verify_api_key).                                          *)
(*                                                                         *)
(* All keys belong to one user of one org.  A mutation is a session: it    *)
(* reads the rows, commits the columns it changed, then evicts the hashes  *)
(* it read.  Time is in ticks.                                             *)
(***************************************************************************)
EXTENDS Naturals, FiniteSets

CONSTANTS
  Keys, Hashes, NoHash,
  Sessions,      \* concurrent mutations
  Gates,         \* concurrent gateway requests
  Ops,           \* the mutations of this instance
  Expiries,      \* expiry ticks a caller may set
  CacheTtl,      \* apikey_cache_ttl_seconds
  MaxTime,       \* bound: ticks
  MaxOps,        \* bound: mutations
  MaxFaults      \* bound: Valkey and transport errors, crashes

ASSUME ApiKeyAssumption ==
  /\ NoHash \notin Hashes /\ Expiries \subseteq Nat
  /\ CacheTtl \in Nat \ {0} /\ MaxTime \in Nat /\ MaxOps \in Nat /\ MaxFaults \in Nat
  /\ Expiries \subseteq 1..MaxTime

VARIABLES
  now,
  row,           \* api_keys rows; a row without hash does not exist
  owner,         \* the owner's users row: "active", "suspended" or "gone"
  used,          \* hashes generated so far
  session,       \* session[m]
  cache,         \* Valkey: cache[h], readable until its expiry
  gate,          \* gate[g]: a request at the gateway
  changed,       \* history: changed[h]: when what h verifies to last changed
  raced,         \* history: a lookup or a mutation overlapped a commit
  rewritten,     \* history: an expiry or a hash has been replaced
  ops,
  faults

vars == <<now, row, owner, used, session, cache, gate, changed, raced, rewritten, ops, faults>>
db == <<row, owner>>

Never == MaxTime + CacheTtl + 1
Absent == [hash |-> NoHash, expires |-> Never, revoked |-> FALSE]
Row == [hash : Hashes \cup {NoHash}, expires : Expiries \cup {Never}, revoked : BOOLEAN]
Record == [expires : Expiries \cup {Never}, revoked : BOOLEAN, active : BOOLEAN]
NoRecord == [expires |-> 0, revoked |-> TRUE, active |-> FALSE]

Idle == [pc |-> "idle"]
Session == [pc : {"commit", "evict"}, op : Ops, keys : SUBSET Keys, hashes : SUBSET Hashes,
            fresh : Hashes \cup {NoHash}, expires : Expiries \cup {Never}]
Gate == [pc : {"get", "fetch", "put", "decide", "done"}, hash : Hashes,
         rec : Record \cup {NoRecord}, at : 0..MaxTime, ok : BOOLEAN]

TypeOK ==
  /\ now \in 0..MaxTime /\ ops \in 0..MaxOps /\ faults \in 0..MaxFaults
  /\ raced \in BOOLEAN /\ rewritten \in BOOLEAN
  /\ row \in [Keys -> Row]
  /\ \A j, k \in Keys : j # k /\ row[j].hash # NoHash => row[j].hash # row[k].hash
  /\ owner \in {"active", "suspended", "gone"} /\ used \subseteq Hashes
  /\ session \in [Sessions -> Session \cup {Idle}]
  /\ cache \in [Hashes -> [rec : Record \cup {NoRecord}, until : 0..(MaxTime + CacheTtl)]]
  /\ gate \in [Gates -> Gate \cup {Idle}]
  /\ changed \in [Hashes -> 0..now]

Init ==
  /\ now = 0 /\ ops = 0 /\ faults = 0 /\ raced = FALSE /\ rewritten = FALSE
  /\ row = [k \in Keys |-> Absent] /\ owner = "active" /\ used = {}
  /\ session = [m \in Sessions |-> Idle]
  /\ cache = [h \in Hashes |-> [rec |-> NoRecord, until |-> 0]]
  /\ gate = [g \in Gates |-> Idle]
  /\ changed = [h \in Hashes |-> 0]

Fault == faults < MaxFaults /\ faults' = faults + 1
NoFault == UNCHANGED faults

\* verify_by_hash: the record of the row with hash h in a state of the database.
Verify(rows, own, h) ==
  IF h \in {rows[k].hash : k \in Keys}
  THEN LET k == CHOOSE k \in Keys : rows[k].hash = h IN
       [expires |-> rows[k].expires, revoked |-> rows[k].revoked, active |-> own = "active"]
  ELSE NoRecord

IsValidOnceAdmitted(rec) == ~rec.revoked /\ rec.active

\* _is_valid, on every request; an unknown key has no valid record.
IsValid(rec) == ~rec.revoked /\ rec.expires > now /\ rec.active

\* What the database says of h now.
Valid(h) ==
  LET rec == Verify(row, owner, h) IN ~rec.revoked /\ rec.expires > now /\ rec.active

\* Between the answer of a lookup and its write to the cache at most one tick
\* passes (bound); the verdict follows the record at once, nothing is awaited.
Tick ==
  /\ now < MaxTime /\ now' = now + 1
  /\ \A g \in Gates : gate[g].pc # "decide" /\ (gate[g].pc = "put" => gate[g].at = now)
  /\ UNCHANGED <<db, used, session, cache, gate, changed, raced, rewritten, ops, faults>>

-----------------------------------------------------------------------------
(* Mutations, organization control plane *)

Exists(k) == row[k].hash # NoHash
Live == {k \in Keys : Exists(k) /\ ~row[k].revoked}

\* The session of m has read the keys it will change and their hashes.
Read(m, op, ks, fresh, expires) ==
  /\ session[m] = Idle /\ op \in Ops /\ ops < MaxOps /\ ops' = ops + 1
  /\ session' = [session EXCEPT ![m] =
       [pc |-> "commit", op |-> op, keys |-> ks, fresh |-> fresh, expires |-> expires,
        hashes |-> {row[k].hash : k \in ks} \ {NoHash}]]
  /\ UNCHANGED <<now, db, cache, gate, changed, raced, rewritten, faults>>

CreateKey(m, k, h, e) ==
  /\ owner = "active" /\ ~Exists(k) /\ h \notin used
  /\ \A n \in Sessions : session[n] # Idle => k \notin session[n].keys
  /\ used' = used \cup {h} /\ Read(m, "create", {k}, h, e)

RotateKey(m, k, h) ==
  /\ Exists(k) /\ h \notin used
  /\ used' = used \cup {h} /\ Read(m, "rotate", {k}, h, Never)

UpdateKey(m, k, e) ==
  /\ Exists(k) /\ ~row[k].revoked
  /\ UNCHANGED used /\ Read(m, "update", {k}, NoHash, e)

RevokeKey(m, k) == Exists(k) /\ UNCHANGED used /\ Read(m, "revoke", {k}, NoHash, Never)

\* update_user to suspended collects the live keys; to active it collects none.
SuspendUser(m) == owner # "gone" /\ UNCHANGED used /\ Read(m, "suspend", Live, NoHash, Never)
ActivateUser(m) == owner # "gone" /\ UNCHANGED used /\ Read(m, "activate", {}, NoHash, Never)
DeleteUser(m) == owner # "gone" /\ UNCHANGED used /\ Read(m, "delete", Live, NoHash, Never)

Revoked(rows, ks) == [k \in Keys |-> IF k \in ks THEN [rows[k] EXCEPT !.revoked = TRUE] ELSE rows[k]]

\* The rows and the owner after the commit of s: the columns s changed.  A user
\* deleted meanwhile makes the commit fail.
RowsAfter(s) ==
  CASE s.op = "create" -> [k \in Keys |-> IF k \in s.keys
         THEN [hash |-> s.fresh, expires |-> s.expires, revoked |-> FALSE] ELSE row[k]]
    [] s.op = "rotate" -> [k \in Keys |-> IF k \in s.keys
         THEN [row[k] EXCEPT !.hash = s.fresh] ELSE row[k]]
    [] s.op = "update" -> [k \in Keys |-> IF k \in s.keys
         THEN [row[k] EXCEPT !.expires = s.expires] ELSE row[k]]
    [] s.op = "revoke" \/ (s.op = "delete" /\ owner # "gone") -> Revoked(row, s.keys)
    [] OTHER -> row

OwnerAfter(s) ==
  CASE owner = "gone" -> owner
    [] s.op = "suspend" -> "suspended"
    [] s.op = "activate" -> "active"
    [] s.op = "delete" -> "gone"
    [] OTHER -> owner

CommitRows(s) ==
  /\ row' = RowsAfter(s) /\ owner' = OwnerAfter(s)
  /\ changed' = [h \in Hashes |->
       IF Verify(row', owner', h) # Verify(row, owner, h) THEN now ELSE changed[h]]
  /\ rewritten' = (rewritten \/ s.op \in {"update", "rotate"})
  /\ raced' = (raced \/ \E h \in Hashes \ s.hashes :
       cache[h].until > now /\ Verify(row', owner', h) # Verify(row, owner, h))

CommitEvictingRevoked(m) ==
  LET s == session[m] IN
  /\ s.pc = "commit"
  /\ CommitRows(s)
  /\ session' = [session EXCEPT ![m] =
       IF s.op \in {"revoke", "delete"} THEN [s EXCEPT !.pc = "evict"] ELSE Idle]
  /\ UNCHANGED <<now, used, cache, gate, ops, faults>>

\* Commit, then evict.  A brand-new key has nothing to evict.
Commit(m) ==
  LET s == session[m] IN
  /\ s.pc = "commit"
  /\ CommitRows(s)
  /\ session' = [session EXCEPT ![m] =
       IF s.op = "create" \/ s.hashes = {} THEN Idle ELSE [s EXCEPT !.pc = "evict"]]
  /\ UNCHANGED <<now, used, cache, gate, ops, faults>>

\* DEL apikey:{hash}, one hash after the other; a Valkey error is swallowed.
Evict(m, h) ==
  LET s == session[m] IN
  /\ s.pc = "evict" /\ h \in s.hashes
  /\ \/ cache' = [cache EXCEPT ![h].until = 0] /\ NoFault
     \/ Fault /\ UNCHANGED cache
  /\ session' = [session EXCEPT ![m] =
       IF s.hashes = {h} THEN Idle ELSE [s EXCEPT !.hashes = @ \ {h}]]
  /\ UNCHANGED <<now, db, used, gate, changed, raced, rewritten, ops>>

\* The control plane dies: open transactions roll back, evictions are lost.
Crash ==
  /\ \E m \in Sessions : session[m] # Idle
  /\ Fault /\ session' = [m \in Sessions |-> Idle]
  /\ UNCHANGED <<now, db, used, cache, gate, changed, raced, rewritten, ops>>

-----------------------------------------------------------------------------
(* verify_api_key, model gateway *)

GoOn(g, pc, rec) == gate' = [gate EXCEPT ![g].pc = pc, ![g].rec = rec, ![g].at = now]

Request(g, h) ==
  /\ gate[g] = Idle /\ h \in used
  /\ gate' = [gate EXCEPT ![g] = [pc |-> "get", hash |-> h, rec |-> NoRecord, at |-> now, ok |-> FALSE]]
  /\ UNCHANGED <<now, db, used, session, cache, changed, raced, rewritten, ops, faults>>

CacheGetSliding(g) ==
  LET c == cache[gate[g].hash] IN
  /\ gate[g].pc = "get"
  /\ \/ /\ c.until > now /\ GoOn(g, "decide", c.rec)
        /\ cache' = [cache EXCEPT ![gate[g].hash].until = now + CacheTtl]
     \/ c.until <= now /\ GoOn(g, "fetch", NoRecord) /\ UNCHANGED cache
  /\ UNCHANGED <<now, db, used, session, changed, raced, rewritten, ops, faults>>

\* _cache_get: a hit, or a miss; a Valkey error is a miss.
CacheGet(g) ==
  LET c == cache[gate[g].hash] IN
  /\ gate[g].pc = "get"
  /\ \/ c.until > now /\ GoOn(g, "decide", c.rec) /\ NoFault
     \/ c.until <= now /\ GoOn(g, "fetch", NoRecord) /\ NoFault
     \/ c.until > now /\ Fault /\ GoOn(g, "fetch", NoRecord)
  /\ UNCHANGED <<now, db, used, session, cache, changed, raced, rewritten, ops>>

\* _org_cp_verify: a record, none (404), or no answer, which refuses the request.
OrgCpVerify(g) ==
  LET rec == Verify(row, owner, gate[g].hash) IN
  /\ gate[g].pc = "fetch"
  /\ \/ GoOn(g, IF rec = NoRecord THEN "decide" ELSE "put", rec) /\ NoFault
     \/ Fault /\ gate' = [gate EXCEPT ![g] = Idle]
  /\ UNCHANGED <<now, db, used, session, cache, changed, raced, rewritten, ops>>

Least(a, b) == IF a < b THEN a ELSE b

PutTtlUncapped(rec) == Never - now

\* The time to live of a record: the ceiling, capped at the key's own life.
PutTtl(rec) == Least(CacheTtl, rec.expires - now)

\* _cache_put: valid or not, the record is cached unless it has expired.
CachePut(g) ==
  LET h == gate[g].hash  rec == gate[g].rec IN
  /\ gate[g].pc = "put"
  /\ GoOn(g, "decide", rec)
  /\ \/ /\ IF rec.expires > now
           THEN cache' = [cache EXCEPT ![h] = [rec |-> rec, until |-> now + PutTtl(rec)]]
           ELSE UNCHANGED cache
        /\ raced' = (raced \/ rec # Verify(row, owner, h)) /\ NoFault
     \/ Fault /\ UNCHANGED <<cache, raced>>
  /\ UNCHANGED <<now, db, used, session, changed, rewritten, ops>>

Decide(g) ==
  /\ gate[g].pc = "decide"
  /\ gate' = [gate EXCEPT ![g].pc = "done", ![g].ok = IsValid(gate[g].rec), ![g].at = now]
  /\ UNCHANGED <<now, db, used, session, cache, changed, raced, rewritten, ops, faults>>

Done(g) ==
  /\ gate[g].pc = "done"
  /\ gate' = [gate EXCEPT ![g] = Idle]
  /\ UNCHANGED <<now, db, used, session, cache, changed, raced, rewritten, ops, faults>>

-----------------------------------------------------------------------------

Mutate(m) ==
  \/ \E k \in Keys, h \in Hashes : RotateKey(m, k, h) \/ \E e \in Expiries \cup {Never} : CreateKey(m, k, h, e)
  \/ \E k \in Keys : RevokeKey(m, k) \/ \E e \in Expiries \cup {Never} : UpdateKey(m, k, e)
  \/ SuspendUser(m) \/ ActivateUser(m) \/ DeleteUser(m)
  \/ Commit(m) \/ \E h \in Hashes : Evict(m, h)

Gateway(g) ==
  \/ \E h \in Hashes : Request(g, h)
  \/ CacheGet(g) \/ OrgCpVerify(g) \/ CachePut(g) \/ Decide(g) \/ Done(g)

Next ==
  \/ Tick \/ Crash
  \/ \E m \in Sessions : Mutate(m)
  \/ \E g \in Gates : Gateway(g)

Spec == Init /\ [][Next]_vars

-----------------------------------------------------------------------------
(* Properties *)

Decided(g) == gate[g].pc = "decide" /\ gate'[g].pc = "done"

\* A verdict that differs from what the database says is at most a cache TTL
\* old, and the time a lookup takes, whichever races, lost evictions and
\* crashes happened.
StalenessBounded ==
  [][\A g \in Gates : Decided(g) /\ gate'[g].ok # Valid(gate[g].hash) =>
       now < changed[gate[g].hash] + CacheTtl + 1]_vars

\* Expiry needs no eviction: as long as no caller replaced it, no cached snapshot
\* of a key is admitted at or after its expiry.
ExpiryIsExact ==
  [][\A g \in Gates : Decided(g) /\ gate'[g].ok /\ ~rewritten =>
       Verify(row, owner, gate[g].hash).expires > now]_vars

\* The age of a wrong verdict has a bound, and expiry none to need.
VerdictsAreTimely == StalenessBounded /\ ExpiryIsExact

\* Commit-then-evict: a snapshot in the cache that the database contradicts has
\* an eviction on its way, unless a lookup wrote it late, a mutation knew
\* another hash, or a step failed.
StaleOnlyByRace ==
  ~raced /\ faults = 0 =>
    \A h \in Hashes : cache[h].until > now /\ cache[h].rec # Verify(row, owner, h) =>
      \E m \in Sessions : session[m].pc = "evict" /\ h \in session[m].hashes
=============================================================================
