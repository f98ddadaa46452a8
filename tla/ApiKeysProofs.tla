---------------------------- MODULE ApiKeysProofs ----------------------------
(***************************************************************************)
(* For any number of keys, mutations, gateway requests, faults and ticks:  *)
(* a verdict that the database contradicts has a bounded age, a key's own  *)
(* expiry needs no eviction, and a stale snapshot in the cache has an      *)
(* eviction on its way unless something overlapped or failed.              *)
(*                                                                         *)
(* The induction follows a snapshot from the lookup through the cache to   *)
(* the verdict, with the tick at which the database left it behind.        *)
(***************************************************************************)
EXTENDS ApiKeys, TLAPS

\* What the database says of h.
Truth(h) == Verify(row, owner, h)

Committing(m) == session[m].pc = "commit"
Freshens(m) == Committing(m) /\ session[m].op \in {"create", "rotate"}

\* A mutation that makes or replaces a key: of one key, which a create finds
\* free and needs to evict nothing of, and with a hash no row has.
SessionFits(m) ==
  /\ session[m].pc # "idle" /\ session[m].op = "create" =>
       /\ Committing(m) /\ session[m].hashes = {}
       /\ \A k \in session[m].keys : row[k].hash = NoHash
  /\ Freshens(m) /\ session[m].op = "rotate" =>
       \A k \in session[m].keys : row[k].hash # NoHash
  /\ Freshens(m) =>
       /\ \E k \in Keys : session[m].keys = {k}
       /\ session[m].fresh \in used
       /\ \A k \in Keys : row[k].hash # session[m].fresh

\* Two of them have neither the hash nor the new key in common.
Apart(m, n) ==
  Freshens(m) /\ Freshens(n) =>
    /\ session[m].fresh # session[n].fresh
    /\ session[m].op = "create" /\ session[n].op = "create" =>
         session[m].keys \cap session[n].keys = {}

Mutations ==
  /\ \A m \in Sessions : SessionFits(m)
  /\ \A m, n \in Sessions : m # n => Apart(m, n)
  /\ \A k \in Keys : row[k].hash \in used \cup {NoHash}

\* A snapshot in the cache that the database has left behind will be gone a
\* TTL, and the tick of a lookup, after it did.
CacheAges ==
  \A h \in Hashes :
    /\ cache[h].until <= now + CacheTtl
    /\ cache[h].until > now /\ cache[h].rec # Truth(h) =>
         cache[h].until <= changed[h] + CacheTtl + 1

\* So has one in hand: a lookup is at most a tick old when it is cached.
LookupAges ==
  \A g \in Gates :
    /\ gate[g].pc = "put" =>
         /\ gate[g].at <= now /\ now <= gate[g].at + 1
         /\ gate[g].rec # Truth(gate[g].hash) => gate[g].at <= changed[gate[g].hash]
    /\ gate[g].pc = "decide" /\ gate[g].rec # Truth(gate[g].hash) =>
         now < changed[gate[g].hash] + CacheTtl + 1

\* Unless an expiry or a hash was replaced, a snapshot has its row's expiry.
Agrees(rec, h) == rec.expires # 0 => Truth(h).expires = rec.expires

ExpiriesAgree ==
  ~rewritten =>
    /\ \A h \in Hashes : Agrees(cache[h].rec, h)
    /\ \A g \in Gates : gate[g].pc \in {"put", "decide"} => Agrees(gate[g].rec, gate[g].hash)

Snapshots == CacheAges /\ LookupAges /\ ExpiriesAgree

IInv == TypeOK /\ Mutations /\ Snapshots /\ StaleOnlyByRace

-------------------------------------------------------------------------------
(* Lookups in the database.                                                *)

\* No two rows have one hash.
Distinct(rows) ==
  \A j, k \in Keys : j # k /\ rows[j].hash # NoHash => rows[j].hash # rows[k].hash

LEMMA VerifyFound ==
  ASSUME NEW rows, Distinct(rows), NEW k \in Keys, rows[k].hash # NoHash, NEW own
  PROVE  Verify(rows, own, rows[k].hash)
           = [expires |-> rows[k].expires, revoked |-> rows[k].revoked, active |-> own = "active"]
<1> DEFINE j == CHOOSE j \in Keys : rows[j].hash = rows[k].hash
<1>1. j \in Keys /\ rows[j].hash = rows[k].hash
  OBVIOUS
<1>2. j = k
  BY <1>1 DEF Distinct
<1>3. rows[k].hash \in {rows[i].hash : i \in Keys}
  OBVIOUS
<1> QED
  BY <1>2, <1>3, Zenon DEF Verify

LEMMA VerifyExpires ==
  ASSUME NEW rows, Distinct(rows), NEW k \in Keys, rows[k].hash # NoHash, NEW own
  PROVE  Verify(rows, own, rows[k].hash).expires = rows[k].expires
<1> DEFINE a == own = "active"
<1>1. Verify(rows, own, rows[k].hash)
        = [expires |-> rows[k].expires, revoked |-> rows[k].revoked, active |-> a]
  BY VerifyFound
<1> HIDE DEF a
<1> QED
  BY <1>1

LEMMA VerifyAbsent ==
  ASSUME NEW rows, NEW h, \A k \in Keys : rows[k].hash # h, NEW own
  PROVE  Verify(rows, own, h) = NoRecord
<1>1. h \notin {rows[k].hash : k \in Keys}
  OBVIOUS
<1> QED
  BY <1>1, Zenon DEF Verify

LEMMA RecordOf ==
  ASSUME NEW e \in Expiries \cup {Never}, NEW r \in BOOLEAN, NEW a \in BOOLEAN
  PROVE  [expires |-> e, revoked |-> r, active |-> a] \in Record
BY DEF Record

LEMMA VerifyType ==
  ASSUME NEW rows \in [Keys -> Row], NEW own, NEW h
  PROVE  Verify(rows, own, h) \in Record \cup {NoRecord}
<1>1. CASE \A k \in Keys : rows[k].hash # h
  BY <1>1, VerifyAbsent
<1>2. CASE ~\A k \in Keys : rows[k].hash # h
  <2> DEFINE k == CHOOSE k \in Keys : rows[k].hash = h
  <2>1. k \in Keys /\ h \in {rows[i].hash : i \in Keys}
    BY <1>2
  <2>2. Verify(rows, own, h)
          = [expires |-> rows[k].expires, revoked |-> rows[k].revoked, active |-> own = "active"]
    BY <2>1, Zenon DEF Verify
  <2>3. (own = "active") \in BOOLEAN
    BY Zenon
  <2>4. rows[k].expires \in Expiries \cup {Never} /\ rows[k].revoked \in BOOLEAN
    BY <2>1 DEF Row
  <2> HIDE DEF k
  <2> QED
    BY <2>2, <2>3, <2>4, RecordOf, Zenon
<1> QED
  BY <1>1, <1>2

LEMMA RecordFacts ==
  /\ Never \in Nat /\ Expiries \cup {Never} \subseteq Nat
  /\ \A rec \in Record \cup {NoRecord} : rec.expires \in Nat
<1>1. Never \in Nat
  BY ApiKeyAssumption DEF Never
<1>2. Expiries \cup {Never} \subseteq Nat
  BY <1>1, ApiKeyAssumption
<1>3. \A rec \in Record : rec.expires \in Expiries \cup {Never}
  BY DEF Record
<1>4. NoRecord.expires = 0
  BY DEF NoRecord
<1> QED
  BY <1>1, <1>2, <1>3, <1>4

LEMMA InitOK == Init => IInv
<1> SUFFICES ASSUME Init PROVE IInv
  OBVIOUS
<1>1. raced \in BOOLEAN /\ rewritten \in BOOLEAN
  BY Zenon DEF Init
<1>2. now \in 0..MaxTime /\ ops \in 0..MaxOps /\ faults \in 0..MaxFaults
  BY ApiKeyAssumption DEF Init
<1>3. row \in [Keys -> Row] /\ \A k \in Keys : row[k].hash = NoHash
  BY DEF Init, Absent, Row
<1>4. /\ session \in [Sessions -> Session \cup {Idle}] /\ \A m \in Sessions : session[m].pc = "idle"
      /\ gate \in [Gates -> Gate \cup {Idle}] /\ \A g \in Gates : gate[g].pc = "idle"
  BY DEF Init, Idle
<1>5. /\ cache \in [Hashes -> [rec : Record \cup {NoRecord}, until : 0..(MaxTime + CacheTtl)]]
      /\ \A h \in Hashes : cache[h].rec = NoRecord /\ cache[h].until = 0
  BY ApiKeyAssumption DEF Init
<1>6. changed \in [Hashes -> 0..now] /\ now = 0
  BY DEF Init
<1>7. TypeOK
  BY <1>1, <1>2, <1>3, <1>4, <1>5, <1>6 DEF Init, TypeOK
<1>8. Mutations
  BY <1>3, <1>4 DEF Mutations, SessionFits, Apart, Freshens, Committing
<1>9. Snapshots
  <2>1. CacheAges /\ LookupAges
    BY <1>4, <1>5, <1>6, ApiKeyAssumption DEF CacheAges, LookupAges
  <2>2. ExpiriesAgree
    BY <1>4, <1>5 DEF ExpiriesAgree, Agrees, NoRecord
  <2> QED
    BY <2>1, <2>2 DEF Snapshots
<1>10. StaleOnlyByRace
  BY <1>5, <1>6 DEF StaleOnlyByRace
<1> QED
  BY <1>7, <1>8, <1>9, <1>10 DEF IInv

\* A step that touches no row, no snapshot and no clock.
LEMMA SnapshotsKept ==
  ASSUME Snapshots, UNCHANGED <<now, row, owner, cache, gate, changed, rewritten>>
  PROVE  Snapshots'
<1>1. CacheAges' /\ LookupAges'
  BY DEF Snapshots, CacheAges, LookupAges, Truth
<1>2. ExpiriesAgree'
  BY DEF Snapshots, ExpiriesAgree, Agrees, Truth
<1> QED
  BY <1>1, <1>2 DEF Snapshots

LEMMA MutationsKept ==
  ASSUME Mutations, UNCHANGED <<row, session, used>>
  PROVE  Mutations'
BY DEF Mutations, SessionFits, Apart, Freshens, Committing

-------------------------------------------------------------------------------
(* The mutations.                                                          *)

\* A session that has read what it will change.
LEMMA ReadOK ==
  ASSUME IInv, NEW m \in Sessions, NEW op, NEW ks \in SUBSET Keys,
         NEW fresh \in Hashes \cup {NoHash}, NEW expires \in Expiries \cup {Never},
         Read(m, op, ks, fresh, expires),
         used \subseteq used', used' \subseteq Hashes,
         op = "create" => \A k \in ks : /\ row[k].hash = NoHash
                                        /\ \A n \in Sessions : session[n] # Idle => k \notin session[n].keys,
         op = "rotate" => \A k \in ks : row[k].hash # NoHash,
         op \in {"create", "rotate"} => /\ \E k \in Keys : ks = {k}
                                        /\ fresh \in used' /\ fresh \notin used
  PROVE  IInv'
<1> DEFINE S == [pc |-> "commit", op |-> op, keys |-> ks, fresh |-> fresh, expires |-> expires,
                 hashes |-> {row[k].hash : k \in ks} \ {NoHash}]
<1>1. TypeOK /\ Mutations /\ Snapshots /\ StaleOnlyByRace
  BY DEF IInv
<1>2. /\ session[m] = Idle /\ op \in Ops /\ ops' \in 0..MaxOps
      /\ session' = [session EXCEPT ![m] = S]
      /\ UNCHANGED <<now, row, owner, cache, gate, changed, raced, rewritten, faults>>
  BY <1>1, ApiKeyAssumption DEF Read, db, TypeOK
<1>3. S \in Session
  <2>1. {row[k].hash : k \in ks} \ {NoHash} \subseteq Hashes
    BY <1>1 DEF TypeOK, Row
  <2> QED
    BY <1>2, <2>1 DEF Session
<1>4. /\ S.pc = "commit" /\ S.op = op /\ S.keys = ks /\ S.fresh = fresh
      /\ op = "create" => S.hashes = {}
  OBVIOUS
<1> HIDE DEF S
<1>5. /\ session' \in [Sessions -> Session \cup {Idle}] /\ session'[m] = S
      /\ \A n \in Sessions \ {m} : session'[n] = session[n]
      /\ session[m].pc = "idle"
  BY <1>1, <1>2, <1>3 DEF TypeOK, Idle
<1>6. TypeOK'
  BY <1>1, <1>2, <1>5 DEF TypeOK
<1>7. Mutations'
  <2>1. SessionFits(m)'
    BY <1>1, <1>2, <1>4, <1>5, ApiKeyAssumption DEF Mutations, SessionFits, Freshens, Committing
  <2>2. \A n \in Sessions \ {m} : SessionFits(n)'
    BY <1>1, <1>2, <1>5 DEF Mutations, SessionFits, Freshens, Committing
  <2>3. \A n \in Sessions \ {m} : Freshens(n) => session[n].fresh \in used /\ session[n] # Idle
    BY <1>1 DEF Mutations, SessionFits, Freshens, Committing, Idle
  <2>4. \A n \in Sessions \ {m} : Apart(m, n)' /\ Apart(n, m)'
    BY <1>4, <1>5, <2>3 DEF Apart, Freshens, Committing
  <2>5. \A n, o \in Sessions \ {m} : n # o => Apart(n, o)'
    BY <1>1, <1>5 DEF Mutations, Apart, Freshens, Committing
  <2>6. \A k \in Keys : row'[k].hash \in used' \cup {NoHash}
    BY <1>1, <1>2 DEF Mutations
  <2> QED
    BY <2>1, <2>2, <2>4, <2>5, <2>6 DEF Mutations
<1>8. Snapshots'
  BY <1>1, <1>2, SnapshotsKept
<1>9. StaleOnlyByRace'
  BY <1>1, <1>2, <1>5 DEF StaleOnlyByRace
<1> QED
  BY <1>6, <1>7, <1>8, <1>9 DEF IInv

\* What each mutation reads.
LEMMA StartOK ==
  ASSUME IInv, NEW m \in Sessions,
         \/ \E k \in Keys, h \in Hashes : \/ RotateKey(m, k, h)
                                          \/ \E e \in Expiries \cup {Never} : CreateKey(m, k, h, e)
         \/ \E k \in Keys : \/ RevokeKey(m, k)
                            \/ \E e \in Expiries \cup {Never} : UpdateKey(m, k, e)
         \/ SuspendUser(m) \/ ActivateUser(m) \/ DeleteUser(m)
  PROVE  IInv'
<1>1. used \subseteq Hashes /\ Never \in Expiries \cup {Never} /\ Live \subseteq Keys
  BY DEF IInv, TypeOK, Live
<1>2. ASSUME NEW k \in Keys, NEW h \in Hashes, RotateKey(m, k, h) PROVE IInv'
  <2>1. /\ Read(m, "rotate", {k}, h, Never) /\ used' = used \cup {h} /\ h \notin used
        /\ row[k].hash # NoHash
    BY <1>2 DEF RotateKey, Exists
  <2> QED
    BY <1>1, <2>1, ReadOK
<1>3. ASSUME NEW k \in Keys, NEW h \in Hashes, NEW e \in Expiries \cup {Never},
             CreateKey(m, k, h, e)
      PROVE  IInv'
  <2>1. /\ Read(m, "create", {k}, h, e) /\ used' = used \cup {h} /\ h \notin used
        /\ row[k].hash = NoHash
        /\ \A n \in Sessions : session[n] # Idle => k \notin session[n].keys
    BY <1>3 DEF CreateKey, Exists
  <2> QED
    BY <1>1, <2>1, ReadOK
<1>4. ASSUME NEW k \in Keys, RevokeKey(m, k) PROVE IInv'
  <2>1. Read(m, "revoke", {k}, NoHash, Never) /\ used' = used
    BY <1>4 DEF RevokeKey
  <2> QED
    BY <1>1, <2>1, ReadOK
<1>5. ASSUME NEW k \in Keys, NEW e \in Expiries \cup {Never}, UpdateKey(m, k, e) PROVE IInv'
  <2>1. Read(m, "update", {k}, NoHash, e) /\ used' = used
    BY <1>5 DEF UpdateKey
  <2> QED
    BY <1>1, <2>1, ReadOK
<1>6. CASE SuspendUser(m) \/ ActivateUser(m) \/ DeleteUser(m)
  <2>1. /\ used' = used
        /\ \/ Read(m, "suspend", Live, NoHash, Never)
           \/ Read(m, "activate", {}, NoHash, Never)
           \/ Read(m, "delete", Live, NoHash, Never)
    BY <1>6 DEF SuspendUser, ActivateUser, DeleteUser
  <2>2. CASE Read(m, "suspend", Live, NoHash, Never)
    BY <1>1, <2>1, <2>2, ReadOK
  <2>3. CASE Read(m, "activate", {}, NoHash, Never)
    BY <1>1, <2>1, <2>3, ReadOK
  <2>4. CASE Read(m, "delete", Live, NoHash, Never)
    BY <1>1, <2>1, <2>4, ReadOK
  <2> QED
    BY <2>1, <2>2, <2>3, <2>4
<1> QED
  BY <1>2, <1>3, <1>4, <1>5, <1>6

\* The rows after a commit: one hash at most is new, and only an update or a
\* rotation takes a hash or an expiry from a key that has one.
LEMMA RowsAfterOK ==
  ASSUME IInv, NEW m \in Sessions, session[m].pc = "commit", row' = RowsAfter(session[m])
  PROVE  /\ row' \in [Keys -> Row]
         /\ \A k \in Keys : row'[k].hash # row[k].hash =>
              /\ Freshens(m) /\ k \in session[m].keys /\ row'[k].hash = session[m].fresh
              /\ session[m].op = "create" => row[k].hash = NoHash
         /\ session[m].op \notin {"update", "rotate"} => \A k \in Keys : row[k].hash # NoHash =>
              row'[k].hash = row[k].hash /\ row'[k].expires = row[k].expires
<1> DEFINE s == session[m]
<1>1. s \in Session /\ row \in [Keys -> Row] /\ SessionFits(m)
  BY DEF IInv, TypeOK, Idle, Mutations
<1>2. /\ s.fresh \in Hashes \cup {NoHash} /\ s.expires \in Expiries \cup {Never}
      /\ s.keys \subseteq Keys /\ FALSE \in BOOLEAN /\ TRUE \in BOOLEAN
  BY <1>1 DEF Session
<1>3. /\ Freshens(m) <=> s.op \in {"create", "rotate"}
      /\ s.op = "create" => \A k \in s.keys : row[k].hash = NoHash
  BY <1>1 DEF Freshens, Committing, SessionFits
<1> HIDE DEF s
<1>4. CASE s.op = "create"
  <2>1. row' = [k \in Keys |-> IF k \in s.keys
                  THEN [hash |-> s.fresh, expires |-> s.expires, revoked |-> FALSE] ELSE row[k]]
    BY <1>4 DEF RowsAfter, s
  <2> QED
    BY <1>1, <1>2, <1>3, <1>4, <2>1 DEF Row, s
<1>5. CASE s.op = "rotate"
  <2>1. row' = [k \in Keys |-> IF k \in s.keys THEN [row[k] EXCEPT !.hash = s.fresh] ELSE row[k]]
    BY <1>5 DEF RowsAfter, s
  <2> QED
    BY <1>1, <1>2, <1>3, <1>5, <2>1 DEF Row, s
<1>6. CASE s.op = "update"
  <2>1. row' = [k \in Keys |-> IF k \in s.keys THEN [row[k] EXCEPT !.expires = s.expires] ELSE row[k]]
    BY <1>6 DEF RowsAfter, s
  <2> QED
    BY <1>1, <1>2, <1>6, <2>1 DEF Row, s
<1>7. CASE s.op \notin {"create", "rotate", "update"}
  <2>1. row' = Revoked(row, s.keys) \/ row' = row
    BY <1>7 DEF RowsAfter, s
  <2>2. CASE row' = row
    BY <1>1, <2>2
  <2>3. CASE row' = Revoked(row, s.keys)
    <3>1. \A k \in Keys : /\ row[k] \in Row /\ [row[k] EXCEPT !.revoked = TRUE] \in Row
                         /\ [row[k] EXCEPT !.revoked = TRUE].hash = row[k].hash
                         /\ [row[k] EXCEPT !.revoked = TRUE].expires = row[k].expires
      BY <1>1 DEF Row
    <3> QED
      BY <2>3, <3>1 DEF Revoked
  <2> QED
    BY <2>1, <2>2, <2>3
<1> QED
  BY <1>4, <1>5, <1>6, <1>7

LEMMA CommitOK == ASSUME IInv, NEW m \in Sessions, Commit(m) PROVE IInv'
<1> DEFINE s == session[m]
<1>1. /\ TypeOK /\ Mutations /\ Snapshots /\ StaleOnlyByRace
      /\ s.pc = "commit" /\ CommitRows(s)
      /\ UNCHANGED <<now, used, cache, gate, ops, faults>>
  BY DEF IInv, Commit
<1>2. /\ s \in Session /\ SessionFits(m)
      /\ session \in [Sessions -> Session \cup {Idle}]
  BY <1>1 DEF TypeOK, Idle, Mutations
<1>3. /\ row' \in [Keys -> Row]
      /\ \A k \in Keys : row'[k].hash # row[k].hash =>
           /\ Freshens(m) /\ k \in s.keys /\ row'[k].hash = s.fresh
           /\ s.op = "create" => row[k].hash = NoHash
      /\ s.op \notin {"update", "rotate"} => \A k \in Keys : row[k].hash # NoHash =>
           row'[k].hash = row[k].hash /\ row'[k].expires = row[k].expires
  BY <1>1, RowsAfterOK DEF CommitRows
<1>4. /\ session'[m] = Idle \/ (session'[m] \in Session /\ session'[m].pc = "evict"
                                 /\ session'[m].hashes = s.hashes /\ session'[m].op = s.op)
      /\ s.hashes # {} => session'[m].pc = "evict" /\ session'[m].hashes = s.hashes
      /\ s.op = "create" => session'[m] = Idle
      /\ \A n \in Sessions \ {m} : session'[n] = session[n]
      /\ session' \in [Sessions -> Session \cup {Idle}]
  <2>1. [s EXCEPT !.pc = "evict"] \in Session
    BY <1>2 DEF Session
  <2>2. s.op = "create" => s.hashes = {}
    BY <1>1, <1>2 DEF SessionFits
  <2>3. session' = [session EXCEPT ![m] =
          IF s.op = "create" \/ s.hashes = {} THEN Idle ELSE [s EXCEPT !.pc = "evict"]]
    BY DEF Commit
  <2>4. /\ [s EXCEPT !.pc = "evict"].pc = "evict" /\ [s EXCEPT !.pc = "evict"].hashes = s.hashes
        /\ [s EXCEPT !.pc = "evict"].op = s.op
    BY <1>2 DEF Session
  <2> HIDE DEF s
  <2> QED
    BY <1>2, <2>1, <2>2, <2>3, <2>4
<1>5. /\ \A h \in Hashes : Truth(h)' # Truth(h) => changed'[h] = now
      /\ \A h \in Hashes : Truth(h)' = Truth(h) => changed'[h] = changed[h]
      /\ changed' \in [Hashes -> 0..now] /\ changed \in [Hashes -> 0..now] /\ now \in Nat
  <2>1. now \in 0..MaxTime /\ changed \in [Hashes -> 0..now]
    BY <1>1 DEF TypeOK
  <2>2. now \in Nat /\ now \in 0..now
    BY <2>1, ApiKeyAssumption
  <2>3. changed' = [h \in Hashes |-> IF Truth(h)' # Truth(h) THEN now ELSE changed[h]]
    BY <1>1 DEF CommitRows, Truth
  <2> QED
    BY <2>1, <2>2, <2>3
<1>6. SessionFits(m) /\ (Freshens(m) => (\E k \in Keys : s.keys = {k}) /\ s.fresh \in used
                           /\ s.fresh \in Hashes /\ \A k \in Keys : row[k].hash # s.fresh)
  BY <1>1, <1>2 DEF SessionFits, TypeOK
<1> HIDE DEF s
<1>7. Distinct(row')
  <2> SUFFICES ASSUME NEW j \in Keys, NEW k \in Keys, j # k, row'[j].hash # NoHash
               PROVE  row'[j].hash # row'[k].hash
    BY DEF Distinct
  <2>1. j # k /\ row[j].hash # NoHash => row[j].hash # row[k].hash
    BY <1>1 DEF TypeOK
  <2>2. CASE row'[j].hash # row[j].hash /\ row'[k].hash # row[k].hash
    BY <1>3, <1>6, <2>2
  <2>3. CASE row'[j].hash # row[j].hash /\ row'[k].hash = row[k].hash
    BY <1>3, <1>6, <2>3
  <2>4. CASE row'[j].hash = row[j].hash /\ row'[k].hash # row[k].hash
    BY <1>3, <1>6, <2>4
  <2>5. CASE row'[j].hash = row[j].hash /\ row'[k].hash = row[k].hash
    BY <2>1, <2>5
  <2> QED
    BY <2>2, <2>3, <2>4, <2>5
<1>8. raced' \in BOOLEAN /\ rewritten' \in BOOLEAN
  BY <1>1, Zenon DEF CommitRows
<1>9. ~rewritten' => ~rewritten /\ s.op \notin {"update", "rotate"}
  BY <1>1, Zenon DEF CommitRows
<1>10. ~raced' => /\ ~raced
                  /\ \A h \in Hashes \ s.hashes : cache[h].until > now => Truth(h)' = Truth(h)
  BY <1>1, Zenon DEF CommitRows, Truth
<1>11. TypeOK'
  <2>1. owner' \in {"active", "suspended", "gone"}
    BY <1>1 DEF CommitRows, OwnerAfter, TypeOK
  <2> QED
    BY <1>1, <1>3, <1>4, <1>5, <1>7, <1>8, <2>1 DEF TypeOK, Distinct
<1>12. Mutations'
  <2>1. ~Freshens(m)' /\ SessionFits(m)'
    <3>1. session'[m].pc = "evict" => session'[m].op # "create"
      BY <1>4 DEF Idle
    <3> QED
      BY <1>4, <3>1 DEF SessionFits, Freshens, Committing, Idle
  <2>2. ASSUME NEW n \in Sessions \ {m} PROVE SessionFits(n)'
    <3>1. session'[n] = session[n] /\ SessionFits(n) /\ used' = used /\ Apart(m, n)
      BY <1>1, <1>4 DEF Mutations
    <3>2. (Freshens(n)' <=> Freshens(n)) /\ (Committing(n)' <=> Committing(n))
      BY <3>1 DEF Freshens, Committing
    <3>3. session[n].op = "create" /\ Committing(n) =>
             \A k \in session[n].keys : row'[k].hash = NoHash
      <4>1. CASE ~(session[n].op = "create" /\ Committing(n))
        BY <4>1
      <4>2. CASE session[n].op = "create" /\ Committing(n)
        <5>1. /\ \A k \in session[n].keys : row[k].hash = NoHash /\ k \in Keys
              /\ Freshens(n)
          BY <1>2, <3>1, <4>2 DEF SessionFits, Freshens, Committing, Session, Idle
        <5>2. Freshens(m) /\ s.op = "create" => s.keys \cap session[n].keys = {}
          BY <3>1, <4>2, <5>1 DEF Apart, s
        <5>3. Freshens(m) /\ s.op = "rotate" => \A k \in s.keys : row[k].hash # NoHash
          BY <1>6 DEF SessionFits, s
        <5>4. Freshens(m) => s.op \in {"create", "rotate"}
          BY DEF Freshens, s
        <5> QED
          BY <1>3, <5>1, <5>2, <5>3, <5>4
      <4> QED
        BY <4>1, <4>2
    <3>4. Freshens(n) => \A k \in Keys : row'[k].hash # session[n].fresh
      BY <1>3, <3>1 DEF SessionFits, Apart, s
    <3>5. Freshens(n) /\ session[n].op = "rotate" =>
             \A k \in session[n].keys : row'[k].hash # NoHash
      <4>1. Freshens(n) => session[n].keys \subseteq Keys
        BY <3>1 DEF SessionFits
      <4> QED
        BY <1>3, <1>6, <3>1, <4>1, ApiKeyAssumption DEF SessionFits
    <3> QED
      BY <3>1, <3>2, <3>3, <3>4, <3>5 DEF SessionFits
  <2>3. \A n, o \in Sessions : n # o => Apart(n, o)'
    BY <1>1, <1>4, <2>1 DEF Mutations, Apart, Freshens, Committing
  <2>4. \A k \in Keys : row'[k].hash \in used' \cup {NoHash}
    BY <1>1, <1>3, <1>6 DEF Mutations
  <2> QED
    BY <2>1, <2>2, <2>3, <2>4 DEF Mutations
<1>13. CacheAges' /\ LookupAges'
  <2>1. cache \in [Hashes -> [rec : Record \cup {NoRecord}, until : 0..(MaxTime + CacheTtl)]]
    BY <1>1 DEF TypeOK
  <2>2. \A h \in Hashes : cache[h].until \in Nat
    BY <2>1, ApiKeyAssumption
  <2>3. CacheAges'
    BY <1>1, <1>5, <2>2, ApiKeyAssumption DEF Snapshots, CacheAges
  <2>4. LookupAges'
    <3>1. \A g \in Gates : gate[g].pc # "idle" => gate[g] \in Gate
      BY <1>1 DEF TypeOK, Idle
    <3>2. \A g \in Gates : gate[g].pc # "idle" => gate[g].hash \in Hashes /\ gate[g].at \in Nat
      BY <3>1, ApiKeyAssumption DEF Gate
    <3> QED
      BY <1>1, <1>5, <3>2, ApiKeyAssumption DEF Snapshots, LookupAges
  <2> QED
    BY <2>3, <2>4
<1>14. ExpiriesAgree'
  <2> SUFFICES ASSUME ~rewritten' PROVE ExpiriesAgree'
    BY Zenon DEF ExpiriesAgree
  <2>1. ~rewritten /\ s.op \notin {"update", "rotate"}
    BY <1>9
  <2>2. ASSUME NEW rec, NEW h \in Hashes, Agrees(rec, h) PROVE Agrees(rec, h)'
    <3> SUFFICES ASSUME rec.expires # 0 PROVE Truth(h)'.expires = rec.expires
      BY DEF Agrees
    <3>1. Truth(h).expires = rec.expires /\ h # NoHash
      BY <2>2, ApiKeyAssumption DEF Agrees
    <3>2. PICK k \in Keys : row[k].hash = h
      BY <3>1, VerifyAbsent DEF Truth, NoRecord
    <3>3. row'[k].hash = h /\ row'[k].expires = row[k].expires
      BY <1>3, <2>1, <3>1, <3>2
    <3>4. Truth(h).expires = row[k].expires
      <4>1. Distinct(row)
        BY <1>1 DEF TypeOK, Distinct
      <4> QED
        BY <3>1, <3>2, <4>1, VerifyExpires DEF Truth
    <3>5. Truth(h)'.expires = row'[k].expires
      BY <1>7, <3>1, <3>3, VerifyExpires DEF Truth
    <3> QED
      BY <3>1, <3>3, <3>4, <3>5
  <2>3. \A h \in Hashes : Agrees(cache[h].rec, h)
    BY <1>1, <2>1 DEF Snapshots, ExpiriesAgree
  <2>4. \A g \in Gates : gate[g].pc \in {"put", "decide"} =>
           Agrees(gate[g].rec, gate[g].hash) /\ gate[g].hash \in Hashes
    BY <1>1, <2>1 DEF Snapshots, ExpiriesAgree, TypeOK, Idle, Gate
  <2>5. \A h \in Hashes : Agrees(cache[h].rec, h)'
    BY <1>1, <2>2, <2>3 DEF Agrees
  <2>6. \A g \in Gates : gate[g].pc \in {"put", "decide"} => Agrees(gate[g].rec, gate[g].hash)'
    BY <1>1, <2>2, <2>4 DEF Agrees
  <2> QED
    BY <1>1, <2>5, <2>6 DEF ExpiriesAgree
<1>15. StaleOnlyByRace'
  <2> SUFFICES ASSUME ~raced', faults = 0, NEW h \in Hashes,
                      cache[h].until > now, cache[h].rec # Truth(h)'
               PROVE  \E n \in Sessions : session'[n].pc = "evict" /\ h \in session'[n].hashes
    BY <1>1 DEF StaleOnlyByRace, Truth
  <2>1. CASE h \in s.hashes
    BY <1>4, <2>1
  <2>2. CASE h \notin s.hashes
    <3>1. cache[h].rec # Truth(h) /\ ~raced
      BY <1>10, <2>2
    <3>2. PICK n \in Sessions : session[n].pc = "evict" /\ h \in session[n].hashes
      BY <1>1, <3>1 DEF StaleOnlyByRace, Truth
    <3>3. n # m
      BY <1>1, <3>2 DEF s
    <3> QED
      BY <1>4, <3>2, <3>3
  <2> QED
    BY <2>1, <2>2
<1> QED
  BY <1>11, <1>12, <1>13, <1>14, <1>15 DEF IInv, Snapshots

\* An eviction empties the entry; a Valkey error is one of the faults.
LEMMA EvictOK == ASSUME IInv, NEW m \in Sessions, NEW h \in Hashes, Evict(m, h) PROVE IInv'
<1> DEFINE s == session[m]
<1>1. /\ TypeOK /\ Mutations /\ Snapshots /\ StaleOnlyByRace
      /\ s.pc = "evict" /\ h \in s.hashes
      /\ cache' = [cache EXCEPT ![h].until = 0] \/ cache' = cache
      /\ cache' = [cache EXCEPT ![h].until = 0] \/ faults' # 0
      /\ faults' = faults \/ Fault
      /\ UNCHANGED <<now, row, owner, used, gate, changed, raced, rewritten, ops>>
  BY ApiKeyAssumption DEF IInv, Evict, NoFault, Fault, db, TypeOK
<1>2. /\ s \in Session /\ SessionFits(m)
      /\ session \in [Sessions -> Session \cup {Idle}]
      /\ cache \in [Hashes -> [rec : Record \cup {NoRecord}, until : 0..(MaxTime + CacheTtl)]]
      /\ now \in Nat /\ faults' \in 0..MaxFaults /\ (faults' = 0 => faults = 0)
  BY <1>1, ApiKeyAssumption DEF TypeOK, Idle, Mutations, Fault
<1>3. /\ cache' \in [Hashes -> [rec : Record \cup {NoRecord}, until : 0..(MaxTime + CacheTtl)]]
      /\ \A k \in Hashes : /\ cache'[k].rec = cache[k].rec
                           /\ cache'[k].until = cache[k].until \/ cache'[k].until = 0
                           /\ k # h => cache'[k] = cache[k]
      /\ faults' = 0 => cache'[h].until = 0
  <2>1. 0 \in 0..(MaxTime + CacheTtl)
    BY ApiKeyAssumption
  <2> QED
    BY <1>1, <1>2, <2>1
<1>4. /\ session'[m] = Idle \/ (session'[m] \in Session /\ session'[m].pc = "evict"
                                 /\ session'[m].op = s.op)
      /\ session' \in [Sessions -> Session \cup {Idle}]
      /\ \A n \in Sessions \ {m} : session'[n] = session[n]
      /\ \A k \in s.hashes : k # h => session'[m].pc = "evict" /\ k \in session'[m].hashes
  <2>1. session' = [session EXCEPT ![m] =
          IF s.hashes = {h} THEN Idle ELSE [s EXCEPT !.hashes = @ \ {h}]]
    BY DEF Evict
  <2>2. /\ [s EXCEPT !.hashes = @ \ {h}] \in Session
        /\ [s EXCEPT !.hashes = @ \ {h}].pc = s.pc /\ [s EXCEPT !.hashes = @ \ {h}].op = s.op
        /\ [s EXCEPT !.hashes = @ \ {h}].hashes = s.hashes \ {h}
    BY <1>2 DEF Session
  <2> HIDE DEF s
  <2> QED
    BY <1>1, <1>2, <2>1, <2>2
<1>5. TypeOK'
  BY <1>1, <1>2, <1>3, <1>4 DEF TypeOK
<1>6. Mutations'
  <2>1. SessionFits(m)' /\ ~Freshens(m)'
    BY <1>1, <1>2, <1>4 DEF SessionFits, Freshens, Committing, Idle
  <2>2. \A n \in Sessions \ {m} : SessionFits(n)'
    BY <1>1, <1>4 DEF Mutations, SessionFits, Freshens, Committing
  <2>3. \A n, o \in Sessions : n # o => Apart(n, o)'
    BY <1>1, <1>4, <2>1 DEF Mutations, Apart, Freshens, Committing
  <2> QED
    BY <1>1, <2>1, <2>2, <2>3 DEF Mutations
<1>7. Snapshots'
  <2>1. CacheAges'
    BY <1>1, <1>2, <1>3, ApiKeyAssumption DEF Snapshots, CacheAges, Truth
  <2>2. LookupAges'
    BY <1>1 DEF Snapshots, LookupAges, Truth
  <2>3. ExpiriesAgree'
    BY <1>1, <1>3 DEF Snapshots, ExpiriesAgree, Agrees, Truth
  <2> QED
    BY <2>1, <2>2, <2>3 DEF Snapshots
<1>8. StaleOnlyByRace'
  <2> SUFFICES ASSUME ~raced, faults' = 0, NEW k \in Hashes,
                      cache'[k].until > now, cache'[k].rec # Truth(k)
               PROVE  \E n \in Sessions : session'[n].pc = "evict" /\ k \in session'[n].hashes
    BY <1>1 DEF StaleOnlyByRace, Truth
  <2>1. k # h
    BY <1>2, <1>3
  <2>2. PICK n \in Sessions : session[n].pc = "evict" /\ k \in session[n].hashes
    BY <1>1, <1>2, <1>3, <2>1 DEF StaleOnlyByRace, Truth
  <2> QED
    BY <1>4, <2>1, <2>2
<1> QED
  BY <1>5, <1>6, <1>7, <1>8 DEF IInv

LEMMA CrashOK == ASSUME IInv, Crash PROVE IInv'
<1>1. /\ TypeOK /\ Mutations /\ Snapshots
      /\ session' = [m \in Sessions |-> Idle]
      /\ faults' \in 0..MaxFaults /\ faults' # 0
      /\ UNCHANGED <<now, row, owner, used, cache, gate, changed, raced, rewritten, ops>>
  BY ApiKeyAssumption DEF IInv, Crash, Fault, db, TypeOK
<1>2. \A m \in Sessions : session'[m].pc = "idle"
  BY <1>1 DEF Idle
<1>3. TypeOK'
  BY <1>1 DEF TypeOK
<1>4. Mutations'
  BY <1>1, <1>2 DEF Mutations, SessionFits, Apart, Freshens, Committing
<1>5. Snapshots' /\ StaleOnlyByRace'
  BY <1>1, SnapshotsKept DEF StaleOnlyByRace
<1> QED
  BY <1>3, <1>4, <1>5 DEF IInv

\* A tick waits for a verdict, and for a lookup that is a tick old.
LEMMA TickOK == ASSUME IInv, Tick PROVE IInv'
<1>1. /\ TypeOK /\ Mutations /\ Snapshots /\ StaleOnlyByRace
      /\ now < MaxTime /\ now' = now + 1
      /\ \A g \in Gates : gate[g].pc # "decide" /\ (gate[g].pc = "put" => gate[g].at = now)
      /\ UNCHANGED <<row, owner, used, session, cache, gate, changed, raced, rewritten, ops, faults>>
  BY DEF IInv, Tick, db
<1>2. /\ now \in 0..MaxTime /\ now \in Nat /\ changed \in [Hashes -> 0..now]
      /\ \A h \in Hashes : cache[h].until \in Nat
  BY <1>1, ApiKeyAssumption DEF TypeOK
<1>3. now' \in 0..MaxTime /\ changed' \in [Hashes -> 0..now']
  BY <1>1, <1>2, ApiKeyAssumption
<1>4. TypeOK'
  BY <1>1, <1>3 DEF TypeOK
<1>5. Mutations'
  BY <1>1, MutationsKept
<1>6. CacheAges'
  BY <1>1, <1>2, ApiKeyAssumption DEF Snapshots, CacheAges, Truth
<1>7. LookupAges'
  BY <1>1, <1>2 DEF Snapshots, LookupAges, Truth
<1>8. ExpiriesAgree'
  BY <1>1 DEF Snapshots, ExpiriesAgree, Agrees, Truth
<1>9. StaleOnlyByRace'
  BY <1>1, <1>2 DEF StaleOnlyByRace
<1> QED
  BY <1>4, <1>5, <1>6, <1>7, <1>8, <1>9 DEF IInv, Snapshots

-------------------------------------------------------------------------------
(* The gateway's requests.                                                 *)

\* A step of one request that leaves the cache alone and has in hand, if
\* anything, a snapshot that is no older than the bounds allow.
LEMMA GateOK ==
  ASSUME IInv, NEW g \in Gates, NEW to \in Gate \cup {Idle}, gate' = [gate EXCEPT ![g] = to],
         faults' \in faults..MaxFaults,
         UNCHANGED <<now, row, owner, used, session, cache, changed, raced, rewritten, ops>>,
         to.pc = "put" => to.at = now /\ to.rec = Truth(to.hash),
         to.pc = "decide" /\ to.rec # Truth(to.hash) => now < changed[to.hash] + CacheTtl + 1,
         to.pc \in {"put", "decide"} /\ ~rewritten => Agrees(to.rec, to.hash)
  PROVE  IInv'
<1>1. /\ TypeOK /\ Mutations /\ Snapshots /\ StaleOnlyByRace
      /\ gate \in [Gates -> Gate \cup {Idle}] /\ now \in Nat
      /\ faults \in Nat
  BY ApiKeyAssumption DEF IInv, TypeOK
<1>2. /\ gate'[g] = to /\ gate' \in [Gates -> Gate \cup {Idle}]
      /\ \A f \in Gates \ {g} : gate'[f] = gate[f]
      /\ faults' \in 0..MaxFaults /\ (faults' = 0 => faults = 0)
  BY <1>1, ApiKeyAssumption
<1>3. TypeOK'
  BY <1>1, <1>2 DEF TypeOK
<1>4. Mutations'
  BY <1>1, MutationsKept
<1>5. CacheAges'
  BY <1>1 DEF Snapshots, CacheAges, Truth
<1>6. LookupAges'
  BY <1>1, <1>2 DEF Snapshots, LookupAges, Truth
<1>7. ExpiriesAgree'
  BY <1>1, <1>2 DEF Snapshots, ExpiriesAgree, Agrees, Truth
<1>8. StaleOnlyByRace'
  BY <1>1, <1>2 DEF StaleOnlyByRace
<1> QED
  BY <1>3, <1>4, <1>5, <1>6, <1>7, <1>8 DEF IInv, Snapshots

\* The state that GoOn moves a request to.
LEMMA GoOnTo ==
  ASSUME IInv, NEW g \in Gates, gate[g].pc # "idle",
         NEW pc \in {"get", "fetch", "put", "decide", "done"}, NEW rec \in Record \cup {NoRecord},
         GoOn(g, pc, rec)
  PROVE  \E to \in Gate : /\ gate' = [gate EXCEPT ![g] = to]
                          /\ to.pc = pc /\ to.rec = rec /\ to.at = now /\ to.hash = gate[g].hash
                          /\ to.hash \in Hashes
<1>1. gate[g] \in Gate /\ gate \in [Gates -> Gate \cup {Idle}] /\ now \in 0..MaxTime
  BY DEF IInv, TypeOK, Idle
<1> DEFINE to == [gate[g] EXCEPT !.pc = pc, !.rec = rec, !.at = now]
<1>2. /\ to \in Gate /\ to.pc = pc /\ to.rec = rec /\ to.at = now /\ to.hash = gate[g].hash
      /\ to.hash \in Hashes
  BY <1>1 DEF Gate
<1>3. gate' = [gate EXCEPT ![g] = to]
  BY <1>1 DEF GoOn
<1> QED
  BY <1>2, <1>3

LEMMA FaultRange ==
  ASSUME TypeOK, NoFault \/ Fault
  PROVE  faults' \in faults..MaxFaults /\ faults \in faults..MaxFaults
BY ApiKeyAssumption DEF TypeOK, NoFault, Fault

LEMMA RequestOK == ASSUME IInv, NEW g \in Gates, NEW h \in Hashes, Request(g, h) PROVE IInv'
<1> DEFINE to == [pc |-> "get", hash |-> h, rec |-> NoRecord, at |-> now, ok |-> FALSE]
<1>1. TypeOK
  BY DEF IInv
<1>2. to \in Gate /\ to.pc = "get"
  BY <1>1 DEF TypeOK, Gate
<1>3. /\ gate' = [gate EXCEPT ![g] = to]
      /\ UNCHANGED <<now, row, owner, used, session, cache, changed, raced, rewritten, ops, faults>>
  BY DEF Request, db
<1> HIDE DEF to
<1>4. faults' \in faults..MaxFaults
  BY <1>1, <1>3, FaultRange DEF NoFault
<1> QED
  BY <1>2, <1>3, <1>4, GateOK

\* A hit has the age the cache allows.
LEMMA CacheGetOK == ASSUME IInv, NEW g \in Gates, CacheGet(g) PROVE IInv'
<1> DEFINE h == gate[g].hash
           c == cache[h]
<1>1. /\ TypeOK /\ Snapshots /\ gate[g].pc = "get"
      /\ UNCHANGED <<now, row, owner, used, session, cache, changed, raced, rewritten, ops>>
      /\ NoFault \/ Fault
      /\ \/ c.until > now /\ GoOn(g, "decide", c.rec)
         \/ GoOn(g, "fetch", NoRecord)
  BY DEF IInv, CacheGet, db
<1>2. h \in Hashes /\ c.rec \in Record \cup {NoRecord} /\ c.until \in Nat /\ now \in Nat
  <2>1. gate[g] \in Gate
    BY <1>1 DEF TypeOK, Idle
  <2> QED
    BY <1>1, <2>1, ApiKeyAssumption DEF TypeOK, Gate
<1>3. faults' \in faults..MaxFaults
  BY <1>1, FaultRange
<1>4. CASE c.until > now /\ GoOn(g, "decide", c.rec)
  <2>1. PICK to \in Gate : /\ gate' = [gate EXCEPT ![g] = to]
                           /\ to.pc = "decide" /\ to.rec = c.rec /\ to.hash = h
    BY <1>1, <1>2, <1>4, GoOnTo
  <2>2. c.rec # Truth(h) => now < changed[h] + CacheTtl + 1
    <3>1. changed[h] \in Nat
      BY <1>1, <1>2, ApiKeyAssumption DEF TypeOK
    <3> QED
      BY <1>1, <1>2, <1>4, <3>1, ApiKeyAssumption DEF Snapshots, CacheAges
  <2>3. ~rewritten => Agrees(c.rec, h)
    BY <1>1, <1>2 DEF Snapshots, ExpiriesAgree
  <2> QED
    BY <1>1, <1>3, <2>1, <2>2, <2>3, GateOK
<1>5. CASE GoOn(g, "fetch", NoRecord)
  <2>1. PICK to \in Gate : gate' = [gate EXCEPT ![g] = to] /\ to.pc = "fetch"
    BY <1>1, <1>5, GoOnTo
  <2> QED
    BY <1>1, <1>3, <2>1, GateOK
<1> QED
  BY <1>1, <1>4, <1>5

\* A lookup answers what the database says.
LEMMA OrgCpVerifyOK == ASSUME IInv, NEW g \in Gates, OrgCpVerify(g) PROVE IInv'
<1> DEFINE h == gate[g].hash
<1>1. /\ TypeOK /\ gate[g].pc = "fetch"
      /\ UNCHANGED <<now, row, owner, used, session, cache, changed, raced, rewritten, ops>>
      /\ NoFault \/ Fault
      /\ \/ GoOn(g, IF Truth(h) = NoRecord THEN "decide" ELSE "put", Truth(h))
         \/ gate' = [gate EXCEPT ![g] = Idle]
  BY DEF IInv, OrgCpVerify, Truth, db
<1>2. Truth(h) \in Record \cup {NoRecord}
  BY <1>1, VerifyType DEF TypeOK, Truth
<1>3. faults' \in faults..MaxFaults
  BY <1>1, FaultRange
<1>4. CASE GoOn(g, IF Truth(h) = NoRecord THEN "decide" ELSE "put", Truth(h))
  <2>1. PICK to \in Gate : /\ gate' = [gate EXCEPT ![g] = to]
                           /\ to.pc \in {"decide", "put"} /\ to.rec = Truth(h)
                           /\ to.at = now /\ to.hash = h
    BY <1>1, <1>2, <1>4, GoOnTo
  <2>2. Agrees(to.rec, to.hash)
    BY <2>1 DEF Agrees
  <2> QED
    BY <1>1, <1>3, <2>1, <2>2, GateOK
<1>5. CASE gate' = [gate EXCEPT ![g] = Idle]
  <2>1. Idle.pc = "idle"
    BY DEF Idle
  <2> QED
    BY <1>1, <1>3, <1>5, <2>1, GateOK
<1> QED
  BY <1>1, <1>4, <1>5

LEMMA DecideOK == ASSUME IInv, NEW g \in Gates, Decide(g) \/ Done(g) PROVE IInv'
<1>1. /\ TypeOK /\ gate \in [Gates -> Gate \cup {Idle}] /\ gate[g] \in Gate /\ now \in 0..MaxTime
      /\ UNCHANGED <<now, row, owner, used, session, cache, changed, raced, rewritten, ops, faults>>
  BY DEF IInv, TypeOK, Idle, Decide, Done, db
<1>2. faults' \in faults..MaxFaults
  BY <1>1, FaultRange DEF NoFault
<1>3. CASE Decide(g)
  <2> DEFINE ok == IsValid(gate[g].rec)
             to == [gate[g] EXCEPT !.pc = "done", !.ok = ok, !.at = now]
  <2>1. ok \in BOOLEAN
    BY Zenon DEF IsValid
  <2>2. gate' = [gate EXCEPT ![g] = to]
    BY <1>1, <1>3 DEF Decide
  <2> HIDE DEF ok
  <2>3. to \in Gate /\ to.pc = "done"
    BY <1>1, <2>1 DEF Gate
  <2> HIDE DEF to
  <2> QED
    BY <1>1, <1>2, <2>2, <2>3, GateOK
<1>4. CASE Done(g)
  <2>1. Idle.pc = "idle" /\ gate' = [gate EXCEPT ![g] = Idle]
    BY <1>4 DEF Idle, Done
  <2> QED
    BY <1>1, <1>2, <2>1, GateOK
<1> QED
  BY <1>3, <1>4

\* What is cached late is a tick late at most, and never past its own expiry.
LEMMA CachePutOK == ASSUME IInv, NEW g \in Gates, CachePut(g) PROVE IInv'
<1> DEFINE h == gate[g].hash
           rec == gate[g].rec
<1>1. /\ TypeOK /\ Mutations /\ Snapshots /\ StaleOnlyByRace /\ gate[g].pc = "put"
      /\ GoOn(g, "decide", rec)
      /\ UNCHANGED <<now, row, owner, used, session, changed, rewritten, ops>>
  BY DEF IInv, CachePut, db
<1>2. /\ h \in Hashes /\ rec \in Record \cup {NoRecord} /\ gate[g].at \in Nat /\ now \in Nat
      /\ rec.expires \in Nat /\ now \in 0..MaxTime
      /\ cache \in [Hashes -> [rec : Record \cup {NoRecord}, until : 0..(MaxTime + CacheTtl)]]
      /\ gate \in [Gates -> Gate \cup {Idle}]
      /\ \A k \in Hashes : changed[k] \in Nat
  <2>1. gate[g] \in Gate
    BY <1>1 DEF TypeOK, Idle
  <2> QED
    BY <1>1, <2>1, RecordFacts, ApiKeyAssumption DEF TypeOK, Gate
<1>3. PICK to \in Gate : /\ gate' = [gate EXCEPT ![g] = to]
                         /\ to.pc = "decide" /\ to.rec = rec /\ to.hash = h
  BY <1>1, <1>2, GoOnTo
<1>4. /\ gate[g].at <= now /\ now <= gate[g].at + 1
      /\ rec # Truth(h) => gate[g].at <= changed[h]
      /\ ~rewritten => Agrees(rec, h)
  BY <1>1 DEF Snapshots, LookupAges, ExpiriesAgree
<1>5. rec # Truth(h) => now < changed[h] + CacheTtl + 1
  BY <1>2, <1>4, ApiKeyAssumption
<1>6. CASE Fault /\ UNCHANGED <<cache, raced>>
  <2>1. faults' \in faults..MaxFaults
    BY <1>1, <1>6, FaultRange
  <2> QED
    BY <1>1, <1>3, <1>4, <1>5, <1>6, <2>1, GateOK
<1>7. CASE /\ IF rec.expires > now
              THEN cache' = [cache EXCEPT ![h] = [rec |-> rec, until |-> now + PutTtl(rec)]]
              ELSE UNCHANGED cache
           /\ raced' = (raced \/ rec # Verify(row, owner, h)) /\ NoFault
  <2>1. /\ cache' \in [Hashes -> [rec : Record \cup {NoRecord}, until : 0..(MaxTime + CacheTtl)]]
        /\ \A k \in Hashes : \/ cache'[k] = cache[k]
                             \/ k = h /\ cache'[k].rec = rec /\ cache'[k].until <= now + CacheTtl
        /\ \A k \in Hashes : cache[k].until \in Nat /\ cache'[k].until \in Nat
    <3>1. \A k \in Hashes : cache[k].until \in Nat
      BY <1>2, ApiKeyAssumption
    <3>2. CASE rec.expires > now
      <4> DEFINE u == now + PutTtl(rec)
      <4>1. u \in 0..(MaxTime + CacheTtl) /\ u <= now + CacheTtl /\ u \in Nat
        BY <1>2, <3>2, ApiKeyAssumption DEF PutTtl, Least
      <4>2. cache' = [cache EXCEPT ![h] = [rec |-> rec, until |-> u]]
        BY <1>7, <3>2
      <4> HIDE DEF u
      <4> QED
        BY <1>2, <3>1, <4>1, <4>2
    <3>3. CASE ~(rec.expires > now)
      BY <1>2, <1>7, <3>1, <3>3
    <3> QED
      BY <3>2, <3>3
  <2>2. faults' = faults
    BY <1>7 DEF NoFault
  <2>3. raced' \in BOOLEAN
    BY <1>7, Zenon
  <2>4. ~raced' => ~raced /\ rec = Truth(h)
    BY <1>7, Zenon DEF Truth
  <2>5. /\ gate' \in [Gates -> Gate \cup {Idle}] /\ gate'[g] = to
        /\ \A f \in Gates \ {g} : gate'[f] = gate[f]
    BY <1>2, <1>3
  <2>6. TypeOK'
    BY <1>1, <2>1, <2>2, <2>3, <2>5 DEF TypeOK
  <2>7. Mutations'
    BY <1>1, MutationsKept
  <2>8. CacheAges'
    <3>1. rec # Truth(h) => now + CacheTtl <= changed[h] + CacheTtl + 1
      BY <1>2, <1>4, ApiKeyAssumption
    <3> SUFFICES ASSUME NEW k \in Hashes
                 PROVE  /\ cache'[k].until <= now + CacheTtl
                        /\ cache'[k].until > now /\ cache'[k].rec # Truth(k) =>
                             cache'[k].until <= changed[k] + CacheTtl + 1
      BY <1>1 DEF CacheAges, Truth
    <3>2. CASE cache'[k] = cache[k]
      BY <1>1, <3>2 DEF Snapshots, CacheAges
    <3>3. CASE k = h /\ cache'[k].rec = rec /\ cache'[k].until <= now + CacheTtl
      BY <1>2, <2>1, <3>1, <3>3, ApiKeyAssumption
    <3> QED
      BY <2>1, <3>2, <3>3
  <2>9. LookupAges'
    BY <1>1, <1>3, <1>5, <2>5 DEF Snapshots, LookupAges, Truth
  <2>10. ExpiriesAgree'
    BY <1>1, <1>3, <1>4, <2>1, <2>5 DEF Snapshots, ExpiriesAgree, Agrees, Truth
  <2>11. StaleOnlyByRace'
    BY <1>1, <2>1, <2>2, <2>4 DEF StaleOnlyByRace, Truth
  <2> QED
    BY <2>6, <2>7, <2>8, <2>9, <2>10, <2>11 DEF IInv, Snapshots
<1> QED
  BY <1>6, <1>7 DEF CachePut

-------------------------------------------------------------------------------
LEMMA StepOK == IInv /\ [Next]_vars => IInv'
<1> SUFFICES ASSUME IInv, [Next]_vars PROVE IInv'
  OBVIOUS
<1>1. CASE Tick \/ Crash
  BY <1>1, TickOK, CrashOK
<1>2. ASSUME NEW m \in Sessions, Mutate(m) PROVE IInv'
  BY <1>2, StartOK, CommitOK, EvictOK DEF Mutate
<1>3. ASSUME NEW g \in Gates, Gateway(g) PROVE IInv'
  BY <1>3, RequestOK, CacheGetOK, OrgCpVerifyOK, CachePutOK, DecideOK DEF Gateway
<1>4. CASE UNCHANGED vars
  <2>1. UNCHANGED <<now, row, owner, used, session, cache, gate, changed, raced, rewritten, ops,
                    faults>>
    BY <1>4 DEF vars
  <2>2. TypeOK' /\ StaleOnlyByRace'
    BY <2>1 DEF IInv, TypeOK, StaleOnlyByRace
  <2> QED
    BY <2>1, <2>2, SnapshotsKept, MutationsKept DEF IInv
<1> QED
  BY <1>1, <1>2, <1>3, <1>4 DEF Next

-------------------------------------------------------------------------------
(* The theorems.                                                           *)

\* The inductive invariant holds in every state of the two services.
THEOREM Inductive == Spec => []IInv
<1> QED
  BY InitOK, StepOK, PTL DEF Spec

\* Rows, sessions, cache and requests have their types, and no two keys ever
\* have one hash.
THEOREM ApiKeyTypes == Spec => []TypeOK
<1>1. IInv => TypeOK
  BY DEF IInv
<1> QED
  BY <1>1, Inductive, PTL

\* Commit, then evict: a cached snapshot that the database contradicts has its
\* eviction on the way, unless something overlapped or failed.
THEOREM EvictionFollowsCommit == Spec => []StaleOnlyByRace
<1>1. IInv => StaleOnlyByRace
  BY DEF IInv
<1> QED
  BY <1>1, Inductive, PTL

\* A verdict is given by one step, which looks at nothing but what is in hand.
LEMMA VerdictIsDecide ==
  ASSUME IInv, [Next]_vars, NEW g \in Gates, Decided(g)
  PROVE  Decide(g)
<1>1. gate[g].pc = "decide" /\ gate'[g] # gate[g] /\ gate'[g].pc = "done"
  BY DEF Decided
<1>2. gate \in [Gates -> Gate \cup {Idle}]
  BY DEF IInv, TypeOK
<1>3. PICK f \in Gates : Gateway(f)
  BY <1>1 DEF Next, Tick, Crash, Mutate, RotateKey, CreateKey, RevokeKey, UpdateKey, SuspendUser,
              ActivateUser, DeleteUser, Read, Commit, Evict, vars
<1>4. f = g
  <2>1. \E to : gate' = [gate EXCEPT ![f] = to]
    BY <1>3 DEF Gateway, Request, CacheGet, OrgCpVerify, CachePut, Decide, Done, GoOn
  <2> QED
    BY <1>1, <1>2, <2>1
<1> QED
  BY <1>1, <1>3, <1>4
  DEF Gateway, Request, CacheGet, OrgCpVerify, CachePut, Done, Idle

\* The age of a verdict the database contradicts is bounded by the cache's time
\* to live and a lookup's tick; and no key is admitted at or after its expiry
\* while no expiry and no hash is replaced, though nothing evicts it then.
THEOREM VerdictsTimely == Spec => VerdictsAreTimely
<1>1. ASSUME IInv, [Next]_vars, NEW g \in Gates, Decided(g)
      PROVE  /\ gate'[g].ok # Valid(gate[g].hash) =>
                  now < changed[gate[g].hash] + CacheTtl + 1
             /\ gate'[g].ok /\ ~rewritten => Verify(row, owner, gate[g].hash).expires > now
  <2> DEFINE h == gate[g].hash
             rec == gate[g].rec
  <2>1. /\ gate[g].pc = "decide" /\ gate[g] \in Gate /\ h \in Hashes
        /\ now \in Nat /\ rec \in Record \cup {NoRecord} /\ rec.expires \in Nat
    <3>1. gate[g].pc = "decide" /\ gate[g] \in Gate
      BY <1>1 DEF Decided, IInv, TypeOK, Idle
    <3> QED
      BY <1>1, <3>1, RecordFacts, ApiKeyAssumption DEF IInv, TypeOK, Gate
  <2>2. gate'[g].ok = IsValid(rec)
    <3>1. Decide(g)
      BY <1>1, VerdictIsDecide
    <3>2. gate' = [gate EXCEPT ![g] = [@ EXCEPT !.pc = "done", !.ok = IsValid(rec), !.at = now]]
      BY <3>1 DEF Decide
    <3>3. gate'[g] = [gate[g] EXCEPT !.pc = "done", !.ok = IsValid(rec), !.at = now]
      BY <1>1, <3>2, Zenon DEF IInv, TypeOK
    <3>4. DOMAIN gate[g] = {"pc", "hash", "rec", "at", "ok"}
      BY <2>1 DEF Gate
    <3> QED
      BY <3>3, <3>4, Zenon
  <2>3. rec = Truth(h) => gate'[g].ok = Valid(h)
    BY <2>2, Zenon DEF Truth, Valid, IsValid
  <2>4. rec # Truth(h) => now < changed[h] + CacheTtl + 1
    BY <1>1, <2>1 DEF IInv, Snapshots, LookupAges
  <2>5. ASSUME gate'[g].ok, ~rewritten PROVE Truth(h).expires > now
    <3>1. rec.expires > now
      BY <2>2, <2>5, Zenon DEF IsValid
    <3>2. Agrees(rec, h)
      BY <1>1, <2>1, <2>5 DEF IInv, Snapshots, ExpiriesAgree
    <3> QED
      BY <2>1, <3>1, <3>2 DEF Agrees
  <2> QED
    BY <2>3, <2>4, <2>5 DEF Truth
<1>2. IInv /\ [Next]_vars =>
        /\ \A g \in Gates : Decided(g) /\ gate'[g].ok # Valid(gate[g].hash) =>
             now < changed[gate[g].hash] + CacheTtl + 1
        /\ \A g \in Gates : Decided(g) /\ gate'[g].ok /\ ~rewritten =>
             Verify(row, owner, gate[g].hash).expires > now
  BY <1>1
<1> QED
  BY <1>2, Inductive, PTL DEF Spec, VerdictsAreTimely, StalenessBounded, ExpiryIsExact

===============================================================================
