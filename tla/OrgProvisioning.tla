-------------------------- MODULE OrgProvisioning --------------------------
(***************************************************************************)
(* The life of one organization across three services: the admin control   *)
(* plane owns its row and its plan (modules/organizations), provisions it  *)
(* in the organization control plane by an idempotent call between two     *)
(* local transactions, and tells billing its price, best-effort.           *)
(*                                                                         *)
(* A call that times out at the caller may be served later.  A request     *)
(* that has flushed its change holds the row's lock until it commits.      *)
(***************************************************************************)
EXTENDS Naturals, FiniteSets

CONSTANTS
  Workers, NoWorker,   \* concurrent requests of the admin control plane
  Plans, NoPlan,
  Ops,                 \* the operations of this instance
  MaxOps,              \* bound: requests
  MaxFaults            \* bound: failed calls and commits, timeouts, crashes

ASSUME ProvisioningAssumption ==
  NoWorker \notin Workers /\ NoPlan \notin Plans /\ MaxOps \in Nat /\ MaxFaults \in Nat

VARIABLES
  org,       \* admin control plane: the organizations row
  lock,      \* the request that holds the row's lock
  work,      \* work[w]: a request
  tenant,    \* organization control plane: the tenant row and its roles exist
  late,      \* calls to init that timed out and may still be served
  billed,    \* billing: the plan whose price it was told last
  lateNotes, \* notifications that timed out and may still be served
  patched,   \* history: a PATCH has set the status
  noteLost,  \* history: a notification was lost, late or of a change not committed
  overtaken, \* history: a change of plan overlapped a creation or a retry
  cutShort,  \* history: a workflow has died, or lost its database, before txn2
  ops,
  faults

vars == <<org, lock, work, tenant, late, billed, lateNotes, patched, noteLost, overtaken, cutShort, ops, faults>>
history == <<patched, noteLost, overtaken, cutShort>>
orgCp == <<tenant, late>>
billing == <<billed, lateNotes>>

Statuses == {"none", "provisioning", "failed", "active", "suspended", "deleted"}
Idle == [pc |-> "idle"]
Work == [pc : {"claim", "init", "settle", "note", "flush", "commit"},
         op : Ops, plan : Plans, failed : BOOLEAN]

Running == {w \in Workers : work[w] # Idle}
Quiet == Running = {}

TypeOK ==
  /\ org \in [status : Statuses, plan : Plans \cup {NoPlan}]
  /\ org.plan = NoPlan <=> org.status = "none"
  /\ lock \in Workers \cup {NoWorker}
  /\ work \in [Workers -> Work \cup {Idle}]
  /\ lock # NoWorker => work[lock] # Idle /\ work[lock].op = "plan"
  /\ tenant \in BOOLEAN /\ late \in 0..MaxFaults
  /\ billed \in Plans \cup {NoPlan} /\ lateNotes \subseteq Plans
  /\ patched \in BOOLEAN /\ noteLost \in BOOLEAN /\ overtaken \in BOOLEAN /\ cutShort \in BOOLEAN
  /\ ops \in 0..MaxOps /\ faults \in 0..MaxFaults

Init ==
  /\ org = [status |-> "none", plan |-> NoPlan] /\ lock = NoWorker
  /\ work = [w \in Workers |-> Idle]
  /\ tenant = FALSE /\ late = 0
  /\ billed = NoPlan /\ lateNotes = {}
  /\ patched = FALSE /\ noteLost = FALSE /\ overtaken = FALSE /\ cutShort = FALSE
  /\ ops = 0 /\ faults = 0

Fault == faults < MaxFaults /\ faults' = faults + 1
NoFault == UNCHANGED faults

Exists == org.status \notin {"none", "deleted"}

Start(w, op, pc, p) ==
  /\ work[w] = Idle /\ op \in Ops /\ ops < MaxOps /\ ops' = ops + 1
  /\ work' = [work EXCEPT ![w] = [pc |-> pc, op |-> op, plan |-> p, failed |-> FALSE]]
  /\ overtaken' = (overtaken \/ \E v \in Running : (work[v].op = "plan") # (op = "plan"))
  /\ UNCHANGED <<patched, noteLost, cutShort>>

GoOn(w, pc) == work' = [work EXCEPT ![w].pc = pc]
End(w) == work' = [work EXCEPT ![w] = Idle]

-----------------------------------------------------------------------------
(* create_org_workflow and retry_org_workflow *)

\* txn1: the plan exists, the name is new.
Create(w, p) ==
  /\ org.status = "none" /\ Start(w, "create", "init", p)
  /\ org' = [status |-> "provisioning", plan |-> p]
  /\ UNCHANGED <<lock, orgCp, billing, faults>>

Retry(w) ==
  /\ org.status = "failed" /\ Start(w, "retry", "claim", org.plan)
  /\ UNCHANGED <<org, lock, orgCp, billing, faults>>

\* The commit of the retry's first transaction; a row deleted since is an error.
Claim(w) ==
  /\ work[w].pc = "claim" /\ lock = NoWorker
  /\ IF Exists THEN org' = [org EXCEPT !.status = "provisioning"] /\ GoOn(w, "init")
     ELSE UNCHANGED org /\ End(w)
  /\ UNCHANGED <<lock, orgCp, billing, history, ops, faults>>

\* _init_org_cp: the tenant and its default roles in one transaction there, or
\* an error, or a timeout.
InitOrgCp(w) ==
  /\ work[w].pc = "init"
  /\ \/ tenant' = TRUE /\ GoOn(w, "settle") /\ UNCHANGED late /\ NoFault
     \/ /\ Fault
        /\ work' = [work EXCEPT ![w].pc = "settle", ![w].failed = TRUE]
        /\ UNCHANGED tenant /\ late' \in {late, late + 1}
  /\ UNCHANGED <<org, lock, billing, history, ops>>

LateInit ==
  /\ late > 0 /\ late' = late - 1 /\ tenant' = TRUE
  /\ UNCHANGED <<org, lock, work, billing, history, ops, faults>>

SettleUpserting(w) ==
  /\ work[w].pc = "settle" /\ lock = NoWorker
  /\ org' = [org EXCEPT !.status = IF work[w].failed THEN "failed" ELSE "active"]
  /\ IF work[w].failed THEN End(w) ELSE GoOn(w, "note")
  /\ UNCHANGED <<lock, orgCp, billing, history, ops, faults>>

SettleActive(w) ==
  /\ work[w].pc = "settle" /\ lock = NoWorker
  /\ org' = IF Exists THEN [org EXCEPT !.status = "active"] ELSE org
  /\ IF Exists THEN GoOn(w, "note") ELSE End(w)
  /\ UNCHANGED <<lock, orgCp, billing, history, ops, faults>>

SettleFailureRaisedFirst(w) ==
  /\ work[w].pc = "settle" /\ lock = NoWorker
  /\ org' = IF Exists /\ ~work[w].failed THEN [org EXCEPT !.status = "active"] ELSE org
  /\ IF Exists /\ ~work[w].failed THEN GoOn(w, "note") ELSE End(w)
  /\ UNCHANGED <<lock, orgCp, billing, history, ops, faults>>

SettleNotingCreates(w) ==
  /\ work[w].pc = "settle" /\ lock = NoWorker
  /\ org' = IF Exists THEN [org EXCEPT !.status = IF work[w].failed THEN "failed" ELSE "active"] ELSE org
  /\ IF Exists /\ ~work[w].failed /\ work[w].op = "create" THEN GoOn(w, "note") ELSE End(w)
  /\ UNCHANGED <<lock, orgCp, billing, history, ops, faults>>

\* txn2: the terminal status; a failure then ends the request with 502.  With
\* the row deleted, or the database lost, the request ends with an error.
Settle(w) ==
  /\ work[w].pc = "settle" /\ lock = NoWorker
  /\ \/ /\ org' = IF ~Exists THEN org
                   ELSE [org EXCEPT !.status = IF work[w].failed THEN "failed" ELSE "active"]
        /\ IF Exists /\ ~work[w].failed THEN GoOn(w, "note") ELSE End(w)
        /\ UNCHANGED cutShort /\ NoFault
     \/ Fault /\ cutShort' = TRUE /\ UNCHANGED org /\ End(w)
  /\ UNCHANGED <<lock, orgCp, billing, patched, noteLost, overtaken, ops>>

\* _notify_billing_subscription, best-effort: told, failed, or late.
Notify(w) ==
  /\ work[w].pc = "note"
  /\ \/ billed' = work[w].plan /\ UNCHANGED <<lateNotes, noteLost>> /\ NoFault
     \/ /\ Fault /\ noteLost' = TRUE /\ UNCHANGED billed
        /\ lateNotes' \in {lateNotes, lateNotes \cup {work[w].plan}}
  /\ IF work[w].op = "plan" THEN GoOn(w, "commit") ELSE End(w)
  /\ UNCHANGED <<org, lock, orgCp, patched, overtaken, cutShort, ops>>

LateNote(p) ==
  /\ p \in lateNotes
  /\ billed' = p /\ lateNotes' = lateNotes \ {p}
  /\ UNCHANGED <<org, lock, work, orgCp, history, ops, faults>>

-----------------------------------------------------------------------------
(* update_org and delete_org, one request-scoped transaction each *)

UpdatePlan(w, p) ==
  /\ Exists /\ p # org.plan /\ Start(w, "plan", "flush", p)
  /\ UNCHANGED <<org, lock, orgCp, billing, faults>>

\* The flush takes the row's lock; a row deleted since is an error.
Flush(w) ==
  /\ work[w].pc = "flush" /\ lock = NoWorker
  /\ IF Exists THEN lock' = w /\ GoOn(w, "note") ELSE UNCHANGED lock /\ End(w)
  /\ UNCHANGED <<org, orgCp, billing, history, ops, faults>>

CommitKeepingSession(w) ==
  /\ work[w].pc = "commit"
  /\ org' = [org EXCEPT !.plan = work[w].plan]
  /\ End(w)
  /\ UNCHANGED <<lock, orgCp, billing, history, ops, faults>>

\* get_session commits after the handler, and so after the notification.
CommitUpdate(w) ==
  /\ work[w].pc = "commit"
  /\ \/ org' = [org EXCEPT !.plan = work[w].plan] /\ UNCHANGED noteLost /\ NoFault
     \/ Fault /\ UNCHANGED org /\ noteLost' = TRUE
  /\ lock' = NoWorker /\ End(w)
  /\ UNCHANGED <<orgCp, billing, patched, overtaken, cutShort, ops>>

UpdateStatus(s) ==
  /\ "status" \in Ops /\ ops < MaxOps /\ ops' = ops + 1
  /\ Exists /\ lock = NoWorker /\ s # org.status
  /\ org' = [org EXCEPT !.status = s] /\ patched' = TRUE
  /\ UNCHANGED <<lock, work, orgCp, billing, noteLost, overtaken, cutShort, faults>>

\* Only the row goes: neither the tenant nor billing is told.
Delete ==
  /\ "delete" \in Ops /\ ops < MaxOps /\ ops' = ops + 1
  /\ Exists /\ lock = NoWorker
  /\ org' = [org EXCEPT !.status = "deleted"]
  /\ UNCHANGED <<lock, work, orgCp, billing, history, faults>>

\* The admin control plane dies: open transactions roll back, workflows stop.
Crash ==
  /\ ~Quiet /\ Fault
  /\ work' = [w \in Workers |-> Idle] /\ lock' = NoWorker
  /\ cutShort' = TRUE
  /\ noteLost' = (noteLost \/ \E w \in Workers : work[w] # Idle /\ work[w].pc \in {"note", "commit"})
  /\ UNCHANGED <<org, orgCp, billing, patched, overtaken, ops>>

-----------------------------------------------------------------------------

Step(w) == Claim(w) \/ InitOrgCp(w) \/ Settle(w) \/ Notify(w) \/ Flush(w) \/ CommitUpdate(w)

Next ==
  \/ \E w \in Workers : Step(w) \/ Retry(w) \/ \E p \in Plans : Create(w, p) \/ UpdatePlan(w, p)
  \/ LateInit \/ \E p \in Plans : LateNote(p)
  \/ \E s \in {"active", "suspended"} : UpdateStatus(s)
  \/ Delete \/ Crash

Spec == Init /\ [][Next]_vars

\* A request that is running goes on: its calls have timeouts and the lock is
\* released at its holder's commit.
FairSpec == Spec /\ \A w \in Workers : WF_vars(Step(w))

-----------------------------------------------------------------------------
(* Properties *)

\* An org the workflows made active has its tenant and roles, whichever calls
\* timed out, were retried or overlapped.
ActiveHasTenant == org.status = "active" /\ ~patched => tenant

\* When nothing is running and no notification was lost, billing has the price
\* of the plan of an active org: also of one that needed a retry
\* (service.py:185-187).  A change of plan that overlaps a creation or a retry is
\* left out: the notification of the workflow carries the plan it read first, and
\* may come last.
BilledIsPlan ==
  Quiet /\ org.status = "active" /\ ~patched /\ ~noteLost /\ ~overtaken => billed = org.plan

\* An active org can work and pays what it chose.
ActiveIsServedAndBilled == ActiveHasTenant /\ BilledIsPlan

\* A workflow that ends after its org was deleted does not bring it back.
DeletedStaysDeleted == [][org.status = "deleted" => org'.status = "deleted"]_vars

\* No org stays provisioning, from where no retry is possible, unless the
\* process died or lost its database between the two transactions.
ProvisioningEnds == org.status = "provisioning" ~> org.status # "provisioning" \/ cutShort

\* "A non-failed org is never retryable" (service.py:162-163): an active org is
\* not sent back by a retry.
ActiveNotReprovisioned ==
  [][org.status = "active" => org'.status \notin {"provisioning", "failed"}]_vars
=============================================================================
