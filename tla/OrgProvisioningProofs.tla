------------------------- MODULE OrgProvisioningProofs -------------------------
(***************************************************************************)
(* For any number of concurrent requests, plans, failed calls and crashes: *)
(* an organization that the workflows made active has its tenant, at rest  *)
(* billing has the price of its plan, and a deleted one stays deleted.     *)
(***************************************************************************)
EXTENDS OrgProvisioning, TLAPS

\* Where a workflow (create, retry) and a change of plan may be; the latter
\* holds the row's lock from its flush to its commit.
StageOK(w) ==
  /\ work[w].op # "plan" => work[w].pc \in {"claim", "init", "settle", "note"}
  /\ work[w].op = "plan" => work[w].pc \in {"flush", "note", "commit"}
  /\ work[w].op = "plan" /\ work[w].pc # "flush" => lock = w
Stages ==
  /\ \A w \in Running : StageOK(w)
  /\ lock # NoWorker => work[lock].pc # "flush"

\* An organization that is not there yet has no requests.
NoneIsQuiet == org.status = "none" => Quiet

\* Calls still to be served have each cost a timeout.
LateCounted == late <= faults

\* A workflow that goes on to make it active has had its call answered.
Prepared == \A w \in Workers : work[w].pc = "settle" /\ ~work[w].failed => tenant

Serving == Stages /\ NoneIsQuiet /\ LateCounted /\ Prepared /\ ActiveHasTenant

\* Unless one has overtaken the other, the requests in progress are all
\* workflows or all changes of plan,
OneKind ==
  ~overtaken => \A v, w \in Running : work[v].op = "plan" => work[w].op = "plan"

\* so that a workflow will tell billing the plan of the row.
SamePlan ==
  ~overtaken => \A w \in Running : work[w].op # "plan" => work[w].plan = org.plan

NothingLate == ~noteLost => lateNotes = {}

Committing == lock # NoWorker /\ work[lock].pc = "commit"

\* A change of plan tells billing before it commits,
ToldFirst == Committing /\ ~noteLost /\ ~overtaken => billed = work[lock].plan

\* and a workflow after.
Told ==
  org.status = "active" /\ ~patched /\ ~noteLost /\ ~overtaken /\ ~Committing =>
    billed = org.plan \/ \E w \in Running : work[w].op # "plan" /\ work[w].pc = "note"

Paying == OneKind /\ SamePlan /\ NothingLate /\ ToldFirst /\ Told

IInv == TypeOK /\ Serving /\ Paying

-------------------------------------------------------------------------------
LEMMA InitOK == Init => IInv
<1> SUFFICES ASSUME Init PROVE IInv
  OBVIOUS
<1>1. TypeOK
  <2>1. work \in [Workers -> Work \cup {Idle}]
    BY DEF Init
  <2>2. org \in [status : Statuses, plan : Plans \cup {NoPlan}]
    BY DEF Init, Statuses
  <2>3. 0 \in 0..MaxOps /\ 0 \in 0..MaxFaults
    BY ProvisioningAssumption
  <2> QED
    BY <2>1, <2>2, <2>3, ProvisioningAssumption DEF Init, TypeOK
<1>2. Running = {}
  BY DEF Init, Running
<1>3. Serving
  BY <1>2, ProvisioningAssumption
     DEF Init, Idle, Serving, Stages, NoneIsQuiet, Quiet, LateCounted, Prepared, ActiveHasTenant
<1>4. Paying
  BY <1>2 DEF Init, Paying, OneKind, SamePlan, NothingLate, ToldFirst, Told, Committing
<1> QED
  BY <1>1, <1>3, <1>4 DEF IInv

\* A request that is somewhere is a whole one.
LEMMA Busy ==
  ASSUME TypeOK, NEW w \in Workers, work[w].pc # "idle"
  PROVE  work[w] \in Work /\ w \in Running
BY DEF TypeOK, Idle, Running

\* What a step of one request leaves of the others.
LEMMA OneMoves ==
  ASSUME TypeOK, NEW w \in Workers, NEW q \in Work \cup {Idle},
         work' = [work EXCEPT ![w] = q]
  PROVE  /\ work' \in [Workers -> Work \cup {Idle}]
         /\ \A v \in Workers : work'[v] = IF v = w THEN q ELSE work[v]
         /\ Running' = IF q = Idle THEN Running \ {w} ELSE Running \cup {w}
BY DEF TypeOK, Running

LEMMA WentOn ==
  ASSUME TypeOK, NEW w \in Workers, work[w].pc # "idle", NEW pc, GoOn(w, pc),
         pc \in {"claim", "init", "settle", "note", "flush", "commit"}
  PROVE  /\ work' \in [Workers -> Work \cup {Idle}]
         /\ \A v \in Workers : v # w => work'[v] = work[v]
         /\ work'[w].pc = pc /\ work'[w].op = work[w].op
         /\ work'[w].plan = work[w].plan /\ work'[w].failed = work[w].failed
         /\ work'[w] # Idle
         /\ Running' = Running
<1> DEFINE q == [work[w] EXCEPT !.pc = pc]
<1>1. work[w] \in Work /\ w \in Running
  BY Busy
<1>2. q \in Work /\ q # Idle
  BY <1>1 DEF Work, Idle
<1>3. work' = [work EXCEPT ![w] = q]
  BY DEF GoOn
<1>4. q.pc = pc /\ q.op = work[w].op /\ q.plan = work[w].plan /\ q.failed = work[w].failed
  BY <1>1 DEF Work
<1> HIDE DEF q
<1>5. Running \cup {w} = Running
  BY <1>1
<1> QED
  BY <1>2, <1>3, <1>4, <1>5, OneMoves

LEMMA Ended ==
  ASSUME TypeOK, NEW w \in Workers, End(w)
  PROVE  /\ work' \in [Workers -> Work \cup {Idle}]
         /\ \A v \in Workers : v # w => work'[v] = work[v]
         /\ work'[w] = Idle
         /\ Running' = Running \ {w}
BY OneMoves DEF End

LEMMA Started ==
  ASSUME TypeOK, NEW w \in Workers, NEW op, NEW pc, NEW p \in Plans, Start(w, op, pc, p),
         pc \in {"claim", "init", "settle", "note", "flush", "commit"}
  PROVE  /\ work' \in [Workers -> Work \cup {Idle}]
         /\ \A v \in Workers : v # w => work'[v] = work[v]
         /\ work'[w] = [pc |-> pc, op |-> op, plan |-> p, failed |-> FALSE]
         /\ work'[w] # Idle
         /\ Running' = Running \cup {w} /\ w \notin Running
         /\ ops' \in 0..MaxOps /\ overtaken' \in BOOLEAN
<1> DEFINE q == [pc |-> pc, op |-> op, plan |-> p, failed |-> FALSE]
<1>1. q \in Work /\ q # Idle /\ work' = [work EXCEPT ![w] = q] /\ work[w] = Idle
  BY DEF Start, Work, Idle
<1>2. ops' \in 0..MaxOps /\ overtaken' \in BOOLEAN
  BY ProvisioningAssumption DEF Start, TypeOK
<1> HIDE DEF q
<1>3. w \notin Running
  BY <1>1 DEF Running
<1>4. /\ work' \in [Workers -> Work \cup {Idle}]
      /\ \A v \in Workers : work'[v] = IF v = w THEN q ELSE work[v]
      /\ Running' = Running \cup {w}
  BY <1>1, OneMoves
<1> QED
  BY <1>1, <1>2, <1>3, <1>4 DEF q

-------------------------------------------------------------------------------
(* create_org_workflow and retry_org_workflow.                             *)

LEMMA CreateKeeps ==
  ASSUME IInv, NEW w \in Workers, NEW p \in Plans, Create(w, p) PROVE IInv'
<1> USE DEF IInv
<1>1. /\ org.status = "none" /\ Start(w, "create", "init", p)
      /\ org' = [status |-> "provisioning", plan |-> p]
      /\ UNCHANGED <<lock, tenant, late, billed, lateNotes, faults, patched, noteLost, cutShort>>
  BY DEF Create, Start, orgCp, billing
<1>2. Running = {} /\ lock = NoWorker
  BY <1>1 DEF Serving, NoneIsQuiet, Quiet, TypeOK, Running
<1>3. /\ work' \in [Workers -> Work \cup {Idle}]
      /\ Running' = {w}
      /\ work'[w] = [pc |-> "init", op |-> "create", plan |-> p, failed |-> FALSE]
      /\ ops' \in 0..MaxOps /\ overtaken' \in BOOLEAN
      /\ \A v \in Workers : v # w => work'[v] = Idle
  BY <1>1, <1>2, Started DEF Running
<1>4. TypeOK'
  BY <1>1, <1>2, <1>3, ProvisioningAssumption DEF TypeOK, Statuses
<1>5. Serving'
  BY <1>1, <1>2, <1>3 DEF Serving, Stages, StageOK, NoneIsQuiet, Quiet, LateCounted, Prepared,
                          ActiveHasTenant, Idle
<1>6. Paying'
  BY <1>1, <1>2, <1>3 DEF Paying, OneKind, SamePlan, NothingLate, ToldFirst, Told, Committing
<1> QED
  BY <1>4, <1>5, <1>6

\* A request that starts while none of the other kind runs, or overtakes.
LEMMA StartKeeps ==
  ASSUME IInv, NEW w \in Workers, Retry(w) \/ \E p \in Plans : UpdatePlan(w, p) PROVE IInv'
<1> USE DEF IInv
<1>1. PICK op \in {"retry", "plan"}, pc \in {"claim", "flush"}, p \in Plans :
        /\ Start(w, op, pc, p)
        /\ op = "retry" => pc = "claim" /\ p = org.plan
        /\ op = "plan" => pc = "flush"
  BY DEF Retry, UpdatePlan, TypeOK
<1>2. /\ UNCHANGED <<org, lock, tenant, late, billed, lateNotes, faults, patched, noteLost, cutShort>>
      /\ org.status # "none"
      /\ overtaken' = (overtaken \/ \E v \in Running : (work[v].op = "plan") # (op = "plan"))
  BY <1>1 DEF Retry, UpdatePlan, orgCp, billing, Start, Exists
<1>3. /\ work' \in [Workers -> Work \cup {Idle}]
      /\ \A v \in Workers : v # w => work'[v] = work[v]
      /\ work'[w] = [pc |-> pc, op |-> op, plan |-> p, failed |-> FALSE]
      /\ work'[w] # Idle
      /\ Running' = Running \cup {w} /\ w \notin Running
      /\ ops' \in 0..MaxOps /\ overtaken' \in BOOLEAN
  BY <1>1, Started
<1>4. lock # w
  BY <1>3, ProvisioningAssumption DEF TypeOK, Running
<1>5. TypeOK'
  BY <1>2, <1>3, <1>4 DEF TypeOK
<1>6. Serving'
  BY <1>1, <1>2, <1>3, <1>4
     DEF TypeOK, Serving, Stages, StageOK, NoneIsQuiet, LateCounted, Prepared, ActiveHasTenant,
         Running
<1>7. Paying'
  <2>1. /\ work'[w].op = op /\ work'[w].plan = p
        /\ \A v \in Running : v # w /\ work'[v] = work[v]
    BY <1>3 DEF Running
  <2>3. OneKind'
    BY <1>1, <1>2, <1>3, <2>1 DEF Paying, OneKind
  <2>4. SamePlan'
    BY <1>1, <1>2, <1>3, <2>1 DEF Paying, SamePlan
  <2>2. NothingLate' /\ ToldFirst' /\ Told'
    BY <1>2, <1>3, <1>4 DEF Paying, NothingLate, ToldFirst, Told, Committing, TypeOK, Running
  <2> QED
    BY <2>3, <2>4, <2>2 DEF Paying
<1> QED
  BY <1>5, <1>6, <1>7

\* The retry's first transaction.
LEMMA ClaimKeeps ==
  ASSUME IInv, NEW w \in Workers, Claim(w) PROVE IInv'
<1> USE DEF IInv
<1>1. /\ work[w].pc = "claim" /\ lock = NoWorker
      /\ UNCHANGED <<lock, tenant, late, billed, lateNotes, faults, patched, noteLost, cutShort, overtaken, ops>>
      /\ \/ Exists /\ org' = [org EXCEPT !.status = "provisioning"] /\ GoOn(w, "init")
         \/ UNCHANGED org /\ End(w)
  BY DEF Claim, orgCp, billing, history
<1>2. w \in Running /\ work[w] \in Work
  BY <1>1, Busy
<1>3. work' \in [Workers -> Work \cup {Idle}] /\ \A v \in Workers : v # w => work'[v] = work[v]
  BY <1>1, WentOn, Ended
<1>4. /\ org' \in [status : Statuses, plan : Plans \cup {NoPlan}]
      /\ org'.plan = org.plan /\ org.status # "none" /\ org'.status # "none"
      /\ org'.status = "active" => org.status = "active"
  BY <1>1, <1>2 DEF TypeOK, Serving, NoneIsQuiet, Quiet, Statuses, Exists
<1>5. /\ Running' \subseteq Running
      /\ w \in Running' => /\ work'[w].pc = "init" /\ work'[w].op = work[w].op
                           /\ work'[w].plan = work[w].plan
      /\ work'[w].pc \in {"init", "idle"}
  BY <1>1, <1>2, WentOn, Ended DEF Idle
<1>6. work[w].op # "plan"
  BY <1>1, <1>2 DEF Serving, Stages, StageOK
<1>7. TypeOK'
  BY <1>1, <1>3, <1>4 DEF TypeOK
<1>8. Serving'
  BY <1>1, <1>3, <1>4, <1>5, <1>6
     DEF Serving, Stages, StageOK, NoneIsQuiet, LateCounted, Prepared, ActiveHasTenant, Running
<1>9. Paying'
  BY <1>1, <1>3, <1>4, <1>5, <1>6
     DEF Paying, OneKind, SamePlan, NothingLate, ToldFirst, Told, Committing, Running
<1> QED
  BY <1>7, <1>8, <1>9

LEMMA InitOrgCpKeeps ==
  ASSUME IInv, NEW w \in Workers, InitOrgCp(w) PROVE IInv'
<1> USE DEF IInv
<1>1. /\ work[w].pc = "init"
      /\ UNCHANGED <<org, lock, billed, lateNotes, patched, noteLost, cutShort, overtaken, ops>>
      /\ \/ tenant' = TRUE /\ GoOn(w, "settle") /\ UNCHANGED late /\ NoFault
         \/ /\ Fault
            /\ work' = [work EXCEPT ![w].pc = "settle", ![w].failed = TRUE]
            /\ UNCHANGED tenant /\ late' \in {late, late + 1}
  BY DEF InitOrgCp, billing, history
<1>2. w \in Running /\ work[w] \in Work
  BY <1>1, Busy
<1>3. /\ work' \in [Workers -> Work \cup {Idle}] /\ \A v \in Workers : v # w => work'[v] = work[v]
      /\ Running' = Running
      /\ work'[w].pc = "settle" /\ work'[w].op = work[w].op /\ work'[w].plan = work[w].plan
      /\ ~work'[w].failed => tenant'
      /\ work'[w] # Idle
  <2>1. CASE GoOn(w, "settle") /\ tenant' = TRUE
    BY <1>1, <2>1, WentOn
  <2>2. CASE work' = [work EXCEPT ![w].pc = "settle", ![w].failed = TRUE]
    <3> DEFINE q == [work[w] EXCEPT !.pc = "settle", !.failed = TRUE]
    <3>1. q \in Work /\ q.pc = "settle" /\ q.failed = TRUE /\ q.op = work[w].op /\ q.plan = work[w].plan
      BY <1>2 DEF Work
    <3>2. work' = [work EXCEPT ![w] = q]
      BY <2>2
    <3>3. q # Idle
      BY <3>1 DEF Idle
    <3> HIDE DEF q
    <3>4. /\ work' \in [Workers -> Work \cup {Idle}]
          /\ \A v \in Workers : v # w => work'[v] = work[v]
          /\ work'[w] = q
          /\ Running' = Running \cup {w}
      BY <3>1, <3>2, <3>3, OneMoves
    <3>5. Running' = Running
      BY <1>2, <3>4
    <3>6. work'[w].failed = TRUE
      BY <3>1, <3>4
    <3>7. ~work'[w].failed => tenant'
      BY <3>6, Zenon
    <3> QED
      BY <3>1, <3>3, <3>4, <3>5, <3>7
  <2> QED
    BY <1>1, <2>1, <2>2
<1>4. /\ late' <= faults' /\ faults' \in 0..MaxFaults /\ late' \in 0..MaxFaults
      /\ tenant' \in BOOLEAN /\ (tenant => tenant')
  <2>1. late' <= faults' /\ faults' \in 0..MaxFaults /\ late' \in 0..MaxFaults
    BY <1>1, ProvisioningAssumption DEF TypeOK, Serving, LateCounted, Fault, NoFault
  <2>2. tenant' \in BOOLEAN /\ (tenant => tenant')
    BY <1>1, Zenon DEF TypeOK
  <2> QED
    BY <2>1, <2>2
<1>5. lock # w
  BY <1>1, <1>2, ProvisioningAssumption DEF Serving, Stages, StageOK, TypeOK
<1>6. TypeOK'
  BY <1>1, <1>3, <1>4, <1>5 DEF TypeOK
<1>7. Serving'
  BY <1>1, <1>2, <1>3, <1>4, <1>5
     DEF TypeOK, Serving, Stages, StageOK, NoneIsQuiet, Quiet, LateCounted, Prepared, ActiveHasTenant, Running
<1>8. Paying'
  BY <1>1, <1>2, <1>3, <1>5
     DEF TypeOK, Paying, OneKind, SamePlan, NothingLate, ToldFirst, Told, Committing, Running
<1> QED
  BY <1>6, <1>7, <1>8

\* A call that timed out and is served all the same.
LEMMA LateInitKeeps ==
  ASSUME IInv, LateInit PROVE IInv'
<1> USE DEF IInv
<1>1. /\ UNCHANGED <<org, lock, work, billed, lateNotes, patched, noteLost, overtaken, cutShort, ops, faults>>
      /\ late > 0 /\ late' = late - 1 /\ tenant' = TRUE
  BY DEF LateInit, billing, history
<1>2. late' \in 0..MaxFaults /\ late' <= faults
  BY <1>1, ProvisioningAssumption DEF TypeOK, Serving, LateCounted
<1>3. tenant' /\ tenant' \in BOOLEAN
  BY <1>1, Zenon
<1>4. Running' = Running
  BY <1>1 DEF Running
<1>5. TypeOK'
  BY <1>1, <1>2, <1>3 DEF TypeOK
<1>6. Serving'
  BY <1>1, <1>2, <1>3, <1>4
     DEF Serving, Stages, StageOK, NoneIsQuiet, Quiet, LateCounted, Prepared, ActiveHasTenant
<1>7. Paying'
  BY <1>1, <1>4 DEF Paying, OneKind, SamePlan, NothingLate, ToldFirst, Told, Committing
<1> QED
  BY <1>5, <1>6, <1>7

\* The terminal status of a workflow.
LEMMA SettleKeeps ==
  ASSUME IInv, NEW w \in Workers, Settle(w) PROVE IInv'
<1> USE DEF IInv
<1>1. /\ work[w].pc = "settle" /\ lock = NoWorker
      /\ UNCHANGED <<lock, tenant, late, billed, lateNotes, patched, noteLost, overtaken, ops>>
      /\ \/ /\ Exists /\ ~work[w].failed /\ GoOn(w, "note")
            /\ org' = [org EXCEPT !.status = "active"]
         \/ /\ End(w)
            /\ org' \in {org, [org EXCEPT !.status = "failed"]}
            /\ org' # org => Exists
  BY DEF Settle, orgCp, billing
<1>2. w \in Running /\ work[w] \in Work
  BY <1>1, Busy
<1>3. work' \in [Workers -> Work \cup {Idle}] /\ \A v \in Workers : v # w => work'[v] = work[v]
  BY <1>1, WentOn, Ended
<1>4. /\ org' \in [status : Statuses, plan : Plans \cup {NoPlan}]
      /\ org'.plan = org.plan /\ org.status # "none" /\ org'.status # "none"
  BY <1>1, <1>2 DEF TypeOK, Serving, NoneIsQuiet, Quiet, Statuses, Exists
<1>5. cutShort' \in BOOLEAN /\ faults' \in 0..MaxFaults /\ faults <= faults'
  <2>1. faults' \in 0..MaxFaults /\ faults <= faults'
    BY ProvisioningAssumption DEF Settle, Fault, NoFault, TypeOK
  <2>2. cutShort' \in BOOLEAN
    BY Zenon DEF Settle, TypeOK
  <2> QED
    BY <2>1, <2>2
<1>6. work[w].op # "plan"
  BY <1>1, <1>2 DEF Serving, Stages, StageOK
<1>7. TypeOK'
  BY <1>1, <1>3, <1>4, <1>5 DEF TypeOK
<1>8. CASE Exists /\ ~work[w].failed /\ GoOn(w, "note") /\ org' = [org EXCEPT !.status = "active"]
  <2>1. tenant
    BY <1>1, <1>8 DEF Serving, Prepared
  <2>2. /\ Running' = Running /\ work'[w].pc = "note" /\ work'[w].op = work[w].op
        /\ work'[w].plan = work[w].plan
    BY <1>1, <1>8, WentOn
  <2>3. Serving'
    BY <1>1, <1>2, <1>3, <1>4, <1>5, <1>6, <2>1, <2>2
       DEF TypeOK, Serving, Stages, StageOK, NoneIsQuiet, LateCounted, Prepared, ActiveHasTenant, Running
  <2>4. OneKind' /\ SamePlan'
    BY <1>1, <1>2, <1>3, <1>4, <1>6, <2>2 DEF Paying, OneKind, SamePlan, Running
  <2>5. NothingLate' /\ ToldFirst' /\ Told'
    BY <1>1, <1>2, <1>6, <2>2 DEF Paying, NothingLate, ToldFirst, Told, Committing
  <2> QED
    BY <1>7, <2>3, <2>4, <2>5 DEF Paying
<1>9. CASE End(w) /\ org' \in {org, [org EXCEPT !.status = "failed"]}
  <2>1. Running' = Running \ {w} /\ work'[w] = Idle
    BY <1>9, Ended
  <2>2. org'.status = "active" => org.status = "active"
    BY <1>9 DEF TypeOK
  <2>3. Serving'
    BY <1>1, <1>2, <1>3, <1>4, <1>5, <2>1, <2>2
       DEF TypeOK, Serving, Stages, StageOK, NoneIsQuiet, LateCounted, Prepared, ActiveHasTenant, Running, Idle
  <2>4. OneKind' /\ SamePlan'
    BY <1>1, <1>2, <1>3, <1>4, <2>1 DEF Paying, OneKind, SamePlan, Running
  <2>5. NothingLate' /\ ToldFirst' /\ Told'
    BY <1>1, <1>2, <1>3, <1>4, <2>1, <2>2
       DEF Paying, NothingLate, ToldFirst, Told, Committing, Running
  <2> QED
    BY <1>7, <2>3, <2>4, <2>5 DEF Paying
<1> QED
  BY <1>1, <1>8, <1>9

-------------------------------------------------------------------------------
(* Notifications, and the transactions of update_org and delete_org.       *)

LEMMA NotifyKeeps ==
  ASSUME IInv, NEW w \in Workers, Notify(w) PROVE IInv'
<1> USE DEF IInv
<1> DEFINE isPlan == work[w].op = "plan"
<1>1. /\ work[w].pc = "note"
      /\ UNCHANGED <<org, lock, tenant, late, patched, overtaken, cutShort, ops>>
      /\ \/ billed' = work[w].plan /\ UNCHANGED <<lateNotes, noteLost>> /\ NoFault
         \/ /\ Fault /\ noteLost' = TRUE /\ UNCHANGED billed
            /\ lateNotes' \in {lateNotes, lateNotes \cup {work[w].plan}}
      /\ IF isPlan THEN GoOn(w, "commit") ELSE End(w)
  BY DEF Notify, orgCp
<1>2. w \in Running /\ work[w] \in Work
  BY <1>1, Busy
<1>3. work' \in [Workers -> Work \cup {Idle}] /\ \A v \in Workers : v # w => work'[v] = work[v]
  BY <1>1, WentOn, Ended
<1>4. /\ billed' \in Plans \cup {NoPlan} /\ lateNotes' \subseteq Plans
      /\ faults' \in 0..MaxFaults /\ faults <= faults'
  BY <1>1, <1>2, ProvisioningAssumption DEF TypeOK, Work, Fault, NoFault
<1>5. noteLost' \in BOOLEAN
  BY <1>1, Zenon DEF TypeOK
<1>6. ~noteLost' => ~noteLost /\ billed' = work[w].plan /\ lateNotes' = lateNotes
  BY <1>1, Zenon
<1>7. isPlan => lock = w /\ w # NoWorker
  BY <1>1, <1>2, ProvisioningAssumption DEF Serving, Stages, StageOK
<1>8. CASE isPlan
  <2>1. /\ Running' = Running /\ work'[w].pc = "commit" /\ work'[w].op = "plan"
        /\ work'[w].plan = work[w].plan /\ work'[w] # Idle
    BY <1>1, <1>8, WentOn
  <2>2. TypeOK'
    BY <1>1, <1>3, <1>4, <1>5, <1>7, <1>8, <2>1 DEF TypeOK
  <2>6. Stages'
    BY <1>1, <1>3, <1>7, <1>8, <2>1 DEF Serving, Stages, StageOK, Running
  <2>7. LateCounted'
    BY <1>1, <1>4, ProvisioningAssumption DEF Serving, LateCounted, TypeOK
  <2>3. Serving'
    BY <1>1, <1>2, <1>3, <2>1, <2>6, <2>7
       DEF Serving, NoneIsQuiet, Quiet, Prepared, ActiveHasTenant
  <2>4. OneKind' /\ SamePlan'
    BY <1>1, <1>2, <1>3, <1>8, <2>1 DEF Paying, OneKind, SamePlan, Running
  <2>5. NothingLate' /\ ToldFirst' /\ Told'
    BY <1>1, <1>6, <1>7, <1>8, <2>1 DEF Paying, NothingLate, ToldFirst, Told, Committing
  <2> QED
    BY <2>2, <2>3, <2>4, <2>5 DEF Paying
<1>9. CASE ~isPlan
  <2>1. Running' = Running \ {w} /\ work'[w] = Idle
    BY <1>1, <1>9, Ended
  <2>2. lock # NoWorker => lock \in Running /\ lock # w /\ work[lock].op = "plan"
    BY <1>9 DEF TypeOK, Running
  <2>3. TypeOK'
    BY <1>1, <1>3, <1>4, <1>5, <2>2 DEF TypeOK
  <2>4. Serving'
    BY <1>1, <1>2, <1>3, <1>4, <2>1, <2>2
       DEF TypeOK, Serving, Stages, StageOK, NoneIsQuiet, Quiet, LateCounted, Prepared,
           ActiveHasTenant, Running, Idle
  <2>5. OneKind' /\ SamePlan'
    BY <1>1, <1>2, <1>3, <2>1 DEF Paying, OneKind, SamePlan, Running
  <2>6. ~overtaken => lock = NoWorker /\ work[w].plan = org.plan
    BY <1>2, <1>9, <2>2 DEF Paying, OneKind, SamePlan
  <2>7. NothingLate' /\ ToldFirst' /\ Told'
    BY <1>1, <1>6, <2>6 DEF Paying, NothingLate, ToldFirst, Told, Committing
  <2> QED
    BY <2>3, <2>4, <2>5, <2>7 DEF Paying
<1> QED
  BY <1>8, <1>9

LEMMA LateNoteKeeps ==
  ASSUME IInv, NEW p \in Plans, LateNote(p) PROVE IInv'
<1> USE DEF IInv
<1>1. /\ UNCHANGED <<org, lock, work, tenant, late, patched, noteLost, overtaken, cutShort, ops, faults>>
      /\ p \in lateNotes /\ billed' = p /\ lateNotes' \subseteq lateNotes
  BY DEF LateNote, orgCp, history
<1>2. Running' = Running
  BY <1>1 DEF Running
<1>3. noteLost
  BY <1>1 DEF Paying, NothingLate
<1>4. TypeOK'
  BY <1>1 DEF TypeOK
<1>5. Serving'
  BY <1>1, <1>2
     DEF Serving, Stages, StageOK, NoneIsQuiet, Quiet, LateCounted, Prepared, ActiveHasTenant
<1>6. Paying'
  BY <1>1, <1>2, <1>3 DEF Paying, OneKind, SamePlan, NothingLate, ToldFirst, Told
<1> QED
  BY <1>4, <1>5, <1>6

\* update_org takes the row's lock.
LEMMA FlushKeeps ==
  ASSUME IInv, NEW w \in Workers, Flush(w) PROVE IInv'
<1> USE DEF IInv
<1>1. /\ work[w].pc = "flush" /\ lock = NoWorker
      /\ UNCHANGED <<org, tenant, late, billed, lateNotes, patched, noteLost, overtaken, cutShort, ops, faults>>
      /\ (lock' = w /\ GoOn(w, "note")) \/ (UNCHANGED lock /\ End(w))
  BY DEF Flush, orgCp, billing, history
<1>2. w \in Running /\ work[w] \in Work /\ w # NoWorker
  BY <1>1, Busy, ProvisioningAssumption
<1>3. work[w].op = "plan"
  BY <1>1, <1>2 DEF Serving, Stages, StageOK
<1>4. work' \in [Workers -> Work \cup {Idle}] /\ \A v \in Workers : v # w => work'[v] = work[v]
  BY <1>1, WentOn, Ended
<1>5. \/ /\ lock' = w /\ Running' = Running /\ work'[w].pc = "note" /\ work'[w].op = "plan"
         /\ work'[w] # Idle
      \/ lock' = NoWorker /\ Running' = Running \ {w} /\ work'[w] = Idle
  BY <1>1, <1>3, WentOn, Ended
<1>6. TypeOK'
  BY <1>1, <1>2, <1>4, <1>5 DEF TypeOK
<1>7. Serving'
  <2>1. \A v \in Running' : v # w => StageOK(v)'
    BY <1>1, <1>4, <1>5, ProvisioningAssumption DEF Serving, Stages, StageOK, Running
  <2>2. w \in Running' => StageOK(w)'
    BY <1>5 DEF StageOK, Running
  <2>3. Stages'
    BY <1>2, <1>5, <2>1, <2>2 DEF Stages
  <2>4. NoneIsQuiet' /\ LateCounted' /\ ActiveHasTenant'
    BY <1>1, <1>2 DEF Serving, NoneIsQuiet, Quiet, LateCounted, ActiveHasTenant
  <2>5. Prepared'
    BY <1>1, <1>4, <1>5 DEF Serving, Prepared, Idle
  <2> QED
    BY <2>3, <2>4, <2>5 DEF Serving
<1>8. Paying'
  <2>1. OneKind' /\ SamePlan'
    BY <1>1, <1>2, <1>3, <1>4, <1>5 DEF Paying, OneKind, SamePlan, Running
  <2>2. ~Committing /\ ~Committing'
    BY <1>1, <1>2, <1>5 DEF Committing
  <2>3. NothingLate' /\ ToldFirst' /\ Told'
    BY <1>1, <1>3, <1>4, <1>5, <2>2 DEF Paying, NothingLate, ToldFirst, Told, Running
  <2> QED
    BY <2>1, <2>3 DEF Paying
<1> QED
  BY <1>6, <1>7, <1>8

\* get_session commits after the handler.
LEMMA CommitUpdateKeeps ==
  ASSUME IInv, NEW w \in Workers, CommitUpdate(w) PROVE IInv'
<1> USE DEF IInv
<1>1. /\ work[w].pc = "commit" /\ lock' = NoWorker /\ End(w)
      /\ UNCHANGED <<tenant, late, billed, lateNotes, patched, overtaken, cutShort, ops>>
      /\ \/ org' = [org EXCEPT !.plan = work[w].plan] /\ UNCHANGED noteLost /\ NoFault
         \/ Fault /\ UNCHANGED org /\ noteLost' = TRUE
  BY DEF CommitUpdate, orgCp, billing
<1>2. w \in Running /\ work[w] \in Work
  BY <1>1, Busy
<1>3. work[w].op = "plan" /\ lock = w /\ w # NoWorker
  BY <1>1, <1>2, ProvisioningAssumption DEF Serving, Stages, StageOK
<1>4. /\ work' \in [Workers -> Work \cup {Idle}] /\ \A v \in Workers : v # w => work'[v] = work[v]
      /\ Running' = Running \ {w} /\ work'[w] = Idle
  BY <1>1, Ended
<1>5. /\ org' \in [status : Statuses, plan : Plans \cup {NoPlan}]
      /\ org'.status = org.status /\ org.status # "none" /\ org'.plan # NoPlan
      /\ faults' \in 0..MaxFaults /\ faults <= faults'
  <2>1. org.status # "none" /\ work[w].plan \in Plans
    BY <1>2 DEF Serving, NoneIsQuiet, Quiet, Work
  <2> QED
    BY <1>1, <2>1, ProvisioningAssumption DEF TypeOK, Fault, NoFault
<1>6. noteLost' \in BOOLEAN /\ (~noteLost' => ~noteLost /\ org' = [org EXCEPT !.plan = work[w].plan])
  <2>1. noteLost' \in BOOLEAN
    BY <1>1, Zenon DEF TypeOK
  <2>2. ASSUME ~noteLost'
        PROVE  ~noteLost /\ org' = [org EXCEPT !.plan = work[w].plan]
    <3>1. noteLost' # TRUE
      BY <2>2, Zenon
    <3>2. org' = [org EXCEPT !.plan = work[w].plan] /\ noteLost' = noteLost
      BY <1>1, <3>1
    <3> QED
      BY <2>2, <3>2, Zenon
  <2> QED
    BY <2>1, <2>2
<1>7. TypeOK'
  BY <1>1, <1>4, <1>5, <1>6 DEF TypeOK
<1>8. Serving'
  BY <1>1, <1>3, <1>4, <1>5
     DEF TypeOK, Serving, Stages, StageOK, NoneIsQuiet, LateCounted, Prepared, ActiveHasTenant,
         Running, Idle
<1>9. Paying'
  <2>1. OneKind'
    BY <1>1, <1>4 DEF Paying, OneKind, Running
  <2>2. SamePlan'
    BY <1>1, <1>2, <1>3, <1>4 DEF Paying, OneKind, SamePlan, Running
  <2>3. ~noteLost' /\ ~overtaken => billed' = org'.plan
    BY <1>1, <1>3, <1>6 DEF TypeOK, Paying, ToldFirst, Committing
  <2>4. NothingLate' /\ ToldFirst' /\ Told'
    BY <1>1, <1>6, <2>3 DEF Paying, NothingLate, ToldFirst, Told, Committing
  <2> QED
    BY <2>1, <2>2, <2>4 DEF Paying
<1> QED
  BY <1>7, <1>8, <1>9

LEMMA UpdateStatusKeeps ==
  ASSUME IInv, NEW s \in {"active", "suspended"}, UpdateStatus(s) PROVE IInv'
<1> USE DEF IInv
<1>1. /\ UNCHANGED <<lock, work, tenant, late, billed, lateNotes, noteLost, overtaken, cutShort, faults>>
      /\ org' = [org EXCEPT !.status = s] /\ patched' = TRUE /\ org.status # "none"
      /\ ops < MaxOps /\ ops' = ops + 1
  BY DEF UpdateStatus, orgCp, billing, Exists
<1>2. Running' = Running
  BY <1>1 DEF Running
<1>3. ops' \in 0..MaxOps
  BY <1>1, ProvisioningAssumption DEF TypeOK
<1>4. patched' /\ patched' \in BOOLEAN
  BY <1>1, Zenon
<1>5. /\ org' \in [status : Statuses, plan : Plans \cup {NoPlan}]
      /\ org'.plan = org.plan /\ org'.status = s
  BY <1>1 DEF TypeOK, Statuses
<1>6. TypeOK'
  BY <1>1, <1>3, <1>4, <1>5 DEF TypeOK
<1>7. Serving'
  BY <1>1, <1>2, <1>4, <1>5
     DEF Serving, Stages, StageOK, NoneIsQuiet, LateCounted, Prepared, ActiveHasTenant
<1>8. Paying'
  BY <1>1, <1>2, <1>4, <1>5
     DEF Paying, OneKind, SamePlan, NothingLate, ToldFirst, Told, Committing
<1> QED
  BY <1>6, <1>7, <1>8

LEMMA DeleteKeeps ==
  ASSUME IInv, Delete PROVE IInv'
<1> USE DEF IInv
<1>1. /\ UNCHANGED <<lock, work, tenant, late, billed, lateNotes, patched, noteLost, overtaken, cutShort, faults>>
      /\ org' = [org EXCEPT !.status = "deleted"] /\ org.status # "none"
      /\ ops < MaxOps /\ ops' = ops + 1
  BY DEF Delete, orgCp, billing, history, Exists
<1>2. Running' = Running
  BY <1>1 DEF Running
<1>3. ops' \in 0..MaxOps
  BY <1>1, ProvisioningAssumption DEF TypeOK
<1>4. /\ org' \in [status : Statuses, plan : Plans \cup {NoPlan}]
      /\ org'.plan = org.plan /\ org'.status = "deleted"
  BY <1>1 DEF TypeOK, Statuses
<1>5. TypeOK'
  BY <1>1, <1>3, <1>4 DEF TypeOK
<1>6. Serving'
  BY <1>1, <1>2, <1>4
     DEF Serving, Stages, StageOK, NoneIsQuiet, LateCounted, Prepared, ActiveHasTenant
<1>7. Paying'
  BY <1>1, <1>2, <1>4 DEF Paying, OneKind, SamePlan, NothingLate, ToldFirst, Told, Committing
<1> QED
  BY <1>5, <1>6, <1>7

\* Whatever was about to tell billing is counted as lost.
LEMMA CrashKeeps ==
  ASSUME IInv, Crash PROVE IInv'
<1> USE DEF IInv
<1>1. /\ UNCHANGED <<org, tenant, late, billed, lateNotes, patched, overtaken, ops>>
      /\ Fault /\ work' = [w \in Workers |-> Idle] /\ lock' = NoWorker /\ cutShort' = TRUE
      /\ noteLost' = (noteLost \/ \E w \in Workers : work[w] # Idle /\ work[w].pc \in {"note", "commit"})
  BY DEF Crash, orgCp, billing
<1>2. Running' = {} /\ \A w \in Workers : work'[w] = Idle
  BY <1>1 DEF Running
<1>3. faults' \in 0..MaxFaults /\ faults' = faults + 1 /\ faults \in Nat /\ late \in Nat
  BY <1>1, ProvisioningAssumption DEF TypeOK, Fault
<1>4. cutShort' \in BOOLEAN
  BY <1>1, Zenon
<1>5. noteLost' \in BOOLEAN
  BY <1>1, Zenon DEF TypeOK
<1>6. TypeOK'
  BY <1>1, <1>3, <1>4, <1>5 DEF TypeOK
<1>7. Serving'
  BY <1>1, <1>2, <1>3
     DEF Serving, Stages, NoneIsQuiet, Quiet, LateCounted, Prepared, ActiveHasTenant, Idle
<1>8. ~noteLost' => ~noteLost /\ \A w \in Running : work[w].pc \notin {"note", "commit"}
  BY <1>1 DEF Running
<1>9. ~noteLost' => ~Committing
  BY <1>8, ProvisioningAssumption DEF Committing, TypeOK, Running
<1>10. Paying'
  BY <1>1, <1>2, <1>8, <1>9
     DEF Paying, OneKind, SamePlan, NothingLate, ToldFirst, Told, Committing
<1> QED
  BY <1>6, <1>7, <1>10

LEMMA StutterKeeps == ASSUME IInv, UNCHANGED vars PROVE IInv'
<1>1. UNCHANGED <<org, lock, work, tenant, late, billed, lateNotes, patched, noteLost, overtaken,
                  cutShort, ops, faults>>
  BY DEF vars
<1>2. TypeOK'
  BY <1>1 DEF IInv, TypeOK
<1>3. Serving'
  BY <1>1 DEF IInv, Serving, Stages, StageOK, NoneIsQuiet, Quiet, LateCounted, Prepared,
              ActiveHasTenant, Running
<1>4. Paying'
  BY <1>1 DEF IInv, Paying, OneKind, SamePlan, NothingLate, ToldFirst, Told, Committing, Running
<1> QED
  BY <1>2, <1>3, <1>4 DEF IInv

-------------------------------------------------------------------------------
\* What the workflows and the requests of the admin control plane keep at each
\* of their steps (organizations/service.py).
THEOREM Inductive == Spec => []IInv
<1>1. IInv /\ [Next]_vars => IInv'
  <2> SUFFICES ASSUME IInv, [Next]_vars PROVE IInv'
    OBVIOUS
  <2>1. CASE \E w \in Workers : Step(w)
    BY <2>1, ClaimKeeps, InitOrgCpKeeps, SettleKeeps, NotifyKeeps, FlushKeeps, CommitUpdateKeeps
       DEF Step
  <2>2. CASE \E w \in Workers : Retry(w) \/ \E p \in Plans : Create(w, p) \/ UpdatePlan(w, p)
    BY <2>2, CreateKeeps, StartKeeps
  <2>3. CASE \/ LateInit \/ \E p \in Plans : LateNote(p)
             \/ \E s \in {"active", "suspended"} : UpdateStatus(s)
             \/ Delete \/ Crash
    BY <2>3, LateInitKeeps, LateNoteKeeps, UpdateStatusKeeps, DeleteKeeps, CrashKeeps
  <2>4. CASE UNCHANGED vars
    BY <2>4, StutterKeeps
  <2> QED
    BY <2>1, <2>2, <2>3, <2>4 DEF Next
<1> QED
  BY InitOK, <1>1, PTL DEF Spec

\* Type correctness of an organization's life, for any number of requests.
THEOREM OrganizationTypes == Spec => []TypeOK
<1>1. IInv => TypeOK
  BY DEF IInv
<1> QED
  BY Inductive, <1>1, PTL

\* An organization that the workflows made active has its tenant, and at rest
\* billing has the price of its plan (create_org_workflow, update_org).
THEOREM ActiveOrgsServedAndBilled == Spec => []ActiveIsServedAndBilled
<1>1. IInv => ActiveIsServedAndBilled
  <2> SUFFICES ASSUME IInv PROVE ActiveIsServedAndBilled
    OBVIOUS
  <2>1. ActiveHasTenant
    BY DEF IInv, Serving
  <2>2. Quiet => ~Committing
    BY ProvisioningAssumption DEF IInv, TypeOK, Quiet, Running, Committing
  <2>3. BilledIsPlan
    BY <2>2 DEF IInv, Paying, Told, BilledIsPlan, Quiet
  <2> QED
    BY <2>1, <2>3 DEF ActiveIsServedAndBilled
<1> QED
  BY Inductive, <1>1, PTL

\* No workflow, however late, brings a deleted organization back
\* (service.py: txn2 looks the row up again).
THEOREM DeletedOrgsStayDeleted == Spec => DeletedStaysDeleted
<1>1. IInv /\ [Next]_vars => (org.status = "deleted" => org'.status = "deleted")
  <2> SUFFICES ASSUME IInv, [Next]_vars, org.status = "deleted" PROVE org'.status = "deleted"
    OBVIOUS
  <2>1. ~Exists /\ org \in [status : Statuses, plan : Plans \cup {NoPlan}]
    BY DEF Exists, IInv, TypeOK
  <2>2. ASSUME NEW w \in Workers, Step(w) PROVE org'.status = "deleted"
    BY <2>1, <2>2 DEF Step, Claim, InitOrgCp, Settle, Notify, Flush, CommitUpdate
  <2>3. ASSUME NEW w \in Workers, NEW p \in Plans, Retry(w) \/ Create(w, p) \/ UpdatePlan(w, p)
        PROVE  org'.status = "deleted"
    BY <2>1, <2>3 DEF Retry, Create, UpdatePlan
  <2>4. CASE LateInit \/ (\E p \in Plans : LateNote(p)) \/ Crash \/ UNCHANGED vars
    BY <2>4 DEF LateInit, LateNote, Crash, vars
  <2>5. CASE (\E s \in {"active", "suspended"} : UpdateStatus(s)) \/ Delete
    BY <2>1, <2>5 DEF UpdateStatus, Delete
  <2>6. CASE \E w \in Workers : Retry(w)
    BY <2>6 DEF Retry
  <2> QED
    BY <2>2, <2>3, <2>4, <2>5, <2>6 DEF Next
<1> QED
  BY Inductive, <1>1, PTL DEF DeletedStaysDeleted, Spec
================================================================================
