------------------------------ MODULE StateLayer ------------------------------
(***************************************************************************)
(* The recorded state of deployments (multistack/state): one SQLite row    *)
(* per deployment name, and the wrappers track_create, track_delete and    *)
(* track_update that every backend's verb runs inside.  The work a wrapper *)
(* surrounds is not modelled here: Deployments adds it abstractly and      *)
(* CapabilityDrivers step by step.                                         *)
(*                                                                         *)
(* Every SQL statement is a commit of its own, so a process that dies      *)
(* keeps what it wrote.  `op' is what one process remembers of its call.   *)
(***************************************************************************)
EXTENDS Naturals

CONSTANTS Procs,      \* the processes that opened the state file
          Specs,      \* the deployments a caller may ask for
          NameOf,     \* Specs -> the name its row is kept under
          TypeOf,     \* Specs -> its component_type
          Requires,   \* Specs -> the component types it names in REQUIRES
          Updatable,  \* the Specs whose backend has a tracked update
          Found,      \* the state files a process may open: name -> row
          MaxCalls    \* a bound on the calls of one behaviour

Names == {NameOf[s] : s \in Specs}
Types == {TypeOf[s] : s \in Specs}

DeploymentStatus ==
    {"pending", "provisioning", "provisioned", "degraded", "failed", "deleting"}

NoRow == [status |-> "none", type |-> "none"]
Row == [status : DeploymentStatus, type : Types]

\* An earlier run may have left settled rows behind.
ASSUME MaxCallsIsNat == MaxCalls \in Nat
ASSUME FoundAssumption ==
    /\ NameOf \in [Specs -> Names]
    /\ TypeOf \in [Specs -> Types]
    /\ Updatable \subseteq Specs
    /\ \A f \in Found :
           /\ f \in [Names -> {NoRow} \cup [status : {"provisioned"}, type : Types]]
           /\ \A s \in Specs : f[NameOf[s]] # NoRow => f[NameOf[s]].type = TypeOf[s]

Verbs == {"create", "update", "delete"}
\* "work" and "busy" are the verb's own time: before and after it first
\* touched the cluster.
Pcs == {"idle", "require", "start", "mark", "work", "busy",
        "settle", "fail", "restore"}

VARIABLES rows,     \* deployments: name -> its row
          op,       \* process -> the call it is in
          calls     \* calls made so far

layer == <<rows, op, calls>>

\* `existing' is what a wrapper read of the row before its first write.
Idle == [pc |-> "idle", verb |-> "none", spec |-> "none", existing |-> "none"]
Call == [pc : Pcs \ {"idle"}, verb : Verbs, spec : Specs,
         existing : DeploymentStatus \cup {"none"}]

LayerTypeOK == /\ rows \in [Names -> Row \cup {NoRow}]
               /\ op \in [Procs -> Call \cup {Idle}]
               /\ calls \in 0..MaxCalls

LayerInit == /\ rows \in Found
             /\ op = [p \in Procs |-> Idle]
             /\ calls = 0

NameIn(p) == NameOf[op[p].spec]
Recorded(p) == rows[NameIn(p)] # NoRow
Working(p) == op[p].pc \in {"work", "busy"}
GoTo(p, pc) == op' = [op EXCEPT ![p].pc = pc]
Return(p) == op' = [op EXCEPT ![p] = Idle]

\* has_healthy: some row of that component type is recorded provisioned.
HasHealthy(type) ==
    \E n \in Names : rows[n] = [status |-> "provisioned", type |-> type]

\* Mutant: a status no reader of the column knows.
SetStatus_Healthy(name, status) ==
    rows' = [rows EXCEPT ![name].status =
                IF status = "provisioning" THEN "healthy" ELSE status]

SetStatus(name, status) == rows' = [rows EXCEPT ![name].status = status]

-------------------------------------------------------------------------------
\* A backend's verb is called: the wrapper reads the row it may have.
Begin(p, verb, s, pc) ==
    /\ op[p] = Idle
    /\ calls < MaxCalls
    /\ calls' = calls + 1
    /\ op' = [op EXCEPT ![p] = [pc |-> pc, verb |-> verb, spec |-> s,
                                existing |-> rows[NameOf[s]].status]]
    /\ UNCHANGED rows

CallCreate(p, s) == Begin(p, "create", s, "require")
CallDelete(p, s) == Begin(p, "delete", s, "mark")
CallUpdate(p, s) == s \in Updatable /\ Begin(p, "update", s, "mark")

\* require_healthy_dependencies, before anything is recorded: a missing
\* dependency raises and leaves no row behind.
RequireHealthyDependencies(p) ==
    /\ op[p].pc = "require"
    /\ IF \A t \in Requires[op[p].spec] : HasHealthy(t)
       THEN GoTo(p, "start")
       ELSE Return(p)
    /\ UNCHANGED <<rows, calls>>

\* start(), first statement: insert the row, or have it adopt the type of
\* the caller.
StartRow(p) ==
    /\ op[p].pc = "start"
    /\ rows' = [rows EXCEPT ![NameIn(p)] =
           [status |-> IF Recorded(p) THEN @.status ELSE "pending",
            type |-> TypeOf[op[p].spec]]]
    /\ GoTo(p, "mark")
    /\ UNCHANGED calls

\* The status while the work runs: provisioning for a create or an update,
\* deleting for a delete.  An update or a delete of a name that has no row
\* runs unrecorded; a row another process removed meanwhile raises.
Mark(p) ==
    /\ op[p].pc = "mark"
    /\ IF op[p].verb # "create" /\ op[p].existing = "none"
       THEN GoTo(p, "work") /\ UNCHANGED rows
       ELSE IF Recorded(p)
       THEN /\ SetStatus(NameIn(p), IF op[p].verb = "delete" THEN "deleting"
                                    ELSE "provisioning")
            /\ GoTo(p, "work")
       ELSE Return(p) /\ UNCHANGED rows
    /\ UNCHANGED calls

\* Mutant: an update that returns asserts a healthy deployment.
Settle_AssertsHealthy(p) ==
    /\ op[p].pc = "settle"
    /\ rows' = IF ~Recorded(p) \/ (op[p].verb # "create" /\ op[p].existing = "none")
               THEN rows
               ELSE [rows EXCEPT ![NameIn(p)] =
                   IF op[p].verb = "delete" THEN NoRow
                   ELSE [@ EXCEPT !.status = "provisioned"]]
    /\ Return(p)
    /\ UNCHANGED calls

\* The verb returned.  mark_healthy after a create, remove after a delete,
\* the status as it was read after an update.
Settle(p) ==
    /\ op[p].pc = "settle"
    /\ rows' = IF ~Recorded(p) \/ (op[p].verb # "create" /\ op[p].existing = "none")
               THEN rows
               ELSE [rows EXCEPT ![NameIn(p)] =
                   CASE op[p].verb = "create" -> [@ EXCEPT !.status = "provisioned"]
                     [] op[p].verb = "update" -> [@ EXCEPT !.status = op[p].existing]
                     [] op[p].verb = "delete" -> NoRow]
    /\ Return(p)
    /\ UNCHANGED calls

\* Mutant: a failed attempt is dropped from the record.
MarkFailed_Drops(p) ==
    /\ op[p].pc = "fail"
    /\ rows' = [rows EXCEPT ![NameIn(p)] = NoRow]
    /\ Return(p)
    /\ UNCHANGED calls

\* The verb raised: mark_failed, and the caller gets the exception.
MarkFailed(p) ==
    /\ op[p].pc = "fail"
    /\ rows' = IF ~Recorded(p) \/ (op[p].verb # "create" /\ op[p].existing = "none")
               THEN rows
               ELSE [rows EXCEPT ![NameIn(p)].status = "failed"]
    /\ Return(p)
    /\ UNCHANGED calls

\* An update was refused before it touched anything: the status it had.
RestorePrevious(p) ==
    /\ op[p].pc = "restore"
    /\ rows' = IF Recorded(p) /\ op[p].existing # "none"
               THEN [rows EXCEPT ![NameIn(p)].status = op[p].existing]
               ELSE rows
    /\ Return(p)
    /\ UNCHANGED calls

\* The process dies, or is interrupted: `except Exception' does not see it,
\* so the row keeps whatever the last commit said.
Crash(p) ==
    /\ op[p] # Idle
    /\ Return(p)
    /\ UNCHANGED <<rows, calls>>

Bookkeeping(p) == \/ RequireHealthyDependencies(p)
                  \/ StartRow(p)
                  \/ Mark(p)
                  \/ Settle(p)
                  \/ MarkFailed(p)
                  \/ RestorePrevious(p)
===============================================================================
