------------------------------ MODULE Deployments ------------------------------
(***************************************************************************)
(* What the recorded state promises about the cluster, whatever driver     *)
(* does the work: while a verb works, what is deployed may be in any       *)
(* condition; a create that returns has deployed everything, a delete that *)
(* returns has removed everything, an update that returns has not broken   *)
(* what was whole, and a refused update has touched nothing.               *)
(* CapabilityDrivers is shown to implement this module.                    *)
(***************************************************************************)
EXTENDS StateLayer

CONSTANT Upserting   \* the Specs whose update deploys what it does not find

Conditions == {"absent", "partial", "present"}

VARIABLES made      \* spec -> how much of it is on the cluster

vars == <<layer, made>>

TypeOK == LayerTypeOK /\ made \in [Specs -> Conditions]

\* The row says it is there, for this very deployment.
RecordedProvisioned(s) ==
    rows[NameOf[s]] = [status |-> "provisioned", type |-> TypeOf[s]]

Init == /\ LayerInit
        /\ made = [s \in Specs |->
                      IF RecordedProvisioned(s) THEN "present" ELSE "absent"]

\* A verb that brings nothing into being.
BringsNothing(p) == \/ op[p].verb = "delete"
                    \/ op[p].verb = "update" /\ op[p].spec \notin Upserting

\* What the wrapped verb does between the mark and its return: anything to
\* its own deployment, except that some verbs bring nothing into being.
Work(p) ==
    /\ Working(p)
    /\ \E c \in Conditions :
           /\ BringsNothing(p) /\ made[op[p].spec] = "absent" => c = "absent"
           /\ made' = [made EXCEPT ![op[p].spec] = c]
    /\ GoTo(p, "busy")
    /\ UNCHANGED <<rows, calls>>

WorkDone(p) ==
    /\ Working(p)
    /\ op[p].verb = "create" => made[op[p].spec] = "present"
    /\ op[p].verb = "delete" => made[op[p].spec] = "absent"
    /\ op[p].existing = "provisioned" /\ op[p].verb = "update"
           => made[op[p].spec] = "present"
    /\ GoTo(p, "settle")
    /\ UNCHANGED <<rows, calls, made>>

WorkRaises(p) ==
    /\ Working(p)
    /\ GoTo(p, "fail")
    /\ UNCHANGED <<rows, calls, made>>

WorkRefused(p) ==
    /\ op[p].pc = "work"
    /\ op[p].verb = "update"
    /\ GoTo(p, "restore")
    /\ UNCHANGED <<rows, calls, made>>

Step(p) == \/ /\ \/ \E s \in Specs : \/ CallCreate(p, s)
                                     \/ CallDelete(p, s)
                                     \/ CallUpdate(p, s)
                 \/ Bookkeeping(p)
                 \/ Crash(p)
              /\ UNCHANGED made
           \/ Work(p) \/ WorkDone(p) \/ WorkRaises(p) \/ WorkRefused(p)

Next == \E p \in Procs : Step(p)

Spec == Init /\ [][Next]_vars

-------------------------------------------------------------------------------
(* What a caller of the state layer relies on, as long as                   *)

\* `Deployments run serially in one process', and
Serial == \A p, q \in Procs : p = q

\* `name_of(spec) returns the deployment's unique name'.
UniqueNames == \A s, t \in Specs : NameOf[s] = NameOf[t] => s = t


\* A row that says provisioned is a deployment that is wholly there, across
\* failed and refused updates, interrupted creates and deletes that stopped
\* half way: other deployments are admitted on its word.
ProvisionedIsPresent ==
    \A s \in Specs : RecordedProvisioned(s) => made[s] = "present"

\* A deployment of which anything is on the cluster has a row of its own
\* type, so its next delete is recorded and its dependents are refused for
\* the right reason.  (An update is documented to run unrecorded on a name
\* that has no row, so one that deploys what it does not find may deploy
\* without a row.)
LiveIsRecorded ==
    \A s \in Specs \ Upserting :
        made[s] # "absent" => rows[NameOf[s]] # NoRow
                              /\ rows[NameOf[s]].type = TypeOf[s]
===============================================================================
