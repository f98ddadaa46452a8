------------------------------ MODULE StackRuns ------------------------------
(***************************************************************************)
(* One run of a script that composes capabilities through a Stack          *)
(* (src/multistack/stack.py) inside the state layer's check of             *)
(* dependencies (state/tracking.py, state/manager.py).  A script is a      *)
(* sequence of steps; the run takes them in order and stops at the first   *)
(* exception.  "raised" is a run that the SDK itself stopped, "failed" one *)
(* that something outside stopped: a node, helm, kubectl, an interruption. *)
(*                                                                         *)
(* rows is the state file, kept from run to run; wiring is what each live  *)
(* deployment was last told about the others, by capability and name.      *)
(***************************************************************************)
EXTENDS Naturals, Sequences, SequencesExt, CapabilitySpecs

VARIABLES values, rows, wiring, clusterFile, taken, outcome

stackVars == <<values, rows, wiring, clusterFile, taken, outcome>>

-----------------------------------------------------------------------------
(* Steps *)

Nothing == [k \in {} |-> ""]

\* What g says, except for what f says.
Over(f, g) == [k \in DOMAIN f \cup DOMAIN g |-> IF k \in DOMAIN f THEN f[k] ELSE g[k]]
With(f, k, v) == [x \in DOMAIN f \cup {k} |-> IF x = k THEN v ELSE f[x]]

AnyStep == [op |-> "work", capability |-> "", name |-> "", spec |-> RKE2Cluster,
            explicit |-> Nothing, reads |-> {}, needs |-> {}, given |-> {},
            publishes |-> Nothing]

\* stack.build(spec), backend.create(it), stack.record(it).
Layer(capability, name, spec) ==
  [AnyStep EXCEPT !.op = "layer", !.capability = capability, !.name = name,
                  !.spec = spec,
                  !.publishes = [k \in spec.provides |-> name]]

\* A field passed to build() beats the wired one.
Told(layer, explicit) == [layer EXCEPT !.explicit = explicit]
\* A value read with stack.get(), or a variable of the script, if it is there.
Reads(layer, keys) == [layer EXCEPT !.reads = keys]
\* A variable that the script names, and that must have been assigned.
Names(layer, keys) == [layer EXCEPT !.reads = @ \cup keys, !.needs = keys]
\* What the script itself keeps or publishes besides the spec's PROVIDES.
Keeps(layer, keys) ==
  [layer EXCEPT !.publishes = Over([k \in keys |-> layer.name], @)]

\* stack.provide() or stack.record() of what is assumed live.
Publish(published) == [AnyStep EXCEPT !.op = "publish", !.publishes = published]
\* kubectl, ssh or a Job: changes nothing that is recorded here.
Work == AnyStep
\* Steps that the script leaves out when nothing gave it these values.
Given(keys, steps) ==
  [i \in DOMAIN steps |-> [steps[i] EXCEPT !.given = @ \cup keys]]

-----------------------------------------------------------------------------
(* State *)

StackInit(recorded, standing) ==
  /\ values = Nothing /\ taken = 0 /\ outcome = "idle" /\ wiring = [u \in {} |-> {}]
  /\ rows = recorded /\ clusterFile = standing

Idle == outcome \in {"idle", "ready", "raised", "failed"}

\* A process starts: its Stack knows the cluster and nothing else.
StartRun(kubeconfig) ==
  /\ Idle
  /\ values' = kubeconfig /\ taken' = 0 /\ outcome' = "running"
  /\ UNCHANGED <<rows, wiring, clusterFile>>

-----------------------------------------------------------------------------
(* What build() and the state layer check *)

Published(key) == key \in DOMAIN values

\* Stack._check_order.
OutOfOrder(s) ==
  \E c \in s.spec.requires \cap DOMAIN CapabilityOutput :
      ~Published(CapabilityOutput[c])
\* Stack.build: a field that construction needs and nothing gives.
Unmet(s) ==
  \/ \E k \in s.spec.required : k \notin DOMAIN s.explicit /\ ~Published(k)
  \/ \E k \in s.needs : ~Published(k)
\* StateManager.require_healthy_dependencies.
Provisioned(capability) ==
  \E n \in DOMAIN rows :
      rows[n] = [capability |-> capability, status |-> "provisioned"]
DependencyMissing(s) == \E c \in s.spec.requires : ~Provisioned(c)

Refused(s) == OutOfOrder(s) \/ Unmet(s) \/ DependencyMissing(s)

\* The kubeconfig a backend is handed must be the path of a file.
\* (require_cluster, before anything is touched)
ClusterUnreachable(s) ==
  s.capability # "cluster" /\ values["kubeconfig_path"] # "path"
\* RKE2Backend.create refuses a cluster that has a state file.
AlreadyCreated(s) == s.capability = "cluster" /\ clusterFile

-----------------------------------------------------------------------------
(* Steps of a run *)

SetRow(s, status) ==
  rows' = With(rows, s.name, [capability |-> s.capability, status |-> status])

\* What the deployment is told: its explicit fields, the fields that the
\* Stack fills, the values the script reads for it.
Wired(s) ==
  {<<k, s.explicit[k]>> : k \in DOMAIN s.explicit} \cup
  {<<k, values[k]>> : k \in (((s.spec.fromStack \ DOMAIN s.explicit) \cup s.reads)
                               \cap DOMAIN values)}

Record(s) == values' = Over(s.publishes, values)

Runs(s) == outcome = "running" /\ s.given \subseteq DOMAIN values
Advance == taken' = taken + 1 /\ UNCHANGED outcome
Stop(how) == outcome' = how /\ UNCHANGED <<values, taken>>

Skip(s) ==
  /\ outcome = "running" /\ ~(s.given \subseteq DOMAIN values)
  /\ Advance
  /\ UNCHANGED <<values, rows, wiring, clusterFile>>

Do(s) ==
  /\ Runs(s) /\ s.op \in {"publish", "work"}
  /\ Record(s) /\ Advance
  /\ UNCHANGED <<rows, wiring, clusterFile>>

WorkFails(s) ==
  /\ Runs(s) /\ s.op = "work"
  /\ Stop("failed")
  /\ UNCHANGED <<rows, wiring, clusterFile>>

Refuse(s) ==
  /\ Runs(s) /\ s.op = "layer" /\ Refused(s)
  /\ Stop("raised")
  /\ UNCHANGED <<rows, wiring, clusterFile>>

\* The backend raises before it touches anything, and track_create has
\* already written the row.
RaisedByBackend(s) ==
  /\ Runs(s) /\ s.op = "layer" /\ ~Refused(s)
  /\ ClusterUnreachable(s) \/ AlreadyCreated(s)
  /\ SetRow(s, "failed") /\ Stop("raised")
  /\ UNCHANGED <<wiring, clusterFile>>

Creates(s) ==
  Runs(s) /\ s.op = "layer" /\ ~Refused(s)
             /\ ~ClusterUnreachable(s) /\ ~AlreadyCreated(s)

\* Mutant: a verb that track_create does not wrap.
Create_Untracked(s) ==
  /\ Creates(s)
  /\ wiring' = With(wiring, <<s.capability, s.name>>, Wired(s))
  /\ clusterFile' = (clusterFile \/ s.capability = "cluster")
  /\ Record(s) /\ Advance
  /\ UNCHANGED rows

CreateLayer(s) ==
  /\ Creates(s)
  /\ SetRow(s, "provisioned")
  /\ wiring' = With(wiring, <<s.capability, s.name>>, Wired(s))
  /\ clusterFile' = (clusterFile \/ s.capability = "cluster")
  /\ Record(s) /\ Advance

\* A deployment that failed or was interrupted; helm and kubectl keep
\* whatever was there before, which had its own wiring.
CreateFails(s) ==
  /\ Creates(s)
  /\ \E status \in {"failed", "provisioning"} : SetRow(s, status)
  /\ clusterFile' \in {clusterFile, clusterFile \/ s.capability = "cluster"}
  /\ Stop("failed")
  /\ UNCHANGED wiring

Take(s) ==
  \/ Skip(s) \/ Do(s) \/ WorkFails(s) \/ Refuse(s) \/ RaisedByBackend(s)
  \/ CreateLayer(s) \/ CreateFails(s)

Ready(script) ==
  /\ outcome = "running" /\ taken = Len(script)
  /\ outcome' = "ready"
  /\ UNCHANGED <<values, rows, wiring, clusterFile, taken>>

StackTypeOK ==
  /\ outcome \in {"idle", "running", "ready", "raised", "failed"}
  /\ taken \in Nat /\ clusterFile \in BOOLEAN
  /\ \A n \in DOMAIN rows :
        /\ rows[n].capability \in
              DOMAIN CapabilityOutput \cup {"database-operator", "accelerator", "enricher"}
        /\ rows[n].status \in {"provisioning", "provisioned", "failed"}
  /\ \A u \in DOMAIN wiring : u[2] \in DOMAIN rows
=============================================================================
