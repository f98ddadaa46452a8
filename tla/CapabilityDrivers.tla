--------------------------- MODULE CapabilityDrivers ---------------------------
(***************************************************************************)
(* A backend's verb at work: the wrapper of StateLayer around the plan of  *)
(* one driver (CapabilityPlans), step by step against a cluster.  Any step *)
(* may raise; a helm process may die half way; the SDK's process may die   *)
(* at any step; a read made with check=False that fails looks like an      *)
(* object that is not there.  One behaviour follows one deployment, the    *)
(* `focus': the drivers share nothing but their rows.                      *)
(***************************************************************************)
EXTENDS StateLayer, CapabilityPlans, FiniteSets

CONSTANTS Focus,     \* the deployments to follow
          Killable,  \* those whose helm processes may die half way
          Misread    \* those whose unchecked reads may fail

ASSUME FocusAssumption == Focus \subseteq Specs \cap DOMAIN Plans

VARIABLES focus,     \* the deployment this behaviour is about
          at,        \* process -> the step of the plan it is at
          objs,      \* the objects of the focus that are on the cluster
          rels,      \* helm release -> its recorded status
          live,      \* the version of the credentials in the cluster
          held,      \* the version the driver holds
          box,       \* the NATS admin pod
          up         \* the objs a wait has found ready since they were made

cluster == <<objs, rels, live, box, up>>
vars == <<layer, focus, at, cluster, held>>

AllReleases == UNION {Releases(s) : s \in DOMAIN Plans}
AllObjects == (UNION {Given(Plans[s].create) : s \in DOMAIN Plans})
              \cup {"volume 1", "volume 2"}

Plan(p) == Plans[op[p].spec][op[p].verb]

TypeOK == /\ LayerTypeOK
          /\ focus \in Focus
          /\ at \in [Procs -> Nat]
          /\ \A p \in Procs : op[p] # Idle => at[p] <= Len(Plan(p)) + 1
          /\ objs \subseteq AllObjects
          /\ rels \in [AllReleases -> {"none", "deployed", "failed", "pending"}]
          /\ live \in 0..MaxCalls /\ held \in 0..MaxCalls
          /\ box \in {"none", "running", "completed"}
          /\ up \subseteq objs

RecordedProvisioned(s) ==
    rows[NameOf[s]] = [status |-> "provisioned", type |-> TypeOf[s]]

Init == /\ LayerInit
        /\ focus \in Focus
        /\ at = [p \in Procs |-> 1]
        /\ objs = IF RecordedProvisioned(focus) THEN Promised(focus) ELSE {}
        /\ rels = [r \in AllReleases |->
              IF RecordedProvisioned(focus) /\ r \in Releases(focus)
              THEN "deployed" ELSE "none"]
        /\ live = 0 /\ held = 0
        /\ box = "none"
        /\ up = IF RecordedProvisioned(focus) THEN Awaited(focus) ELSE {}

-------------------------------------------------------------------------------
(* Where a process is in its plan.                                         *)

Doing(p, kinds) == Working(p) /\ at[p] \in DOMAIN Plan(p)
                   /\ Plan(p)[at[p]].do \in kinds
On(p) == Plan(p)[at[p]].on
Gives(p) == Plan(p)[at[p]].gives
Advance(p) == at' = [at EXCEPT ![p] = @ + 1]
GiveUp(p) == at' = [at EXCEPT ![p] = 0]
Touch(p) == GoTo(p, "busy") /\ UNCHANGED <<rows, calls>>
\* What is removed is no longer up; what is applied again stays as it was.
StayUp == up' = up \cap objs'

\* A step that only looks, and goes on.
Looks(p) == \/ Doing(p, {"check"})
            \/ Doing(p, {"refuse"}) /\ (On(p) \in Promised(focus) => On(p) \in objs)
            \/ Doing(p, {"need"}) /\ On(p) \in objs
            \/ Doing(p, {"need_release"}) /\ rels[On(p)] # "none"
            \/ Doing(p, {"done_if", "delete_if_found"})
               /\ (On(p) \notin objs \/ focus \in Misread)
            \/ Doing(p, {"done_if_release", "uninstall_if_any"})
               /\ rels[On(p)] = "none"
            \/ Doing(p, {"install_once"}) /\ rels[On(p)] # "none"
            \/ Doing(p, {"clear_failed"}) /\ rels[On(p)] # "failed"
            \/ Doing(p, {"pod"}) /\ box = "running"

Look(p) == Looks(p) /\ Advance(p) /\ UNCHANGED <<layer, cluster, held>>

\* `already there': the verb returns from the middle of its plan.
ReturnEarly(p) ==
    /\ \/ Doing(p, {"done_if"}) /\ On(p) \in objs
       \/ Doing(p, {"done_if_release"}) /\ rels[On(p)] # "none" /\ Gives(p) \subseteq objs
    /\ at' = [at EXCEPT ![p] = Len(Plan(p)) + 1]
    /\ UNCHANGED <<layer, cluster, held>>

\* helm upgrade --install: what it brings, or, atomically, nothing.  Helm
\* refuses a release whose last operation it still takes to be running.
HelmInstall(p) ==
    /\ \/ Doing(p, {"install"}) /\ rels[On(p)] # "pending"
       \/ Doing(p, {"install_once"}) /\ rels[On(p)] = "none"
    /\ rels' = [rels EXCEPT ![On(p)] = "deployed"]
    /\ objs' = objs \cup Gives(p)
    /\ live' = IF "credentials" \in Gives(p) THEN held ELSE live
    /\ StayUp
    /\ Touch(p) /\ Advance(p)
    /\ UNCHANGED <<box, held>>

\* An uninstall takes what the release brought; clear_failed is one where
\* the release is recorded as failed.
HelmUninstall(p) ==
    /\ \/ Doing(p, {"uninstall", "uninstall_if_any"}) /\ rels[On(p)] # "none"
       \/ Doing(p, {"clear_failed"}) /\ rels[On(p)] = "failed"
    /\ rels' = [rels EXCEPT ![On(p)] = "none"]
    /\ objs' = objs \ Gives(p)
    /\ StayUp
    /\ Touch(p) /\ Advance(p)
    /\ UNCHANGED <<live, box, held>>

\* The helm process dies, or is cancelled by its deadline, with part of its
\* work done and no one to roll it back.
HelmDies(p) ==
    /\ focus \in Killable
    /\ \/ /\ Doing(p, {"install", "install_once"})
          /\ rels[On(p)] # "pending"
          /\ Doing(p, {"install_once"}) => rels[On(p)] = "none"
          /\ \E part \in SUBSET Gives(p) :
                /\ objs' = objs \cup part
                /\ live' = IF "credentials" \in part THEN held ELSE live
          /\ \E s \in {"failed", "pending"} : rels' = [rels EXCEPT ![On(p)] = s]
       \/ /\ Doing(p, {"uninstall", "uninstall_if_any"})
          /\ rels[On(p)] # "none"
          /\ \E part \in SUBSET Gives(p) : objs' = objs \ part
          /\ rels' = [rels EXCEPT ![On(p)] = "pending"]
          /\ UNCHANGED live
    /\ StayUp
    /\ Touch(p) /\ GiveUp(p)
    /\ UNCHANGED <<box, held>>

KubectlApply(p) ==
    /\ Doing(p, {"apply"})
    /\ objs' = objs \cup {On(p)}
    /\ StayUp
    /\ Touch(p) /\ Advance(p)
    /\ UNCHANGED <<rels, live, box, held>>

KubectlDelete(p) ==
    /\ \/ Doing(p, {"delete", "delete_quietly"})
       \/ Doing(p, {"delete_if_found"}) /\ On(p) \in objs
    /\ objs' = objs \ {On(p)}
    /\ StayUp
    /\ Touch(p) /\ Advance(p)
    /\ UNCHANGED <<rels, live, box, held>>

\* The wait ends before its deadline: something of the object is ready.
ComesUp(p) ==
    /\ Doing(p, {"await"})
    /\ On(p) \in objs
    /\ up' = up \cup {On(p)}
    /\ Touch(p) /\ Advance(p)
    /\ UNCHANGED <<objs, rels, live, box, held>>

\* check=False: kubectl failed and nobody noticed.
KubectlFailsQuietly(p) ==
    /\ Doing(p, {"delete_quietly"})
    /\ Advance(p)
    /\ UNCHANGED <<layer, cluster, held>>

\* The admin pod: applied when it is not there.  A pod that ran its 24 hours
\* is there, is not running, and an apply changes nothing about it.
PodApplied(p) ==
    /\ Doing(p, {"pod"})
    /\ box = "none"
    /\ box' = "running"
    /\ Touch(p) /\ Advance(p)
    /\ UNCHANGED <<objs, rels, live, up, held>>

PodCompletes == /\ box = "running"
                /\ box' = "completed"
                /\ UNCHANGED <<layer, focus, at, objs, rels, live, up, held>>

\* The credentials a release was installed with are read back.
ReadBack(p) ==
    /\ Doing(p, {"adopt", "adopt_or_generate"})
    /\ Doing(p, {"adopt"}) => rels[On(p)] # "none"
    /\ "credentials" \in objs
    /\ held' = live
    /\ Advance(p)
    /\ UNCHANGED <<layer, cluster>>

\* MinIO generates only where there is no release; Grafana's driver also
\* where the read came back empty.
Generate(p) ==
    /\ \/ Doing(p, {"adopt"}) /\ rels[On(p)] = "none"
       \/ Doing(p, {"adopt_or_generate"})
          /\ ("credentials" \notin objs \/ focus \in Misread)
    /\ held' = calls
    /\ Advance(p)
    /\ UNCHANGED <<layer, cluster>>

-------------------------------------------------------------------------------
(* How the verb ends.                                                      *)

Fail(p) == /\ Working(p)
           /\ at[p] \in DOMAIN Plan(p)
           /\ GiveUp(p)
           /\ UNCHANGED <<layer, cluster, held>>

Raise(p) == /\ Working(p)
            /\ at[p] = 0
            /\ GoTo(p, "fail")
            /\ UNCHANGED <<rows, calls, at, cluster, held>>

Refused(p) == /\ Doing(p, {"refuse"})
              /\ GoTo(p, "restore")
              /\ UNCHANGED <<rows, calls, at, cluster, held>>

Finish(p) == /\ Working(p)
             /\ at[p] = Len(Plan(p)) + 1
             /\ GoTo(p, "settle")
             /\ UNCHANGED <<rows, calls, at, cluster, held>>

CallVerb(p) == /\ \/ CallCreate(p, focus)
                  \/ CallDelete(p, focus)
                  \/ CallUpdate(p, focus)
               /\ at' = [at EXCEPT ![p] = 1]
               /\ UNCHANGED <<cluster, held>>

LayerStep(p) == (Bookkeeping(p) \/ Crash(p)) /\ UNCHANGED <<at, cluster, held>>

DriverStep(p) ==
    \/ Look(p) \/ ReturnEarly(p)
    \/ HelmInstall(p) \/ HelmUninstall(p) \/ HelmDies(p)
    \/ KubectlApply(p) \/ KubectlDelete(p) \/ KubectlFailsQuietly(p) \/ ComesUp(p)
    \/ PodApplied(p) \/ ReadBack(p) \/ Generate(p)
    \/ Fail(p) \/ Raise(p) \/ Refused(p) \/ Finish(p)

Next == \/ \E p \in Procs : /\ CallVerb(p) \/ LayerStep(p) \/ DriverStep(p)
                            /\ UNCHANGED focus
        \/ PodCompletes

Spec == Init /\ [][Next]_vars

-------------------------------------------------------------------------------
(* What the drivers promise.                                               *)

\* All it promises is there, and what its create waits for has been ready
\* since it was made, in this revision or an earlier one.  Of a PostgreSQL
\* cluster only that it exists: its create takes one it finds for done.
Stands == /\ Promised(focus) \subseteq objs
          /\ ~TakenAsFound(focus) => Awaited(focus) \subseteq up

Made(s) == IF s # focus
           THEN IF RecordedProvisioned(s) THEN "present" ELSE "absent"
           ELSE IF Stands THEN "present"
           ELSE IF Removable(s) \cap objs = {} THEN "absent" ELSE "partial"

D == INSTANCE Deployments WITH made <- [s \in Specs |-> Made(s)],
                               Upserting <- Upserts

\* Every driver does what the recorded state says of it, whatever fails on
\* the way: its create returns only with all it promises on the cluster and
\* what it waits for found ready, its delete only with all it is to remove
\* gone, and it refuses an update only before it touched anything.
ImplementsDeployments == D!Spec

\* So a row that says provisioned is a deployment that stands.
ProvisionedIsPresent == D!ProvisionedIsPresent

\* And a deployment of which anything removable is there has a row, so its
\* delete is recorded; of a PostgreSQL cluster or a MinIO tenant too, whose
\* update deploys nothing.
LiveIsRecorded == D!LiveIsRecorded

\* `records PROVISIONING before the real work starts, then HEALTHY on a clean
\* return' (state/tracking.py:9-11): what is recorded as provisioned has been
\* ready.  Not so: a PostgreSQL cluster whose first create timed out is found
\* by the next one, which returns at once.
RecordedWasReady == RecordedProvisioned(focus) => Awaited(focus) \subseteq up

\* `the row is dropped entirely on success' (state/tracking.py:12): with the
\* row gone, so is the deployment.  Not so of a model on vLLM.
DeletedIsGone ==
    rows[NameOf[focus]].status = "none" /\ focus \notin Upserts
        => Promised(focus) \cap objs = {}

\* A create that is given no credentials never changes those of a tenant, or
\* of a Grafana, that is already there: its clients are using them.
CredentialsKept ==
    [][{"credentials"} \subseteq objs /\ {"credentials"} \subseteq objs'
           => live' = live]_vars
===============================================================================
