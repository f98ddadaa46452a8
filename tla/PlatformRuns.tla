----------------------------- MODULE PlatformRuns -----------------------------
(***************************************************************************)
(* Runs of examples/full_stack.py and of scripts that build_full_stack_plan*)
(* rendered, one after the other against one cluster and one state file.   *)
(* A run finishes, is refused by the SDK, or is stopped by something       *)
(* outside; the operator then runs the script again, with the same stages  *)
(* or with others.                                                         *)
(***************************************************************************)
EXTENDS FullStack, ComposedPlan

CONSTANTS Selections,    \* the sets of stages that the operator may name
          Plans,         \* the plans that the agent may propose
          TrimsCluster,  \* the operator leaves out a cluster that is there
          MaxRuns        \* bound on the runs

ASSUME SelectionsAssumption == Selections \subseteq SUBSET Stages
ASSUME MaxRunsAssumption == MaxRuns \in Nat

VARIABLE job
platformVars == <<stackVars, fullVars, job>>

Jobs == [kind : {"stages"}, of : Selections]
          \cup [kind : {"plan"}, of : {p \in Plans : Accepted(p)}]

Scripts == [j \in Jobs |-> IF j.kind = "stages" THEN Main(j.of) ELSE _render_script(j.of)]

NoJob == [kind |-> "none", of |-> {}]

\* What an earlier run may have left: nothing, or a cluster with storage.
Recorded ==
  [n \in {"ai-cluster", "longhorn"} |->
     [capability |-> IF n = "longhorn" THEN "storage" ELSE "cluster",
      status |-> "provisioned"]]

PlatformInit ==
  /\ StackInit([n \in {} |-> [capability |-> "", status |-> ""]], FALSE)
       \/ StackInit(Recorded, TRUE)
  /\ FullStackInit /\ job = NoJob

ClusterStands == clusterFile /\ Provisioned("cluster")

StartStages(selected) ==
  /\ run < MaxRuns
  /\ job.kind # "plan"
  /\ TrimsCluster /\ "cluster" \in selected => ~ClusterStands
  /\ StartRun(With(Settings, "kubeconfig_path", "path"))
  /\ run' = run + 1 /\ job' = [kind |-> "stages", of |-> selected]
  /\ UNCHANGED secrets

\* A script that the agent handed over, run once or again.  An existing
\* cluster is any whose kubeconfig the user has, made by this SDK or not.
StartPlan(p) ==
  /\ run < MaxRuns
  /\ job.kind # "stages" /\ (job.kind = "plan" => job.of = p)
  /\ p.target = "new" => ~clusterFile
  /\ StartRun(Seeds(p))
  /\ run' = run + 1 /\ job' = [kind |-> "plan", of |-> p]
  /\ UNCHANGED secrets

\* The operator uninstalls a cluster that did not come up.
RemoveCluster ==
  /\ Idle /\ clusterFile /\ ~Provisioned("cluster")
  /\ rows' = [n \in DOMAIN rows \ {"ai-cluster"} |-> rows[n]]
  /\ clusterFile' = FALSE /\ outcome' = "idle"
  /\ UNCHANGED <<values, wiring, taken, fullVars, job>>

TakeStep ==
  /\ outcome = "running" /\ taken < Len(Scripts[job])
  /\ Take(Scripts[job][taken + 1])
  /\ UNCHANGED <<fullVars, job>>

SecretStep ==
  /\ outcome = "running" /\ taken < Len(Scripts[job])
  /\ \/ WriteSecret(Scripts[job][taken + 1])
     \/ SecretFails(Scripts[job][taken + 1])
  /\ UNCHANGED job

FinishRun == job # NoJob /\ Ready(Scripts[job]) /\ UNCHANGED <<fullVars, job>>

PlatformNext ==
  \/ \E selected \in Selections : StartStages(selected)
  \/ \E p \in Plans : Accepted(p) /\ StartPlan(p)
  \/ RemoveCluster \/ TakeStep \/ SecretStep \/ FinishRun

PlatformSpec == PlatformInit /\ [][PlatformNext]_platformVars

-----------------------------------------------------------------------------
(* Properties *)

PlatformTypeOK ==
  /\ StackTypeOK
  /\ run \in 0 .. MaxRuns
  /\ job \in Jobs \cup {NoJob}
  /\ \A n \in DOMAIN secrets : \A k \in DOMAIN secrets[n] : secrets[n][k][1] \in 0 .. run

LayersOf(steps) == {steps[i] : i \in {j \in DOMAIN steps : steps[j].op = "layer"}}
RowsStand(steps) ==
  \A s \in LayersOf(steps) :
     s.name \in DOMAIN rows /\ rows[s.name].status = "provisioned"

\* Selections with a layer that needs storage, and without a stage that
\* publishes a storage class: main() assumes none.
NamesNoClass(selected) ==
  {"queue", "observability"} \cap selected # {} /\ {"storage", "objectstore"} \cap selected = {}

\* What a plan on an existing cluster takes to be there.
BuiltOn(p) == {"cluster"} \cup (IF p.storageClass THEN {"storage"} ELSE {})

OthersStand(selected) == \A stage \in Stages \ selected : RowsStand(StageSteps[stage])

\* The SDK stops no run of stages whose other stages stand, and no accepted
\* plan: what a run does not create itself, main() or the plan has published,
\* in time for the layer that needs it.  Of what main() does not publish the
\* storage class alone is wanted, by the layers that require storage.  A
\* cluster that is there, whole or half built, is not created again, and an
\* existing one must be in this machine's state file, with its storage.
FinishesAlone ==
  outcome = "raised"
    => \/ /\ job.kind = "stages"
          /\ \/ ~OthersStand(job.of)
             \/ "cluster" \in job.of /\ clusterFile /\ taken = 0
             \/ NamesNoClass(job.of) /\ "storage" \in Scripts[job][taken + 1].spec.requires
       \/ /\ job.kind = "plan" /\ job.of.target = "existing"
          /\ \E c \in BuiltOn(job.of) : ~Provisioned(c)

\* What the example says beside its list of stages: "Every stage after the
\* first can run alone".
EveryStageAlone ==
  outcome = "raised" /\ job.kind = "stages" /\ "cluster" \notin job.of => ~OthersStand(job.of)

\* What the script's header says of running it again: a run that the SDK
\* stops leaves what stood as it was.
RerunIsSafe ==
  [][outcome' = "raised" =>
       \A n \in DOMAIN rows : rows[n].status = "provisioned" => rows'[n] = rows[n]]_platformVars

\* Which deployments of a capability a deployment is to be told of, and under
\* which key.
Providers ==
  [gateway |-> {<<"event_backbone_url", "queue">>, <<"inference_endpoint", "inference">>,
                <<"org_cp_internal_url", "controlplane">>,
                <<"rpm_endpoint", "policy">>, <<"tpm_endpoint", "policy">>},
   policy |-> {<<"event_backbone_url", "queue">>, <<"cache_url", "cache">>,
               <<"admin_cp_url", "controlplane">>},
   enricher |-> {<<"event_backbone_url", "queue">>, <<"tokenizer_url", "tokenizer">>},
   billing |-> {<<"event_backbone_url", "queue">>},
   controlplane |-> {<<"billing_endpoint", "billing">>},
   portal |-> {<<"controlplane_endpoint", "controlplane">>, <<"gateway_endpoint", "gateway">>},
   route |-> {<<"ingress_gateway_endpoint", "ingress_gateway">>},
   inference |-> {<<"s3_endpoint_url", "objectstore">>}]

\* A key that only one deployment of the capability can answer for.
Meant(u, key) ==
  CASE key = "rpm_endpoint" -> {"rpm"} [] key = "tpm_endpoint" -> {"tpm"}
    [] key = "org_cp_internal_url" -> {"organization"}
    [] key = "admin_cp_url" -> {"admin"}
    [] key = "controlplane_endpoint" -> {u[2]}
    [] OTHER -> {v[2] : v \in DOMAIN wiring}

Keys(facts) == {fact[1] : fact \in facts}
\* Only an s3:// model calls the object store, and only the organization
\* portal has a chat, which calls the gateway.
Calls(u, key) ==
  /\ key = "s3_endpoint_url" => "s3_secret_name" \in Keys(wiring[u])
  /\ key = "gateway_endpoint" => u[2] = "organization"

\* u knows of the deployments that this link of it is for, once they live.
KnowsOf(u, link) ==
  \A name \in Meant(u, link[1]) :
     <<link[2], name>> \in DOMAIN wiring /\ Calls(u, link[1]) => <<link[1], name>> \in wiring[u]

\* What examples/full_stack.py does not tell: its stage_portal leaves the
\* portal's gateway_upstream empty, its stage_policy the admin_cp_url.
Untold == {<<"portal", "gateway_endpoint">>, <<"policy", "admin_cp_url">>}

\* Two deployments of which one calls the other know of each other as soon
\* as both live: the portal its own control plane, the gateway each of its
\* limiters.  Two links are those of a plan's script alone.
ToldOfEachOther ==
  \A u \in DOMAIN wiring : u[1] \in DOMAIN Providers =>
    \A link \in Providers[u[1]] :
       (job.kind = "stages" /\ <<u[1], link[1]>> \in Untold) \/ KnowsOf(u, link)

\* The same of every link, of which portal/spec.py says what becomes of the
\* chat without it.
EveryoneTold ==
  \A u \in DOMAIN wiring : u[1] \in DOMAIN Providers =>
    \A link \in Providers[u[1]] : KnowsOf(u, link)

Holders(j) ==
  {Scripts[j][i].name : i \in {n \in DOMAIN Scripts[j] : Scripts[j][n].op = "secret"}}
    \cap DOMAIN secrets

\* A run that reached its end has left one value of a key in all the Secrets
\* it wrote it to: the two ends of a call authenticate each other.
KeysAgree ==
  outcome = "ready" =>
    \A a, b \in Holders(job) : \A k \in DOMAIN secrets[a] \cap DOMAIN secrets[b] :
       secrets[a][k] = secrets[b][k]

=============================================================================
