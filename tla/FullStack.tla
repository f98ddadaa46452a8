------------------------------ MODULE FullStack ------------------------------
(***************************************************************************)
(* examples/full_stack.py: the whole platform in stages, of which the      *)
(* operator names some (MULTISTACK_STAGES).  Each stage is the steps it    *)
(* takes through the Stack; between them main() fills in what the stages   *)
(* left out would have published.  The Secrets that the script writes for  *)
(* its deployments are state too: a key in one is the value some run of    *)
(* the script asked for, generated, or found in the environment.           *)
(***************************************************************************)
EXTENDS StackRuns

CONSTANTS EnvKeys   \* the keys whose environment variable the operator sets

StageOrder ==
  <<"cluster", "accelerator", "ingress", "storage", "objectstore", "weights",
    "inference", "cache", "database", "registry", "tokenizer", "queue",
    "enricher", "policy", "gateway", "billing", "controlplane", "portal",
    "route", "observability">>

Stages == ToSet(StageOrder)

-----------------------------------------------------------------------------
(* Secrets *)

VARIABLES secrets, run
fullVars == <<secrets, run>>

\* A step that applies a Secret with these keys for a deployment.
Secret(owner, keys) == [AnyStep EXCEPT !.op = "secret", !.name = owner, !.reads = keys]

\* Mutant: generated for each Secret.
AdminServiceApiKey_Uncached(owner) == <<run, owner>>

\* "service" has no variable in the environment; it is cached for the run.
AdminServiceApiKey(owner) == <<run, "once">>

\* prompt_secret: the environment, else asked for or generated once a run.
Asked(key) == IF key \in EnvKeys THEN <<0, "env">> ELSE <<run, "once">>

KeyFor(owner, key) ==
  IF key = "service" THEN AdminServiceApiKey(owner) ELSE Asked(key)

WriteSecret(s) ==
  /\ outcome = "running" /\ s.given \subseteq DOMAIN values /\ s.op = "secret"
  /\ secrets' = With(secrets, s.name, [k \in s.reads |-> KeyFor(s.name, k)])
  /\ Advance
  /\ UNCHANGED <<values, rows, wiring, clusterFile, run>>

SecretFails(s) ==
  /\ outcome = "running" /\ s.given \subseteq DOMAIN values /\ s.op = "secret"
  /\ Stop("failed")
  /\ UNCHANGED <<rows, wiring, clusterFile, fullVars>>

-----------------------------------------------------------------------------
(* Stages *)

stage_cluster == <<Layer("cluster", "ai-cluster", RKE2Cluster)>>

stage_accelerator ==
  Given({"GPU_NODE"}, <<Work, Layer("accelerator", "nvidia_device_plugin", Accelerator)>>)

stage_ingress ==
  Given({"ADDRESS_POOL"}, <<Layer("ingress_gateway", "metallb_istio", IngressGateway)>>)

stage_storage == <<Work, Layer("storage", "longhorn", Storage)>>

\* Without the storage stage it names the class that is already there.
stage_objectstore ==
  <<Publish([storage_class |-> "longhorn"]),
    Layer("objectstore", "minio-test", MinIOTenant),
    Secret("vllm-qwen", {"root"}),
    Publish([s3_secret_name |-> "minio-creds"])>>

stage_weights == <<Work>>

stage_inference == <<Work, Layer("inference", "vllm-qwen", Inference)>>

stage_cache ==
  <<Secret("valkey", {"cache"}),
    Keeps(Layer("cache", "valkey", Cache), {"cache_auth_url"})>>

DatabaseFor(component) ==
  <<Layer("database-operator", "cnpg-operator", DatabaseOperator),
    Keeps(Layer("database", component, Database), {"db_urls"})>>

stage_database ==
  DatabaseFor("admin-pg") \o DatabaseFor("org-pg") \o DatabaseFor("billing-pg")

stage_registry == Given({"GHCR_TOKEN"}, <<Work>>)

stage_tokenizer == <<Layer("tokenizer", "tiktoken", Tokenizer)>>

stage_queue == <<Layer("queue", "nats", Queue)>>

stage_enricher ==
  <<Reads(Layer("enricher", "enricher", Enricher),
          {"event_backbone_url", "tokenizer_url"})>>

stage_policy ==
  <<Keeps(Reads(Layer("policy", "rpm", Policy), {"cache_auth_url"}), {"rpm_endpoint"}),
    Keeps(Reads(Layer("policy", "tpm", Policy), {"cache_auth_url"}), {"tpm_endpoint"})>>

\* The limiters' endpoints are main()'s variable, empty without the stage.
stage_gateway ==
  <<Secret("modelgateway", {"api", "verify"}),
    Publish([api_key_secret |-> "gateway-keys"]),
    Reads(Told(Layer("gateway", "modelgateway", Gateway),
               [org_cp_internal_url |-> "organization", inference_endpoint |-> "vllm-qwen"]),
          {"rpm_endpoint", "tpm_endpoint"})>>

stage_billing ==
  Given({"db_urls"},
    <<Secret("stripe", {"service"}),
      Reads(Layer("billing", "stripe", Billing), {"event_backbone_url"})>>)

PlaneKeys(type) ==
  {"service", "jwt", "cache"} \cup (IF type = "organization" THEN {"verify"} ELSE {})

ControlPlaneOf(type) ==
  <<Secret(type, PlaneKeys(type)),
    Reads(Layer("controlplane", type, ControlPlane), {"billing_endpoint"})>>

stage_controlplane ==
  Given({"db_urls"}, ControlPlaneOf("admin") \o ControlPlaneOf("organization"))

stage_portal ==
  LET Of(type) == Told(Layer("portal", type, Portal), [controlplane_endpoint |-> type])
  IN <<Of("admin"), Of("organization")>>

stage_route ==
  Given({"ingress_gateway_endpoint"},
    <<Work, Layer("route", "model-gateway", Route), Layer("route", "admin-portal", Route),
      Layer("route", "organization-portal", Route)>>)

stage_observability ==
  <<Layer("observability", "kube_prometheus_stack", Observability)>>

StageSteps ==
  [cluster |-> stage_cluster, accelerator |-> stage_accelerator,
   ingress |-> stage_ingress, storage |-> stage_storage,
   objectstore |-> stage_objectstore, weights |-> stage_weights,
   inference |-> stage_inference, cache |-> stage_cache,
   database |-> stage_database, registry |-> stage_registry,
   tokenizer |-> stage_tokenizer, queue |-> stage_queue,
   enricher |-> stage_enricher, policy |-> stage_policy,
   gateway |-> stage_gateway, billing |-> stage_billing,
   controlplane |-> stage_controlplane, portal |-> stage_portal,
   route |-> stage_route, observability |-> stage_observability]

-----------------------------------------------------------------------------
(* main *)

\* Mutant: the fallback address stays a variable and never reaches the Stack,
\* which is where the gateway's specification takes it from.
Assumed_NoBackbone(stage, selected) ==
  CASE stage = "objectstore" ->
         <<Publish([s3_endpoint_url |-> "minio-test", s3_secret_name |-> "minio-creds"])>>
    [] stage = "cache" /\ {"policy", "controlplane"} \cap selected # {} ->
         <<Publish([cache_url |-> "valkey", cache_auth_url |-> "valkey"])>>
    [] OTHER -> << >>

\* Mutant: the cache that is assumed live is not recorded.
Assumed_NoCache(stage, selected) ==
  CASE stage = "objectstore" ->
         <<Publish([s3_endpoint_url |-> "minio-test", s3_secret_name |-> "minio-creds"])>>
    [] stage = "queue" /\ {"policy", "gateway", "enricher", "billing"} \cap selected # {} ->
         <<Publish([event_backbone_url |-> "nats"])>>
    [] OTHER -> << >>

\* What main() supplies in the place of a stage that does not run.
Assumed(stage, selected) ==
  CASE stage = "objectstore" ->
         <<Publish([s3_endpoint_url |-> "minio-test", s3_secret_name |-> "minio-creds"])>>
    [] stage = "cache" /\ {"policy", "controlplane"} \cap selected # {} ->
         <<Publish([cache_url |-> "valkey", cache_auth_url |-> "valkey"])>>
    [] stage = "queue" /\ {"policy", "gateway", "enricher", "billing"} \cap selected # {} ->
         <<Publish([event_backbone_url |-> "nats"])>>
    [] OTHER -> << >>

Main(selected) ==
  FlattenSeq([i \in DOMAIN StageOrder |->
     LET stage == StageOrder[i]
     IN IF stage \in selected THEN StageSteps[stage] ELSE Assumed(stage, selected)])

\* The optional settings that this operator has made.
Settings == [k \in {"GPU_NODE", "ADDRESS_POOL", "GHCR_TOKEN"} |-> "set"]

FullStackInit ==
  /\ secrets = [n \in {} |-> Nothing]
  /\ run = 0

=============================================================================
