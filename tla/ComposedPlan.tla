----------------------------- MODULE ComposedPlan -----------------------------
(***************************************************************************)
(* The agent's build_full_stack_plan (agentic/backend/src/mcp_tools/       *)
(* full_stack.py) over the platform's dependency order (architecture.py):  *)
(* which plans it accepts, and the script that it renders for one, as the  *)
(* steps that the script takes through a Stack.  A plan is a record:       *)
(*   target        "new" cluster, "existing" one (its kubeconfig), or the  *)
(*                 mistakes "both" and "neither"                           *)
(*   storageClass  existing_storage_class was given                        *)
(*   parts         the components that come once                           *)
(*   database      cnpg carries a database, not the operator alone         *)
(*   policies, planes, portals, routes   the types or names in each list   *)
(*   upstreams     the portals that name their own api_upstream            *)
(*   optedOut      the components with allow_no_backbone                   *)
(*   rawTpm        the tpm policy was pointed away from the enriched stream*)
(*   s3Model       the model is an s3:// path                              *)
(***************************************************************************)
EXTENDS StackRuns

-----------------------------------------------------------------------------
(* architecture.py *)

DEPENDS_ON ==
  Over([minio |-> {"storage"}, observability |-> {"storage"}, queue |-> {"storage"},
        controlplane |-> {"cnpg", "valkey"}, portal |-> {"controlplane"},
        gateway |-> {"controlplane"}, policy |-> {"gateway", "valkey", "queue"},
        enricher |-> {"gateway", "queue", "tokenizer"}, tokenizer |-> {"enricher"},
        billing |-> {"cnpg", "enricher"}, route |-> {"ingress"}],
       [c \in {"storage", "accelerator", "inference", "valkey", "cnpg", "ingress"} |-> {}])

-----------------------------------------------------------------------------
(* Which plans are accepted *)

Lists(p) ==
  [policy |-> p.policies, controlplane |-> p.planes, portal |-> p.portals,
   route |-> p.routes]

HasStorage(p) == "storage" \in p.parts \/ p.storageClass
HasDatabase(p) == "cnpg" \in p.parts /\ p.database

Composed(p) ==
  p.parts \cup {c \in DOMAIN Lists(p) : Lists(p)[c] # << >>}
          \cup (IF HasStorage(p) THEN {"storage"} ELSE {})

Has(p, list, item) == Lists(p)[list] # << >> /\ item \in ToSet(Lists(p)[list])

TargetFits(p) ==
  /\ p.target \in {"new", "existing"}
  /\ p.target = "new" => ~p.storageClass
  /\ p.target = "existing" => "storage" \notin p.parts

\* Two of a kind would share a release and a namespace.
Distinct(p) == \A c \in DOMAIN Lists(p) : IsInjective(Lists(p)[c])

\* The edges that depend on a field.
FieldsFit(p) ==
  /\ "billing" \in p.parts => HasDatabase(p) /\ "enricher" \in p.parts
  /\ "gateway" \in p.parts => Has(p, "controlplane", "organization")
  /\ Has(p, "policy", "tpm") /\ ~p.rawTpm => "enricher" \in p.parts
  /\ p.routes # << >> => "ingress" \in p.parts
  /\ {"minio", "observability"} \cap p.parts # {} => HasStorage(p)
  /\ p.planes # << >> => HasDatabase(p) /\ "valkey" \in p.parts


PortalsFit(p) ==
  \A i \in DOMAIN p.portals :
     /\ Len(p.planes) > 1 => p.portals[i] \in p.upstreams
     /\ Has(p, "controlplane", p.portals[i])

Waived(p, c) == IF c \in p.optedOut THEN {"queue"} ELSE {}

_missing_dependency(p) ==
  (UNION {DEPENDS_ON[c] \ Waived(p, c) : c \in Composed(p)}) \ Composed(p)

Accepted(p) ==
  TargetFits(p) /\ Distinct(p) /\ FieldsFit(p) /\ PortalsFit(p)
    /\ _missing_dependency(p) = {}

-----------------------------------------------------------------------------
(* The script *)

When(condition, steps) == IF condition THEN steps ELSE << >>
Once(p, part, step) == When(part \in p.parts, <<step>>)
PerItem(items, Render(_)) == [i \in DOMAIN items |-> Render(items[i])]

\* A field rendered from a composed component's own endpoint.
TellIf(step, condition, key, value) ==
  IF condition THEN Told(step, With(step.explicit, key, value)) ELSE step

\* An existing cluster's Stack starts with what is there; a new one's is
\* given what RKE2Backend.create returned.
Seeds(p) ==
  IF p.target = "existing"
  THEN [k \in {"kubeconfig_path"} \cup (IF p.storageClass THEN {"storage_class"} ELSE {})
          |-> IF k = "kubeconfig_path" THEN "path" ELSE "given"]
  ELSE Nothing

render_cluster(p) ==
  When(p.target = "new",
       <<Layer("cluster", "ai-cluster", RKE2Cluster),
         Publish([kubeconfig_path |-> "contents"])>>)

render_storage(p) == When("storage" \in p.parts, <<Work, Layer("storage", "longhorn", Storage)>>)

render_minio(p) == Once(p, "minio", Layer("objectstore", "minio", MinIOTenant))

render_accelerator(p) ==
  Once(p, "accelerator", Layer("accelerator", "nvidia_device_plugin", Accelerator))

\* The Secret's name, and without minio the endpoint, are the caller's.
render_inference(p) ==
  LET model == IF p.s3Model THEN Told(Layer("inference", "vllm", Inference),
                                      [s3_secret_name |-> "given"])
               ELSE Layer("inference", "vllm", InferencePublicModel)
  IN Once(p, "inference",
          TellIf(model, p.s3Model /\ "minio" \notin p.parts, "s3_endpoint_url", "given"))

render_cache(p) == Once(p, "valkey", Layer("cache", "valkey", Cache))

render_database(p) ==
  Once(p, "cnpg", Layer("database-operator", "cnpg-operator", DatabaseOperator))
    \o When(HasDatabase(p), <<Layer("database", "pg", Database)>>)

\* Billing comes later: its address is read off its specification.
render_controlplanes(p) ==
  LET Render(type) == TellIf(Layer("controlplane", type, ControlPlane),
                             "billing" \in p.parts, "billing_endpoint", "stripe")
  IN PerItem(p.planes, Render)

render_observability(p) ==
  Once(p, "observability", Layer("observability", "kube_prometheus_stack", Observability))

render_queue(p) == Once(p, "queue", Layer("queue", "nats", Queue))

render_tokenizer(p) == Once(p, "tokenizer", Layer("tokenizer", "tiktoken", Tokenizer))

\* Mutant: the tokenizer is left to FROM_STACK, which fills fields and not
\* options.
render_enricher_Fills(p) ==
  Once(p, "enricher",
       TellIf(Layer("enricher", "enricher", Enricher), "queue" \in p.parts,
              "event_backbone_url", "nats"))

render_enricher(p) ==
  Once(p, "enricher",
       TellIf(Reads(Layer("enricher", "enricher", Enricher),
                    IF "tokenizer" \in p.parts THEN {"tokenizer_url"} ELSE {}),
              "queue" \in p.parts, "event_backbone_url", "nats"))

Limiter(type) == IF type = "rpm" THEN "rpm_endpoint" ELSE "tpm_endpoint"

\* Each limiter stays in a variable of the script for the gateway.
render_policies(p) ==
  LET Render(type) ==
        LET limiter == Keeps(Layer("policy", type, Policy), {Limiter(type)})
        IN TellIf(TellIf(limiter, "valkey" \notin p.parts, "cache_url", "given"),
                  Has(p, "controlplane", "admin"), "admin_cp_url", "admin")
  IN PerItem(p.policies, Render)

render_gateway(p) ==
  LET gateway ==
        Told(Layer("gateway", "modelgateway", Gateway),
             [api_key_secret |-> "given", org_cp_internal_url |-> "organization"])
  IN Once(p, "gateway",
          TellIf(Names(gateway,
                       {Limiter(p.policies[i]) : i \in DOMAIN p.policies} \cup
                       (IF "inference" \in p.parts THEN {"inference_endpoint"} ELSE {})),
                 "inference" \notin p.parts, "inference_endpoint", "given"))

render_ingress(p) ==
  Once(p, "ingress", Layer("ingress_gateway", "metallb_istio", IngressGateway))

\* Only a lone control plane's endpoint in the Stack is sure to be the
\* portal's; with two, each portal names its own.
render_portals(p) ==
  LET Render(type) ==
        LET portal == TellIf(Layer("portal", type, Portal),
                             Len(p.planes) # 1 /\ type \in p.upstreams,
                             "controlplane_endpoint", type)
        IN IF type = "organization" /\ "gateway" \in p.parts
           THEN Names(portal, {"gateway_endpoint"}) ELSE portal
  IN PerItem(p.portals, Render)

render_billing(p) ==
  Once(p, "billing", TellIf(Layer("billing", "stripe", Billing),
                            "queue" \in p.parts, "event_backbone_url", "nats"))

render_routes(p) ==
  LET Render(name) == Layer("route", name, Route)
  IN PerItem(p.routes, Render)

\* Mutant: the gateway ahead of the limiters it is to call, whose variables
\* the script has not assigned yet.
_render_script_GatewayFirst(p) ==
  render_cluster(p) \o render_storage(p) \o render_minio(p)
    \o render_accelerator(p) \o render_inference(p) \o render_cache(p)
    \o render_database(p) \o render_controlplanes(p) \o render_observability(p)
    \o render_queue(p) \o render_tokenizer(p) \o render_enricher(p)
    \o render_gateway(p) \o render_policies(p) \o render_ingress(p)
    \o render_portals(p) \o render_billing(p) \o render_routes(p)

_render_script(p) ==
  render_cluster(p) \o render_storage(p) \o render_minio(p)
    \o render_accelerator(p) \o render_inference(p) \o render_cache(p)
    \o render_database(p) \o render_controlplanes(p) \o render_observability(p)
    \o render_queue(p) \o render_tokenizer(p) \o render_enricher(p)
    \o render_policies(p) \o render_gateway(p) \o render_ingress(p)
    \o render_portals(p) \o render_billing(p) \o render_routes(p)
=============================================================================
