--------------------------- MODULE CapabilitySpecs ---------------------------
(***************************************************************************)
(* The declarations by which a specification takes part in a composition   *)
(* (src/multistack/*/spec.py, core/rke2.py, core/minio.py, stack.py):      *)
(*   REQUIRES    the capabilities that must exist before it,               *)
(*   FROM_STACK  the fields that a Stack may fill,                         *)
(*   PROVIDES    what it publishes once created,                           *)
(* and, under "required", the fields without which its own validation      *)
(* refuses to construct it.  kubeconfig_path, which every specification    *)
(* takes from the Stack, is left implicit; a field that a Stack fills is   *)
(* named here by the key it is filled from.                                *)
(***************************************************************************)

Declares(requires, fromStack, required, provides) ==
  [requires |-> requires, fromStack |-> fromStack,
   required |-> required, provides |-> provides]

RKE2Cluster == Declares({}, {}, {}, {})
Storage     == Declares({"cluster"}, {}, {}, {"storage_class"})
MinIOTenant == Declares({"cluster", "storage"}, {"storage_class"}, {},
                        {"s3_endpoint_url"})
Observability == Declares({"cluster", "storage"}, {"storage_class"}, {},
                          {"observability_endpoint"})
Queue       == Declares({"cluster", "storage"}, {"storage_class"}, {},
                        {"event_backbone_url"})
Accelerator == Declares({"cluster"}, {}, {}, {})
IngressGateway == Declares({"cluster"}, {}, {}, {"ingress_gateway_endpoint"})

\* An s3:// model needs both halves of its source.
Inference   == Declares({"cluster"}, {"s3_endpoint_url", "s3_secret_name"},
                        {"s3_endpoint_url", "s3_secret_name"},
                        {"inference_endpoint"})
\* The other kind of model downloads its own weights, and may not name a store.
InferencePublicModel == [Inference EXCEPT !.required = {}, !.fromStack = {}]

Cache       == Declares({"cluster"}, {}, {}, {"cache_url"})
\* The operator half and the cluster half of one Database are two backends'
\* verbs; only the cluster half makes a database.
DatabaseOperator == Declares({"cluster"}, {}, {}, {})
Database    == Declares({"cluster"}, {}, {}, {"database_url"})
Tokenizer   == Declares({"cluster"}, {}, {}, {"tokenizer_url"})
Enricher    == Declares({"cluster"}, {}, {}, {})
Policy      == Declares({"cluster"}, {"cache_url", "event_backbone_url"},
                        {"cache_url"}, {"policy_endpoint"})
Gateway     == Declares({"cluster"}, {"event_backbone_url", "api_key_secret"},
                        {"api_key_secret"}, {"gateway_endpoint"})
Billing     == Declares({"cluster", "database"}, {}, {}, {"billing_endpoint"})
ControlPlane == Declares({"cluster", "database", "cache"}, {}, {},
                         {"controlplane_endpoint"})
Portal      == Declares({"cluster"}, {"controlplane_endpoint"},
                        {"controlplane_endpoint"}, {"portal_endpoint"})
Route       == Declares({"cluster", "ingress_gateway"},
                        {"ingress_gateway_endpoint"}, {}, {"route_url"})

\* The key whose publication stands for a capability having been created.
CapabilityOutput ==
  [cluster |-> "kubeconfig_path", storage |-> "storage_class",
   objectstore |-> "s3_endpoint_url", cache |-> "cache_url",
   database |-> "database_url", inference |-> "inference_endpoint",
   policy |-> "policy_endpoint", gateway |-> "gateway_endpoint",
   ingress_gateway |-> "ingress_gateway_endpoint", route |-> "route_url",
   observability |-> "observability_endpoint", tokenizer |-> "tokenizer_url",
   controlplane |-> "controlplane_endpoint", portal |-> "portal_endpoint",
   billing |-> "billing_endpoint", queue |-> "event_backbone_url"]
=============================================================================
