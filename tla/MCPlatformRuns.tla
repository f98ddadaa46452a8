---------------------------- MODULE MCPlatformRuns ----------------------------
(* Selections that an operator would name: everything, one subsystem to be    *)
(* put right, a platform grown in two runs.  Plans: what the closure of a     *)
(* request asks for, and the same with one thing missing or wrong.            *)
EXTENDS PlatformRuns

Backing == {"storage", "objectstore", "weights", "inference"}
Events == {"storage", "queue", "tokenizer", "enricher"}
Planes == {"database", "billing", "controlplane"}
RequestPath == {"policy", "gateway"}

MCSelections ==
  {Stages, Stages \ {"cluster"}, Backing, Events \cup {"observability"}, Planes \cup {"cache"},
   RequestPath, RequestPath \cup Planes, {"enricher", "tokenizer"}, {"portal"},
   {"ingress", "route", "registry", "accelerator"}, {"cluster", "storage"},
   {"queue"}, {"observability"}}

\* The whole platform, and one stage of it again.
MCAlone == {Stages, {"queue"}}
MCNoPlans == {}

Request(parts) ==
  [target |-> "existing", storageClass |-> TRUE, parts |-> parts, database |-> TRUE,
   policies |-> << >>, planes |-> << >>, portals |-> << >>, routes |-> << >>,
   upstreams |-> {}, optedOut |-> {}, rawTpm |-> FALSE, s3Model |-> FALSE]

Both == <<"admin", "organization">>
Baseline == {"cnpg", "valkey"}
Metered == Baseline \cup {"gateway", "queue", "enricher", "tokenizer"}

Whole ==
  [Request(Metered \cup {"minio", "inference", "observability", "accelerator", "ingress", "billing"})
     EXCEPT !.policies = <<"rpm", "tpm">>, !.planes = Both, !.portals = Both,
            !.upstreams = ToSet(Both), !.routes = <<"api", "admin-portal">>, !.s3Model = TRUE]

Verified(parts) == [Request(parts) EXCEPT !.planes = <<"organization">>]

MCPlans ==
  {Whole, [Whole EXCEPT !.upstreams = {}], [Whole EXCEPT !.storageClass = FALSE],
   [Whole EXCEPT !.target = "both"], [Whole EXCEPT !.database = FALSE],
   [Whole EXCEPT !.routes = <<"api", "api">>],
   [Whole EXCEPT !.parts = @ \ {"enricher"}], [Whole EXCEPT !.parts = @ \ {"queue"}],
   [Whole EXCEPT !.parts = @ \ {"tokenizer"}], [Whole EXCEPT !.parts = @ \ {"ingress"}],
   Request(Baseline \cup {"gateway"}),
   Verified(Baseline \cup {"gateway", "inference"}),
   [Verified(Baseline) EXCEPT !.portals = <<"organization">>, !.storageClass = FALSE],
   [Verified(Baseline) EXCEPT !.portals = <<"admin">>],
   [Verified(Baseline) EXCEPT !.planes = Both, !.portals = Both],
   [Verified(Baseline \cup {"gateway"}) EXCEPT !.policies = <<"rpm">>, !.optedOut = {"policy"},
                                               !.storageClass = FALSE],
   [Verified(Metered \cup {"billing"}) EXCEPT !.policies = <<"tpm">>],
   [Request({"cnpg"}) EXCEPT !.database = FALSE],
   [Request({"minio", "inference"}) EXCEPT !.storageClass = FALSE]}

\* A new cluster, with one layer on it.
MCNewCluster == {[Request({"storage", "minio"}) EXCEPT !.target = "new", !.storageClass = FALSE]}
=============================================================================
