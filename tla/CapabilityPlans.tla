---------------------------- MODULE CapabilityPlans ----------------------------
(***************************************************************************)
(* What each capability driver of multistack does to the cluster, as data: *)
(* a plan is the sequence of calls one verb makes, in the order the code   *)
(* makes them, each of which may raise.  CapabilityDrivers gives the steps *)
(* their meaning.  Printing, and the contents of values and manifests, are *)
(* left out; what a chart or a manifest brings into being is a set of      *)
(* object names.                                                           *)
(***************************************************************************)
EXTENDS Sequences

Do(do, on, gives) == [do |-> do, on |-> on, gives |-> gives]

\* A read or a check that raises unless the environment agrees.
Check(fact) == Do("check", fact, {})
\* Raises unless the driver's own object is there.
Need(obj) == Do("need", obj, {})
NeedRelease(rel) == Do("need_release", rel, {})
\* Returns, the verb done, when the object (the release) is already there.
DoneIf(obj) == Do("done_if", obj, {})
DoneIfRelease(rel, need) == Do("done_if_release", rel, need)
\* HelmRunner.install_or_upgrade, with what the chart brings.
Install(rel, gives) == Do("install", rel, gives)
\* Uninstalls a release recorded as failed, and takes what it brought.
ClearFailed(rel, gives) == Do("clear_failed", rel, gives)
\* The same, only where no release is recorded.
InstallOnce(rel, gives) == Do("install_once", rel, gives)
\* HelmRunner.uninstall: an absent release is an error, or is not.
Uninstall(rel, gives) == Do("uninstall", rel, gives)
UninstallIfAny(rel, gives) == Do("uninstall_if_any", rel, gives)
\* kubectl apply; Create is an apply guarded by a read.
Apply(obj) == Do("apply", obj, {})
\* Waits with a deadline until the object is ready; an older replica will do.
Await(obj) == Do("await", obj, {})
\* kubectl delete --ignore-not-found, checked; Quietly when check=False.
Delete(obj) == Do("delete", obj, {})
DeleteQuietly(obj) == Do("delete_quietly", obj, {})
\* Deletes the object and waits until it is gone, where a read finds it.
DeleteIfFound(obj) == Do("delete_if_found", obj, {})
\* Credentials: read back, or made; see CapabilityDrivers.
Adopt(rel) == Do("adopt", rel, {})
AdoptOrGenerate(rel) == Do("adopt_or_generate", rel, {})
\* A failure here is the request's, not the deployment's: the update is refused.
Refuse(fact) == Do("refuse", fact, {})

\* driver_for: validate the spec, then verify_requirements against the cluster.
DriverFor == <<Check("spec"), Check("cluster")>>
DriverForStored == DriverFor \o <<Check("storage class")>>

-------------------------------------------------------------------------------
(* Releases of the first-party charts: check, install, uninstall.          *)

ChartPrerequisites == <<Check("helm"), Check("cluster")>>

TokenizerPrerequisites == ChartPrerequisites
TokenizerCreate == DriverFor \o TokenizerPrerequisites
                   \o <<Install("tokenizer", {"tokenizer pods"})>>
TokenizerDelete == DriverFor \o <<UninstallIfAny("tokenizer", {"tokenizer pods"})>>

EnricherPrerequisites == ChartPrerequisites
EnricherCreate == DriverFor \o EnricherPrerequisites
                  \o <<Install("enricher", {"enricher pods"})>>
EnricherDelete == DriverFor \o <<UninstallIfAny("enricher", {"enricher pods"})>>

\* The Secret is referenced, never created here: it must hold the keys.
BillingPrerequisites == ChartPrerequisites \o <<Check("secret"), Check("secret keys")>>
BillingCreate == DriverFor \o BillingPrerequisites
                 \o <<Install("billing", {"billing pods"})>>
BillingDelete == DriverFor \o <<UninstallIfAny("billing", {"billing pods"})>>

ControlPlanePrerequisites ==
    ChartPrerequisites \o <<Check("secret"), Check("secret keys")>>
ControlPlaneCreate == DriverFor \o ControlPlanePrerequisites
                      \o <<Install("control-plane", {"control plane pods"})>>
ControlPlaneDelete ==
    DriverFor \o <<UninstallIfAny("control-plane", {"control plane pods"})>>

PortalPrerequisites == ChartPrerequisites
PortalCreate == DriverFor \o PortalPrerequisites
                \o <<Install("portal", {"portal pods"})>>
PortalDelete == DriverFor \o <<UninstallIfAny("portal", {"portal pods"})>>

\* create() of the gateway does not repeat its checks: only driver_for's.
GatewayPrerequisites == ChartPrerequisites \o <<Check("secret"), Check("secret keys")>>
GatewayCreate == DriverFor \o <<Install("gateway", {"gateway pods"})>>
GatewayDelete == DriverFor \o <<UninstallIfAny("gateway", {"gateway pods"})>>

-------------------------------------------------------------------------------
(* queue: NATS JetStream.  The streams are part of what create promises;    *)
(* the admin pod they are made through is left running.                    *)

NatsPrerequisites == <<Check("spec"), Check("helm"), Check("kubectl"),
                       Check("cluster"), Check("storage class")>>
NatsObjects == {"nats pods", "GATEWAY_EVENTS", "GATEWAY_EVENTS_ENRICHED"}
NatsInstall == NatsPrerequisites \o <<ClearFailed("nats", NatsObjects),
                                      Install("nats", {"nats pods"})>>
\* NatsAdminClient.ensure: nothing when the pod runs; else apply and wait.
NatsAdminEnsure == <<Do("pod", "nats-box", {})>>
NatsEnsureStreams == NatsAdminEnsure \o <<Apply("GATEWAY_EVENTS")>>
                     \o NatsAdminEnsure \o <<Apply("GATEWAY_EVENTS_ENRICHED")>>
QueueCreate == DriverForStored \o NatsInstall \o NatsEnsureStreams
QueueUpdate == QueueCreate
NatsDelete == <<Check("spec"), UninstallIfAny("nats", NatsObjects)>>
QueueDelete == DriverForStored \o NatsDelete

-------------------------------------------------------------------------------
(* route: the parent Gateway is shared and created once; the route follows *)
(* the spec.  Deleting a route leaves the parent to the other routes.      *)

HTTPRouteCreate == DriverFor \o <<Check("kubectl"), Apply("parent"), Apply("route")>>
HTTPRouteDelete == DriverFor \o <<Delete("route")>>
VirtualServiceCreate == DriverFor \o <<Check("kubectl"), Apply("parent"), Apply("route")>>
VirtualServiceDelete == DriverFor \o <<Delete("route")>>

-------------------------------------------------------------------------------
(* database: the CloudNativePG operator and the clusters it runs are two   *)
(* deployments with two lifecycles.                                        *)

OperatorPrerequisites == <<Check("spec"), Check("helm"), Check("kubectl"),
                           Check("cluster")>>
VerifyCRD == <<Need("clusters CRD")>>
\* A release that exists, in whatever status, is left alone.
OperatorCreate == DriverFor \o OperatorPrerequisites
                  \o <<DoneIfRelease("cnpg", {"clusters CRD"}),
                       Install("cnpg", {"clusters CRD", "operator pods"})>>
                  \o VerifyCRD
OperatorUpdate == DriverFor \o OperatorPrerequisites
                  \o <<Install("cnpg", {"clusters CRD", "operator pods"})>>
                  \o VerifyCRD
\* The CRD outlives the release: the clusters would go with it.
OperatorDelete == DriverFor \o OperatorPrerequisites
                  \o <<UninstallIfAny("cnpg", {"operator pods"}),
                       Delete("operator namespace")>>

ClusterPrerequisites == <<Check("spec"), Check("kubectl"), Check("cluster")>>
EnsureNamespace == <<Apply("namespace")>>
ApplySecret == <<Apply("app secret")>>
ApplyCluster == <<Apply("postgres cluster")>>
ClusterCreate == DriverFor \o ClusterPrerequisites \o <<Check("clusters CRD")>>
                 \o <<DoneIf("postgres cluster")>>
                 \o EnsureNamespace \o ApplySecret \o ApplyCluster
                 \o <<Await("postgres cluster")>>
ClusterUpdate == DriverFor \o ClusterPrerequisites \o <<Check("clusters CRD")>>
                 \o <<Refuse("postgres cluster")>>
                 \o ApplyCluster \o <<Await("postgres cluster")>>
ClusterDelete == DriverFor \o ClusterPrerequisites \o <<Check("clusters CRD")>>
                 \o <<DeleteIfFound("postgres cluster"), Delete("app secret")>>

-------------------------------------------------------------------------------
(* objectstore: a MinIO tenant and, once, its operator.                    *)

MinIOPrerequisites == <<Check("spec"), Check("helm"), Check("kubectl"),
                        Check("cluster"), Check("storage class")>>
InstallOperator == <<InstallOnce("minio-operator", {"minio operator"})>>
TenantObjects == {"tenant pods", "credentials"}
DeployTenant == <<ClearFailed("tenant", TenantObjects),
                  Install("tenant", TenantObjects)>>
\* No credentials given and a release there: read them back or raise.
\* Mutant: unreadable credentials are generated anew.
MinIOCreate_Generates ==
    MinIOPrerequisites \o <<AdoptOrGenerate("tenant")>> \o InstallOperator
    \o DeployTenant \o <<Apply("network policy"), Await("tenant pods")>>
MinIOCreate == MinIOPrerequisites \o <<Adopt("tenant")>> \o InstallOperator
               \o DeployTenant \o <<Apply("network policy"), Await("tenant pods")>>
MinIODelete == <<Check("spec"), Check("helm"),
                 UninstallIfAny("tenant", TenantObjects), Delete("network policy")>>
\* Mutant: each volume is looked at just before it is patched.
ResizeStorage_OneByOne == <<Check("spec"), Refuse("no shrink"), Apply("volume 1"),
                            Refuse("no shrink"), Apply("volume 2")>>
\* Every volume is looked at before the first one is patched.
ResizeStorage == <<Check("spec"), Refuse("volumes"), Refuse("no shrink"),
                   Apply("volume 1"), Apply("volume 2")>>

-------------------------------------------------------------------------------
(* observability: kube-prometheus-stack and its generated Grafana login.   *)

ObservabilityPrerequisites == ChartPrerequisites
ResolveGrafanaCredentials == <<AdoptOrGenerate("kps")>>
StackObjects == {"prometheus pods", "credentials"}
ObservabilityCreate == DriverForStored \o ObservabilityPrerequisites
                       \o ResolveGrafanaCredentials
                       \o <<Install("kps", StackObjects)>>
ObservabilityDelete == DriverForStored \o <<Check("helm"),
                       UninstallIfAny("kps", StackObjects)>>

-------------------------------------------------------------------------------
(* storage: Longhorn.                                                      *)

\* Per node: sudo, iscsiadm, iscsid and the binaries are hard requirements,
\* NFS only where shared volumes were asked for.
NodeChecks == <<Check("sudo"), Check("iscsiadm"), Check("iscsid"), Check("binaries"),
                Check("nfs")>>
LonghornPrerequisites == <<Check("spec"), Check("helm"), Check("kubectl"),
                           Check("cluster")>> \o NodeChecks
LonghornObjects == {"longhorn pods", "storage class"}
VerifyStorageClass == <<Need("storage class")>>
LonghornCreate == DriverFor \o LonghornPrerequisites
                  \o <<Install("longhorn", LonghornObjects)>> \o VerifyStorageClass
\* The deletion flag is set on a best effort; the uninstall insists on a release.
LonghornDelete == DriverFor \o <<Check("spec"), Check("helm"),
                                  Uninstall("longhorn", LonghornObjects)>>

-------------------------------------------------------------------------------
(* cache: Valkey.  Volumes and namespace stay unless asked for.            *)

ValkeyPrerequisites == <<Check("spec"), Check("helm"), Check("kubectl"),
                         Check("cluster")>>
ValkeyDeploy == <<ClearFailed("valkey", {"valkey pods"}),
                  Install("valkey", {"valkey pods"})>>
ValkeyCreate == DriverFor \o ValkeyPrerequisites \o ValkeyDeploy
                \o <<NeedRelease("valkey")>>
ValkeyUpdate == DriverFor \o ValkeyPrerequisites \o <<NeedRelease("valkey")>>
                \o ValkeyDeploy \o <<NeedRelease("valkey")>>
ValkeyDelete == DriverFor \o <<Check("spec"), Check("helm"),
                UninstallIfAny("valkey", {"valkey pods"})>>

-------------------------------------------------------------------------------
(* accelerator: the device plugin, which must want a pod somewhere.        *)

AcceleratorPrerequisites == ChartPrerequisites \o <<Check("nodes"), Check("node label")>>
AcceleratorCreate == DriverFor \o AcceleratorPrerequisites
                     \o <<Install("device-plugin", {"device plugin"}),
                          Check("desired pods")>>
AcceleratorDelete == DriverFor \o <<UninstallIfAny("device-plugin", {"device plugin"})>>

-------------------------------------------------------------------------------
(* policy: the two rate limiters.                                          *)

PolicyPrerequisites == ChartPrerequisites
RPMCreate == DriverFor \o <<Install("rpm", {"rpm pods"})>>
RPMDelete == DriverFor \o <<UninstallIfAny("rpm", {"rpm pods"})>>
TPMCreate == DriverFor \o <<Install("tpm", {"tpm pods"})>>
TPMDelete == DriverFor \o <<UninstallIfAny("tpm", {"tpm pods"})>>

-------------------------------------------------------------------------------
(* ingress_gateway: four charts, and an address pool whose kinds the first *)
(* of them brings.  Removed in the opposite order.                         *)

MetalLBObjects == {"metallb pods", "pool CRDs"}
PoolManifests == <<Need("pool CRDs"), Apply("address pool")>>
WaitForExternalIP == <<Await("ingress service")>>
IngressCreate ==
    DriverFor \o <<Install("metallb", MetalLBObjects)>> \o PoolManifests
    \o <<Install("istio-base", {"istio CRDs"}), Install("istiod", {"istiod"}),
         Install("ingress", {"ingress service"})>>
    \o WaitForExternalIP
IngressDelete ==
    DriverFor \o <<UninstallIfAny("ingress", {"ingress service"}),
                   UninstallIfAny("istiod", {"istiod"}),
                   UninstallIfAny("istio-base", {"istio CRDs"}),
                   DeleteQuietly("address pool"),
                   UninstallIfAny("metallb", MetalLBObjects \cup {"address pool"})>>

-------------------------------------------------------------------------------
(* inference: one model served by vLLM or by llama.cpp.                    *)

\* Node facts only, and only for the nodes the caller named.
VLLMPrerequisites == <<Check("kubectl"), Check("cluster"), Check("node size")>>
VLLMManifests == <<Apply("namespace"), Apply("deployment"), Apply("service"),
                   Apply("model network policy"), Apply("service monitor")>>
VLLMCreate == DriverFor \o <<Check("spec")>> \o VLLMPrerequisites \o VLLMManifests
              \o <<Await("deployment")>>
VLLMDelete == DriverFor \o <<Check("spec"), Check("kubectl"),
                             Delete("deployment"), Delete("service")>>
LlamaPrerequisites == <<Check("spec"), Check("gpu")>>
LlamaManifests == <<Apply("namespace"), Apply("deployment"), Apply("service")>>
LlamaCreate == DriverFor \o LlamaPrerequisites \o LlamaManifests
               \o <<Await("deployment")>>
LlamaDelete == DriverFor \o <<Delete("service"), Delete("deployment")>>

-------------------------------------------------------------------------------
(* Which deployment runs which plan.  A verb a backend does not have is    *)
(* the empty plan.                                                         *)

Verb3(create, update, delete) ==
    [create |-> create, update |-> update, delete |-> delete]

Plans ==
    [longhorn   |-> Verb3(LonghornCreate, <<>>, LonghornDelete),
     cnpg       |-> Verb3(OperatorCreate, OperatorUpdate, OperatorDelete),
     postgres   |-> Verb3(ClusterCreate, ClusterUpdate, ClusterDelete),
     valkey     |-> Verb3(ValkeyCreate, ValkeyUpdate, ValkeyDelete),
     minio      |-> Verb3(MinIOCreate, ResizeStorage, MinIODelete),
     kps        |-> Verb3(ObservabilityCreate, <<>>, ObservabilityDelete),
     nvidia     |-> Verb3(AcceleratorCreate, <<>>, AcceleratorDelete),
     metallb    |-> Verb3(IngressCreate, <<>>, IngressDelete),
     vllm       |-> Verb3(VLLMCreate, <<>>, VLLMDelete),
     llamacpp   |-> Verb3(LlamaCreate, <<>>, LlamaDelete),
     nats       |-> Verb3(QueueCreate, QueueUpdate, QueueDelete),
     httproute  |-> Verb3(HTTPRouteCreate, <<>>, HTTPRouteDelete),
     virtualservice |-> Verb3(VirtualServiceCreate, <<>>, VirtualServiceDelete),
     rpm        |-> Verb3(RPMCreate, <<>>, RPMDelete),
     tpm        |-> Verb3(TPMCreate, <<>>, TPMDelete),
     gateway    |-> Verb3(GatewayCreate, <<>>, GatewayDelete),
     tokenizer  |-> Verb3(TokenizerCreate, <<>>, TokenizerDelete),
     enricher   |-> Verb3(EnricherCreate, <<>>, EnricherDelete),
     billing    |-> Verb3(BillingCreate, <<>>, BillingDelete),
     controlplane |-> Verb3(ControlPlaneCreate, <<>>, ControlPlaneDelete),
     portal     |-> Verb3(PortalCreate, <<>>, PortalDelete)]

Steps(plan) == {plan[i] : i \in DOMAIN plan}
Given(plan) == (UNION {st.gives : st \in {t \in Steps(plan) :
                                     t.do \in {"install", "install_once"}}})
               \cup {st.on : st \in {t \in Steps(plan) : t.do = "apply"}}

\* What a delete leaves behind on purpose: kinds other deployments' objects
\* are of, namespaces, the parent Gateway of other routes, and the operator
\* of other tenants.
KeptByDesign == {"clusters CRD", "namespace", "parent", "minio operator"}

\* What vLLM's create applies and its delete does not name: nothing in the
\* SDK ever removes these two.
LeftBehind == {"model network policy", "service monitor"}

\* What a deployment is made of, and what of it its delete is to take.
Promised(s) == Given(Plans[s].create) \ KeptByDesign
Removable(s) == Promised(s) \ LeftBehind

\* What a create waits for; where it returns at once when it finds the
\* object, it has not waited.
Awaited(s) == {st.on : st \in {t \in Steps(Plans[s].create) : t.do = "await"}}
              \cap Promised(s)
TakenAsFound(s) == \E st \in Steps(Plans[s].create) : st.do = "done_if"

\* Those whose update installs a chart, whether or not it was there.
Upserts == {s \in DOMAIN Plans : \E st \in Steps(Plans[s].update) : st.do = "install"}

Releases(s) == {st.on : st \in
    {t \in Steps(Plans[s].create) :
        t.do \in {"install", "install_once"}}}
===============================================================================
