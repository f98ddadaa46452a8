------------------------- MODULE MCCapabilityDrivers -------------------------
(* The shipped drivers, each with the component type its registry records   *)
(* it under and the types its spec names in REQUIRES.                       *)
EXTENDS CapabilityDrivers

MCSpecs == DOMAIN Plans \cup {"edge"}
MCNameOf == [s \in MCSpecs |-> s]
MCTypeOf == [s \in MCSpecs |->
    CASE s = "edge" -> "cluster"
      [] s = "longhorn" -> "storage"
      [] s = "postgres" -> "database"
      [] s = "cnpg" -> "database-operator"
      [] s = "valkey" -> "cache"
      [] s = "minio" -> "objectstore"
      [] s = "kps" -> "observability"
      [] s = "nvidia" -> "accelerator"
      [] s = "metallb" -> "ingress_gateway"
      [] s \in {"vllm", "llamacpp"} -> "inference"
      [] s = "nats" -> "queue"
      [] s \in {"httproute", "virtualservice"} -> "route"
      [] s \in {"rpm", "tpm"} -> "policy"
      [] OTHER -> s]
MCRequires == [s \in MCSpecs |->
    CASE s = "edge" -> {}
      [] s \in {"minio", "kps", "nats"} -> {"cluster", "storage"}
      [] s = "controlplane" -> {"cluster", "database", "cache"}
      [] s = "billing" -> {"cluster", "database"}
      [] s \in {"httproute", "virtualservice"} -> {"cluster", "ingress_gateway"}
      [] OTHER -> {"cluster"}]
MCUpdatable == {s \in DOMAIN Plans : Plans[s].update # <<>>}

Providers == {"edge", "longhorn", "postgres", "valkey", "metallb"}
MCFound == {[n \in MCSpecs |-> NoRow],
            [n \in MCSpecs |-> IF n \in Providers
                               THEN [status |-> "provisioned", type |-> MCTypeOf[n]]
                               ELSE NoRow]}

MCFocus == DOMAIN Plans
MCKillable == MCFocus \ {"cnpg"}
MCMisread == MCFocus \ {"postgres", "kps"}
==============================================================================
