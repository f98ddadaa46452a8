---------------------------- MODULE MCDeployments ----------------------------
(* The registries as shipped: a ControlPlane and a Portal are both recorded *)
(* under their spec.type, and both have an "admin" type.                    *)
EXTENDS Deployments

MCSpecs == {"admin control plane", "admin portal"}
MCNameOf == [s \in MCSpecs |-> "admin"]
MCTypeOf == [s \in MCSpecs |->
    IF s = "admin portal" THEN "portal" ELSE "controlplane"]
MCRequires == [s \in MCSpecs |-> {}]
MCFound == {[n \in {"admin"} |-> NoRow]}
==============================================================================
