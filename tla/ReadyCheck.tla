------------------------------ MODULE ReadyCheck ------------------------------
(***************************************************************************)
(* deployer/kubernetes/ready_check.py: when a deploy counts as ready.  The *)
(* check reads what the cluster says of the Deployment and of the          *)
(* certificates of its ingresses; the cluster's controllers, modelled here *)
(* as far as the check can tell, roll the Deployment out in the meantime   *)
(* and write its status with a delay.                                      *)
(***************************************************************************)
EXTENDS Naturals

CONSTANTS
    MaxReplicas,            \* bound: replicas of the Deployment
    CertificateReady        \* tls_certificate_ready, and TLS is on for the app

ASSUME ReplicasAssumption == MaxReplicas \in Nat
ASSUME CertificateAssumption == CertificateReady \in BOOLEAN

VARIABLES
    spec,       \* the Deployment's generation (0 before there is one) and replicas
    pods,       \* its pods: of earlier generations, of this one, and those available
    status,     \* what the controller wrote last, of which generation, and the
                \* pods of earlier generations it had counted
    cert        \* the Certificates of its ingresses are issued and have not expired

rolloutVars == <<spec, pods, status, cert>>

RolloutInit ==
    /\ spec = [gen |-> 0, replicas |-> 0]
    /\ pods = [old |-> 0, new |-> 0, up |-> 0]
    /\ status = [gen |-> 0, updated |-> 0, total |-> 0, available |-> 0, up |-> 0]
    /\ cert = FALSE

\* The adapter saves the Deployment with new content.
Save(replicas) ==
    /\ spec' = [gen |-> spec.gen + 1, replicas |-> replicas]
    /\ pods' = [old |-> pods.old + pods.new, new |-> 0, up |-> 0]
    /\ UNCHANGED <<status, cert>>

-----------------------------------------------------------------------------
(* The cluster. *)

PodsMove ==
    /\ \/ /\ pods.new < spec.replicas
          /\ pods' = [pods EXCEPT !.new = @ + 1]
       \/ /\ pods.up < pods.new
          /\ pods' = [pods EXCEPT !.up = @ + 1]
       \/ /\ pods.up > 0
          /\ pods' = [pods EXCEPT !.up = @ - 1]
       \/ /\ pods.old > 0
          /\ pods' = [pods EXCEPT !.old = @ - 1]
    /\ UNCHANGED <<spec, status, cert>>

\* Any number of the old pods may be available still.
SyncStatus ==
    /\ spec.gen > 0
    /\ \E up \in 0..pods.old :
         status' = [gen |-> spec.gen, updated |-> pods.new, total |-> pods.old + pods.new,
                    available |-> pods.up + up, up |-> pods.up]
    /\ UNCHANGED <<spec, pods, cert>>

Certify ==
    /\ cert' = ~cert
    /\ UNCHANGED <<spec, pods, status>>

Cluster == PodsMove \/ SyncStatus \/ Certify

-----------------------------------------------------------------------------
(* The check. *)

\* What the API shows of a count: no field at all for zero.
Shown(count) == IF count = 0 THEN {} ELSE {count}

MutDeploymentReady ==
    /\ spec.gen > 0
    /\ \A count \in {status.updated, status.total, status.available} :
         Shown(count) = Shown(spec.replicas)

\* _deployment_ready: the counts of the status are those of the spec, and the
\* status is of this generation.
DeploymentReady ==
    /\ spec.gen > 0
    /\ \A count \in {status.updated, status.total, status.available} :
         Shown(count) = Shown(spec.replicas)
    /\ status.gen >= spec.gen

\* _ingress_ready
IngressReady == CertificateReady => cert
===============================================================================
