-------------------------------- MODULE Adapter --------------------------------
(***************************************************************************)
(* deployer/kubernetes/: how the objects of one application follow its     *)
(* AppSpec.  K8s.deploy applies them one after the other, each by a read   *)
(* and a write, and gives up at the first call that raises; what was       *)
(* written before stays.  Beside it the autoscaler of the cluster changes  *)
(* the number of replicas, and users own objects of the same names.        *)
(*                                                                         *)
(* The objects are one record; an object is known by the number of the     *)
(* AppSpec in Specs it was last written for, 0 if it does not exist.  What *)
(* the cluster adds to an object (the node ports that _merge_ports keeps)  *)
(* is left out.                                                            *)
(***************************************************************************)
EXTENDS IngressDeployer, FiniteSets

CONSTANTS
    Specs,                  \* AppSpecs of one application, in any order of deployment
    ServiceAccountPerApp,   \* enable_service_account_per_app
    Roles,                  \* list_of_roles, then list_of_cluster_roles: a role may occur twice
    UnlistedRoles,          \* other roles, which were in these lists once or never
    BudgetUnavailable,      \* pdb_max_unavailable, as a number
    MaxTries,               \* the tries of the Deployment's retry_on_upsert_conflict
    MaxDeploys,             \* bound: deploys
    MaxFaults               \* bound: failing calls

\* SpecFactory: the minimum is at most the maximum, and equal if nothing is to scale;
\* the paths name ports of the application (resolve_port_number).
ASSUME SpecsAssumption ==
    /\ Specs # << >>
    /\ DOMAIN Specs \subseteq Nat \ {0}
    /\ \A n \in DOMAIN Specs :
         LET scale == Specs[n].autoscaler IN
         /\ scale.min \in Nat /\ scale.max \in Nat
         /\ scale.min <= scale.max
         /\ scale.enabled = (scale.min # scale.max)
    /\ \A n \in DOMAIN Specs : \A item \in Range(Specs[n].ingresses) :
         \A path \in Range(item.paths) : \E p \in Range(Specs[n].ports) : path.port = p.port

ASSUME NumbersAssumption == MaxTries \in Nat \ {0} /\ BudgetUnavailable \in Nat

\* A role is in the operator's lists, or it is not.
ASSUME RolesAssumption == Range(Roles) \intersect UnlistedRoles = {}

VARIABLES
    k8s,        \* the objects
    job,        \* the running deploy: its step, its AppSpec, what it has read
    recent,     \* history: the replicas the Deployment had since this try began
    deploys,    \* history: deploys begun
    faults      \* history: calls that failed

vars == <<k8s, job, recent, deploys, faults>>

SpecNumbers == DOMAIN Specs
Name(n) == Specs[n].id

\* A binding has a generated name: the place of its role in the lists, or 0 if it is
\* older than the daemon.
Binding(role, own, name) == [role |-> role, own |-> own, name |-> name]
AllRoles == Range(Roles) \union UnlistedRoles

\* What _create makes for each AppSpec: the numbers in the names of its Ingresses.
\* A default host without a port to send it to raises before the first is made.
LacksPort(n) == ShouldHaveIngress(Specs[n]) /\ LacksHttpPort(Specs[n])
IngressNumbers ==
    [n \in SpecNumbers |->
       IF ShouldHaveIngress(Specs[n]) /\ ~LacksPort(n)
       THEN LET made == Ingresses(Specs[n]) IN [k \in DOMAIN made |-> made[k].n]
       ELSE << >>]

\* The ports of its Service, and those its Ingresses send to: what the paths say, or
\* the port named http where no item has paths for the default hosts.
ServicePorts == [n \in SpecNumbers |-> {p.port : p \in Range(Specs[n].ports)}]
Backends ==
    [n \in SpecNumbers |->
       (UNION {{path.port : path \in Range(item.paths)} : item \in Range(Specs[n].ingresses)})
         \union {p.port : p \in {p \in Range(Specs[n].ports) :
                                   p.name = "http" /\ SharedPaths(Specs[n]) = << >>}}]

\* A role is bound to the application by nobody, by a user, or by the daemon before.
Init ==
    /\ k8s \in [serviceAccount : {"none", "foreign"},
                roleBindings : {B \in SUBSET [role : AllRoles, own : BOOLEAN, name : {0}] :
                                  \A b, c \in B : b.role = c.role => b = c},
                service : {0},
                ingresses : {<< >>},
                deployment : {[of |-> 0, replicas |-> 0]},
                autoscaler : {0},
                budget : {0}]
    /\ job = [step |-> "done", of |-> 0, besteffort |-> FALSE, group |-> 0,
              replicas |-> 0, fresh |-> FALSE, tries |-> 0]
    /\ recent = {}
    /\ deploys = 0
    /\ faults = 0

-----------------------------------------------------------------------------
(* What each step writes: the objects after it, from the objects before it. *)

\* ServiceAccountDeployer._create: one that no Application owns is left alone.
ServiceAccount(objects) ==
    IF objects.serviceAccount = "foreign" THEN objects
    ELSE [objects EXCEPT !.serviceAccount = "own"]

\* RoleBindingDeployer.deploy: the daemon's bindings of roles that are not listed go;
\* for every mention of a role in the lists which nobody has bound one is created.
MutUnneeded(objects) == {b \in objects.roleBindings : b.role \notin Range(Roles)}

Unneeded(objects) == {b \in objects.roleBindings : b.own /\ b.role \notin Range(Roles)}

MutMissing(objects) ==
    {Binding(Roles[k], TRUE, k) :
       k \in {k \in DOMAIN Roles : \A b \in objects.roleBindings : b.own => b.role # Roles[k]}}

Missing(objects) ==
    {Binding(Roles[k], TRUE, k) :
       k \in {k \in DOMAIN Roles : \A b \in objects.roleBindings : b.role # Roles[k]}}

RoleBindings(objects) ==
    [objects EXCEPT !.roleBindings = (@ \ Unneeded(objects)) \union Missing(objects)]

\* ServiceDeployer.deploy: no ports, no Service.
Service(objects, n) ==
    [objects EXCEPT !.service = IF Specs[n].ports # << >> THEN n ELSE 0]

\* create_ingress, and the number in the name of the Ingress.
Ingress(objects, n, group) ==
    LET number == IngressNumbers[n][group] IN
    [objects EXCEPT !.ingresses =
       [i \in DOMAIN @ \union {number} |-> IF i = number THEN n ELSE @[i]]]

MutDeleteUnused(objects, n) ==
    [objects EXCEPT !.ingresses = [i \in {i \in DOMAIN @ : i = 0 \/ Name(@[i]) = Name(n)} |-> @[i]]]

\* delete_unused: by the label with the deployment id.
DeleteUnused(objects, n) ==
    [objects EXCEPT !.ingresses = [i \in {i \in DOMAIN @ : Name(@[i]) = Name(n)} |-> @[i]]]

\* should_have_autoscaler, given that a best-effort namespace takes away the
\* requested cpu.
ShouldHaveAutoscaler(n, besteffort) ==
    /\ Specs[n].autoscaler.enabled
    /\ Specs[n].autoscaler.max > 1
    /\ Specs[n].cpu /\ ~besteffort

MutAutoscaler(objects, n, besteffort) ==
    IF ShouldHaveAutoscaler(n, besteffort) THEN [objects EXCEPT !.autoscaler = n] ELSE objects

Autoscaler(objects, n, besteffort) ==
    [objects EXCEPT !.autoscaler = IF ShouldHaveAutoscaler(n, besteffort) THEN n ELSE 0]

\* PodDisruptionBudgetDeployer.deploy: maxUnavailable, or 0 for no budget.
BudgetOf(spec) ==
    IF spec.autoscaler.min <= 1 \/ spec.autoscaler.max <= 1 THEN 0
    ELSE IF BudgetUnavailable >= spec.autoscaler.min THEN 1 ELSE BudgetUnavailable

Budget(objects, n) == [objects EXCEPT !.budget = BudgetOf(Specs[n])]

-----------------------------------------------------------------------------
(* K8s.deploy. *)

MutAfter(step) ==
    CASE step = "serviceAccount" -> "roleBindings"
      [] step = "roleBindings" -> "ingress"
      [] step = "unused" -> "service"
      [] step = "service" -> "replicas"
      [] step = "save" -> "autoscaler"
      [] step = "autoscaler" -> "budget"
      [] step = "budget" -> "done"

\* The order of the objects.
After(step) ==
    CASE step = "serviceAccount" -> "roleBindings"
      [] step = "roleBindings" -> "service"
      [] step = "service" -> "ingress"
      [] step = "unused" -> "replicas"
      [] step = "save" -> "autoscaler"
      [] step = "autoscaler" -> "budget"
      [] step = "budget" -> "done"

\* The best-effort quota is whatever it is when the deploy begins.
Begin(n) ==
    /\ job.step \in {"done", "failed"}
    /\ deploys < MaxDeploys
    /\ deploys' = deploys + 1
    /\ \E besteffort \in BOOLEAN :
         job' = [step |-> IF ServiceAccountPerApp THEN "serviceAccount" ELSE "service",
                 of |-> n, besteffort |-> besteffort, group |-> 1,
                 replicas |-> 0, fresh |-> FALSE, tries |-> 0]
    /\ recent' = {}
    /\ UNCHANGED <<k8s, faults>>

\* The next step, which knows nothing of what the one before has read.
GoTo(step) ==
    /\ job' = [job EXCEPT !.step = step, !.replicas = 0, !.fresh = FALSE, !.tries = 0]
    /\ recent' = {}

\* A call raises, before or after the server has done its part: the rest is left out.
Fail(outcomes) ==
    /\ faults < MaxFaults
    /\ faults' = faults + 1
    /\ k8s' \in outcomes \union {k8s}
    /\ GoTo("failed")

\* A step that applies its object, or fails.
Apply(step, outcomes) ==
    /\ job.step = step
    /\ \/ k8s' \in outcomes /\ GoTo(After(step)) /\ UNCHANGED faults
       \/ Fail(outcomes)
    /\ UNCHANGED deploys

ApplyServiceAccount == Apply("serviceAccount", {ServiceAccount(k8s)})

\* One binding after the other: when a call fails some of the deletions may be done,
\* or all of them and the creations up to a place in the lists.
ApplyRoleBindings ==
    \/ Apply("roleBindings", {RoleBindings(k8s)})
    \/ /\ job.step = "roleBindings"
       /\ Fail({[k8s EXCEPT !.roleBindings = @ \ D] : D \in SUBSET Unneeded(k8s)}
               \union {[k8s EXCEPT !.roleBindings =
                          (@ \ Unneeded(k8s)) \union {b \in Missing(k8s) : b.name <= k}] :
                         k \in DOMAIN Roles})
       /\ UNCHANGED deploys

ApplyService == Apply("service", {Service(k8s, job.of)})

\* IngressDeployer.deploy: one Ingress after the other.
ApplyIngress ==
    /\ job.step = "ingress"
    /\ \/ /\ job.group \in DOMAIN IngressNumbers[job.of]
          /\ LET made == Ingress(k8s, job.of, job.group) IN
             \/ k8s' = made /\ job' = [job EXCEPT !.group = @ + 1] /\ UNCHANGED <<recent, faults>>
             \/ Fail({made})
       \/ /\ DOMAIN IngressNumbers[job.of] \subseteq 1..(job.group - 1)
          /\ GoTo(IF LacksPort(job.of) THEN "failed" ELSE "unused")
          /\ UNCHANGED <<k8s, faults>>
    /\ UNCHANGED deploys

ApplyUnused == Apply("unused", {DeleteUnused(k8s, job.of)})

\* DeploymentDeployer.deploy first asks how many replicas there are, if that is the
\* autoscaler's business (which leaves 0 replicas alone).
ReadReplicas ==
    LET now == k8s.deployment.replicas
        keeps == ShouldHaveAutoscaler(job.of, job.besteffort) /\ now > 0
    IN  /\ job.step = "replicas"
        /\ job' = [job EXCEPT !.step = "get",
                     !.replicas = IF keeps THEN now ELSE Specs[job.of].autoscaler.min]
        /\ recent' = {now}
        /\ UNCHANGED <<k8s, deploys, faults>>

\* get_or_create reads the Deployment again, with its resourceVersion.
GetDeployment ==
    /\ job.step = "get"
    /\ \/ job' = [job EXCEPT !.step = "save", !.fresh = TRUE] /\ UNCHANGED <<k8s, recent, faults>>
       \/ Fail({})
    /\ UNCHANGED deploys

MutTriedMore(n) ==
    IF n <= MaxTries THEN job' = [job EXCEPT !.step = "replicas", !.tries = n] /\ UNCHANGED recent
    ELSE GoTo("failed")

MutTriedGet(n) ==
    IF n < MaxTries
    THEN job' = [job EXCEPT !.step = "get", !.tries = n] /\ recent' = {k8s.deployment.replicas}
    ELSE GoTo("failed")

\* retry_on_upsert_conflict: all is done again, or the conflict is raised.
Tried(n) ==
    IF n < MaxTries THEN job' = [job EXCEPT !.step = "replicas", !.tries = n] /\ UNCHANGED recent
    ELSE GoTo("failed")

SaveDeployment ==
    \/ /\ job.fresh
       /\ Apply("save", {[k8s EXCEPT !.deployment = [of |-> job.of, replicas |-> job.replicas]]})
    \/ /\ job.step = "save" /\ ~job.fresh
       /\ Tried(job.tries + 1)
       /\ UNCHANGED <<k8s, deploys, faults>>

ApplyAutoscaler == Apply("autoscaler", {Autoscaler(k8s, job.of, job.besteffort)})
ApplyBudget == Apply("budget", {Budget(k8s, job.of)})

Steps ==
    \/ ApplyServiceAccount \/ ApplyRoleBindings \/ ApplyService \/ ApplyIngress \/ ApplyUnused
    \/ ReadReplicas \/ GetDeployment \/ SaveDeployment \/ ApplyAutoscaler \/ ApplyBudget

-----------------------------------------------------------------------------
(* The cluster. *)

Rescaled(replicas) ==
    /\ k8s.deployment.of # 0
    /\ k8s' = [k8s EXCEPT !.deployment.replicas = replicas]
    /\ job' = [job EXCEPT !.fresh = FALSE]
    /\ recent' = IF job.step \in {"get", "save"} THEN recent \union {replicas} ELSE recent
    /\ UNCHANGED <<deploys, faults>>

\* The HorizontalPodAutoscaler acts within its limits, unless there are 0 replicas.
Autoscale ==
    /\ k8s.autoscaler # 0 /\ k8s.deployment.replicas > 0
    /\ \E r \in Specs[k8s.autoscaler].autoscaler.min .. Specs[k8s.autoscaler].autoscaler.max :
         Rescaled(r)

\* Somebody stops the application.
Stop == Rescaled(0)

\* The Deployment's controller writes its status.
UpdateStatus == Rescaled(k8s.deployment.replicas)

Next == (\E n \in SpecNumbers : Begin(n)) \/ Steps \/ Autoscale \/ Stop \/ UpdateStatus

Spec == Init /\ [][Next]_vars

-----------------------------------------------------------------------------
(* Properties. *)

TypeOK ==
    /\ DOMAIN k8s = {"serviceAccount", "roleBindings", "service", "ingresses", "deployment",
                     "autoscaler", "budget"}
    /\ k8s.serviceAccount \in {"none", "own", "foreign"}
    /\ k8s.roleBindings \subseteq [role : AllRoles, own : BOOLEAN, name : {0} \union DOMAIN Roles]
    /\ k8s.service \in {0} \union SpecNumbers
    /\ Range(k8s.ingresses) \subseteq SpecNumbers
    /\ k8s.deployment.of \in {0} \union SpecNumbers /\ k8s.deployment.replicas \in Nat
    /\ k8s.autoscaler \in {0} \union SpecNumbers
    /\ k8s.budget \in Nat
    /\ job.of \in {0} \union SpecNumbers /\ job.tries \in 0..MaxTries - 1

Done == job.step = "done" /\ job.of # 0

\* Every listed role is bound, and the daemon binds no other.
RolesBound ==
    /\ \A role \in Range(Roles) : \E b \in k8s.roleBindings : b.role = role
    /\ \A b \in k8s.roleBindings : b.own => b.role \in Range(Roles)

\* Once a deploy has succeeded the objects are those of its AppSpec, whatever
\* AppSpecs were deployed before it and at whatever object their deploys failed
\* (K8s.deploy has no memory of a failed deploy, and must need none).  Its budget
\* leaves the application a pod that runs, whichever number the operator configures
\* (docs/operator_guide.md: "below min_replicas"), and the cluster room to evict a
\* pod, unless that number is 0.
AsSpecified ==
    Done =>
      LET s == Specs[job.of] IN
      /\ k8s.service = IF s.ports = << >> THEN 0 ELSE job.of
      /\ \A n \in Range(IngressNumbers[job.of]) :
           n \in DOMAIN k8s.ingresses /\ k8s.ingresses[n] = job.of
      /\ k8s.deployment.of = job.of
      /\ k8s.autoscaler # 0 <=>
           /\ s.autoscaler.min < s.autoscaler.max /\ s.autoscaler.max >= 2
           /\ s.cpu /\ ~job.besteffort
      /\ k8s.autoscaler \in {0, job.of}
      /\ IF s.autoscaler.min >= 2 /\ s.autoscaler.max >= 2
         THEN k8s.budget < s.autoscaler.min /\ (BudgetUnavailable > 0 => k8s.budget > 0)
         ELSE k8s.budget = 0
      /\ ServiceAccountPerApp =>
           /\ k8s.serviceAccount # "none"
           /\ RolesBound

\* After a deploy there is no Ingress of an AppSpec with another deployment id, so
\* none that sends a host to a service or a port of an older configuration, unless
\* the user changed the configuration under one id (delete_unused compares ids).
NoOldIngress ==
    Done =>
      \A n \in DOMAIN k8s.ingresses :
        k8s.ingresses[n] # job.of =>
          /\ Name(k8s.ingresses[n]) = Name(job.of)
          /\ n \notin Range(IngressNumbers[job.of])

Later(step) ==
    CASE step = "roleBindings" -> {"service", "ingress", "unused", "replicas", "get", "save",
                                   "autoscaler", "budget", "done"}
      [] step = "service" -> {"ingress", "unused", "replicas", "get", "save", "autoscaler",
                              "budget", "done"}
      [] step = "ingress" -> {"unused", "replicas", "get", "save", "autoscaler", "budget", "done"}
      [] step = "unused" -> {"replicas", "get", "save", "autoscaler", "budget", "done"}
      [] step = "save" -> {"autoscaler", "budget", "done"}
      [] step = "autoscaler" -> {"budget", "done"}
      [] step = "budget" -> {"done"}

\* The running deploy is beyond this step, or has succeeded with it.
Beyond(step) == job.of # 0 /\ job.step \in Later(step)

\* The Ingresses that send to a port their Service does not have.
Dangling ==
    LET ports == IF k8s.service = 0 THEN {} ELSE ServicePorts[k8s.service]
    IN  {i \in DOMAIN k8s.ingresses : ~(Backends[k8s.ingresses[i]] \subseteq ports)}

HaveOwners ==
    /\ k8s.autoscaler # 0 => k8s.deployment.of # 0
    /\ k8s.deployment.of # 0 /\ ServiceAccountPerApp => k8s.serviceAccount # "none"

\* What a deploy makes finds what it refers to by name, between any two calls (so the
\* order of K8s.deploy matters).  The autoscaler always has its Deployment, and the
\* Deployment its service account, also after a failure.  An Ingress has its Service,
\* with the ports it sends to, from the moment the deploy writes it, and until a later
\* deploy writes the Service.  From then on older Ingresses may send to a port that is
\* gone (service.py:42-49 comes before ingress_networkingv1.py:85-91): those of another
\* id until they are deleted, or longer if the deploy fails in between, and those of
\* the same id until a deploy writes them again.
ReferencesHold ==
    /\ HaveOwners
    /\ Beyond("service") => \A i \in Dangling : k8s.ingresses[i] # job.of
    /\ Beyond("unused") => \A i \in Dangling : Name(k8s.ingresses[i]) = Name(job.of)

\* A role that is listed once is never bound twice for the application: neither beside
\* a binding that a user made, nor again after a deploy that failed half-way through
\* the bindings (their names are generated, so the API server would not refuse them).
\* A role the operator lists twice may get two bindings, as the list of bindings is
\* not read again after a creation.
BoundOnce ==
    \A b, c \in k8s.roleBindings :
      b.role = c.role /\ b # c =>
        \E j, k \in DOMAIN Roles : j # k /\ Roles[j] = b.role /\ Roles[k] = b.role

\* What belongs to a user of the cluster, not to an Application, is never changed:
\* neither his service account, nor his binding of a role to the application, whether
\* the operator lists the role or not.
ForeignUntouched ==
    [][/\ k8s.serviceAccount = "foreign" => k8s'.serviceAccount = "foreign"
       /\ \A b \in k8s.roleBindings : ~b.own => b \in k8s'.roleBindings]_vars

\* With an autoscaler, a deploy writes a number of replicas which the Deployment had
\* since the try that writes it began: a conflict makes it read the number again,
\* so what the autoscaler decided meanwhile is not undone (deployer.py: "we must
\* avoid that the deployment scales up to ... min_replicas if autoscaler has set
\* another value").
ScaleIsRecent ==
    [][SaveDeployment /\ k8s'.deployment # k8s.deployment
         /\ ShouldHaveAutoscaler(job.of, job.besteffort) /\ 0 \notin recent
       => k8s'.deployment.replicas \in recent]_vars

-----------------------------------------------------------------------------
(* What each step of a deploy finds done: an invariant that its steps keep. *)

JobOK ==
    /\ DOMAIN job = {"step", "of", "besteffort", "group", "replicas", "fresh", "tries"}
    /\ job.step \in {"serviceAccount", "roleBindings", "done", "failed"} \union Later("roleBindings")
    /\ job.step \notin {"done", "failed"} => job.of # 0
    /\ job.step \in {"serviceAccount", "roleBindings", "service"} => job.group = 1
    /\ job.group \in Nat /\ job.replicas \in Nat

\* The objects that are for the whole of a deploy what its step for them has made.
BindingsApplied ==
    Beyond("roleBindings") /\ ServiceAccountPerApp => RolesBound

AccountApplied ==
    (job.step = "roleBindings" \/ Beyond("roleBindings")) /\ ServiceAccountPerApp =>
      k8s.serviceAccount # "none"

ServiceApplied ==
    Beyond("service") => k8s.service = IF Specs[job.of].ports = << >> THEN 0 ELSE job.of

Made(k) ==
    /\ IngressNumbers[job.of][k] \in DOMAIN k8s.ingresses
    /\ k8s.ingresses[IngressNumbers[job.of][k]] = job.of

IngressesApplied ==
    /\ job.step = "ingress" =>
         \A k \in DOMAIN IngressNumbers[job.of] : k \in 1..(job.group - 1) => Made(k)
    /\ Beyond("ingress") => \A k \in DOMAIN IngressNumbers[job.of] : Made(k)
    /\ Beyond("unused") =>
         \A i \in DOMAIN k8s.ingresses : Name(k8s.ingresses[i]) = Name(job.of)

DeploymentApplied ==
    /\ Beyond("save") => k8s.deployment.of = job.of
    /\ k8s.autoscaler # 0 => k8s.deployment.of # 0

AutoscalerApplied ==
    Beyond("autoscaler") =>
      k8s.autoscaler = IF ShouldHaveAutoscaler(job.of, job.besteffort) THEN job.of ELSE 0

BudgetApplied ==
    Beyond("budget") => k8s.budget = BudgetOf(Specs[job.of])

\* The number to be written is one the Deployment had.
ReplicasRead ==
    job.step \in {"get", "save"} /\ ShouldHaveAutoscaler(job.of, job.besteffort)
      /\ 0 \notin recent => job.replicas \in recent

IInv ==
    /\ TypeOK /\ JobOK
    /\ AccountApplied /\ BindingsApplied /\ BoundOnce /\ HaveOwners
    /\ ServiceApplied /\ IngressesApplied
    /\ DeploymentApplied /\ AutoscalerApplied /\ BudgetApplied
    /\ ReplicasRead
==============================================================================
