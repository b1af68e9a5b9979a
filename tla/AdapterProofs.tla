----------------------------- MODULE AdapterProofs -----------------------------
(***************************************************************************)
(* Proofs about Adapter, for every list of AppSpecs, every configuration   *)
(* and any number of deploys and of calls that fail.  Each step of a       *)
(* deploy relies on what the steps before it have made and nothing undoes  *)
(* before the deploy ends; a deploy that fails leaves only what holds of   *)
(* the objects at any time.                                                *)
(***************************************************************************)
EXTENDS Adapter, TLAPS

\* What holds of the objects whatever step a deploy is at, or has failed at.
ObjectsTyped ==
    /\ DOMAIN k8s = {"serviceAccount", "roleBindings", "service", "ingresses", "deployment",
                     "autoscaler", "budget"}
    /\ k8s.serviceAccount \in {"none", "own", "foreign"}
    /\ k8s.roleBindings \subseteq [role : AllRoles, own : BOOLEAN, name : {0} \union DOMAIN Roles]
    /\ k8s.service \in {0} \union SpecNumbers
    /\ Range(k8s.ingresses) \subseteq SpecNumbers
    /\ k8s.deployment.of \in {0} \union SpecNumbers /\ k8s.deployment.replicas \in Nat
    /\ k8s.autoscaler \in {0} \union SpecNumbers
    /\ k8s.budget \in Nat

Sound == ObjectsTyped /\ BoundOnce /\ HaveOwners

LEMMA LaterSteps ==
    /\ Later("roleBindings") = {"service", "ingress", "unused", "replicas", "get", "save",
                                "autoscaler", "budget", "done"}
    /\ Later("service") = {"ingress", "unused", "replicas", "get", "save", "autoscaler",
                           "budget", "done"}
    /\ Later("ingress") = {"unused", "replicas", "get", "save", "autoscaler", "budget", "done"}
    /\ Later("unused") = {"replicas", "get", "save", "autoscaler", "budget", "done"}
    /\ Later("save") = {"autoscaler", "budget", "done"}
    /\ Later("autoscaler") = {"budget", "done"}
    /\ Later("budget") = {"done"}
BY DEF Later

LEMMA AfterSteps ==
    /\ After("serviceAccount") = "roleBindings"
    /\ After("roleBindings") = "service"
    /\ After("service") = "ingress"
    /\ After("unused") = "replicas"
    /\ After("save") = "autoscaler"
    /\ After("autoscaler") = "budget"
    /\ After("budget") = "done"
BY DEF After

LEMMA SpecNumbered ==
    ASSUME NEW n \in SpecNumbers
    PROVE  /\ n \in Nat \ {0}
           /\ Specs[n].autoscaler.min \in Nat /\ Specs[n].autoscaler.max \in Nat
           /\ Specs[n].autoscaler.min <= Specs[n].autoscaler.max
           /\ Specs[n].autoscaler.enabled = (Specs[n].autoscaler.min # Specs[n].autoscaler.max)
BY SpecsAssumption DEF SpecNumbers

LEMMA Goes ==
    ASSUME JobOK, NEW step, GoTo(step)
    PROVE  /\ DOMAIN job' = DOMAIN job
           /\ job'.step = step /\ job'.of = job.of /\ job'.besteffort = job.besteffort
           /\ job'.group = job.group /\ job'.replicas = 0 /\ job'.tries = 0
           /\ recent' = {}
BY DEF JobOK, GoTo

\* A deploy that fails claims nothing of the objects.
LEMMA FailureKeeps ==
    ASSUME IInv, Sound', GoTo("failed")
    PROVE  IInv'
<1>1. JobOK
  BY DEF IInv
<1>2. /\ DOMAIN job' = DOMAIN job
      /\ job'.step = "failed" /\ job'.of = job.of /\ job'.group = job.group
      /\ job'.replicas = 0 /\ job'.tries = 0
  BY <1>1, Goes
<1>3. TypeOK'
  <2>1. job'.of \in {0} \union SpecNumbers /\ 0 \in 0..MaxTries - 1
    BY <1>2, NumbersAssumption DEF IInv, TypeOK
  <2> QED
    BY <1>2, <2>1 DEF Sound, ObjectsTyped, TypeOK
<1>4. JobOK'
  BY <1>1, <1>2 DEF JobOK
<1>5. /\ ~Beyond("roleBindings")' /\ ~Beyond("service")' /\ ~Beyond("ingress")'
      /\ ~Beyond("unused")' /\ ~Beyond("save")' /\ ~Beyond("autoscaler")' /\ ~Beyond("budget")'
  BY <1>2, LaterSteps DEF Beyond
<1>6. AccountApplied' /\ ServiceApplied' /\ IngressesApplied' /\ AutoscalerApplied'
      /\ BudgetApplied' /\ ReplicasRead'
  BY <1>2, <1>5 DEF AccountApplied, ServiceApplied, IngressesApplied, AutoscalerApplied,
       BudgetApplied, ReplicasRead
<1>7. BindingsApplied' /\ DeploymentApplied'
  BY <1>5 DEF BindingsApplied, DeploymentApplied, Sound, HaveOwners
<1> QED
  BY <1>3, <1>4, <1>6, <1>7 DEF IInv, Sound

LEMMA IsSound == IInv => Sound
BY DEF IInv, Sound, ObjectsTyped, TypeOK, BindingsApplied

LEMMA SameSound ==
    ASSUME Sound, k8s' = k8s
    PROVE  Sound'
BY DEF Sound, ObjectsTyped, BoundOnce, HaveOwners

LEMMA TypeAfter ==
    ASSUME IInv, Sound', NEW step \in Later("roleBindings") \union {"roleBindings"},
           job.of # 0, GoTo(step),
           step \in {"roleBindings", "service"} => job.group = 1
    PROVE  TypeOK' /\ JobOK'
<1>1. JobOK
  BY DEF IInv
<1>2. /\ DOMAIN job' = DOMAIN job
      /\ job'.step = step /\ job'.of = job.of /\ job'.group = job.group
      /\ job'.replicas = 0 /\ job'.tries = 0
  BY <1>1, Goes
<1>3. job'.of \in {0} \union SpecNumbers /\ 0 \in 0..MaxTries - 1
  BY <1>2, NumbersAssumption DEF IInv, TypeOK
<1>4. TypeOK'
  BY <1>2, <1>3 DEF Sound, ObjectsTyped, TypeOK
<1>5. step \notin {"serviceAccount", "failed"}
  BY LaterSteps
<1>6. JobOK'
  BY <1>1, <1>2, <1>5 DEF JobOK
<1> QED
  BY <1>4, <1>6

-----------------------------------------------------------------------------
(* What each step writes. *)

\* A step of a running deploy is for an AppSpec.
LEMMA Running ==
    ASSUME IInv, job.step \notin {"done", "failed"}
    PROVE  job.of \in SpecNumbers /\ job.of # 0 /\ job.of \in Nat
<1>1. job.of \in SpecNumbers /\ job.of # 0
  BY DEF IInv, JobOK, TypeOK
<1> QED
  BY <1>1, SpecNumbered

LEMMA AccountSound ==
    ASSUME Sound, k8s' = ServiceAccount(k8s)
    PROVE  /\ Sound'
           /\ k8s'.serviceAccount # "none"
           /\ k8s'.roleBindings = k8s.roleBindings
<1>1. /\ DOMAIN k8s' = DOMAIN k8s
      /\ k8s'.serviceAccount \in {"own", "foreign"}
      /\ k8s'.roleBindings = k8s.roleBindings /\ k8s'.service = k8s.service
      /\ k8s'.ingresses = k8s.ingresses /\ k8s'.deployment = k8s.deployment
      /\ k8s'.autoscaler = k8s.autoscaler /\ k8s'.budget = k8s.budget
  BY DEF Sound, ObjectsTyped, ServiceAccount
<1> QED
  BY <1>1 DEF Sound, ObjectsTyped, BoundOnce, HaveOwners

\* The bindings after any part of the deletions, or all of them and any part of the
\* creations.
LEMMA BindingsSound ==
    ASSUME Sound, NEW D \in SUBSET Unneeded(k8s), NEW C \in SUBSET Missing(k8s),
           k8s' = [k8s EXCEPT !.roleBindings = (@ \ D) \union C]
    PROVE  Sound'
<1>1. /\ DOMAIN k8s' = DOMAIN k8s
      /\ k8s'.roleBindings = (k8s.roleBindings \ D) \union C
      /\ k8s'.serviceAccount = k8s.serviceAccount /\ k8s'.service = k8s.service
      /\ k8s'.ingresses = k8s.ingresses /\ k8s'.deployment = k8s.deployment
      /\ k8s'.autoscaler = k8s.autoscaler /\ k8s'.budget = k8s.budget
  BY DEF Sound, ObjectsTyped
<1>2. \A c \in C : \E k \in DOMAIN Roles :
        /\ c = Binding(Roles[k], TRUE, k) /\ c.role = Roles[k]
        /\ c \in [role : AllRoles, own : BOOLEAN, name : {0} \union DOMAIN Roles]
        /\ \A b \in k8s.roleBindings : b.role # Roles[k]
  <2> TAKE c \in C
  <2>1. PICK k \in DOMAIN Roles : /\ \A b \in k8s.roleBindings : b.role # Roles[k]
                                  /\ c = Binding(Roles[k], TRUE, k)
    BY DEF Missing
  <2>2. Roles[k] \in AllRoles
    BY DEF AllRoles, Range
  <2> QED
    BY <2>1, <2>2 DEF Binding
<1>3. ObjectsTyped'
  BY <1>1, <1>2 DEF Sound, ObjectsTyped
<1>4. BoundOnce'
  <2> SUFFICES ASSUME NEW b \in k8s'.roleBindings, NEW c \in k8s'.roleBindings,
                      b.role = c.role, b # c
               PROVE  \E j, k \in DOMAIN Roles : j # k /\ Roles[j] = b.role /\ Roles[k] = b.role
    BY DEF BoundOnce
  <2>1. CASE b \in C /\ c \in C
    <3>1. PICK j \in DOMAIN Roles : b = Binding(Roles[j], TRUE, j) /\ b.role = Roles[j]
      BY <1>2, <2>1
    <3>2. PICK k \in DOMAIN Roles : c = Binding(Roles[k], TRUE, k) /\ c.role = Roles[k]
      BY <1>2, <2>1
    <3>3. j # k
      BY <3>1, <3>2
    <3> QED
      BY <3>1, <3>2, <3>3
  <2>2. CASE b \in k8s.roleBindings /\ c \in k8s.roleBindings
    BY <2>2 DEF Sound, BoundOnce
  <2>3. ~(b \in C /\ c \in k8s.roleBindings) /\ ~(c \in C /\ b \in k8s.roleBindings)
    BY <1>2
  <2> QED
    BY <1>1, <2>1, <2>2, <2>3
<1>5. HaveOwners'
  BY <1>1 DEF Sound, HaveOwners
<1> QED
  BY <1>3, <1>4, <1>5 DEF Sound

\* Once all deletions and creations are done every listed role is bound, and by the
\* daemon no other.
LEMMA BindingsDone ==
    ASSUME Sound, k8s' = RoleBindings(k8s)
    PROVE  Sound' /\ RolesBound' /\ k8s'.serviceAccount = k8s.serviceAccount
<1>1. k8s' = [k8s EXCEPT !.roleBindings = (@ \ Unneeded(k8s)) \union Missing(k8s)]
  BY DEF RoleBindings
<1>2. Sound'
  BY <1>1, BindingsSound
<1>3. /\ k8s'.roleBindings = (k8s.roleBindings \ Unneeded(k8s)) \union Missing(k8s)
      /\ k8s'.serviceAccount = k8s.serviceAccount
  BY <1>1 DEF Sound, ObjectsTyped
<1>4. ASSUME NEW b \in k8s'.roleBindings, b.own
      PROVE  b.role \in Range(Roles)
  <2>1. CASE b \in Missing(k8s)
    BY <2>1 DEF Missing, Binding, Range
  <2>2. CASE b \in k8s.roleBindings /\ b \notin Unneeded(k8s)
    BY <1>4, <2>2 DEF Unneeded
  <2> QED
    BY <1>3, <2>1, <2>2
<1>5. ASSUME NEW role \in Range(Roles)
      PROVE  \E b \in k8s'.roleBindings : b.role = role
  <2>1. CASE \E b \in k8s.roleBindings : b.role = role
    BY <2>1, <1>3 DEF Unneeded
  <2>2. CASE \A b \in k8s.roleBindings : b.role # role
    <3>1. PICK k \in DOMAIN Roles : Roles[k] = role
      BY DEF Range
    <3>2. Binding(role, TRUE, k) \in k8s'.roleBindings
      BY <2>2, <3>1, <1>3 DEF Missing
    <3> QED
      BY <3>2 DEF Binding
  <2> QED
    BY <2>1, <2>2
<1> QED
  BY <1>2, <1>3, <1>4, <1>5 DEF RolesBound

LEMMA ServiceSound ==
    ASSUME Sound, NEW n \in SpecNumbers, k8s' = Service(k8s, n)
    PROVE  /\ Sound'
           /\ k8s'.service = IF Specs[n].ports = << >> THEN 0 ELSE n
           /\ k8s'.serviceAccount = k8s.serviceAccount
           /\ k8s'.roleBindings = k8s.roleBindings
<1>1. /\ DOMAIN k8s' = DOMAIN k8s
      /\ k8s'.service = IF Specs[n].ports = << >> THEN 0 ELSE n
      /\ k8s'.serviceAccount = k8s.serviceAccount /\ k8s'.roleBindings = k8s.roleBindings
      /\ k8s'.ingresses = k8s.ingresses /\ k8s'.deployment = k8s.deployment
      /\ k8s'.autoscaler = k8s.autoscaler /\ k8s'.budget = k8s.budget
  BY DEF Service, Sound, ObjectsTyped
<1>2. ObjectsTyped'
  BY <1>1 DEF Sound, ObjectsTyped
<1>3. BoundOnce' /\ HaveOwners'
  BY <1>1 DEF Sound, BoundOnce, HaveOwners
<1> QED
  BY <1>1, <1>2, <1>3 DEF Sound

LEMMA IngressSound ==
    ASSUME Sound, NEW n \in SpecNumbers, NEW group, k8s' = Ingress(k8s, n, group)
    PROVE  /\ Sound'
           /\ DOMAIN k8s'.ingresses = DOMAIN k8s.ingresses \union {IngressNumbers[n][group]}
           /\ k8s'.ingresses[IngressNumbers[n][group]] = n
           /\ \A i \in DOMAIN k8s.ingresses :
                k8s'.ingresses[i] = IF i = IngressNumbers[n][group] THEN n ELSE k8s.ingresses[i]
           /\ k8s'.serviceAccount = k8s.serviceAccount
           /\ k8s'.roleBindings = k8s.roleBindings
           /\ k8s'.service = k8s.service
<1> DEFINE number == IngressNumbers[n][group]
           new == [i \in DOMAIN k8s.ingresses \union {number} |->
                     IF i = number THEN n ELSE k8s.ingresses[i]]
<1>1. /\ DOMAIN new = DOMAIN k8s.ingresses \union {number}
      /\ \A i \in DOMAIN new : new[i] = IF i = number THEN n ELSE k8s.ingresses[i]
  OBVIOUS
<1>2. k8s' = [k8s EXCEPT !.ingresses = new]
  BY DEF Ingress
<1> HIDE DEF new, number
<1>3. /\ DOMAIN k8s' = DOMAIN k8s /\ k8s'.ingresses = new
      /\ k8s'.serviceAccount = k8s.serviceAccount /\ k8s'.roleBindings = k8s.roleBindings
      /\ k8s'.service = k8s.service /\ k8s'.deployment = k8s.deployment
      /\ k8s'.autoscaler = k8s.autoscaler /\ k8s'.budget = k8s.budget
  BY <1>2 DEF Sound, ObjectsTyped
<1>4. Range(k8s'.ingresses) \subseteq SpecNumbers
  BY <1>1, <1>3 DEF Range, Sound, ObjectsTyped
<1>5. ObjectsTyped'
  BY <1>3, <1>4 DEF Sound, ObjectsTyped
<1>6. BoundOnce' /\ HaveOwners'
  BY <1>3 DEF Sound, BoundOnce, HaveOwners
<1> QED
  BY <1>1, <1>3, <1>5, <1>6 DEF Sound, number

LEMMA UnusedSound ==
    ASSUME Sound, NEW n, k8s' = DeleteUnused(k8s, n)
    PROVE  /\ Sound'
           /\ DOMAIN k8s'.ingresses = {i \in DOMAIN k8s.ingresses : Name(k8s.ingresses[i]) = Name(n)}
           /\ \A i \in DOMAIN k8s'.ingresses : k8s'.ingresses[i] = k8s.ingresses[i]
           /\ k8s'.serviceAccount = k8s.serviceAccount
           /\ k8s'.roleBindings = k8s.roleBindings
           /\ k8s'.service = k8s.service
<1> DEFINE new == [i \in {i \in DOMAIN k8s.ingresses : Name(k8s.ingresses[i]) = Name(n)}
                     |-> k8s.ingresses[i]]
<1>1. /\ DOMAIN new = {i \in DOMAIN k8s.ingresses : Name(k8s.ingresses[i]) = Name(n)}
      /\ \A i \in DOMAIN new : new[i] = k8s.ingresses[i]
  OBVIOUS
<1>2. k8s' = [k8s EXCEPT !.ingresses = new]
  BY DEF DeleteUnused
<1> HIDE DEF new
<1>3. /\ DOMAIN k8s' = DOMAIN k8s /\ k8s'.ingresses = new
      /\ k8s'.serviceAccount = k8s.serviceAccount /\ k8s'.roleBindings = k8s.roleBindings
      /\ k8s'.service = k8s.service /\ k8s'.deployment = k8s.deployment
      /\ k8s'.autoscaler = k8s.autoscaler /\ k8s'.budget = k8s.budget
  BY <1>2 DEF Sound, ObjectsTyped
<1>4. Range(k8s'.ingresses) \subseteq SpecNumbers
  BY <1>1, <1>3 DEF Range, Sound, ObjectsTyped
<1>5. ObjectsTyped'
  BY <1>3, <1>4 DEF Sound, ObjectsTyped
<1>6. BoundOnce' /\ HaveOwners'
  BY <1>3 DEF Sound, BoundOnce, HaveOwners
<1> QED
  BY <1>1, <1>3, <1>5, <1>6 DEF Sound

\* The Deployment is written once it has its service account.
LEMMA DeploymentSound ==
    ASSUME Sound, NEW n \in SpecNumbers, NEW replicas \in Nat,
           ServiceAccountPerApp => k8s.serviceAccount # "none",
           k8s' = [k8s EXCEPT !.deployment = [of |-> n, replicas |-> replicas]]
    PROVE  /\ Sound'
           /\ k8s'.deployment.of = n /\ k8s'.deployment.replicas = replicas
           /\ k8s'.serviceAccount = k8s.serviceAccount
           /\ k8s'.roleBindings = k8s.roleBindings
           /\ k8s'.service = k8s.service
           /\ k8s'.ingresses = k8s.ingresses
<1>1. /\ DOMAIN k8s' = DOMAIN k8s
      /\ k8s'.deployment.of = n /\ k8s'.deployment.replicas = replicas
      /\ k8s'.serviceAccount = k8s.serviceAccount /\ k8s'.roleBindings = k8s.roleBindings
      /\ k8s'.service = k8s.service /\ k8s'.ingresses = k8s.ingresses
      /\ k8s'.autoscaler = k8s.autoscaler /\ k8s'.budget = k8s.budget
  BY DEF Sound, ObjectsTyped
<1>2. ObjectsTyped'
  BY <1>1 DEF Sound, ObjectsTyped
<1>3. BoundOnce' /\ HaveOwners'
  BY <1>1, SpecNumbered DEF Sound, BoundOnce, HaveOwners
<1> QED
  BY <1>1, <1>2, <1>3 DEF Sound

\* The autoscaler is written once it has its Deployment.
LEMMA AutoscalerSound ==
    ASSUME Sound, NEW n \in SpecNumbers, NEW besteffort, k8s.deployment.of = n,
           k8s' = Autoscaler(k8s, n, besteffort)
    PROVE  /\ Sound'
           /\ k8s'.autoscaler = IF ShouldHaveAutoscaler(n, besteffort) THEN n ELSE 0
           /\ k8s'.serviceAccount = k8s.serviceAccount
           /\ k8s'.roleBindings = k8s.roleBindings
           /\ k8s'.service = k8s.service
           /\ k8s'.ingresses = k8s.ingresses
           /\ k8s'.deployment = k8s.deployment
<1>1. /\ DOMAIN k8s' = DOMAIN k8s
      /\ k8s'.autoscaler = IF ShouldHaveAutoscaler(n, besteffort) THEN n ELSE 0
      /\ k8s'.serviceAccount = k8s.serviceAccount /\ k8s'.roleBindings = k8s.roleBindings
      /\ k8s'.service = k8s.service /\ k8s'.ingresses = k8s.ingresses
      /\ k8s'.deployment = k8s.deployment /\ k8s'.budget = k8s.budget
  BY DEF Autoscaler, Sound, ObjectsTyped
<1>2. ObjectsTyped'
  BY <1>1 DEF Sound, ObjectsTyped
<1>3. BoundOnce' /\ HaveOwners'
  BY <1>1, SpecNumbered DEF Sound, BoundOnce, HaveOwners
<1> QED
  BY <1>1, <1>2, <1>3 DEF Sound

\* A budget leaves at least one pod of those that must run.
LEMMA BudgetFits ==
    ASSUME NEW n \in SpecNumbers
    PROVE  LET s == Specs[n] IN
           /\ BudgetOf(s) \in Nat
           /\ IF s.autoscaler.min >= 2 /\ s.autoscaler.max >= 2
              THEN /\ BudgetOf(s) < s.autoscaler.min
                   /\ BudgetUnavailable > 0 => BudgetOf(s) > 0
              ELSE BudgetOf(s) = 0
BY SpecNumbered, NumbersAssumption DEF BudgetOf

LEMMA BudgetSound ==
    ASSUME Sound, NEW n \in SpecNumbers, k8s' = Budget(k8s, n)
    PROVE  /\ Sound'
           /\ k8s'.budget = BudgetOf(Specs[n])
           /\ k8s'.serviceAccount = k8s.serviceAccount
           /\ k8s'.roleBindings = k8s.roleBindings
           /\ k8s'.service = k8s.service
           /\ k8s'.ingresses = k8s.ingresses
           /\ k8s'.deployment = k8s.deployment
           /\ k8s'.autoscaler = k8s.autoscaler
<1>1. /\ DOMAIN k8s' = DOMAIN k8s /\ k8s'.budget = BudgetOf(Specs[n])
      /\ k8s'.serviceAccount = k8s.serviceAccount /\ k8s'.roleBindings = k8s.roleBindings
      /\ k8s'.service = k8s.service /\ k8s'.ingresses = k8s.ingresses
      /\ k8s'.deployment = k8s.deployment /\ k8s'.autoscaler = k8s.autoscaler
  BY DEF Budget, Sound, ObjectsTyped
<1>2. ObjectsTyped'
  BY <1>1, BudgetFits DEF Sound, ObjectsTyped
<1>3. BoundOnce' /\ HaveOwners'
  BY <1>1 DEF Sound, BoundOnce, HaveOwners
<1> QED
  BY <1>1, <1>2, <1>3 DEF Sound

-----------------------------------------------------------------------------
(* The steps of a deploy. *)

LEMMA AccountStep ==
    ASSUME IInv, ApplyServiceAccount
    PROVE  IInv'
<1>1. Sound /\ job.step = "serviceAccount" /\ JobOK /\ job.group = 1
  BY IsSound DEF ApplyServiceAccount, Apply, IInv, JobOK
<1>2. CASE k8s' = ServiceAccount(k8s) /\ GoTo("roleBindings")
  <2>1. Sound' /\ k8s'.serviceAccount # "none"
    BY <1>1, <1>2, AccountSound
  <2>2. job'.step = "roleBindings" /\ recent' = {}
    BY <1>1, <1>2, Goes
  <2>3. TypeOK' /\ JobOK'
    BY <1>1, <1>2, <2>1, Running, TypeAfter
  <2>4. /\ ~Beyond("roleBindings")' /\ ~Beyond("service")' /\ ~Beyond("ingress")'
        /\ ~Beyond("unused")' /\ ~Beyond("save")' /\ ~Beyond("autoscaler")' /\ ~Beyond("budget")'
    BY <2>2, LaterSteps DEF Beyond
  <2>5. /\ AccountApplied' /\ ServiceApplied' /\ IngressesApplied' /\ AutoscalerApplied'
        /\ BudgetApplied' /\ ReplicasRead'
    BY <2>1, <2>2, <2>4 DEF AccountApplied, ServiceApplied, IngressesApplied,
         AutoscalerApplied, BudgetApplied, ReplicasRead
  <2>6. BindingsApplied' /\ DeploymentApplied'
    BY <2>1, <2>4 DEF BindingsApplied, DeploymentApplied, Sound, HaveOwners
  <2> QED
    BY <2>1, <2>3, <2>5, <2>6 DEF IInv, Sound
<1>3. CASE Fail({ServiceAccount(k8s)})
  <2>1. Sound' /\ GoTo("failed")
    BY <1>1, <1>3, AccountSound, SameSound DEF Fail
  <2> QED
    BY <2>1, FailureKeeps
<1> QED
  BY <1>2, <1>3, AfterSteps DEF ApplyServiceAccount, Apply

LEMMA BindingsStep ==
    ASSUME IInv, ApplyRoleBindings
    PROVE  IInv'
<1>1. Sound /\ job.step = "roleBindings" /\ JobOK /\ job.group = 1
  BY IsSound DEF ApplyRoleBindings, Apply, IInv, JobOK
<1>2. CASE k8s' = RoleBindings(k8s) /\ GoTo("service")
  <2>1. Sound' /\ RolesBound' /\ k8s'.serviceAccount = k8s.serviceAccount
    BY <1>1, <1>2, BindingsDone
  <2>2. job'.step = "service" /\ recent' = {}
    BY <1>1, <1>2, Goes
  <2>3. "service" \in Later("roleBindings")
    BY LaterSteps
  <2>4. TypeOK' /\ JobOK'
    BY <1>1, <1>2, <2>1, <2>3, Running, TypeAfter
  <2>5. /\ ~Beyond("service")' /\ ~Beyond("ingress")'
        /\ ~Beyond("unused")' /\ ~Beyond("save")' /\ ~Beyond("autoscaler")' /\ ~Beyond("budget")'
    BY <2>2, LaterSteps DEF Beyond
  <2>6. /\ ServiceApplied' /\ IngressesApplied' /\ AutoscalerApplied' /\ BudgetApplied'
        /\ ReplicasRead'
    BY <2>2, <2>5 DEF ServiceApplied, IngressesApplied, AutoscalerApplied, BudgetApplied,
         ReplicasRead
  <2>7. AccountApplied'
    BY <1>1, <2>1 DEF AccountApplied, IInv
  <2>8. BindingsApplied' /\ DeploymentApplied'
    BY <2>1, <2>5 DEF BindingsApplied, DeploymentApplied, Sound, HaveOwners
  <2> QED
    BY <2>1, <2>4, <2>6, <2>7, <2>8 DEF IInv, Sound
<1>3. CASE Fail({RoleBindings(k8s)})
  <2>1. Sound' /\ GoTo("failed")
    BY <1>1, <1>3, BindingsDone, SameSound DEF Fail
  <2> QED
    BY <2>1, FailureKeeps
<1>4. CASE Fail({[k8s EXCEPT !.roleBindings = @ \ D] : D \in SUBSET Unneeded(k8s)}
               \union {[k8s EXCEPT !.roleBindings =
                          (@ \ Unneeded(k8s)) \union {b \in Missing(k8s) : b.name <= k}] :
                         k \in DOMAIN Roles})
  <2>1. Sound'
    <3>1. CASE k8s' = k8s
      BY <1>1, <3>1, SameSound
    <3>2. CASE k8s' \in {[k8s EXCEPT !.roleBindings = @ \ D] : D \in SUBSET Unneeded(k8s)}
      <4>1. PICK D \in SUBSET Unneeded(k8s) : k8s' = [k8s EXCEPT !.roleBindings = @ \ D]
        BY <3>2
      <4>2. k8s' = [k8s EXCEPT !.roleBindings = (@ \ D) \union {}]
        BY <4>1
      <4>3. {} \in SUBSET Missing(k8s)
        OBVIOUS
      <4> QED
        BY <1>1, <4>2, <4>3, BindingsSound
    <3>3. CASE k8s' \in {[k8s EXCEPT !.roleBindings =
                            (@ \ Unneeded(k8s)) \union {b \in Missing(k8s) : b.name <= k}] :
                           k \in DOMAIN Roles}
      <4>1. PICK C \in SUBSET Missing(k8s) :
              k8s' = [k8s EXCEPT !.roleBindings = (@ \ Unneeded(k8s)) \union C]
        BY <3>3
      <4> QED
        BY <1>1, <4>1, BindingsSound
    <3> QED
      BY <1>4, <3>1, <3>2, <3>3 DEF Fail
  <2>2. GoTo("failed")
    BY <1>4 DEF Fail
  <2> QED
    BY <2>1, <2>2, FailureKeeps
<1> QED
  BY <1>2, <1>3, <1>4, AfterSteps DEF ApplyRoleBindings, Apply

LEMMA ServiceStep ==
    ASSUME IInv, ApplyService
    PROVE  IInv'
<1>1. Sound /\ job.step = "service" /\ JobOK /\ job.of # 0 /\ job.of \in SpecNumbers
  BY IsSound, Running DEF ApplyService, Apply, IInv
<1>2. CASE k8s' = Service(k8s, job.of) /\ GoTo("ingress")
  <2>1. /\ Sound' /\ k8s'.service = IF Specs[job.of].ports = << >> THEN 0 ELSE job.of
        /\ k8s'.serviceAccount = k8s.serviceAccount
        /\ k8s'.roleBindings = k8s.roleBindings
    BY <1>1, <1>2, ServiceSound
  <2>2. job'.step = "ingress" /\ recent' = {} /\ job'.of = job.of /\ job'.group = job.group
    BY <1>1, <1>2, Goes
  <2>3. "ingress" \in Later("roleBindings")
    BY LaterSteps
  <2>4. TypeOK' /\ JobOK'
    BY <1>1, <1>2, <2>1, <2>3, TypeAfter
  <2>5. /\ Beyond("roleBindings") /\ Beyond("service")' /\ ~Beyond("ingress")'
        /\ ~Beyond("unused")' /\ ~Beyond("save")' /\ ~Beyond("autoscaler")' /\ ~Beyond("budget")'
    BY <1>1, <2>2, LaterSteps DEF Beyond
  <2>6. AccountApplied' /\ BindingsApplied' /\ ServiceApplied'
    BY <1>1, <2>1, <2>2, <2>5 DEF IInv, AccountApplied, BindingsApplied, RolesBound,
         ServiceApplied, Sound
  <2>7. IngressesApplied'
    <3>1. job.group = 1
      BY <1>1 DEF JobOK
    <3> QED
      BY <2>2, <2>5, <3>1 DEF IngressesApplied
  <2>8. DeploymentApplied' /\ AutoscalerApplied' /\ BudgetApplied' /\ ReplicasRead'
    BY <2>1, <2>2, <2>5 DEF DeploymentApplied, AutoscalerApplied, BudgetApplied, ReplicasRead,
         Sound, HaveOwners
  <2> QED
    BY <2>1, <2>4, <2>6, <2>7, <2>8 DEF IInv, Sound
<1>3. CASE Fail({Service(k8s, job.of)})
  <2>1. Sound' /\ GoTo("failed")
    BY <1>1, <1>3, ServiceSound, SameSound DEF Fail
  <2> QED
    BY <2>1, FailureKeeps
<1> QED
  BY <1>2, <1>3, AfterSteps DEF ApplyService, Apply

LEMMA IngressStep ==
    ASSUME IInv, ApplyIngress
    PROVE  IInv'
<1>1. Sound /\ job.step = "ingress" /\ JobOK /\ job.of # 0 /\ job.of \in SpecNumbers
  BY IsSound, Running DEF ApplyIngress, IInv
<1>2. Beyond("roleBindings") /\ Beyond("service")
  BY <1>1, LaterSteps DEF Beyond
<1>3. CASE /\ k8s' = Ingress(k8s, job.of, job.group)
           /\ job' = [job EXCEPT !.group = @ + 1] /\ UNCHANGED recent
  <2>1. /\ Sound'
        /\ DOMAIN k8s'.ingresses =
             DOMAIN k8s.ingresses \union {IngressNumbers[job.of][job.group]}
        /\ k8s'.ingresses[IngressNumbers[job.of][job.group]] = job.of
        /\ \A i \in DOMAIN k8s.ingresses :
             k8s'.ingresses[i] =
               IF i = IngressNumbers[job.of][job.group] THEN job.of ELSE k8s.ingresses[i]
        /\ k8s'.serviceAccount = k8s.serviceAccount
        /\ k8s'.roleBindings = k8s.roleBindings
        /\ k8s'.service = k8s.service
    BY <1>1, <1>3, IngressSound
  <2>2. /\ DOMAIN job' = DOMAIN job /\ job'.step = "ingress" /\ job'.of = job.of
        /\ job'.group = job.group + 1 /\ job'.replicas = job.replicas /\ job'.tries = job.tries
    BY <1>1, <1>3 DEF JobOK
  <2>3. TypeOK'
    BY <2>1, <2>2 DEF IInv, TypeOK, Sound, ObjectsTyped
  <2>4. JobOK'
    BY <1>1, <2>2 DEF JobOK
  <2>5. /\ ~Beyond("ingress")' /\ ~Beyond("unused")' /\ ~Beyond("save")'
        /\ ~Beyond("autoscaler")' /\ ~Beyond("budget")'
    BY <2>2, LaterSteps DEF Beyond
  <2>6. AccountApplied' /\ BindingsApplied' /\ ServiceApplied'
    BY <1>2, <2>1, <2>2 DEF IInv, AccountApplied, BindingsApplied, RolesBound,
         ServiceApplied, Sound
  <2>7. IngressesApplied'
    <3>1. ASSUME NEW k \in DOMAIN IngressNumbers[job.of], k \in 1..job.group
          PROVE  /\ IngressNumbers[job.of][k] \in DOMAIN k8s'.ingresses
                 /\ k8s'.ingresses[IngressNumbers[job.of][k]] = job.of
      <4>1. CASE k = job.group
        BY <2>1, <4>1
      <4>2. CASE k \in 1..(job.group - 1)
        <5>1. Made(k)
          BY <1>1, <3>1, <4>2 DEF IInv, IngressesApplied
        <5> QED
          BY <2>1, <5>1 DEF Made
      <4> QED
        BY <1>1, <3>1, <4>1, <4>2 DEF JobOK
    <3>2. (job.group + 1) - 1 = job.group
      BY <1>1 DEF JobOK
    <3> QED
      BY <2>2, <2>5, <3>1, <3>2 DEF IngressesApplied, Made
  <2>8. DeploymentApplied' /\ AutoscalerApplied' /\ BudgetApplied' /\ ReplicasRead'
    BY <2>1, <2>2, <2>5 DEF DeploymentApplied, AutoscalerApplied, BudgetApplied, ReplicasRead,
         Sound, HaveOwners
  <2> QED
    BY <2>1, <2>3, <2>4, <2>6, <2>7, <2>8 DEF IInv, Sound
<1>4. CASE Fail({Ingress(k8s, job.of, job.group)})
  <2>1. Sound' /\ GoTo("failed")
    BY <1>1, <1>4, IngressSound, SameSound DEF Fail
  <2> QED
    BY <2>1, FailureKeeps
<1>5. CASE /\ DOMAIN IngressNumbers[job.of] \subseteq 1..(job.group - 1)
           /\ GoTo("unused") /\ UNCHANGED k8s
  <2>1. /\ job'.step = "unused" /\ job'.of = job.of /\ recent' = {}
    BY <1>1, <1>5, Goes
  <2>2. "unused" \in Later("roleBindings")
    BY LaterSteps
  <2>3. Sound'
    BY <1>1, <1>5, SameSound
  <2>4. TypeOK' /\ JobOK'
    BY <1>1, <1>5, <2>2, <2>3, TypeAfter
  <2>5. /\ ~Beyond("unused")' /\ ~Beyond("save")'
        /\ ~Beyond("autoscaler")' /\ ~Beyond("budget")'
    BY <2>1, LaterSteps DEF Beyond
  <2>6. AccountApplied' /\ BindingsApplied' /\ ServiceApplied'
    BY <1>2, <1>5, <2>1, <2>3 DEF IInv, AccountApplied, BindingsApplied, RolesBound,
         ServiceApplied, Sound
  <2>7. IngressesApplied'
    <3>1. \A k \in DOMAIN IngressNumbers[job.of] : Made(k)
      BY <1>1, <1>5 DEF IInv, IngressesApplied
    <3> QED
      BY <1>5, <2>1, <2>5, <3>1 DEF IngressesApplied, Made
  <2>8. DeploymentApplied' /\ AutoscalerApplied' /\ BudgetApplied' /\ ReplicasRead'
    BY <2>1, <2>3, <2>5 DEF DeploymentApplied, AutoscalerApplied, BudgetApplied, ReplicasRead,
         Sound, HaveOwners
  <2> QED
    BY <2>3, <2>4, <2>6, <2>7, <2>8 DEF IInv, Sound
<1>6. CASE GoTo("failed") /\ UNCHANGED k8s
  BY <1>1, <1>6, SameSound, FailureKeeps
<1> QED
  BY <1>3, <1>4, <1>5, <1>6 DEF ApplyIngress

LEMMA UnusedStep ==
    ASSUME IInv, ApplyUnused
    PROVE  IInv'
<1>1. Sound /\ job.step = "unused" /\ JobOK /\ job.of # 0
  BY IsSound, Running DEF ApplyUnused, Apply, IInv
<1>2. Beyond("roleBindings") /\ Beyond("service") /\ Beyond("ingress")
  BY <1>1, LaterSteps DEF Beyond
<1>3. CASE k8s' = DeleteUnused(k8s, job.of) /\ GoTo("replicas")
  <2>1. /\ Sound'
        /\ DOMAIN k8s'.ingresses =
             {i \in DOMAIN k8s.ingresses : Name(k8s.ingresses[i]) = Name(job.of)}
        /\ \A i \in DOMAIN k8s'.ingresses : k8s'.ingresses[i] = k8s.ingresses[i]
        /\ k8s'.serviceAccount = k8s.serviceAccount
        /\ k8s'.roleBindings = k8s.roleBindings
        /\ k8s'.service = k8s.service
    BY <1>1, <1>3, UnusedSound
  <2>2. job'.step = "replicas" /\ job'.of = job.of /\ recent' = {}
    BY <1>1, <1>3, Goes
  <2>3. "replicas" \in Later("roleBindings")
    BY LaterSteps
  <2>4. TypeOK' /\ JobOK'
    BY <1>1, <1>3, <2>1, <2>3, TypeAfter
  <2>5. ~Beyond("save")' /\ ~Beyond("autoscaler")' /\ ~Beyond("budget")'
    BY <2>2, LaterSteps DEF Beyond
  <2>6. AccountApplied' /\ BindingsApplied' /\ ServiceApplied'
    BY <1>2, <2>1, <2>2 DEF IInv, AccountApplied, BindingsApplied, RolesBound,
         ServiceApplied, Sound
  <2>7. IngressesApplied'
    <3>1. \A k \in DOMAIN IngressNumbers[job.of] : Made(k)
      BY <1>2 DEF IInv, IngressesApplied
    <3>2. \A k \in DOMAIN IngressNumbers[job.of] :
            /\ IngressNumbers[job.of][k] \in DOMAIN k8s'.ingresses
            /\ k8s'.ingresses[IngressNumbers[job.of][k]] = job.of
      BY <2>1, <3>1 DEF Made
    <3>3. \A i \in DOMAIN k8s'.ingresses : Name(k8s'.ingresses[i]) = Name(job.of)
      BY <2>1
    <3> QED
      BY <2>2, <3>2, <3>3 DEF IngressesApplied, Made
  <2>8. DeploymentApplied' /\ AutoscalerApplied' /\ BudgetApplied' /\ ReplicasRead'
    BY <2>1, <2>2, <2>5 DEF DeploymentApplied, AutoscalerApplied, BudgetApplied, ReplicasRead,
         Sound, HaveOwners
  <2> QED
    BY <2>1, <2>4, <2>6, <2>7, <2>8 DEF IInv, Sound
<1>4. CASE Fail({DeleteUnused(k8s, job.of)})
  <2>1. Sound' /\ GoTo("failed")
    BY <1>1, <1>4, UnusedSound, SameSound DEF Fail
  <2> QED
    BY <2>1, FailureKeeps
<1> QED
  BY <1>3, <1>4, AfterSteps DEF ApplyUnused, Apply

\* Beyond its Ingresses a deploy leaves alone what the steps before have made.
LEMMA EarlierKept ==
    ASSUME IInv, Sound', Beyond("unused"), job'.of = job.of, job'.step \in Later("unused"),
           k8s'.serviceAccount = k8s.serviceAccount, k8s'.roleBindings = k8s.roleBindings,
           k8s'.service = k8s.service, k8s'.ingresses = k8s.ingresses
    PROVE  AccountApplied' /\ BindingsApplied' /\ ServiceApplied' /\ IngressesApplied'
<1>1. /\ Beyond("roleBindings") /\ Beyond("service") /\ Beyond("ingress")
      /\ job'.step # "ingress"
  BY LaterSteps DEF Beyond
<1>2. AccountApplied' /\ BindingsApplied' /\ ServiceApplied'
  BY <1>1 DEF IInv, AccountApplied, BindingsApplied, RolesBound, ServiceApplied,
       Sound
<1>3. IngressesApplied'
  <2>1. /\ \A k \in DOMAIN IngressNumbers[job.of] : Made(k)
        /\ \A i \in DOMAIN k8s.ingresses : Name(k8s.ingresses[i]) = Name(job.of)
    BY <1>1 DEF IInv, IngressesApplied
  <2> QED
    BY <1>1, <2>1 DEF IngressesApplied, Made
<1> QED
  BY <1>2, <1>3

LEMMA ReadStep ==
    ASSUME IInv, ReadReplicas
    PROVE  IInv'
<1>1. Sound /\ job.step = "replicas" /\ JobOK /\ job.of # 0 /\ job.of \in SpecNumbers
  BY IsSound, Running DEF ReadReplicas, IInv
<1>2. Beyond("unused") /\ "get" \in Later("unused")
  BY <1>1, LaterSteps DEF Beyond
<1> DEFINE keeps == ShouldHaveAutoscaler(job.of, job.besteffort) /\ k8s.deployment.replicas > 0
<1>3. /\ DOMAIN job' = DOMAIN job /\ job'.step = "get" /\ job'.of = job.of
      /\ job'.besteffort = job.besteffort /\ job'.group = job.group /\ job'.tries = job.tries
      /\ job'.replicas = IF keeps THEN k8s.deployment.replicas ELSE Specs[job.of].autoscaler.min
      /\ recent' = {k8s.deployment.replicas} /\ k8s' = k8s
  BY DEF ReadReplicas, IInv, JobOK
<1>4. Sound'
  BY <1>1, <1>3, SameSound
<1>5. k8s.deployment.replicas \in Nat
  BY <1>1 DEF Sound, ObjectsTyped
<1>6. TypeOK'
  BY <1>3, <1>4 DEF IInv, TypeOK, Sound, ObjectsTyped
<1>7. JobOK'
  <2>1. job'.replicas \in Nat
    BY <1>1, <1>3, <1>5, SpecNumbered
  <2> QED
    BY <1>1, <1>2, <1>3, <2>1, LaterSteps DEF JobOK
<1>8. AccountApplied' /\ BindingsApplied' /\ ServiceApplied' /\ IngressesApplied'
  BY <1>2, <1>3, <1>4, EarlierKept
<1>9. ~Beyond("save")' /\ ~Beyond("autoscaler")' /\ ~Beyond("budget")'
  BY <1>3, LaterSteps DEF Beyond
<1>10. DeploymentApplied' /\ AutoscalerApplied' /\ BudgetApplied'
  BY <1>4, <1>9 DEF DeploymentApplied, AutoscalerApplied, BudgetApplied, Sound, HaveOwners
<1>11. ReplicasRead'
  <2> SUFFICES ASSUME ShouldHaveAutoscaler(job.of, job.besteffort), 0 \notin recent'
               PROVE  job'.replicas \in recent'
    BY <1>3 DEF ReplicasRead, ShouldHaveAutoscaler
  <2> QED
    BY <1>3, <1>5
<1> QED
  BY <1>4, <1>6, <1>7, <1>8, <1>10, <1>11 DEF IInv, Sound

LEMMA GetStep ==
    ASSUME IInv, GetDeployment
    PROVE  IInv'
<1>1. Sound /\ job.step = "get" /\ JobOK /\ job.of # 0
  BY IsSound, Running DEF GetDeployment, IInv
<1>2. Beyond("unused") /\ "save" \in Later("unused")
  BY <1>1, LaterSteps DEF Beyond
<1>3. CASE /\ job' = [job EXCEPT !.step = "save", !.fresh = TRUE]
           /\ UNCHANGED <<k8s, recent>>
  <2>1. /\ DOMAIN job' = DOMAIN job /\ job'.step = "save" /\ job'.of = job.of
        /\ job'.besteffort = job.besteffort /\ job'.group = job.group /\ job'.tries = job.tries
        /\ job'.replicas = job.replicas /\ recent' = recent /\ k8s' = k8s
    BY <1>1, <1>3 DEF JobOK
  <2>2. Sound'
    BY <1>1, <2>1, SameSound
  <2>3. TypeOK'
    BY <2>1, <2>2 DEF IInv, TypeOK, Sound, ObjectsTyped
  <2>4. JobOK'
    BY <1>1, <1>2, <2>1, LaterSteps DEF JobOK
  <2>5. AccountApplied' /\ BindingsApplied' /\ ServiceApplied' /\ IngressesApplied'
    BY <1>2, <2>1, <2>2, EarlierKept
  <2>6. ~Beyond("save")' /\ ~Beyond("autoscaler")' /\ ~Beyond("budget")'
    BY <2>1, LaterSteps DEF Beyond
  <2>7. DeploymentApplied' /\ AutoscalerApplied' /\ BudgetApplied'
    BY <2>2, <2>6 DEF DeploymentApplied, AutoscalerApplied, BudgetApplied, Sound, HaveOwners
  <2>8. ReplicasRead'
    BY <1>1, <2>1 DEF IInv, ReplicasRead, ShouldHaveAutoscaler
  <2> QED
    BY <2>2, <2>3, <2>4, <2>5, <2>7, <2>8 DEF IInv, Sound
<1>4. CASE Fail({})
  <2>1. Sound' /\ GoTo("failed")
    BY <1>1, <1>4, SameSound DEF Fail
  <2> QED
    BY <2>1, FailureKeeps
<1> QED
  BY <1>3, <1>4 DEF GetDeployment

LEMMA SaveStep ==
    ASSUME IInv, SaveDeployment
    PROVE  IInv'
<1> DEFINE written == [k8s EXCEPT !.deployment = [of |-> job.of, replicas |-> job.replicas]]
<1>1. Sound /\ job.step = "save" /\ JobOK /\ job.of # 0 /\ job.of \in SpecNumbers
  BY IsSound, Running DEF SaveDeployment, Apply, IInv
<1>2. /\ Beyond("unused") /\ "autoscaler" \in Later("unused") /\ "replicas" \in Later("unused")
      /\ "autoscaler" \in Later("roleBindings")
  BY <1>1, LaterSteps DEF Beyond
<1>3. job.replicas \in Nat /\ (ServiceAccountPerApp => k8s.serviceAccount # "none")
  BY <1>1, LaterSteps DEF IInv, JobOK, AccountApplied, Beyond
<1>4. ASSUME k8s' = written
      PROVE  /\ Sound'
             /\ k8s'.deployment.of = job.of
             /\ k8s'.serviceAccount = k8s.serviceAccount
             /\ k8s'.roleBindings = k8s.roleBindings
             /\ k8s'.service = k8s.service
             /\ k8s'.ingresses = k8s.ingresses
  BY <1>1, <1>3, <1>4, DeploymentSound
<1>5. CASE k8s' = written /\ GoTo("autoscaler")
  <2>1. job'.step = "autoscaler" /\ job'.of = job.of /\ recent' = {}
    BY <1>1, <1>5, Goes
  <2>2. TypeOK' /\ JobOK'
    BY <1>1, <1>2, <1>4, <1>5, TypeAfter
  <2>3. AccountApplied' /\ BindingsApplied' /\ ServiceApplied' /\ IngressesApplied'
    BY <1>2, <1>4, <1>5, <2>1, EarlierKept
  <2>4. ~Beyond("autoscaler")' /\ ~Beyond("budget")'
    BY <2>1, LaterSteps DEF Beyond
  <2>5. DeploymentApplied' /\ AutoscalerApplied' /\ BudgetApplied' /\ ReplicasRead'
    BY <1>1, <1>4, <1>5, <2>1, <2>4 DEF DeploymentApplied, AutoscalerApplied, BudgetApplied,
         ReplicasRead
  <2> QED
    BY <1>4, <1>5, <2>2, <2>3, <2>5 DEF IInv, Sound
<1>6. CASE Fail({written})
  <2>1. Sound' /\ GoTo("failed")
    BY <1>1, <1>4, <1>6, SameSound DEF Fail
  <2> QED
    BY <2>1, FailureKeeps
<1>7. CASE Tried(job.tries + 1) /\ k8s' = k8s
  <2>1. Sound'
    BY <1>1, <1>7, SameSound
  <2>2. CASE GoTo("failed")
    BY <2>1, <2>2, FailureKeeps
  <2>3. CASE /\ job.tries + 1 < MaxTries
             /\ job' = [job EXCEPT !.step = "replicas", !.tries = job.tries + 1]
    <3>1. /\ DOMAIN job' = DOMAIN job /\ job'.step = "replicas" /\ job'.of = job.of
          /\ job'.besteffort = job.besteffort /\ job'.group = job.group
          /\ job'.tries = job.tries + 1 /\ job'.replicas = job.replicas
      BY <1>1, <2>3 DEF JobOK
    <3>2. job.tries + 1 \in 0..MaxTries - 1
      BY <2>3, NumbersAssumption DEF IInv, TypeOK
    <3>3. TypeOK'
      BY <1>7, <2>1, <3>1, <3>2 DEF IInv, TypeOK, Sound, ObjectsTyped
    <3>4. JobOK'
      BY <1>1, <1>2, <3>1, LaterSteps DEF JobOK
    <3>5. AccountApplied' /\ BindingsApplied' /\ ServiceApplied' /\ IngressesApplied'
      BY <1>2, <1>7, <2>1, <3>1, EarlierKept
    <3>6. ~Beyond("save")' /\ ~Beyond("autoscaler")' /\ ~Beyond("budget")'
      BY <3>1, LaterSteps DEF Beyond
    <3>7. DeploymentApplied' /\ AutoscalerApplied' /\ BudgetApplied' /\ ReplicasRead'
      BY <2>1, <3>1, <3>6 DEF DeploymentApplied, AutoscalerApplied, BudgetApplied,
           ReplicasRead, Sound, HaveOwners
    <3> QED
      BY <2>1, <3>3, <3>4, <3>5, <3>7 DEF IInv, Sound
  <2> QED
    BY <1>7, <2>2, <2>3 DEF Tried
<1> QED
  BY <1>5, <1>6, <1>7, AfterSteps DEF SaveDeployment, Apply

LEMMA AutoscalerStep ==
    ASSUME IInv, ApplyAutoscaler
    PROVE  IInv'
<1>1. Sound /\ job.step = "autoscaler" /\ JobOK /\ job.of # 0 /\ job.of \in SpecNumbers
  BY IsSound, Running DEF ApplyAutoscaler, Apply, IInv
<1>2. /\ Beyond("unused") /\ "budget" \in Later("unused") /\ "budget" \in Later("roleBindings")
      /\ Beyond("save")
  BY <1>1, LaterSteps DEF Beyond
<1>3. k8s.deployment.of = job.of
  BY <1>2 DEF IInv, DeploymentApplied
<1>4. ASSUME k8s' = Autoscaler(k8s, job.of, job.besteffort)
      PROVE  /\ Sound'
             /\ k8s'.autoscaler = IF ShouldHaveAutoscaler(job.of, job.besteffort)
                                  THEN job.of ELSE 0
             /\ k8s'.serviceAccount = k8s.serviceAccount
             /\ k8s'.roleBindings = k8s.roleBindings
             /\ k8s'.service = k8s.service
             /\ k8s'.ingresses = k8s.ingresses
             /\ k8s'.deployment = k8s.deployment
  BY <1>1, <1>3, <1>4, AutoscalerSound
<1>5. CASE k8s' = Autoscaler(k8s, job.of, job.besteffort) /\ GoTo("budget")
  <2>1. /\ job'.step = "budget" /\ job'.of = job.of /\ job'.besteffort = job.besteffort
        /\ recent' = {}
    BY <1>1, <1>5, Goes
  <2>2. TypeOK' /\ JobOK'
    BY <1>1, <1>2, <1>4, <1>5, TypeAfter
  <2>3. AccountApplied' /\ BindingsApplied' /\ ServiceApplied' /\ IngressesApplied'
    BY <1>2, <1>4, <1>5, <2>1, EarlierKept
  <2>4. ~Beyond("budget")'
    BY <2>1, LaterSteps DEF Beyond
  <2>5. DeploymentApplied' /\ BudgetApplied' /\ ReplicasRead'
    BY <1>1, <1>3, <1>4, <1>5, <2>1, <2>4 DEF DeploymentApplied, BudgetApplied, ReplicasRead
  <2>6. AutoscalerApplied'
    BY <1>4, <1>5, <2>1 DEF AutoscalerApplied, ShouldHaveAutoscaler
  <2> QED
    BY <1>4, <1>5, <2>2, <2>3, <2>5, <2>6 DEF IInv, Sound
<1>6. CASE Fail({Autoscaler(k8s, job.of, job.besteffort)})
  <2>1. Sound' /\ GoTo("failed")
    BY <1>1, <1>4, <1>6, SameSound DEF Fail
  <2> QED
    BY <2>1, FailureKeeps
<1> QED
  BY <1>5, <1>6, AfterSteps DEF ApplyAutoscaler, Apply

LEMMA BudgetStep ==
    ASSUME IInv, ApplyBudget
    PROVE  IInv'
<1>1. Sound /\ job.step = "budget" /\ JobOK /\ job.of # 0 /\ job.of \in SpecNumbers
  BY IsSound, Running DEF ApplyBudget, Apply, IInv
<1>2. /\ Beyond("unused") /\ "done" \in Later("unused") /\ "done" \in Later("roleBindings")
      /\ Beyond("save") /\ Beyond("autoscaler")
  BY <1>1, LaterSteps DEF Beyond
<1>3. ASSUME k8s' = Budget(k8s, job.of)
      PROVE  /\ Sound'
             /\ k8s'.budget = BudgetOf(Specs[job.of])
             /\ k8s'.serviceAccount = k8s.serviceAccount
             /\ k8s'.roleBindings = k8s.roleBindings
             /\ k8s'.service = k8s.service
             /\ k8s'.ingresses = k8s.ingresses
             /\ k8s'.deployment = k8s.deployment
             /\ k8s'.autoscaler = k8s.autoscaler
  BY <1>1, <1>3, BudgetSound
<1>4. CASE k8s' = Budget(k8s, job.of) /\ GoTo("done")
  <2>1. /\ job'.step = "done" /\ job'.of = job.of /\ job'.besteffort = job.besteffort
        /\ recent' = {}
    BY <1>1, <1>4, Goes
  <2>2. TypeOK' /\ JobOK'
    BY <1>1, <1>2, <1>3, <1>4, TypeAfter
  <2>3. AccountApplied' /\ BindingsApplied' /\ ServiceApplied' /\ IngressesApplied'
    BY <1>2, <1>3, <1>4, <2>1, EarlierKept
  <2>4. DeploymentApplied' /\ BudgetApplied' /\ ReplicasRead'
    BY <1>1, <1>2, <1>3, <1>4, <2>1 DEF IInv, DeploymentApplied, BudgetApplied, ReplicasRead
  <2>5. AutoscalerApplied'
    BY <1>2, <1>3, <1>4, <2>1 DEF IInv, AutoscalerApplied, ShouldHaveAutoscaler
  <2> QED
    BY <1>3, <1>4, <2>2, <2>3, <2>4, <2>5 DEF IInv, Sound
<1>5. CASE Fail({Budget(k8s, job.of)})
  <2>1. Sound' /\ GoTo("failed")
    BY <1>1, <1>3, <1>5, SameSound DEF Fail
  <2> QED
    BY <2>1, FailureKeeps
<1> QED
  BY <1>4, <1>5, AfterSteps DEF ApplyBudget, Apply

LEMMA BeginStep ==
    ASSUME IInv, NEW n \in SpecNumbers, Begin(n)
    PROVE  IInv'
<1>1. Sound'
  BY IsSound, SameSound DEF Begin
<1>2. PICK besteffort \in BOOLEAN :
        job' = [step |-> IF ServiceAccountPerApp THEN "serviceAccount" ELSE "service",
                of |-> n, besteffort |-> besteffort, group |-> 1,
                replicas |-> 0, fresh |-> FALSE, tries |-> 0]
  BY DEF Begin
<1>3. /\ DOMAIN job' = {"step", "of", "besteffort", "group", "replicas", "fresh", "tries"}
      /\ job'.step = IF ServiceAccountPerApp THEN "serviceAccount" ELSE "service"
      /\ job'.of = n /\ job'.group = 1 /\ job'.replicas = 0 /\ job'.tries = 0
      /\ recent' = {}
  BY <1>2 DEF Begin
<1>4. TypeOK'
  <2>1. 0 \in 0..MaxTries - 1
    BY NumbersAssumption
  <2> QED
    BY <1>1, <1>3, <2>1 DEF TypeOK, Sound, ObjectsTyped
<1>5. JobOK'
  BY <1>3, SpecNumbered, LaterSteps DEF JobOK
<1>6. /\ ServiceAccountPerApp => ~Beyond("roleBindings")'
      /\ ~Beyond("service")' /\ ~Beyond("ingress")'
      /\ ~Beyond("unused")' /\ ~Beyond("save")' /\ ~Beyond("autoscaler")' /\ ~Beyond("budget")'
  BY <1>3, LaterSteps DEF Beyond
<1>7. /\ AccountApplied' /\ ServiceApplied' /\ IngressesApplied' /\ AutoscalerApplied'
      /\ BudgetApplied' /\ ReplicasRead'
  BY <1>3, <1>6 DEF AccountApplied, ServiceApplied, IngressesApplied, AutoscalerApplied,
       BudgetApplied, ReplicasRead
<1>8. BindingsApplied' /\ DeploymentApplied'
  BY <1>1, <1>6 DEF BindingsApplied, DeploymentApplied, Sound, HaveOwners
<1> QED
  BY <1>1, <1>4, <1>5, <1>7, <1>8 DEF IInv, Sound

-----------------------------------------------------------------------------
(* The cluster. *)

LEMMA RescaledStep ==
    ASSUME IInv, NEW replicas \in Nat, Rescaled(replicas)
    PROVE  IInv'
<1>1. Sound /\ JobOK
  BY IsSound DEF IInv
<1>2. /\ DOMAIN k8s' = DOMAIN k8s
      /\ k8s'.serviceAccount = k8s.serviceAccount /\ k8s'.roleBindings = k8s.roleBindings
      /\ k8s'.service = k8s.service /\ k8s'.ingresses = k8s.ingresses
      /\ k8s'.autoscaler = k8s.autoscaler /\ k8s'.budget = k8s.budget
      /\ k8s'.deployment = [k8s.deployment EXCEPT !.replicas = replicas]
  BY <1>1 DEF Rescaled, Sound, ObjectsTyped
<1>3. k8s'.deployment.of = k8s.deployment.of /\ k8s'.deployment.replicas \in Nat
  BY <1>2
<1>4. /\ DOMAIN job' = DOMAIN job /\ job'.step = job.step /\ job'.of = job.of
      /\ job'.besteffort = job.besteffort /\ job'.group = job.group
      /\ job'.replicas = job.replicas /\ job'.tries = job.tries
  BY <1>1 DEF Rescaled, JobOK
<1>5. Sound'
  BY <1>1, <1>2, <1>3 DEF Sound, ObjectsTyped, BoundOnce, HaveOwners
<1>6. TypeOK' /\ JobOK'
  <2>1. TypeOK'
    BY <1>4, <1>5 DEF IInv, TypeOK, Sound, ObjectsTyped
  <2>2. JobOK'
    BY <1>1, <1>4 DEF JobOK
  <2> QED
    BY <2>1, <2>2
<1>7. AccountApplied' /\ BindingsApplied' /\ ServiceApplied' /\ DeploymentApplied' /\ BudgetApplied'
  BY <1>2, <1>3, <1>4 DEF IInv, AccountApplied, BindingsApplied, RolesBound, ServiceApplied,
       DeploymentApplied, BudgetApplied, Beyond
<1>8. AutoscalerApplied'
  BY <1>2, <1>4 DEF IInv, AutoscalerApplied, ShouldHaveAutoscaler, Beyond
<1>9. IngressesApplied'
  BY <1>2, <1>4 DEF IInv, IngressesApplied, Made, Beyond
<1>10. ReplicasRead'
  BY <1>4 DEF IInv, ReplicasRead, ShouldHaveAutoscaler, Rescaled
<1> QED
  BY <1>5, <1>6, <1>7, <1>8, <1>9, <1>10 DEF IInv, Sound

LEMMA ClusterStep ==
    ASSUME IInv, Autoscale \/ Stop \/ UpdateStatus
    PROVE  /\ IInv'
           /\ \E r \in Nat : Rescaled(r)
<1>1. Sound
  BY IsSound
<1>2. CASE Autoscale
  <2>1. k8s.autoscaler \in SpecNumbers
    BY <1>1, <1>2 DEF Autoscale, Sound, ObjectsTyped
  <2>2. PICK r \in Specs[k8s.autoscaler].autoscaler.min .. Specs[k8s.autoscaler].autoscaler.max :
          Rescaled(r)
    BY <1>2 DEF Autoscale
  <2>3. r \in Nat
    BY <2>1, SpecNumbered
  <2> QED
    BY <2>2, <2>3, RescaledStep
<1>3. CASE Stop
  BY <1>3, RescaledStep DEF Stop
<1>4. CASE UpdateStatus
  <2>1. k8s.deployment.replicas \in Nat
    BY <1>1 DEF Sound, ObjectsTyped
  <2> QED
    BY <1>4, <2>1, RescaledStep DEF UpdateStatus
<1> QED
  BY <1>2, <1>3, <1>4

-----------------------------------------------------------------------------
LEMMA InitSound == Init => IInv
<1> SUFFICES ASSUME Init
             PROVE  IInv
  OBVIOUS
<1>1. /\ DOMAIN k8s = {"serviceAccount", "roleBindings", "service", "ingresses", "deployment",
                       "autoscaler", "budget"}
      /\ k8s.serviceAccount \in {"none", "foreign"}
      /\ k8s.service = 0 /\ k8s.ingresses = << >>
      /\ k8s.deployment = [of |-> 0, replicas |-> 0]
      /\ k8s.autoscaler = 0 /\ k8s.budget = 0
  BY DEF Init
<1>2. PICK B \in SUBSET [role : AllRoles, own : BOOLEAN, name : {0}] :
        /\ \A b, c \in B : b.role = c.role => b = c
        /\ k8s.roleBindings = B
  BY DEF Init
<1>3. BoundOnce
  BY <1>2 DEF BoundOnce
<1>4. k8s.roleBindings \subseteq [role : AllRoles, own : BOOLEAN, name : {0} \union DOMAIN Roles]
  BY <1>2
<1>5. Range(k8s.ingresses) \subseteq SpecNumbers
  BY <1>1 DEF Range
<1>7. Sound
  BY <1>1, <1>3, <1>4, <1>5 DEF Sound, ObjectsTyped, HaveOwners
<1>8. /\ DOMAIN job = {"step", "of", "besteffort", "group", "replicas", "fresh", "tries"}
      /\ job.step = "done" /\ job.of = 0 /\ job.group = 0 /\ job.replicas = 0 /\ job.tries = 0
  BY DEF Init
<1>9. TypeOK /\ JobOK
  BY <1>7, <1>8, NumbersAssumption DEF Sound, ObjectsTyped, TypeOK, JobOK
<1>10. /\ ~Beyond("roleBindings") /\ ~Beyond("service") /\ ~Beyond("ingress")
       /\ ~Beyond("unused") /\ ~Beyond("save") /\ ~Beyond("autoscaler") /\ ~Beyond("budget")
  BY <1>8 DEF Beyond
<1>11. /\ AccountApplied /\ ServiceApplied /\ IngressesApplied /\ AutoscalerApplied
       /\ BudgetApplied /\ ReplicasRead
  BY <1>8, <1>10 DEF AccountApplied, ServiceApplied, IngressesApplied, AutoscalerApplied,
       BudgetApplied, ReplicasRead
<1>12. BindingsApplied /\ DeploymentApplied
  BY <1>7, <1>10 DEF BindingsApplied, DeploymentApplied, Sound, HaveOwners
<1> QED
  BY <1>7, <1>9, <1>11, <1>12 DEF IInv, Sound

LEMMA NextKeeps == IInv /\ [Next]_vars => IInv'
<1> SUFFICES ASSUME IInv, [Next]_vars
             PROVE  IInv'
  OBVIOUS
<1>1. CASE \E n \in SpecNumbers : Begin(n)
  BY <1>1, BeginStep
<1>2. CASE Steps
  BY <1>2, AccountStep, BindingsStep, ServiceStep, IngressStep, UnusedStep, ReadStep, GetStep,
     SaveStep, AutoscalerStep, BudgetStep DEF Steps
<1>3. CASE Autoscale \/ Stop \/ UpdateStatus
  BY <1>3, ClusterStep
<1>4. CASE UNCHANGED vars
  BY <1>4 DEF vars, IInv, TypeOK, JobOK, AccountApplied, BindingsApplied, RolesBound, BoundOnce,
       HaveOwners, ServiceApplied, IngressesApplied, Made, DeploymentApplied,
       AutoscalerApplied, BudgetApplied, ReplicasRead, Beyond, ShouldHaveAutoscaler
<1> QED
  BY <1>1, <1>2, <1>3, <1>4 DEF Next

\* Each step of a deploy finds what the steps before it have made, whatever was
\* deployed before, whatever failed, and whatever the cluster does beside it.
THEOREM AdapterInductive == Spec => []IInv
<1>1. Init => IInv
  BY InitSound
<1>2. IInv /\ [Next]_vars => IInv'
  BY NextKeeps
<1> QED
  BY <1>1, <1>2, PTL DEF Spec

\* The objects have their types.
THEOREM AdapterTyped == Spec => []TypeOK
<1>1. IInv => TypeOK
  BY DEF IInv
<1> QED
  BY <1>1, AdapterInductive, PTL

\* A role is never bound twice for the application, although a deploy may fail
\* between any two of the bindings it makes or removes.
THEOREM RolesBoundOnce == Spec => []BoundOnce
<1>1. IInv => BoundOnce
  BY DEF IInv
<1> QED
  BY <1>1, AdapterInductive, PTL

\* The Service of an AppSpec has the ports that its Ingresses send to.
LEMMA BackendsFound ==
    ASSUME NEW n \in SpecNumbers
    PROVE  /\ Backends[n] \subseteq ServicePorts[n]
           /\ Specs[n].ports = << >> => Backends[n] = {}
<1> DEFINE ports(item) == {path.port : path \in Range(item.paths)}
           asked == UNION {ports(item) : item \in Range(Specs[n].ingresses)}
           named == {p.port : p \in {p \in Range(Specs[n].ports) :
                                       p.name = "http" /\ SharedPaths(Specs[n]) = << >>}}
<1>1. /\ Backends[n] = asked \union named
      /\ ServicePorts[n] = {p.port : p \in Range(Specs[n].ports)}
  BY DEF Backends, ServicePorts
<1>2. \A item \in Range(Specs[n].ingresses) : \A path \in Range(item.paths) :
        \E p \in Range(Specs[n].ports) : path.port = p.port
  BY SpecsAssumption DEF SpecNumbers
<1>3. Backends[n] \subseteq ServicePorts[n]
  <2> SUFFICES ASSUME NEW port \in Backends[n]
               PROVE  \E p \in Range(Specs[n].ports) : port = p.port
    BY <1>1
  <2>1. CASE port \in asked
    <3>1. PICK item \in Range(Specs[n].ingresses) : port \in ports(item)
      BY <2>1, Zenon
    <3>2. \E path \in Range(item.paths) : port = path.port
      BY <3>1
    <3> QED
      BY <1>2, <3>2
  <2>2. CASE port \in named
    BY <2>2
  <2>3. port \in asked \/ port \in named
    <3> HIDE DEF asked, named
    <3> QED
      BY <1>1
  <2> QED
    BY <2>1, <2>2, <2>3
<1>4. Specs[n].ports = << >> => ServicePorts[n] = {}
  BY <1>1 DEF Range
<1>5. Specs[n].ports = << >> => Backends[n] = {}
  <2> SUFFICES ASSUME Specs[n].ports = << >>, NEW p \in Backends[n]
               PROVE  FALSE
    OBVIOUS
  <2> QED
    BY <1>3, <1>4
<1> QED
  BY <1>3, <1>5

\* What a deploy makes finds what it refers to, between any two calls: its Ingresses
\* the ports of the Service, the autoscaler its Deployment, the Deployment its service
\* account; and only Ingresses of older AppSpecs under the same id may be without
\* their ports once those of other ids are deleted.
THEOREM ReferencesNeverDangle == Spec => []ReferencesHold
<1>1. ASSUME IInv, Beyond("service"), NEW i \in Dangling
      PROVE  k8s.ingresses[i] # job.of
  <2> SUFFICES ASSUME k8s.ingresses[i] = job.of
               PROVE  FALSE
    OBVIOUS
  <2>1. job.of \in SpecNumbers /\ job.of # 0
    BY <1>1 DEF Beyond, IInv, TypeOK
  <2>2. k8s.service = IF Specs[job.of].ports = << >> THEN 0 ELSE job.of
    BY <1>1 DEF IInv, ServiceApplied
  <2> QED
    BY <2>1, <2>2, BackendsFound DEF Dangling
<1>2. ASSUME IInv, Beyond("unused"), NEW i \in Dangling
      PROVE  Name(k8s.ingresses[i]) = Name(job.of)
  BY <1>2 DEF IInv, IngressesApplied, Dangling
<1>3. IInv => ReferencesHold
  BY <1>1, <1>2 DEF ReferencesHold, IInv
<1> QED
  BY <1>3, AdapterInductive, PTL

\* When a deploy succeeds the objects are those of its AppSpec, from whatever objects
\* it began with.
THEOREM DeployAsSpecified == Spec => []AsSpecified
<1>1. ASSUME IInv, Done
      PROVE  LET s == Specs[job.of] IN
             /\ k8s.service = IF s.ports = << >> THEN 0 ELSE job.of
             /\ \A n \in Range(IngressNumbers[job.of]) :
                  n \in DOMAIN k8s.ingresses /\ k8s.ingresses[n] = job.of
             /\ k8s.deployment.of = job.of
             /\ k8s.autoscaler # 0 <=>
                  /\ s.autoscaler.min < s.autoscaler.max /\ s.autoscaler.max >= 2
                  /\ s.cpu /\ ~job.besteffort
             /\ k8s.autoscaler \in {0, job.of}
             /\ IF s.autoscaler.min >= 2 /\ s.autoscaler.max >= 2
                THEN k8s.budget < s.autoscaler.min /\ (BudgetUnavailable > 0 => k8s.budget > 0)
                ELSE k8s.budget = 0
             /\ ServiceAccountPerApp =>
                  /\ k8s.serviceAccount # "none"
                  /\ RolesBound
  <2>1. job.of \in SpecNumbers /\ job.of # 0
    BY <1>1 DEF IInv, TypeOK, Done
  <2>2. /\ Beyond("roleBindings") /\ Beyond("service") /\ Beyond("ingress") /\ Beyond("unused")
        /\ Beyond("save") /\ Beyond("autoscaler") /\ Beyond("budget")
    BY <1>1, <2>1, LaterSteps DEF Beyond, Done
  <2>3. k8s.service = IF Specs[job.of].ports = << >> THEN 0 ELSE job.of
    BY <1>1, <2>2 DEF IInv, ServiceApplied
  <2>4. \A n \in Range(IngressNumbers[job.of]) :
          n \in DOMAIN k8s.ingresses /\ k8s.ingresses[n] = job.of
    BY <1>1, <2>2 DEF IInv, IngressesApplied, Made, Range
  <2>5. k8s.deployment.of = job.of
    BY <1>1, <2>2 DEF IInv, DeploymentApplied
  <2>6. k8s.autoscaler = IF ShouldHaveAutoscaler(job.of, job.besteffort) THEN job.of ELSE 0
    BY <1>1, <2>2 DEF IInv, AutoscalerApplied
  <2>7. ShouldHaveAutoscaler(job.of, job.besteffort) <=>
          /\ Specs[job.of].autoscaler.min < Specs[job.of].autoscaler.max
          /\ Specs[job.of].autoscaler.max >= 2
          /\ Specs[job.of].cpu /\ ~job.besteffort
    <3>1. Specs[job.of].autoscaler.enabled =
            (Specs[job.of].autoscaler.min # Specs[job.of].autoscaler.max)
      BY <2>1, SpecNumbered
    <3>2. /\ (Specs[job.of].autoscaler.min # Specs[job.of].autoscaler.max) <=>
               (Specs[job.of].autoscaler.min < Specs[job.of].autoscaler.max)
          /\ (Specs[job.of].autoscaler.max > 1) <=> (Specs[job.of].autoscaler.max >= 2)
      BY <2>1, SpecNumbered
    <3> QED
      BY <3>1, <3>2, Zenon DEF ShouldHaveAutoscaler
  <2>8. k8s.budget = BudgetOf(Specs[job.of])
    BY <1>1, <2>2 DEF IInv, BudgetApplied
  <2>9. IF Specs[job.of].autoscaler.min >= 2 /\ Specs[job.of].autoscaler.max >= 2
        THEN /\ k8s.budget < Specs[job.of].autoscaler.min
             /\ BudgetUnavailable > 0 => k8s.budget > 0
        ELSE k8s.budget = 0
    BY <2>1, <2>8, BudgetFits
  <2>10. ServiceAccountPerApp => k8s.serviceAccount # "none" /\ RolesBound
    BY <1>1, <2>2 DEF IInv, AccountApplied, BindingsApplied
  <2> QED
    BY <2>1, <2>3, <2>4, <2>5, <2>6, <2>7, <2>9, <2>10
<1>2. IInv => AsSpecified
  BY <1>1 DEF AsSpecified
<1> QED
  BY <1>2, AdapterInductive, PTL

\* A successful deploy leaves no Ingress of another deployment id, nor an old one
\* under a name it uses.
THEOREM OldIngressesGone == Spec => []NoOldIngress
<1>1. ASSUME IInv, Done, NEW n \in DOMAIN k8s.ingresses, k8s.ingresses[n] # job.of
      PROVE  /\ Name(k8s.ingresses[n]) = Name(job.of)
             /\ n \notin Range(IngressNumbers[job.of])
  <2>1. Beyond("ingress") /\ Beyond("unused")
    BY <1>1, LaterSteps DEF Beyond, Done
  <2> QED
    BY <1>1, <2>1 DEF IInv, IngressesApplied, Made, Range
<1>2. IInv => NoOldIngress
  BY <1>1 DEF NoOldIngress
<1> QED
  BY <1>2, AdapterInductive, PTL

-----------------------------------------------------------------------------
(* What a step may not do. *)

UsersKept ==
    /\ k8s.serviceAccount = "foreign" => k8s'.serviceAccount = "foreign"
    /\ \A b \in k8s.roleBindings : ~b.own => b \in k8s'.roleBindings

\* A step that writes only other objects keeps them.
LEMMA OthersKept ==
    ASSUME k8s'.serviceAccount = k8s.serviceAccount, k8s'.roleBindings = k8s.roleBindings
    PROVE  UsersKept
BY DEF UsersKept

LEMMA SameKept ==
    ASSUME k8s' = k8s
    PROVE  UsersKept
BY DEF UsersKept

LEMMA BindingsKept ==
    ASSUME Sound, NEW D \in SUBSET Unneeded(k8s), NEW C,
           k8s' = [k8s EXCEPT !.roleBindings = (@ \ D) \union C]
    PROVE  UsersKept
<1>1. /\ k8s'.roleBindings = (k8s.roleBindings \ D) \union C
      /\ k8s'.serviceAccount = k8s.serviceAccount
  BY DEF Sound, ObjectsTyped
<1>2. \A b \in k8s.roleBindings : ~b.own => b \notin D
  BY DEF Unneeded
<1> QED
  BY <1>1, <1>2 DEF UsersKept

LEMMA AllKept ==
    ASSUME IInv, [Next]_vars
    PROVE  UsersKept
<1>1. Sound
  BY IsSound
<1>2. CASE k8s' = k8s
  BY <1>2, SameKept
<1>3. CASE ApplyServiceAccount /\ k8s' # k8s
  <2>1. k8s' = ServiceAccount(k8s)
    BY <1>3 DEF ApplyServiceAccount, Apply, Fail
  <2>2. /\ k8s'.serviceAccount = IF k8s.serviceAccount = "foreign" THEN "foreign" ELSE "own"
        /\ k8s'.roleBindings = k8s.roleBindings
    BY <1>1, <2>1 DEF ServiceAccount, Sound, ObjectsTyped
  <2> QED
    BY <2>2 DEF UsersKept
<1>4. CASE ApplyRoleBindings /\ k8s' # k8s
  <2>1. CASE k8s' = RoleBindings(k8s)
    <3>1. k8s' = [k8s EXCEPT !.roleBindings = (@ \ Unneeded(k8s)) \union Missing(k8s)]
      BY <2>1 DEF RoleBindings
    <3> QED
      BY <1>1, <3>1, BindingsKept
  <2>2. CASE k8s' \in {[k8s EXCEPT !.roleBindings = @ \ D] : D \in SUBSET Unneeded(k8s)}
    <3>1. PICK D \in SUBSET Unneeded(k8s) : k8s' = [k8s EXCEPT !.roleBindings = @ \ D]
      BY <2>2
    <3>2. k8s' = [k8s EXCEPT !.roleBindings = (@ \ D) \union {}]
      BY <3>1
    <3> QED
      BY <1>1, <3>2, BindingsKept
  <2>3. CASE k8s' \in {[k8s EXCEPT !.roleBindings =
                          (@ \ Unneeded(k8s)) \union {b \in Missing(k8s) : b.name <= k}] :
                         k \in DOMAIN Roles}
    <3>1. PICK C \in SUBSET Missing(k8s) :
            k8s' = [k8s EXCEPT !.roleBindings = (@ \ Unneeded(k8s)) \union C]
      BY <2>3
    <3> QED
      BY <1>1, <3>1, BindingsKept
  <2> QED
    BY <1>4, <2>1, <2>2, <2>3 DEF ApplyRoleBindings, Apply, Fail
<1>5. CASE ApplyService /\ k8s' # k8s
  <2>1. job.of \in SpecNumbers
    BY <1>5, Running DEF ApplyService, Apply
  <2>2. k8s' = Service(k8s, job.of)
    BY <1>5 DEF ApplyService, Apply, Fail
  <2> QED
    BY <1>1, <2>1, <2>2, ServiceSound, OthersKept
<1>6. CASE ApplyIngress /\ k8s' # k8s
  <2>1. job.of \in SpecNumbers
    BY <1>6, Running DEF ApplyIngress
  <2>2. k8s' = Ingress(k8s, job.of, job.group)
    BY <1>6 DEF ApplyIngress, Fail
  <2> QED
    BY <1>1, <2>1, <2>2, IngressSound, OthersKept
<1>7. CASE ApplyUnused /\ k8s' # k8s
  <2>1. k8s' = DeleteUnused(k8s, job.of)
    BY <1>7 DEF ApplyUnused, Apply, Fail
  <2> QED
    BY <1>1, <2>1, UnusedSound, OthersKept
<1>8. CASE SaveDeployment /\ k8s' # k8s
  <2>1. k8s' = [k8s EXCEPT !.deployment = [of |-> job.of, replicas |-> job.replicas]]
    BY <1>8 DEF SaveDeployment, Apply, Fail
  <2> QED
    BY <1>1, <2>1, OthersKept DEF Sound, ObjectsTyped
<1>9. CASE ApplyAutoscaler /\ k8s' # k8s
  <2>1. k8s' = Autoscaler(k8s, job.of, job.besteffort)
    BY <1>9 DEF ApplyAutoscaler, Apply, Fail
  <2> QED
    BY <1>1, <2>1, OthersKept DEF Autoscaler, Sound, ObjectsTyped
<1>10. CASE ApplyBudget /\ k8s' # k8s
  <2>1. k8s' = Budget(k8s, job.of)
    BY <1>10 DEF ApplyBudget, Apply, Fail
  <2> QED
    BY <1>1, <2>1, OthersKept DEF Budget, Sound, ObjectsTyped
<1>11. CASE Autoscale \/ Stop \/ UpdateStatus
  <2>1. PICK r \in Nat : Rescaled(r)
    BY <1>11, ClusterStep
  <2> QED
    BY <1>1, <2>1, OthersKept DEF Rescaled, Sound, ObjectsTyped
<1>12. CASE ReadReplicas \/ GetDeployment
  BY <1>2, <1>12 DEF ReadReplicas, GetDeployment, Fail
<1>13. CASE (\E n \in SpecNumbers : Begin(n)) \/ UNCHANGED vars
  BY <1>2, <1>13 DEF Begin, vars
<1> QED
  BY <1>2, <1>3, <1>4, <1>5, <1>6, <1>7, <1>8, <1>9, <1>10, <1>11, <1>12, <1>13
     DEF Next, Steps

\* No step of a deploy, whether it fails or not, changes what belongs to a user, also
\* a user's binding of a role that the operator does not list.
THEOREM UsersUntouched == Spec => ForeignUntouched
<1>1. IInv /\ [Next]_vars =>
        [/\ k8s.serviceAccount = "foreign" => k8s'.serviceAccount = "foreign"
         /\ \A b \in k8s.roleBindings : ~b.own => b \in k8s'.roleBindings]_vars
  BY AllKept DEF UsersKept
<1> QED
  BY <1>1, AdapterInductive, PTL DEF Spec, ForeignUntouched

\* A deploy writes a number of replicas which the Deployment had since its try began.
THEOREM ScaleRespected == Spec => ScaleIsRecent
<1>1. ASSUME IInv, SaveDeployment, k8s'.deployment # k8s.deployment,
             ShouldHaveAutoscaler(job.of, job.besteffort), 0 \notin recent
      PROVE  k8s'.deployment.replicas \in recent
  <2>1. k8s' = [k8s EXCEPT !.deployment = [of |-> job.of, replicas |-> job.replicas]]
    BY <1>1 DEF SaveDeployment, Apply, Fail
  <2>2. k8s'.deployment.replicas = job.replicas
    BY <1>1, <2>1, IsSound DEF Sound, ObjectsTyped
  <2>3. job.step = "save"
    BY <1>1 DEF SaveDeployment, Apply
  <2> QED
    BY <1>1, <2>2, <2>3 DEF IInv, ReplicasRead
<1>2. IInv /\ [Next]_vars =>
        [SaveDeployment /\ k8s'.deployment # k8s.deployment
           /\ ShouldHaveAutoscaler(job.of, job.besteffort) /\ 0 \notin recent
         => k8s'.deployment.replicas \in recent]_vars
  BY <1>1
<1> QED
  BY <1>2, AdapterInductive, PTL DEF Spec, ScaleIsRecent
==============================================================================
