---------------------------- MODULE AppObjectsProofs ----------------------------
(***************************************************************************)
(* The theorems about AppObjects: what every configuration, and every      *)
(* setting of the operator's, becomes.                                     *)
(***************************************************************************)
EXTENDS AppObjects, SequenceTheorems, FiniteSetTheorems, TLAPS

-----------------------------------------------------------------------------
(* The inductive invariant: what is there is what the steps make of the    *)
(* input, and the input is a configuration.                                *)

\* A configuration has some of the keys, and values the settings allow.
IsConfig(version, config) ==
    /\ DOMAIN config \subseteq DOMAIN Settings[version]
    /\ \A k \in DOMAIN config : config[k] \in Values(version, k)

IInv ==
    /\ stage \in Stages
    /\ input.version \in DOMAIN Settings /\ input.besteffort \in BOOLEAN
    /\ IsConfig(input.version, input.config)
    /\ stage \in {"parsed", "made"} =>
         /\ spec = SpecOf(input.version, input.config, Additional)
         /\ spec # Invalid
    /\ stage = "made" =>
         /\ ~(I!ShouldHaveIngress(App) /\ I!LacksHttpPort(App)) /\ ~D!LacksProbe(App)
         /\ ingresses = IF I!ShouldHaveIngress(App) THEN I!Ingresses(App) ELSE << >>
         /\ pod = D!Pod(App, input.besteffort)

\* Every state is one that the steps make of a configuration.
THEOREM Invariance == Spec => []IInv
<1>1. Init => IInv
  <2>1. SUFFICES ASSUME Init PROVE IInv
    OBVIOUS
  <2>2. PICK version \in DOMAIN Settings, besteffort \in BOOLEAN, image \in SecretsImages :
          \E k, l, m \in DOMAIN Settings[version] :
            \E x \in Settings[version][k], y \in Settings[version][l], z \in Settings[version][m] :
              input = [version |-> version, besteffort |-> besteffort, default_image |-> image,
                       config |-> [i \in {k, l, m} |-> IF i = k THEN x ELSE IF i = l THEN y ELSE z]]
    BY <2>1 DEF Init
  <2>3. PICK k \in DOMAIN Settings[version], l \in DOMAIN Settings[version],
             m \in DOMAIN Settings[version] :
          \E x \in Settings[version][k], y \in Settings[version][l], z \in Settings[version][m] :
            input = [version |-> version, besteffort |-> besteffort, default_image |-> image,
                     config |-> [i \in {k, l, m} |-> IF i = k THEN x ELSE IF i = l THEN y ELSE z]]
    BY <2>2
  <2>4. PICK x \in Settings[version][k], y \in Settings[version][l], z \in Settings[version][m] :
          input = [version |-> version, besteffort |-> besteffort, default_image |-> image,
                   config |-> [i \in {k, l, m} |-> IF i = k THEN x ELSE IF i = l THEN y ELSE z]]
    BY <2>3
  <2> DEFINE config == [i \in {k, l, m} |-> IF i = k THEN x ELSE IF i = l THEN y ELSE z]
  <2>5. IsConfig(version, config)
    BY DEF IsConfig, Values
  <2>6. input = [version |-> version, besteffort |-> besteffort, default_image |-> image, config |-> config]
    BY <2>4
  <2> HIDE DEF config
  <2>7. stage = "given"
    BY <2>1 DEF Init
  <2> QED BY <2>5, <2>6, <2>7 DEF IInv, Stages
<1>2. IInv /\ [Next]_vars => IInv'
  <2>1. SUFFICES ASSUME IInv, [Next]_vars PROVE IInv'
    OBVIOUS
  <2>2. CASE Refuse /\ stage \in {"given", "parsed"}
    BY <2>1, <2>2 DEF IInv, Refuse, Stages
  <2>3. CASE Parse /\ ~Refuse
    <3>1. /\ stage' = "parsed" /\ UNCHANGED input
          /\ spec' = SpecOf(input.version, input.config, Additional) /\ spec' # Invalid
      BY <2>3 DEF Parse
    <3> QED BY <2>1, <3>1 DEF IInv, Stages
  <2>4. CASE Make /\ ~Refuse
    <3>1. /\ ~(I!ShouldHaveIngress(App) /\ I!LacksHttpPort(App)) /\ ~D!LacksProbe(App)
          /\ stage = "parsed" /\ stage' = "made" /\ UNCHANGED <<input, spec>>
          /\ ingresses' = IF I!ShouldHaveIngress(App) THEN I!Ingresses(App) ELSE << >>
          /\ pod' = D!Pod(App, input.besteffort)
      BY <2>4 DEF Make
    <3>2. App' = App
      BY <3>1 DEF App
    <3>3. spec' = SpecOf(input'.version, input'.config, Additional) /\ spec' # Invalid
      BY <2>1, <3>1 DEF IInv
    <3>4. I!ShouldHaveIngress(App)' = I!ShouldHaveIngress(App)
            /\ I!LacksHttpPort(App)' = I!LacksHttpPort(App)
            /\ D!LacksProbe(App)' = D!LacksProbe(App)
            /\ I!Ingresses(App)' = I!Ingresses(App)
            /\ D!Pod(App, input.besteffort)' = D!Pod(App, input.besteffort)
      BY <3>1, <3>2
    <3>5. IsConfig(input.version, input.config)' = IsConfig(input.version, input.config)
      BY <3>1
    <3> QED BY <2>1, <3>1, <3>3, <3>4, <3>5 DEF IInv, Stages
  <2>5. CASE UNCHANGED vars
    <3>1. UNCHANGED <<input, stage, spec, ingresses, pod>>
      BY <2>5 DEF vars
    <3>2. App' = App
      BY <3>1 DEF App
    <3>3. I!ShouldHaveIngress(App)' = I!ShouldHaveIngress(App)
            /\ I!LacksHttpPort(App)' = I!LacksHttpPort(App)
            /\ D!LacksProbe(App)' = D!LacksProbe(App)
            /\ I!Ingresses(App)' = I!Ingresses(App)
            /\ D!Pod(App, input.besteffort)' = D!Pod(App, input.besteffort)
            /\ IsConfig(input.version, input.config)' = IsConfig(input.version, input.config)
      BY <3>1, <3>2
    <3> QED BY <2>1, <3>1, <3>3 DEF IInv
  <2> QED BY <2>1, <2>2, <2>3, <2>4, <2>5 DEF Next, Parse, Make
<1> QED BY <1>1, <1>2, PTL DEF Spec

-----------------------------------------------------------------------------
(* The AppSpec. *)

Fields == {"autoscaler", "singleton", "resources", "admin_access", "secrets_in_environment",
           "prometheus", "datadog", "ports", "liveness", "readiness", "labels", "ingresses",
           "strongbox", "tls", "secrets"}

\* What an AppSpec is made of, with the look-up l and the ports.
Factored(s, l, ports) ==
    LET hc == At(l, "healthchecks") IN
    /\ DOMAIN s = Fields
    /\ s.autoscaler = AutoscalerSpec(At(l, "replicas"))
    /\ s.singleton = Val(At(l, "replicas"), "singleton")
    /\ s.resources = [r \in {"limits", "requests"} |-> Resource(Val(At(At(l, "resources"), r), "cpu"))]
    /\ s.admin_access = Val(l, "admin_access")
    /\ s.prometheus = [f \in {"enabled", "path"} |-> Val(At(At(l, "metrics"), "prometheus"), f)]
    /\ s.datadog = Val(At(At(l, "metrics"), "datadog"), "enabled")
    /\ s.ports = ports
    /\ s.liveness = CheckSpec(At(hc, "liveness"), ports) /\ s.liveness # Invalid
    /\ s.readiness = CheckSpec(ReadinessOf(hc), ports) /\ s.readiness # Invalid
    /\ s.ingresses = IngressItems(l, ports)
    /\ \A k \in DOMAIN s.ingresses : \A j \in DOMAIN s.ingresses[k].paths :
         s.ingresses[k].paths[j].port # None
    /\ s.tls = [f \in {"enabled", "certificate_issuer"} |->
                  Val(Look(TlsConfig(At(At(l, "extensions"), "tls").c), V3Defaults.extensions.tls), f)]
    /\ s.secrets = Keys(At(At(l, "extensions"), "secrets"))

\* The factory puts these parts together, unless it raises (Factory.__call__).
LEMMA FactoredSpec ==
    ASSUME NEW config, NEW overrides, NEW s,
           s = AppSpecOf(config, overrides), s # Invalid
    PROVE  Factored(s, Look(config, V3Defaults), PortSpecs(Look(config, V3Defaults), PortFields))
BY DEF AppSpecOf, Fields, Factored

\* The version 3 configuration that an AppSpec is made of.
Configuration == IF input.version = 3 THEN input.config ELSE Transformed(input.config)

\* An application that was parsed has the AppSpec of that configuration.
LEMMA SpecOfConfiguration ==
    ASSUME IInv, stage \in {"parsed", "made"}
    PROVE  /\ input.version \in {2, 3}
           /\ spec = AppSpecOf(Configuration, Additional) /\ spec # Invalid
           /\ input.version = 2 => Transformed(input.config) # Invalid
           /\ Factored(spec, Look(Configuration, V3Defaults),
                       PortSpecs(Look(Configuration, V3Defaults), PortFields))
<1>1. spec = SpecOf(input.version, input.config, Additional) /\ spec # Invalid
  BY DEF IInv
<1>2. input.version \in {2, 3}
  BY <1>1 DEF SpecOf
<1>3. /\ spec = AppSpecOf(Configuration, Additional)
      /\ input.version = 2 => Transformed(input.config) # Invalid
  <2>1. CASE input.version = 3
    BY <1>1, <2>1 DEF SpecOf, Configuration
  <2>2. CASE input.version = 2
    BY <1>1, <2>2 DEF SpecOf, Configuration
  <2> QED BY <1>2, <2>1, <2>2
<1> QED BY <1>1, <1>2, <1>3, FactoredSpec

\* What the deployers are given has the fields of the AppSpec, and some of its own.
LEMMA AppFields ==
    ASSUME DOMAIN spec = Fields
    PROVE  /\ App.name = "app" /\ App.issuer = spec.tls.certificate_issuer
           /\ App.tls = spec.tls.enabled
           /\ App.resources = IF input.besteffort THEN [r \in DOMAIN spec.resources |-> None]
                              ELSE spec.resources
           /\ \A f \in Fields \ {"tls", "resources"} : App[f] = spec[f]
BY DEF App, Over, Fields

\* A user lists finitely many types of secrets.
LEMMA SecretsAreFinite ==
    ASSUME IInv, stage \in {"parsed", "made"}
    PROVE  IsFiniteSet(spec.secrets)
<1> DEFINE l == Look(Configuration, V3Defaults)
           ext == IF "extensions" \in DOMAIN Configuration THEN Configuration.extensions ELSE Nothing
           c == IF "secrets" \in DOMAIN ext THEN ext.secrets ELSE Nothing
<1>1. spec.secrets = Keys(At(At(l, "extensions"), "secrets"))
  BY SpecOfConfiguration DEF Factored
<1>2. At(At(l, "extensions"), "secrets") = Look(c, Nothing)
  <2>1. At(l, "extensions") = Look(ext, V3Defaults.extensions)
    BY DEF At, Look
  <2>2. V3Defaults.extensions.secrets = Nothing
    BY DEF V3Defaults
  <2> QED BY <2>1, <2>2 DEF At, Look
<1>3. IsFiniteSet(DOMAIN Nothing)
  BY FS_EmptySet DEF Nothing
<1>4. IsFiniteSet(DOMAIN c)
  <2>1. CASE input.version = 2
    <3>1. "extensions" \notin DOMAIN Transformed(input.config)
      BY <2>1, SpecOfConfiguration DEF Transformed
    <3> QED BY <1>3, <2>1, <3>1 DEF Configuration, Nothing
  <2>2. CASE input.version = 3
    <3>1. "extensions" \in DOMAIN input.config => input.config.extensions \in Values(3, "extensions")
      BY <2>2 DEF IInv, IsConfig
    <3> QED BY <1>3, <2>2, <3>1, SettingsAssumption DEF Configuration, Nothing
  <2> QED BY <2>1, <2>2, SpecOfConfiguration
<1>5. Keys(Look(c, Nothing)) \in {DOMAIN Nothing, DOMAIN c}
  BY DEF Keys, Look
<1> QED BY <1>1, <1>2, <1>3, <1>4, <1>5

-----------------------------------------------------------------------------
(* The environment. *)

WithInit(app, p, type) == D!WithInitContainer(app, p, type)
FoldInit == INSTANCE SequenceLemmas WITH Op <- WithInit

\* What is put into a pod is put into its first container and into lists it has.
IsPod(p) ==
    /\ {"containers", "initContainers", "volumes", "serviceAccount", "token"} \subseteq DOMAIN p
    /\ 1 \in DOMAIN p.containers
    /\ {"name", "env", "envFrom", "mounts"} \subseteq DOMAIN p.containers[1]

\* ... without touching the environments and requirements of the containers.
Kept(p, q) ==
    /\ IsPod(q) /\ DOMAIN q.containers = DOMAIN p.containers
    /\ \A j \in DOMAIN p.containers :
         q.containers[j].env = p.containers[j].env /\ q.containers[j].resources = p.containers[j].resources

\* One init container leaves a pod a pod (GenericInitSecrets.apply) ...
LEMMA InitContainerKeeps ==
    ASSUME NEW app, NEW p, NEW type, IsPod(p)
    PROVE  Kept(p, WithInit(app, p, type))
BY DEF IsPod, Kept, WithInit, D!WithInitContainer

\* A finite set as a list.
LEMMA SetAsList ==
    ASSUME NEW S, IsFiniteSet(S)
    PROVE  /\ Cardinality(S) \in Nat
           /\ D!SetToSeq(S) \in [1..Cardinality(S) -> S]
           /\ D!IsInjective(D!SetToSeq(S))
<1>1. Cardinality(S) \in Nat /\ ExistsBijection(1..Cardinality(S), S)
  BY FS_CardinalityType
<1>2. \E f \in [1..Cardinality(S) -> S] : D!IsInjective(f)
  BY <1>1 DEF ExistsBijection, Bijection, Injection, IsInjective, D!IsInjective
<1>3. PICK f \in [1..Cardinality(S) -> S] : D!IsInjective(f)
  BY <1>2
<1> DEFINE g == CHOOSE g \in [1..Cardinality(S) -> S] : D!IsInjective(g)
<1>4. g \in [1..Cardinality(S) -> S] /\ D!IsInjective(g)
  BY <1>3
<1>5. D!SetToSeq(S) = g
  <2>1. D!Cardinality(S) = Cardinality(S)
    BY DEF D!Cardinality, Cardinality
  <2> QED BY <2>1 DEF D!SetToSeq
<1> QED BY <1>1, <1>4, <1>5

\* The init containers an application gets are a list.
LEMMA TypesAreList ==
    ASSUME NEW app, IsFiniteSet(app.secrets)
    PROVE  \E m \in Nat : DOMAIN D!SecretTypes(app) = 1..m
<1>1. CASE app.secrets # {}
  <2>1. D!SecretTypes(app) = D!SetToSeq(app.secrets)
    BY <1>1 DEF D!SecretTypes
  <2> QED BY <2>1, SetAsList
<1>2. CASE app.secrets = {}
  <2>1. D!SecretTypes(app) \in {<< >>, <<"strongbox">>, <<"default">>}
    BY <1>2 DEF D!SecretTypes
  <2>2. DOMAIN << >> = 1..0 /\ DOMAIN <<"strongbox">> = 1..1 /\ DOMAIN <<"default">> = 1..1
    OBVIOUS
  <2> QED BY <2>1, <2>2
<1> QED BY <1>1, <1>2

\* ... and so do all of them, or the Secret (Secrets.apply).
LEMMA SecretsKeep ==
    ASSUME NEW app, NEW p, IsPod(p), IsFiniteSet(app.secrets)
    PROVE  Kept(p, D!WithSecrets(app, p))
<1> DEFINE types == D!SecretTypes(app)
           n == Cardinality(app.secrets)
<1>1. CASE types = << >>
  BY <1>1 DEF D!WithSecrets, D!WithSecret, IsPod, Kept
<1>2. CASE types # << >>
  <2>1. PICK m \in Nat : DOMAIN types = 1..m
    BY TypesAreList
  <2>2. D!WithSecrets(app, p) = FoldInit!Fold(app, p, types)
    BY <1>2 DEF D!WithSecrets, FoldInit!Fold, WithInit, D!FoldLeft, FoldInit!FoldLeft,
             D!MapThenFoldSet, FoldInit!MapThenFoldSet, D!Max, FoldInit!Max
  <2> HIDE DEF types
  <2>3. PICK f : FoldInit!Steps(app, p, types, m, f) /\ FoldInit!Fold(app, p, types) = f[m]
    BY <2>1, FoldInit!FoldSteps
  <2>4. f[0] = p /\ \A k \in 1..m : f[k] = WithInit(app, f[k - 1], types[k])
    BY <2>3 DEF FoldInit!Steps
  <2> DEFINE N == {k \in Nat : k <= m => Kept(p, f[k])}
  <2>5. 0 \in N
    BY <2>4 DEF Kept
  <2>6. ASSUME NEW k \in Nat, k \in N PROVE k + 1 \in N
    <3>1. SUFFICES ASSUME k + 1 <= m
                   PROVE  Kept(p, f[k + 1])
      OBVIOUS
    <3>2. k + 1 \in 1..m /\ (k + 1) - 1 = k /\ k <= m
      BY <3>1
    <3>3. f[k + 1] = WithInit(app, f[k], types[k + 1])
      BY <2>4, <3>2
    <3>4. Kept(p, f[k])
      BY <2>6, <3>2
    <3>5. Kept(f[k], f[k + 1])
      BY <3>3, <3>4, InitContainerKeeps DEF Kept
    <3> QED BY <3>4, <3>5 DEF Kept
  <2>7. N = Nat
    <3> HIDE DEF N
    <3>1. N \in SUBSET Nat
      BY DEF N
    <3> QED BY <2>5, <2>6, <3>1, FoldInit!Induction
  <2>8. Kept(p, f[m])
    BY <2>1, <2>7
  <2> QED BY <2>2, <2>3, <2>8
<1> QED BY <1>1, <1>2

\* The pod before the secrets: the application's container, and perhaps DataDog's.
Main(app) ==
    [name |-> <<app.name>>, env |-> D!Env(app), envFrom |-> {"configMap"},
     mounts |-> <<D!ConfigMount(app), D!TmpMount>>,
     resources |-> {r \in {"limits", "requests"} : app.resources[r] # None}]
Datadog(besteffort) ==
    [name |-> <<"fiaas-datadog-container">>, env |-> [k \in {} |-> None], envFrom |-> {}, mounts |-> << >>,
     resources |-> IF besteffort THEN {} ELSE {"limits", "requests"}]
BeforeSecrets(app, besteffort) ==
    [containers |-> IF app.datadog THEN <<Main(app), Datadog(besteffort)>> ELSE <<Main(app)>>,
     initContainers |-> << >>,
     volumes |-> <<D!Volume(<<app.name, "config">>, "configMap"), D!Volume(<<"tmp">>, "emptyDir")>>,
     serviceAccount |-> IF ServiceAccountPerApp THEN app.name ELSE "default",
     token |-> app.admin_access]

\* A list of two, made by appending.
LEMMA AppendToOne == \A x, y : Append(<<x>>, y) = <<x, y>>
<1> SUFFICES ASSUME NEW x, NEW y PROVE Append(<<x>>, y) = <<x, y>>
  OBVIOUS
<1>1. <<x>> \in Seq({x, y}) /\ <<x, y>> \in Seq({x, y}) /\ Len(<<x>>) = 1 /\ Len(<<x, y>>) = 2
  OBVIOUS
<1>2. /\ Append(<<x>>, y) \in Seq({x, y}) /\ Len(Append(<<x>>, y)) = 2
      /\ Append(<<x>>, y)[1] = x /\ Append(<<x>>, y)[2] = y
  BY <1>1, AppendProperties
<1>3. \A i \in 1..2 : Append(<<x>>, y)[i] = <<x, y>>[i]
  BY <1>2
<1> QED BY <1>1, <1>2, <1>3, SeqEqual

\* The pod template that is made: the containers, then the secrets (DeploymentDeployer.deploy).
LEMMA PodIs ==
    ASSUME IInv, stage = "made"
    PROVE  /\ pod = D!WithSecrets(App, BeforeSecrets(App, input.besteffort))
           /\ IsPod(BeforeSecrets(App, input.besteffort)) /\ IsFiniteSet(App.secrets)
<1>1. DOMAIN spec = Fields /\ pod = D!Pod(App, input.besteffort)
  BY SpecOfConfiguration DEF IInv, Factored
<1>2. IsFiniteSet(App.secrets)
  <2>1. App.secrets = spec.secrets
    BY <1>1, AppFields DEF Fields
  <2> QED BY <2>1, SecretsAreFinite
<1> DEFINE plain == [containers |-> <<Main(App)>>, initContainers |-> << >>,
                     volumes |-> <<D!Volume(<<App.name, "config">>, "configMap"),
                                   D!Volume(<<"tmp">>, "emptyDir")>>,
                     serviceAccount |-> IF ServiceAccountPerApp THEN App.name ELSE "default",
                     token |-> App.admin_access]
<1>3. pod = D!WithSecrets(App, D!WithDatadog(App, plain, input.besteffort))
  BY <1>1 DEF D!Pod, Main
<1>4. D!WithDatadog(App, plain, input.besteffort) = BeforeSecrets(App, input.besteffort)
  <2>1. \A x, y : Append(<<x>>, y) = <<x, y>>
    BY AppendToOne
  <2>2. Append(<<Main(App)>>, Datadog(input.besteffort)) = <<Main(App), Datadog(input.besteffort)>>
    BY <2>1
  <2>3. CASE App.datadog
    <3>1. D!WithDatadog(App, plain, input.besteffort)
            = [plain EXCEPT !.containers = Append(@, Datadog(input.besteffort))]
      BY <2>3 DEF D!WithDatadog, Datadog
    <3> QED BY <2>2, <2>3, <3>1 DEF BeforeSecrets
  <2>4. CASE ~App.datadog
    BY <2>4 DEF D!WithDatadog, BeforeSecrets
  <2> QED BY <2>3, <2>4
<1>5. IsPod(BeforeSecrets(App, input.besteffort))
  BY DEF IsPod, BeforeSecrets, Main
<1> QED BY <1>2, <1>3, <1>4, <1>5

\* The first container's environment is the one _make_env makes.
LEMMA EnvOfPod ==
    ASSUME IInv, stage = "made"
    PROVE  pod.containers[1].env = D!Env(App)
<1>1. Kept(BeforeSecrets(App, input.besteffort), pod)
  BY PodIs, SecretsKeep
<1>2. BeforeSecrets(App, input.besteffort).containers[1].env = D!Env(App)
        /\ 1 \in DOMAIN BeforeSecrets(App, input.besteffort).containers
  BY DEF BeforeSecrets, Main
<1> QED BY <1>1, <1>2 DEF Kept

\* Whatever the global environment is, the variables the daemon manages have its
\* values, and a global one is lost only to one of these (_make_env, DataDog.apply).
THEOREM ManagedEnvWinsHolds == Spec => []ManagedEnvWins
<1>1. IInv => ManagedEnvWins
  <2>1. SUFFICES ASSUME IInv, stage = "made" PROVE ManagedEnvWins
    BY DEF ManagedEnvWins
  <2> DEFINE env == pod.containers[1].env
             managed == DOMAIN D!ManagedVars \union D!DownwardVars
             datadog == IF spec.datadog THEN D!DatadogVars ELSE {}
             prefixed == {D!Prefixed(g) : g \in DOMAIN GlobalEnv}
             legacy == [k \in LegacyEnv |-> "legacy"]
  <2>2. env = D!Env(App) /\ App.datadog = spec.datadog
    BY <2>1, EnvOfPod, SpecOfConfiguration, AppFields DEF Fields, Factored
  <2>3. DOMAIN GlobalEnv \subseteq Seq(Texts)
    BY OperatorAssumption
  <2>4. /\ DOMAIN D!GlobalVars = prefixed \union DOMAIN GlobalEnv
        /\ \A k \in DOMAIN D!GlobalVars :
             D!GlobalVars[k] = IF k \in prefixed THEN GlobalEnv[Tail(k)] ELSE GlobalEnv[k]
    BY DEF D!GlobalVars, D!Over
  <2>5. \A k : /\ k \in DOMAIN D!ManagedVars => D!StaticEnv[k] = D!ManagedVars[k]
               /\ k \in DOMAIN D!GlobalVars \ DOMAIN D!ManagedVars =>
                    D!StaticEnv[k] = D!GlobalVars[k]
               /\ k \in DOMAIN D!GlobalVars \union DOMAIN D!ManagedVars =>
                    k \in DOMAIN D!StaticEnv
    BY DEF D!StaticEnv, D!Over
  <2>6. \A k : /\ k \in datadog => env[k] = "datadog"
               /\ k \in D!DownwardVars \ datadog => env[k] = "managed"
               /\ k \in DOMAIN D!StaticEnv \ (D!DownwardVars \union datadog) => env[k] = D!StaticEnv[k]
    BY <2>2 DEF D!Env, D!Over
  <2>7. \A k \in managed : k \notin datadog
    BY DEF D!ManagedVars, D!DownwardVars, D!DatadogVars, D!Prefixed, D!Described
  <2>8. \A k \in DOMAIN D!ManagedVars : D!ManagedVars[k] = "managed"
    BY DEF D!ManagedVars
  <2>9. ASSUME NEW k \in managed PROVE env[k] = "managed"
    BY <2>5, <2>6, <2>7, <2>8
  <2>10. ASSUME NEW g \in DOMAIN GlobalEnv, D!Prefixed(g) \notin managed
         PROVE  env[D!Prefixed(g)] = GlobalEnv[g]
    <3>1. g \in Seq(Texts)
      BY <2>3
    <3>2. Tail(D!Prefixed(g)) = g /\ D!Prefixed(g)[1] = "FIAAS"
      BY <3>1 DEF D!Prefixed
    <3>3. D!Prefixed(g) \notin datadog
      BY <3>2 DEF D!DatadogVars
    <3>4. D!Prefixed(g) \in DOMAIN D!GlobalVars /\ D!GlobalVars[D!Prefixed(g)] = GlobalEnv[g]
      BY <2>4, <3>2
    <3> QED BY <2>5, <2>6, <2>10, <3>3, <3>4
  <2>11. ASSUME NEW g \in DOMAIN GlobalEnv, g \notin managed \union datadog \union prefixed
         PROVE  env[g] = GlobalEnv[g]
    BY <2>4, <2>5, <2>6, <2>11
  <2> QED BY <2>9, <2>10, <2>11 DEF ManagedEnvWins
<1> QED BY <1>1, Invariance, PTL

-----------------------------------------------------------------------------
(* The look-ups. *)

\* A look-up is what the configuration says, or else the default.
LEMMA LookIs ==
    ASSUME NEW x, NEW y, NEW k
    PROVE  Val(Look(x, y), k) = IF k \in DOMAIN x THEN OrElse(x[k], y[k]) ELSE y[k]
BY DEF Val, Configured, Look, OrElse

\* ... and of a mapping.
LEMMA AtIs ==
    ASSUME NEW x, NEW y, NEW k
    PROVE  At(Look(x, y), k) = Look(IF k \in DOMAIN x THEN x[k] ELSE Nothing, y[k])
BY DEF At, Look

\* In the user's configuration a look-up finds what is said, or the default: of a
\* value at the top ...
LEMMA LookedUp ==
    ASSUME NEW d, NEW a
    PROVE  Val(Look(input.config, d), a) = Said(a, d[a])
BY LookIs DEF Said

\* ... of one in a mapping ...
LEMMA LookedUp2 ==
    ASSUME NEW d, NEW a, NEW b
    PROVE  Val(At(Look(input.config, d), a), b) = Said2(a, b, d[a][b])
<1>1. DOMAIN Nothing = {}
  BY DEF Nothing
<1> QED BY <1>1, LookIs, AtIs DEF Said2, Says2

\* ... and of one in a mapping in a mapping.
LEMMA LookedUp3 ==
    ASSUME NEW d, NEW a, NEW b, NEW c
    PROVE  Val(At(At(Look(input.config, d), a), b), c) = Said3(a, b, c, d[a][b][c])
<1> DEFINE ca == IF a \in DOMAIN input.config THEN input.config[a] ELSE Nothing
           cb == IF b \in DOMAIN ca THEN ca[b] ELSE Nothing
<1>1. DOMAIN Nothing = {}
  BY DEF Nothing
<1>2. At(At(Look(input.config, d), a), b) = Look(cb, d[a][b])
  BY AtIs
<1>3. Val(Look(cb, d[a][b]), c) = IF c \in DOMAIN cb THEN OrElse(cb[c], d[a][b][c]) ELSE d[a][b][c]
  BY LookIs
<1> QED BY <1>1, <1>2, <1>3 DEF Said3, Says2

\* What is written of TLS, whether in the short form or not.
TlsWritten == IF Says2("extensions", "tls") THEN input.config.extensions.tls ELSE Nothing

\* Both forms of TLS, and tls: false, which is neither (Factory.__call__).
LEMMA TlsIs ==
    ASSUME NEW d,
           "short" \in DOMAIN TlsWritten =>
             DOMAIN TlsWritten = {"short"} /\ TlsWritten.short \in BOOLEAN
    PROVE  LET tls == Look(TlsConfig(At(At(Look(input.config, V3Defaults), "extensions"), "tls").c), d)
           IN  /\ Val(tls, "enabled") = IF Said3("extensions", "tls", "short", FALSE) THEN TRUE
                                        ELSE Said3("extensions", "tls", "enabled", d.enabled)
               /\ Val(tls, "certificate_issuer") =
                    Said3("extensions", "tls", "certificate_issuer", d.certificate_issuer)
<1> DEFINE c == TlsConfig(TlsWritten)
<1>1. At(At(Look(input.config, V3Defaults), "extensions"), "tls").c = TlsWritten
  <2> DEFINE ext == IF "extensions" \in DOMAIN input.config THEN input.config.extensions ELSE Nothing
             e == V3Defaults["extensions"]
             c3 == IF "tls" \in DOMAIN ext THEN ext["tls"] ELSE Nothing
  <2>1. At(Look(input.config, V3Defaults), "extensions") = Look(ext, e)
    BY AtIs
  <2>2. At(Look(ext, e), "tls") = Look(c3, e["tls"])
    BY AtIs
  <2>3. Look(c3, e["tls"]).c = c3
    BY DEF Look
  <2>4. c3 = TlsWritten
    BY DEF TlsWritten, Says2, Nothing
  <2> HIDE DEF ext, e, c3
  <2> QED BY <2>1, <2>2, <2>3, <2>4
<1>2. \A k : Val(Look(c, d), k) = IF k \in DOMAIN c THEN OrElse(c[k], d[k]) ELSE d[k]
  BY LookIs
<1>3. \A k, x : Said3("extensions", "tls", k, x) =
                   IF k \in DOMAIN TlsWritten THEN OrElse(TlsWritten[k], x) ELSE x
  BY DEF Said3, TlsWritten, Nothing
<1>4. CASE "short" \notin DOMAIN TlsWritten
  <2>1. c = TlsWritten /\ ~Said3("extensions", "tls", "short", FALSE)
    BY <1>3, <1>4 DEF TlsConfig
  <2> HIDE DEF c
  <2>2. \A k : Val(Look(c, d), k) = Said3("extensions", "tls", k, d[k])
    BY <1>2, <1>3, <2>1
  <2> QED BY <1>1, <2>1, <2>2 DEF c
<1>5. CASE "short" \in DOMAIN TlsWritten
  <2>1. DOMAIN TlsWritten = {"short"} /\ TlsWritten.short \in BOOLEAN
    BY <1>5
  <2>2. TlsWritten.short # None
    BY <2>1, NoneAssumption
  <2>3. /\ Said3("extensions", "tls", "short", FALSE) = TlsWritten.short
        /\ \A x : /\ Said3("extensions", "tls", "enabled", x) = x
                  /\ Said3("extensions", "tls", "certificate_issuer", x) = x
    BY <1>3, <2>1, <2>2 DEF OrElse
  <2>4. c = IF TlsWritten.short THEN [enabled |-> TRUE] ELSE Nothing
    BY <1>5 DEF TlsConfig
  <2>5. TRUE # None
    BY NoneAssumption
  <2>6. CASE TlsWritten.short
    <3>1. c = [enabled |-> TRUE]
      BY <2>4, <2>6
    <3>2. DOMAIN c = {"enabled"} /\ c.enabled = TRUE
      BY <3>1
    <3> HIDE DEF c
    <3> QED BY <1>1, <1>2, <2>3, <2>5, <2>6, <3>2 DEF OrElse, c
  <2>7. CASE ~TlsWritten.short
    <3>1. DOMAIN c = {}
      BY <2>4, <2>7 DEF Nothing
    <3> QED BY <1>1, <1>2, <2>3, <2>7, <3>1
  <2> QED BY <2>6, <2>7
<1> QED BY <1>4, <1>5

\* A list of nothing is the empty one.
LEMMA EmptyList == \A S : S = {} => \A f : DOMAIN f = S /\ f = [x \in S |-> f[x]] => f = << >>
OBVIOUS

\* What a user writes is what the AppSpec has, and only what he leaves out, or tls:
\* false, has the default (LookupMapping, Factory.__call__).
THEOREM ExplicitWinsHolds == Spec => []ExplicitWins
<1>1. IInv => ExplicitWins
  <2>1. SUFFICES ASSUME IInv, stage \in {"parsed", "made"}, input.version = 3
                 PROVE  ExplicitWins
    BY DEF ExplicitWins, Parsed
  <2> DEFINE l == Look(input.config, V3Defaults)
             ports == PortSpecs(l, PortFields)
  <2>2. Factored(spec, l, ports)
    BY <2>1, SpecOfConfiguration DEF Configuration
  <2>3. /\ Val(l, "admin_access") = Said("admin_access", FALSE)
        /\ Val(At(l, "replicas"), "singleton") = Said2("replicas", "singleton", TRUE)
        /\ Val(At(l, "replicas"), "maximum") = Said2("replicas", "maximum", 5)
        /\ Val(At(l, "replicas"), "minimum") = Said2("replicas", "minimum", 2)
    <3>1. /\ V3Defaults.admin_access = FALSE
          /\ V3Defaults.replicas.singleton = TRUE
          /\ V3Defaults.replicas.maximum = 5
          /\ V3Defaults.replicas.minimum = 2
      BY DEF V3Defaults
    <3>2. /\ Val(l, "admin_access") = Said("admin_access", V3Defaults.admin_access)
          /\ \A k : Val(At(l, "replicas"), k) = Said2("replicas", k, V3Defaults.replicas[k])
      BY LookedUp, LookedUp2
    <3> QED BY <3>1, <3>2
  <2>4. /\ Val(At(At(l, "metrics"), "prometheus"), "enabled") =
             Said3("metrics", "prometheus", "enabled", TRUE)
        /\ Val(At(At(l, "metrics"), "datadog"), "enabled") =
             Said3("metrics", "datadog", "enabled", FALSE)
        /\ Val(At(At(l, "healthchecks"), "liveness"), "initial_delay_seconds") =
             Said3("healthchecks", "liveness", "initial_delay_seconds", 10)
    <3>1. /\ V3Defaults.metrics.prometheus.enabled = TRUE
          /\ V3Defaults.metrics.datadog.enabled = FALSE
          /\ V3Defaults.healthchecks.liveness.initial_delay_seconds = 10
      BY DEF V3Defaults, Check
    <3>2. \A a, b, c : Val(At(At(l, a), b), c) = Said3(a, b, c, V3Defaults[a][b][c])
      BY LookedUp3
    <3>3. /\ Val(At(At(l, "metrics"), "prometheus"), "enabled") =
               Said3("metrics", "prometheus", "enabled", V3Defaults.metrics.prometheus.enabled)
          /\ Val(At(At(l, "metrics"), "datadog"), "enabled") =
               Said3("metrics", "datadog", "enabled", V3Defaults.metrics.datadog.enabled)
          /\ Val(At(At(l, "healthchecks"), "liveness"), "initial_delay_seconds") =
               Said3("healthchecks", "liveness", "initial_delay_seconds",
                     V3Defaults.healthchecks.liveness.initial_delay_seconds)
      BY <3>2
    <3> QED BY <3>1, <3>3
  <2>5. /\ spec.admin_access = Said("admin_access", FALSE)
        /\ spec.singleton = Said2("replicas", "singleton", TRUE)
        /\ spec.prometheus.enabled = Said3("metrics", "prometheus", "enabled", TRUE)
        /\ spec.datadog = Said3("metrics", "datadog", "enabled", FALSE)
    BY <2>2, <2>3, <2>4 DEF Factored
  <2>6. /\ spec.autoscaler.max = Said2("replicas", "maximum", 5)
        /\ spec.autoscaler.min \in {Said2("replicas", "minimum", 2), spec.autoscaler.max}
        /\ spec.autoscaler.min <= spec.autoscaler.max
        /\ spec.autoscaler.enabled <=> spec.autoscaler.min < spec.autoscaler.max
    <3> DEFINE maximum == Said2("replicas", "maximum", 5)
               minimum == Said2("replicas", "minimum", 2)
    <3>1. maximum \in Nat /\ minimum \in Nat
      <4>1. "replicas" \in DOMAIN input.config =>
              \A k \in {"minimum", "maximum"} \intersect DOMAIN input.config.replicas :
                input.config.replicas[k] \in Nat \union {None}
        BY <2>1, SettingsAssumption DEF IInv, IsConfig
      <4> QED BY <4>1 DEF Said2, Says2, OrElse
    <3> HIDE DEF maximum, minimum
    <3>2. spec.autoscaler = [enabled |-> (IF maximum < minimum THEN maximum ELSE minimum) # maximum,
                             min |-> IF maximum < minimum THEN maximum ELSE minimum,
                             max |-> maximum]
      BY <2>2, <2>3 DEF Factored, AutoscalerSpec, maximum, minimum
    <3>3. /\ spec.autoscaler.max = maximum
          /\ spec.autoscaler.min = IF maximum < minimum THEN maximum ELSE minimum
          /\ spec.autoscaler.enabled = (spec.autoscaler.min # maximum)
      BY <3>2
    <3>4. /\ spec.autoscaler.min \in {minimum, maximum}
          /\ spec.autoscaler.min <= maximum
          /\ spec.autoscaler.min # maximum <=> spec.autoscaler.min < maximum
      BY <3>1, <3>3
    <3>5. spec.autoscaler.enabled <=> spec.autoscaler.min < spec.autoscaler.max
      BY <3>3, <3>4, Zenon
    <3> QED BY <3>3, <3>4, <3>5 DEF maximum, minimum
  <2>7. spec.liveness.delay = Said3("healthchecks", "liveness", "initial_delay_seconds", 10)
    BY <2>2, <2>4 DEF Factored, CheckSpec
  <2>8. ASSUME Said("ports", <<None>>) = << >>
        PROVE  spec.ports = << >> /\ spec.ingresses = << >>
    <3>1. "ports" \in DOMAIN input.config /\ input.config.ports = << >>
      BY <2>8 DEF Said, OrElse
    <3>2. DOMAIN Elems(l, "ports") = {}
      BY <3>1 DEF Elems, Look
    <3>3. spec.ports = << >>
      BY <2>2, <3>2, EmptyList DEF Factored, PortSpecs
    <3>4. DOMAIN HttpPorts(ports) = {}
      BY <2>2, <3>3 DEF Factored, HttpPorts
    <3> QED BY <2>2, <3>3, <3>4 DEF Factored, IngressItems
  <2>9. ASSUME Said("ingress", <<None>>) = << >>
        PROVE  spec.ingresses = << >>
    <3>1. "ingress" \in DOMAIN input.config /\ input.config.ingress = << >>
      BY <2>9 DEF Said, OrElse
    <3>2. DOMAIN Elems(l, "ingress") = {}
      BY <3>1 DEF Elems, Look
    <3>3. CASE DOMAIN HttpPorts(ports) = {}
      BY <2>2, <3>3 DEF Factored, IngressItems
    <3>4. CASE DOMAIN HttpPorts(ports) # {}
      <4>1. spec.ingresses = IngressItems(l, ports)
        BY <2>2 DEF Factored
      <4> HIDE DEF l, ports
      <4>2. DOMAIN spec.ingresses = {} /\ spec.ingresses = [k \in {} |-> spec.ingresses[k]]
        BY <3>2, <3>4, <4>1 DEF IngressItems
      <4> QED BY <4>2, EmptyList
    <3> QED BY <3>3, <3>4
  <2>10. /\ spec.tls.enabled = IF Said3("extensions", "tls", "short", FALSE) THEN TRUE
                                ELSE Said3("extensions", "tls", "enabled", UseIngressTls = "default_on")
         /\ spec.tls.certificate_issuer = Said3("extensions", "tls", "certificate_issuer", None)
    <3> DEFINE d == V3Defaults.extensions.tls
               tls == Look(TlsConfig(At(At(l, "extensions"), "tls").c), d)
    <3>1. d.enabled = (UseIngressTls = "default_on") /\ d.certificate_issuer = None
      BY DEF V3Defaults
    <3>2. spec.tls = [f \in {"enabled", "certificate_issuer"} |-> Val(tls, f)]
      BY <2>2 DEF Factored
    <3>3. spec.tls.enabled = Val(tls, "enabled")
            /\ spec.tls.certificate_issuer = Val(tls, "certificate_issuer")
      <4> HIDE DEF tls
      <4> QED BY <3>2
    <3>4. "short" \in DOMAIN TlsWritten =>
            DOMAIN TlsWritten = {"short"} /\ TlsWritten.short \in BOOLEAN
      <4>1. "extensions" \in DOMAIN input.config =>
              input.config.extensions \in Values(3, "extensions")
        BY <2>1 DEF IInv, IsConfig
      <4> QED BY <4>1, SettingsAssumption DEF TlsWritten, Says2, Nothing
    <3> HIDE DEF d
    <3>5. /\ Val(tls, "enabled") = IF Said3("extensions", "tls", "short", FALSE) THEN TRUE
                                   ELSE Said3("extensions", "tls", "enabled", d.enabled)
          /\ Val(tls, "certificate_issuer") =
               Said3("extensions", "tls", "certificate_issuer", d.certificate_issuer)
      BY <3>4, TlsIs
    <3> HIDE DEF tls
    <3> QED BY <3>1, <3>3, <3>5
  <2> QED BY <2>5, <2>6, <2>7, <2>8, <2>9, <2>10 DEF ExplicitWins
<1> QED BY <1>1, Invariance, PTL

-----------------------------------------------------------------------------
(* A version 2 configuration. *)

V2Ports(config) == PortSpecs(Look(config, V2Defaults), PortFields \union {"path"})

\* What the transformer makes of a configuration, with the look-up l.
Translated(t, l, ports) ==
    LET hc == At(l, "healthchecks")
        auto == At(l, "autoscaler")
    IN  /\ t.replicas = [minimum |-> IF Val(auto, "enabled") THEN Val(auto, "min_replicas")
                                     ELSE Val(l, "replicas"),
                         maximum |-> Val(l, "replicas")]
        /\ t.healthchecks = [liveness |-> V2Check(At(hc, "liveness"), ports),
                             readiness |-> V2Check(ReadinessOf(hc), ports)]
        /\ t.healthchecks.liveness # Invalid /\ t.healthchecks.readiness # Invalid
        /\ t.metrics = [prometheus |-> Flattened(At(l, "prometheus"))]
        /\ t.admin_access = Val(l, "admin_access")
        /\ t.resources = [r \in {"limits", "requests"} |->
                            [cpu |-> UnlessConfigured(Configured(At(At(l, "resources"), r), "cpu"))]]
        /\ t.ports = [k \in DOMAIN ports |-> [f \in PortFields |-> ports[k][f]]]
        /\ DOMAIN t = {"replicas", "healthchecks", "metrics", "admin_access", "resources",
                       "ingress", "ports"}

\* The transformer puts these parts together, unless it raises (Transformer.__call__).
LEMMA TranslatedConfig ==
    ASSUME NEW config, NEW t, t = Transformed(config), t # Invalid
    PROVE  Translated(t, Look(config, V2Defaults), V2Ports(config))
BY DEF Transformed, Translated, V2Ports

\* A mapping with no other keys than its defaults has all of these when it is flattened.
LEMMA KeysOfDefaults ==
    ASSUME NEW c, NEW d, IsFiniteSet(DOMAIN d), DOMAIN c \subseteq DOMAIN d
    PROVE  Keys(Look(c, d)) = DOMAIN d
<1>1. /\ IsFiniteSet(DOMAIN c) /\ Cardinality(DOMAIN c) <= Cardinality(DOMAIN d)
      /\ Cardinality(DOMAIN d) = Cardinality(DOMAIN c) => DOMAIN d = DOMAIN c
  BY FS_Subset
<1>2. Cardinality(DOMAIN c) \in Nat /\ Cardinality(DOMAIN d) \in Nat
  BY <1>1, FS_CardinalityType
<1>3. ~(Cardinality(DOMAIN d) > Cardinality(DOMAIN c)) => DOMAIN d = DOMAIN c
  BY <1>1, <1>2
<1> QED BY <1>3 DEF Keys, Look

\* A set of two is finite.
LEMMA TwoAreFinite == \A a, b : IsFiniteSet({a, b})
<1> SUFFICES ASSUME NEW a, NEW b PROVE IsFiniteSet({a, b})
  OBVIOUS
<1>1. IsFiniteSet({a}) /\ {a, b} = {a} \union {b}
  BY FS_Singleton
<1> QED BY <1>1, FS_AddElement

\* What a check of one kind is in version 3.
IsCheckOf(v, kind, c, ports) ==
    /\ kind \in {"execute", "http", "tcp", "none"}
    /\ DOMAIN v = {kind, "initial_delay_seconds"} \ {"none"}
    /\ kind # "none" => DOMAIN v[kind] # {}
    /\ kind = "http" => "path" \in DOMAIN v.http /\ v.http.path # None
    /\ kind = "http" /\ DOMAIN c = {} => v.http.path = ports[1].path

\* The transformer makes a check of the kind that version 2 read, with its fields
\* (Transformer._health_check).
LEMMA TranslatedCheck ==
    ASSUME NEW c, NEW ports, NEW v,
           v = V2Check(Look(c, Check("/")), ports), v # Invalid,
           "http" \in DOMAIN c => DOMAIN c.http \subseteq {"path", "port"},
           Len(ports) = 1 => ports[1].path # None
    PROVE  IsCheckOf(v, CheckKind(Look(c, Check("/")), ports), c, ports)
<1> DEFINE l == Look(c, Check("/"))
           kind == CheckKind(l, ports)
<1>1. kind \in {"execute", "http", "tcp", "none"}
  BY DEF CheckKind, V2Check
<1>2. DOMAIN v = {kind, "initial_delay_seconds"} \ {"none"}
  BY <1>1 DEF V2Check
<1>3. kind # "none" =>
        v[kind] = CASE Given(l, kind) -> Flattened(At(l, kind))
                    [] ~Given(l, kind) /\ kind = "http" -> [path |-> ports[1].path, port |-> ports[1].name]
                    [] ~Given(l, kind) /\ kind = "tcp" -> [port |-> ports[1].name]
                    [] OTHER -> Nothing
  BY <1>1 DEF V2Check
<1>4. ASSUME NEW k \in {"execute", "http", "tcp"}, Given(l, k)
      PROVE  /\ DOMAIN Flattened(At(l, k)) # {}
             /\ At(l, k) = Look(c[k], Check("/")[k]) /\ k \in DOMAIN c
  <2>1. k \in DOMAIN c /\ DOMAIN c[k] # {}
    BY <1>4 DEF Given, Look
  <2>2. At(l, k) = Look(c[k], Check("/")[k])
    BY <2>1, AtIs
  <2>3. DOMAIN Check("/")[k] # {}
    BY DEF Check
  <2>4. Keys(Look(c[k], Check("/")[k])) \in {DOMAIN Check("/")[k], DOMAIN c[k]}
    BY DEF Keys, Look
  <2>5. DOMAIN Flattened(At(l, k)) = Keys(At(l, k))
    BY DEF Flattened
  <2> QED BY <2>1, <2>2, <2>3, <2>4, <2>5
<1>5. kind \in {"execute", "http", "tcp"} /\ ~Given(l, kind) => kind # "execute" /\ Len(ports) = 1
  BY DEF CheckKind
<1>6. kind # "none" => DOMAIN v[kind] # {}
  <2> HIDE DEF l, kind
  <2>1. CASE kind # "none" /\ Given(l, kind)
    BY <1>1, <1>3, <1>4, <2>1
  <2>2. CASE kind # "none" /\ ~Given(l, kind)
    BY <1>1, <1>3, <1>5, <2>2
  <2> QED BY <2>1, <2>2
<1>7. ASSUME kind = "http" PROVE "path" \in DOMAIN v.http /\ v.http.path # None
  <2>1. CASE Given(l, "http")
    <3>1. v.http = Flattened(At(l, "http")) /\ At(l, "http") = Look(c.http, Check("/").http)
            /\ "http" \in DOMAIN c
      BY <1>3, <1>4, <1>7, <2>1
    <3>2. DOMAIN Check("/").http = {"path", "port"} /\ Check("/").http.path = "/"
      BY DEF Check
    <3>3. Keys(At(l, "http")) = {"path", "port"}
      <4>1. DOMAIN c.http \subseteq {"path", "port"}
        BY <3>1
      <4>2. IsFiniteSet(DOMAIN Check("/").http) /\ DOMAIN c.http \subseteq DOMAIN Check("/").http
        BY <3>2, <4>1, TwoAreFinite
      <4>3. Keys(Look(c.http, Check("/").http)) = {"path", "port"}
        BY <3>2, <4>2, KeysOfDefaults
      <4> QED BY <3>1, <4>3
    <3>4. "path" \in DOMAIN v.http /\ v.http.path = Val(At(l, "http"), "path")
      BY <3>1, <3>3 DEF Flattened
    <3>5. "/" # None
      BY NoneAssumption DEF Texts
    <3>6. Val(At(l, "http"), "path") # None
      <4> HIDE DEF l
      <4> QED BY <3>1, <3>2, <3>5, LookIs DEF OrElse
    <3> QED BY <3>4, <3>6
  <2>2. CASE ~Given(l, "http")
    BY <1>3, <1>5, <1>7, <2>2
  <2> QED BY <2>1, <2>2
<1>8. ASSUME kind = "http", DOMAIN c = {} PROVE v.http.path = ports[1].path
  <2>1. ~Given(l, "http")
    BY <1>8 DEF Given, Look
  <2> QED BY <1>3, <1>8, <2>1
<1> QED BY <1>1, <1>2, <1>6, <1>7, <1>8 DEF IsCheckOf

\* A function on 1..n is a list of n.
LEMMA FunctionIsList ==
    ASSUME NEW n \in Nat, NEW f, DOMAIN f = 1..n, f = [k \in 1..n |-> f[k]]
    PROVE  Len(f) = n
<1> DEFINE S == {f[k] : k \in 1..n}
<1>1. f \in [1..n -> S]
  OBVIOUS
<1> HIDE DEF S
<1> QED BY <1>1, FoldInit!FunctionIsSeq

\* The ports of an AppSpec are a list, each with the fields of its port.
LEMMA PortsAreList ==
    ASSUME NEW config, NEW d, NEW fields,
           "ports" \in DOMAIN config => IsList(config.ports),
           "ports" \notin DOMAIN config => IsList(d.ports)
    PROVE  LET l == Look(config, d)
               ports == PortSpecs(l, fields)
               list == IF "ports" \in DOMAIN config THEN config.ports ELSE d.ports
           IN  /\ Len(ports) \in Nat /\ DOMAIN ports = 1..Len(ports)
               /\ DOMAIN ports = DOMAIN list
               /\ \A k \in DOMAIN ports : \A f \in fields :
                    ports[k][f] = IF "ports" \in DOMAIN config /\ f \in DOMAIN config.ports[k]
                                  THEN OrElse(config.ports[k][f], d.ports[1][f])
                                  ELSE d.ports[1][f]
<1> DEFINE l == Look(config, d)
           ports == PortSpecs(l, fields)
           list == IF "ports" \in DOMAIN config THEN config.ports ELSE d.ports
           n == Len(list)
<1>1. n \in Nat /\ DOMAIN list = 1..n
  BY DEF IsList
<1>2. Elems(l, "ports") = [j \in DOMAIN list |->
                             Look(IF "ports" \in DOMAIN config THEN list[j] ELSE Nothing, d.ports[1])]
  BY DEF Elems, Look
<1> HIDE DEF n
<1>3. DOMAIN ports = 1..n /\ ports = [k \in 1..n |-> ports[k]]
  BY <1>1, <1>2 DEF PortSpecs
<1>4. Len(ports) = n
  <2> HIDE DEF ports
  <2> QED BY <1>1, <1>3, FunctionIsList
<1>5. ASSUME NEW k \in DOMAIN ports, NEW f \in fields
      PROVE  ports[k][f] = IF "ports" \in DOMAIN config /\ f \in DOMAIN config.ports[k]
                           THEN OrElse(config.ports[k][f], d.ports[1][f])
                           ELSE d.ports[1][f]
  <2>1. ports[k][f] = Val(Elems(l, "ports")[k], f)
    BY <1>1, <1>2, <1>3 DEF PortSpecs
  <2>2. Elems(l, "ports")[k] = Look(IF "ports" \in DOMAIN config THEN config.ports[k] ELSE Nothing,
                                    d.ports[1])
    BY <1>1, <1>2, <1>3
  <2>3. DOMAIN Nothing = {}
    BY DEF Nothing
  <2> QED BY <2>1, <2>2, <2>3, LookIs
<1> QED BY <1>1, <1>3, <1>4, <1>5

\* A check v of one kind is this check of the AppSpec.
IsReadAs(checked, v, kind) ==
    /\ checked # Invalid /\ checked.kind = "http" => kind = "http" /\ checked.path = v.http.path
    /\ checked # Invalid /\ checked.kind \in {"http", "tcp"} =>
         checked.kind = kind
           /\ ("port" \in DOMAIN v[kind] /\ v[kind].port # None => checked.port = v[kind].port)

\* A check of version 2, as version 3 reads it: its own defaults do not count.
LEMMA CheckAgain ==
    ASSUME NEW v, NEW kind \in {"execute", "http", "tcp", "none"}, NEW ports, NEW a, NEW b,
           DOMAIN v = {kind, "initial_delay_seconds"} \ {"none"},
           kind # "none" => DOMAIN v[kind] # {},
           kind = "http" => "path" \in DOMAIN v.http /\ v.http.path # None,
           kind = "none" /\ Len(ports) = 1 => ports[1].protocol \notin {"http", "tcp"}
    PROVE  /\ CheckSpec(Look(v, Check(a)), ports) = CheckSpec(Look(v, Check(b)), ports)
           /\ IsReadAs(CheckSpec(Look(v, Check(a)), ports), v, kind)
<1> DEFINE la == Look(v, Check(a))
           lb == Look(v, Check(b))
<1>1. ASSUME NEW k \in {"execute", "http", "tcp"}
      PROVE  Given(la, k) = (k = kind) /\ Given(lb, k) = (k = kind)
  BY DEF Given, Look
<1>2. CheckKind(la, ports) = CheckKind(lb, ports)
        /\ (kind = "none" => CheckKind(la, ports) \in {"none", "invalid"})
        /\ (kind # "none" => CheckKind(la, ports) = kind)
  BY <1>1 DEF CheckKind
<1>3. /\ la.c = v /\ lb.c = v
      /\ At(la, "http") = Look(IF "http" \in DOMAIN v THEN v.http ELSE Nothing, Check(a).http)
      /\ At(lb, "http") = Look(IF "http" \in DOMAIN v THEN v.http ELSE Nothing, Check(b).http)
  BY AtIs DEF Look
<1>4. \A k : Configured(At(la, k), "port") = Configured(At(lb, k), "port")
  BY DEF Configured, At, Look
<1>5. Val(la, "initial_delay_seconds") = Val(lb, "initial_delay_seconds")
  BY LookIs DEF Check
<1>6. kind = "http" => /\ Val(At(la, "http"), "path") = v.http.path
                       /\ Val(At(lb, "http"), "path") = v.http.path
  <2> HIDE DEF la, lb
  <2> QED BY <1>3, LookIs DEF OrElse
<1> HIDE DEF la, lb
<1>7. CheckSpec(la, ports) = CheckSpec(lb, ports)
  <2>1. CheckKind(la, ports) = "http" => Val(At(la, "http"), "path") = Val(At(lb, "http"), "path")
    BY <1>2, <1>6
  <2> QED BY <1>2, <1>4, <1>5, <2>1 DEF CheckSpec
<1>8. CheckSpec(la, ports) # Invalid /\ CheckSpec(la, ports).kind = "http" =>
        kind = "http" /\ CheckSpec(la, ports).path = v.http.path
  BY <1>2, <1>6 DEF CheckSpec
<1>9. CheckSpec(la, ports) # Invalid /\ CheckSpec(la, ports).kind \in {"http", "tcp"} =>
        CheckSpec(la, ports).kind = kind
          /\ ("port" \in DOMAIN v[kind] /\ v[kind].port # None =>
                CheckSpec(la, ports).port = v[kind].port)
  <2>1. kind \in {"http", "tcp"} => At(la, kind) = Look(v[kind], Check(a)[kind])
    BY AtIs DEF la
  <2>2. kind \in {"http", "tcp"} /\ "port" \in DOMAIN v[kind] =>
          Configured(At(la, kind), "port") = v[kind].port
    BY <2>1 DEF Configured, Look
  <2> QED BY <1>2, <2>2 DEF CheckSpec
<1> QED BY <1>7, <1>8, <1>9 DEF la, lb, IsReadAs

\* What version 2 makes of the ports: the ports of version 3, and no part of them null.
LEMMA TranslatedPorts ==
    ASSUME IInv, stage \in {"parsed", "made"}, input.version = 2
    PROVE  LET old == V2Ports(input.config) IN
           /\ Len(old) \in Nat /\ DOMAIN old = 1..Len(old)
           /\ \A k \in DOMAIN old : old[k].protocol # None /\ old[k].path # None /\ old[k].name # None
           /\ \A k \in DOMAIN old : old[k].path \in {"/"} \union
                 (IF "ports" \in DOMAIN input.config
                  THEN {p.path : p \in {p \in Range(input.config.ports) : "path" \in DOMAIN p}} ELSE {})
           /\ Len(spec.ports) \in Nat /\ DOMAIN spec.ports = DOMAIN old
           /\ \A k \in DOMAIN old : spec.ports[k].protocol = old[k].protocol
                                     /\ spec.ports[k].name = old[k].name
<1> DEFINE old == V2Ports(input.config)
           t == Transformed(input.config)
           port == V2Defaults.ports[1]
<1>1. port.path = "/" /\ port.protocol = "http" /\ port.name = "http"
  BY DEF V2Defaults
<1>2. "/" # None /\ "http" # None
  BY NoneAssumption DEF Texts
<1>3. IsList(V2Defaults.ports)
  BY DEF V2Defaults, IsList
<1>4. "ports" \in DOMAIN input.config => IsList(input.config.ports)
  BY SettingsAssumption DEF IInv, IsConfig
<1> HIDE DEF port
<1>5. /\ Len(old) \in Nat /\ DOMAIN old = 1..Len(old)
      /\ "ports" \in DOMAIN input.config => DOMAIN old = DOMAIN input.config.ports
      /\ \A k \in DOMAIN old : \A f \in PortFields \union {"path"} :
           old[k][f] = IF "ports" \in DOMAIN input.config /\ f \in DOMAIN input.config.ports[k]
                       THEN OrElse(input.config.ports[k][f], port[f]) ELSE port[f]
  BY <1>3, <1>4, PortsAreList DEF V2Ports, port
<1>6. \A k \in DOMAIN old : old[k].protocol # None /\ old[k].path # None /\ old[k].name # None
  BY <1>1, <1>2, <1>5 DEF OrElse, PortFields
<1>7. ASSUME NEW k \in DOMAIN old
      PROVE  old[k].path \in {"/"} \union
                 (IF "ports" \in DOMAIN input.config
                  THEN {p.path : p \in {p \in Range(input.config.ports) : "path" \in DOMAIN p}} ELSE {})
  <2>1. CASE "ports" \in DOMAIN input.config /\ "path" \in DOMAIN input.config.ports[k]
    <3>1. input.config.ports[k] \in Range(input.config.ports)
      BY <1>5, <2>1 DEF Range
    <3>2. old[k].path \in {"/", input.config.ports[k].path}
      BY <1>1, <1>5, <2>1 DEF OrElse
    <3> QED BY <2>1, <3>1, <3>2
  <2>2. CASE ~("ports" \in DOMAIN input.config /\ "path" \in DOMAIN input.config.ports[k])
    BY <1>1, <1>5, <2>2
  <2> QED BY <2>1, <2>2
<1>8. t.ports = [k \in DOMAIN old |-> [f \in PortFields |-> old[k][f]]] /\ "ports" \in DOMAIN t
  <2>1. Translated(t, Look(input.config, V2Defaults), old)
    BY SpecOfConfiguration, TranslatedConfig
  <2> HIDE DEF t, old
  <2> QED BY <2>1 DEF Translated
<1>9. spec.ports = PortSpecs(Look(t, V3Defaults), PortFields)
  BY SpecOfConfiguration DEF Factored, Configuration
<1> HIDE DEF t, old
<1>10. IsList(t.ports)
  <2>1. DOMAIN t.ports = 1..Len(old) /\ t.ports = [k \in 1..Len(old) |-> t.ports[k]]
    BY <1>5, <1>8
  <2>2. Len(t.ports) = Len(old)
    BY <1>5, <2>1, FunctionIsList
  <2> QED BY <1>5, <2>1, <2>2 DEF IsList
<1>11. /\ Len(spec.ports) \in Nat /\ DOMAIN spec.ports = DOMAIN old
       /\ \A k \in DOMAIN old :
            /\ spec.ports[k].protocol = OrElse(t.ports[k].protocol, V3Defaults.ports[1].protocol)
            /\ spec.ports[k].name = OrElse(t.ports[k].name, V3Defaults.ports[1].name)
  <2>1. /\ Len(spec.ports) \in Nat /\ DOMAIN spec.ports = DOMAIN t.ports
        /\ \A k \in DOMAIN spec.ports : \A f \in PortFields :
             spec.ports[k][f] = IF "ports" \in DOMAIN t /\ f \in DOMAIN t.ports[k]
                                THEN OrElse(t.ports[k][f], V3Defaults.ports[1][f])
                                ELSE V3Defaults.ports[1][f]
    BY <1>8, <1>9, <1>10, PortsAreList
  <2> QED BY <1>8, <2>1 DEF PortFields
<1>12. \A k \in DOMAIN old : spec.ports[k].protocol = old[k].protocol /\ spec.ports[k].name = old[k].name
  BY <1>6, <1>8, <1>11 DEF OrElse, PortFields
<1> QED BY <1>5, <1>6, <1>7, <1>11, <1>12 DEF old

\* A check of which nothing is configured.
LEMMA EmptyCheck ==
    ASSUME NEW c, NEW ports, DOMAIN c = {}
    PROVE  V2Check(Look(c, Check("/")), ports) = V2Check(Look(Nothing, Check("/")), ports)
<1> DEFINE l == Look(c, Check("/"))
           e == Look(Nothing, Check("/"))
<1>1. DOMAIN Nothing = {}
  BY DEF Nothing
<1>2. \A k : ~Given(l, k) /\ ~Given(e, k)
  BY <1>1 DEF Given, Look
<1>3. CheckKind(l, ports) = CheckKind(e, ports)
  BY <1>2 DEF CheckKind
<1>4. \A k : Val(l, k) = Val(e, k)
  BY <1>1, LookIs
<1> HIDE DEF l, e
<1>5. V2Check(l, ports) = V2Check(e, ports)
  BY <1>2, <1>3, <1>4 DEF V2Check
<1> QED BY <1>5 DEF l, e

\* What is written of a check, as version 2 looks it up: of the readiness, if only the
\* liveness is configured, what is written of that.
LEMMA WrittenChecks ==
    ASSUME NEW ports
    PROVE  LET hc == At(Look(input.config, V2Defaults), "healthchecks")
           IN  /\ At(hc, "liveness") = Look(CheckWritten("liveness"), Check("/"))
               /\ V2Check(ReadinessOf(hc), ports) = V2Check(Look(CheckWritten("readiness"), Check("/")), ports)
               /\ ~Says2("healthchecks", "readiness") => CheckWritten("readiness") = CheckWritten("liveness")
<1> DEFINE hc == At(Look(input.config, V2Defaults), "healthchecks")
           given == IF "healthchecks" \in DOMAIN input.config THEN input.config.healthchecks ELSE Nothing
<1>1. \A c : Written(c) = IF c \in DOMAIN given THEN given[c] ELSE Nothing
  BY DEF Written, Says2, Nothing
<1>2. hc = Look(given, V2Defaults.healthchecks)
  BY AtIs
<1>3. V2Defaults.healthchecks.liveness = Check("/") /\ V2Defaults.healthchecks.readiness = Check("/")
  BY DEF V2Defaults
<1> HIDE DEF given, hc
<1>4. /\ At(hc, "liveness") = Look(Written("liveness"), Check("/"))
      /\ At(hc, "readiness") = Look(Written("readiness"), Check("/"))
  BY <1>1, <1>2, <1>3, AtIs
<1>5. \A c : Given(hc, c) = (DOMAIN Written(c) # {})
  BY <1>1, <1>2 DEF Given, Look, Nothing
<1>6. CheckWritten("liveness") = Written("liveness")
  BY DEF CheckWritten
<1>7. V2Check(ReadinessOf(hc), ports) = V2Check(Look(CheckWritten("readiness"), Check("/")), ports)
  <2>1. CASE DOMAIN Written("readiness") # {}
    BY <1>4, <1>5, <2>1 DEF ReadinessOf, CheckWritten
  <2>2. CASE DOMAIN Written("readiness") = {} /\ DOMAIN Written("liveness") # {}
    BY <1>4, <1>5, <2>2 DEF ReadinessOf, CheckWritten
  <2>3. CASE DOMAIN Written("readiness") = {} /\ DOMAIN Written("liveness") = {}
    <3>1. ReadinessOf(hc) = Look(Written("readiness"), Check("/"))
            /\ CheckWritten("readiness") = Written("liveness")
      BY <1>4, <1>5, <2>3 DEF ReadinessOf, CheckWritten
    <3> QED BY <2>3, <3>1, EmptyCheck
  <2> QED BY <2>1, <2>2, <2>3
<1>8. ~Says2("healthchecks", "readiness") => CheckWritten("readiness") = CheckWritten("liveness")
  BY DEF CheckWritten, Written, Nothing
<1> QED BY <1>4, <1>6, <1>7, <1>8 DEF hc

\* A check of a version 2 configuration, as version 3 reads it.
OldCheck(c) == V2Check(Look(CheckWritten(c), Check("/")), V2Ports(input.config))
OldKind(c) == CheckKind(Look(CheckWritten(c), Check("/")), V2Ports(input.config))

LEMMA Version2Checks ==
    ASSUME IInv, stage \in {"parsed", "made"}, input.version = 2
    PROVE  /\ \A c \in {"liveness", "readiness"} :
                /\ IsCheckOf(OldCheck(c), OldKind(c), CheckWritten(c), V2Ports(input.config))
                /\ IsReadAs(spec[c], OldCheck(c), OldKind(c))
                /\ spec[c] # Invalid /\ OldCheck(c) # Invalid
                /\ \E path : spec[c] = CheckSpec(Look(OldCheck(c), Check(path)), spec.ports)
           /\ ~Says2("healthchecks", "readiness") => spec.readiness = spec.liveness
<1> DEFINE t == Transformed(input.config)
           l == Look(t, V3Defaults)
           l2 == Look(input.config, V2Defaults)
           hc == At(l, "healthchecks")
           hc2 == At(l2, "healthchecks")
           ports == PortSpecs(l, PortFields)
           old == V2Ports(input.config)
<1>1. Factored(spec, l, ports)
  BY SpecOfConfiguration DEF Configuration
<1>2. Translated(t, l2, old)
  BY SpecOfConfiguration, TranslatedConfig
<1>3. /\ At(hc2, "liveness") = Look(CheckWritten("liveness"), Check("/"))
      /\ V2Check(ReadinessOf(hc2), old) = V2Check(Look(CheckWritten("readiness"), Check("/")), old)
      /\ ~Says2("healthchecks", "readiness") => CheckWritten("readiness") = CheckWritten("liveness")
  <2> HIDE DEF old
  <2> QED BY WrittenChecks
<1>4. hc = Look(t.healthchecks, V3Defaults.healthchecks) /\ DOMAIN t.healthchecks = {"liveness", "readiness"}
  <2>1. "healthchecks" \in DOMAIN t /\ DOMAIN t.healthchecks = {"liveness", "readiness"}
    BY <1>2 DEF Translated
  <2> HIDE DEF t
  <2> QED BY <2>1, AtIs
<1>5. \A c \in {"liveness", "readiness"} : t.healthchecks[c] = OldCheck(c) /\ OldCheck(c) # Invalid
  BY <1>2, <1>3 DEF Translated, OldCheck
<1> HIDE DEF t, old
<1>6. ASSUME NEW c \in {"liveness", "readiness"}
      PROVE  /\ IsCheckOf(OldCheck(c), OldKind(c), CheckWritten(c), old)
             /\ OldKind(c) \in {"execute", "http", "tcp", "none"}
             /\ DOMAIN OldCheck(c) = {OldKind(c), "initial_delay_seconds"} \ {"none"}
             /\ OldKind(c) # "none" => DOMAIN OldCheck(c)[OldKind(c)] # {}
             /\ OldKind(c) = "http" => "path" \in DOMAIN OldCheck(c).http /\ OldCheck(c).http.path # None
  <2>1. "http" \in DOMAIN CheckWritten(c) => DOMAIN CheckWritten(c).http \subseteq {"path", "port"}
    <3>1. "healthchecks" \in DOMAIN input.config =>
            \A d \in DOMAIN input.config.healthchecks :
              "http" \in DOMAIN input.config.healthchecks[d] =>
                DOMAIN input.config.healthchecks[d].http \subseteq {"path", "port"}
      BY SettingsAssumption DEF IInv, IsConfig
    <3>2. \A d : "http" \in DOMAIN Written(d) => DOMAIN Written(d).http \subseteq {"path", "port"}
      BY <3>1 DEF Written, Says2, Nothing
    <3> QED BY <3>2 DEF CheckWritten
  <2>2. Len(old) = 1 => old[1].path # None
    BY TranslatedPorts DEF old
  <2>3. OldCheck(c) = V2Check(Look(CheckWritten(c), Check("/")), old) /\ OldCheck(c) # Invalid
          /\ OldKind(c) = CheckKind(Look(CheckWritten(c), Check("/")), old)
    BY <1>5 DEF OldCheck, OldKind, old
  <2>4. IsCheckOf(OldCheck(c), OldKind(c), CheckWritten(c), old)
    BY <2>1, <2>2, <2>3, TranslatedCheck
  <2> QED BY <2>4 DEF IsCheckOf
<1>7. \A c \in {"liveness", "readiness"} :
        OldKind(c) = "none" /\ Len(ports) = 1 => ports[1].protocol \notin {"http", "tcp"}
  <2>1. \A c : OldKind(c) = "none" => Len(old) = 1 /\ old[1].protocol \notin {"http", "tcp"}
    BY DEF CheckKind, OldKind, old
  <2>2. spec.ports = ports
    BY <1>1 DEF Factored
  <2>3. /\ \A k \in DOMAIN old : spec.ports[k].protocol = old[k].protocol
        /\ Len(old) = 1 => 1 \in DOMAIN old
    BY TranslatedPorts DEF old
  <2> QED BY <2>1, <2>2, <2>3
<1>8. /\ spec.liveness = CheckSpec(Look(OldCheck("liveness"), Check("/_/health")), ports)
      /\ spec.readiness = CheckSpec(Look(OldCheck("readiness"), Check("/_/ready")), ports)
      /\ spec.liveness # Invalid /\ spec.readiness # Invalid
  <2>1. /\ At(hc, "liveness") = Look(OldCheck("liveness"), Check("/_/health"))
        /\ At(hc, "readiness") = Look(OldCheck("readiness"), Check("/_/ready"))
    <3>1. V3Defaults.healthchecks.liveness = Check("/_/health")
            /\ V3Defaults.healthchecks.readiness = Check("/_/ready")
      BY DEF V3Defaults
    <3> HIDE DEF hc
    <3> QED BY <1>4, <1>5, <3>1, AtIs
  <2>2. ReadinessOf(hc) = At(hc, "readiness")
    <3>1. DOMAIN OldCheck("readiness") # {}
      BY <1>6
    <3>2. Given(hc, "readiness")
      BY <1>4, <1>5, <3>1 DEF Given, Look
    <3> QED BY <3>2 DEF ReadinessOf
  <2> QED BY <1>1, <2>1, <2>2 DEF Factored
<1> HIDE DEF ports
<1>9. ASSUME NEW c \in {"liveness", "readiness"}, NEW a, NEW b
      PROVE  /\ CheckSpec(Look(OldCheck(c), Check(a)), ports) = CheckSpec(Look(OldCheck(c), Check(b)), ports)
             /\ IsReadAs(CheckSpec(Look(OldCheck(c), Check(a)), ports), OldCheck(c), OldKind(c))
  BY <1>6, <1>7, CheckAgain
<1>10. /\ spec.ports = ports
       /\ \A c \in {"liveness", "readiness"} :
            /\ spec[c] # Invalid
            /\ \E path : spec[c] = CheckSpec(Look(OldCheck(c), Check(path)), ports)
  BY <1>1, <1>8 DEF Factored
<1>11. ~Says2("healthchecks", "readiness") => spec.readiness = spec.liveness
  <2>1. ~Says2("healthchecks", "readiness") => OldCheck("readiness") = OldCheck("liveness")
    BY <1>3 DEF OldCheck
  <2> QED BY <1>8, <1>9, <2>1
<1>12. \A c \in {"liveness", "readiness"} : IsReadAs(spec[c], OldCheck(c), OldKind(c))
  BY <1>9, <1>10
<1> QED BY <1>5, <1>6, <1>10, <1>11, <1>12 DEF old

\* A version 2 configuration means in the AppSpec what it meant in version 2, though
\* the defaults of version 3 are others (Transformer.__call__, Factory.__call__).
THEOREM Version2KeptHolds == Spec => []Version2Kept
<1>1. IInv => Version2Kept
  <2>1. SUFFICES ASSUME IInv, stage \in {"parsed", "made"}, input.version = 2
                 PROVE  Version2Kept
    BY DEF Version2Kept, Parsed
  <2> DEFINE t == Transformed(input.config)
             l == Look(t, V3Defaults)
             l2 == Look(input.config, V2Defaults)
             ports == PortSpecs(l, PortFields)
             old == V2Ports(input.config)
  <2>2. Factored(spec, l, ports)
    BY <2>1, SpecOfConfiguration DEF Configuration
  <2>3. Translated(t, l2, old)
    BY <2>1, SpecOfConfiguration, TranslatedConfig
  <2> HIDE DEF t, old
  <2>4. \A k \in DOMAIN t : At(l, k) = Look(t[k], V3Defaults[k])
                            /\ Val(l, k) = OrElse(t[k], V3Defaults[k])
    BY AtIs, LookIs
  <2>5. ASSUME NEW r \in {"limits", "requests"}
        PROVE  spec.resources[r] = Said3("resources", r, "cpu", None)
    <3> DEFINE said == Said3("resources", r, "cpu", None)
    <3>1. Configured(At(At(l2, "resources"), r), "cpu") = said
      <4>1. V2Defaults.resources[r].cpu = None
        BY DEF V2Defaults
      <4>2. Val(At(At(l2, "resources"), r), "cpu") = said
        BY <4>1, LookedUp3
      <4>3. Val(At(At(l2, "resources"), r), "cpu") = Configured(At(At(l2, "resources"), r), "cpu")
        <5>1. At(At(l2, "resources"), r).d = V2Defaults.resources[r]
          BY DEF At, Look
        <5> QED BY <4>1, <5>1 DEF Val
      <4> QED BY <4>2, <4>3
    <3>2. t.resources[r].cpu = UnlessConfigured(said) /\ "resources" \in DOMAIN t
            /\ "cpu" \in DOMAIN t.resources[r] /\ r \in DOMAIN t.resources
      BY <2>3, <3>1 DEF Translated
    <3>3. At(At(l, "resources"), r) = Look(t.resources[r], V3Defaults.resources[r])
      BY <2>4, <3>2, AtIs
    <3>4. Val(At(At(l, "resources"), r), "cpu") = OrElse(UnlessConfigured(said), V3Defaults.resources[r].cpu)
      BY <3>2, <3>3, LookIs
    <3>5. said # Undefined
      <4>1. "resources" \in DOMAIN input.config =>
              \A x \in DOMAIN input.config.resources :
                "cpu" \in DOMAIN input.config.resources[x] => input.config.resources[x].cpu # Undefined
        BY <2>1, SettingsAssumption DEF IInv, IsConfig
      <4> QED BY <4>1, NoneAssumption DEF Said3, Says2, OrElse
    <3>6. spec.resources[r] = Resource(OrElse(UnlessConfigured(said), V3Defaults.resources[r].cpu))
      BY <2>2, <3>4 DEF Factored
    <3> QED BY <3>5, <3>6, NoneAssumption DEF Resource, OrElse, UnlessConfigured
  <2>6. /\ spec.autoscaler.max = Said("replicas", 2)
        /\ spec.autoscaler.enabled => Said2("autoscaler", "enabled", FALSE)
    <3> DEFINE replicas == Said("replicas", 2)
               auto == Said2("autoscaler", "enabled", FALSE)
               fewest == Val(At(l2, "autoscaler"), "min_replicas")
    <3>1. Val(l2, "replicas") = replicas /\ Val(At(l2, "autoscaler"), "enabled") = auto
      <4>1. V2Defaults.replicas = 2 /\ V2Defaults.autoscaler.enabled = FALSE
        BY DEF V2Defaults
      <4>2. Val(l2, "replicas") = Said("replicas", V2Defaults.replicas)
        BY LookedUp
      <4>3. Val(At(l2, "autoscaler"), "enabled") =
              Said2("autoscaler", "enabled", V2Defaults.autoscaler.enabled)
        BY LookedUp2
      <4> QED BY <4>1, <4>2, <4>3
    <3>2. t.replicas = [minimum |-> IF auto THEN fewest ELSE replicas, maximum |-> replicas]
            /\ "replicas" \in DOMAIN t
      BY <2>3, <3>1 DEF Translated
    <3>3. replicas # None
      BY NoneAssumption DEF Said, OrElse
    <3> HIDE DEF replicas, auto, fewest
    <3>4. At(l, "replicas") = Look(t.replicas, V3Defaults.replicas)
      BY <2>4, <3>2
    <3>5. Val(At(l, "replicas"), "maximum") = replicas
      BY <3>2, <3>3, <3>4, LookIs DEF OrElse
    <3>6. ~auto => Val(At(l, "replicas"), "minimum") = replicas
      BY <3>2, <3>3, <3>4, LookIs DEF OrElse
    <3>7. spec.autoscaler.max = replicas /\ (~auto => ~spec.autoscaler.enabled)
      <4>1. spec.autoscaler = AutoscalerSpec(At(l, "replicas"))
        BY <2>2 DEF Factored
      <4> DEFINE low == IF replicas < Val(At(l, "replicas"), "minimum") THEN replicas
                        ELSE Val(At(l, "replicas"), "minimum")
      <4>2. spec.autoscaler.max = replicas /\ spec.autoscaler.enabled = (low # replicas)
        BY <3>5, <4>1 DEF AutoscalerSpec
      <4>3. ~auto => low = replicas
        BY <3>6
      <4> HIDE DEF low
      <4>4. ~auto => ~spec.autoscaler.enabled
        BY <4>2, <4>3, Zenon
      <4> QED BY <4>2, <4>4
    <3> QED BY <3>7 DEF replicas, auto
  <2>7. spec.admin_access = Said("admin_access", FALSE)
    <3>1. V2Defaults.admin_access = FALSE /\ V3Defaults.admin_access = FALSE
      BY DEF V2Defaults, V3Defaults
    <3>2. t.admin_access = Said("admin_access", V2Defaults.admin_access) /\ "admin_access" \in DOMAIN t
      BY <2>3, LookedUp DEF Translated
    <3>3. spec.admin_access = OrElse(t.admin_access, V3Defaults.admin_access)
      BY <2>2, <2>4, <3>2 DEF Factored
    <3>4. t.admin_access = Said("admin_access", FALSE)
      BY <3>1, <3>2
    <3>5. spec.admin_access = OrElse(t.admin_access, FALSE)
      BY <3>1, <3>3
    <3> QED BY <3>4, <3>5 DEF Said, OrElse
  <2>8. /\ spec.prometheus.enabled = Said2("prometheus", "enabled", TRUE)
        /\ spec.prometheus.path = Said2("prometheus", "path", "/internal-backstage/prometheus")
    <3> DEFINE d == V2Defaults.prometheus
               c == IF "prometheus" \in DOMAIN input.config THEN input.config.prometheus ELSE Nothing
    <3>1. d.enabled = TRUE /\ d.path = "/internal-backstage/prometheus" /\ DOMAIN d = {"enabled", "path"}
      BY DEF V2Defaults
    <3>2. At(l2, "prometheus") = Look(c, d)
      BY AtIs
    <3>3. DOMAIN c \subseteq DOMAIN d
      BY <2>1, <3>1, SettingsAssumption DEF IInv, IsConfig, Nothing
    <3>4. Keys(Look(c, d)) = {"enabled", "path"}
      <4>1. IsFiniteSet(DOMAIN d)
        BY <3>1, TwoAreFinite
      <4> HIDE DEF c, d
      <4> QED BY <3>1, <3>3, <4>1, KeysOfDefaults
    <3>5. t.metrics.prometheus = [f \in {"enabled", "path"} |-> Val(At(l2, "prometheus"), f)]
            /\ DOMAIN t.metrics = {"prometheus"} /\ "metrics" \in DOMAIN t
      BY <2>3, <3>2, <3>4 DEF Translated, Flattened
    <3>6. t.metrics.prometheus = [f \in {"enabled", "path"} |-> Said2("prometheus", f, d[f])]
      BY <3>5, LookedUp2
    <3>7. At(At(l, "metrics"), "prometheus") = Look(t.metrics.prometheus, V3Defaults.metrics.prometheus)
      BY <2>4, <3>5, AtIs
    <3> HIDE DEF d
    <3>8. \A f \in {"enabled", "path"} :
            spec.prometheus[f] = OrElse(Said2("prometheus", f, d[f]), V3Defaults.metrics.prometheus[f])
      BY <2>2, <3>6, <3>7, LookIs DEF Factored
    <3>9. spec.prometheus.enabled = Said2("prometheus", "enabled", TRUE)
      <4>1. V3Defaults.metrics.prometheus.enabled = TRUE
        BY DEF V3Defaults
      <4>2. spec.prometheus.enabled = OrElse(Said2("prometheus", "enabled", TRUE), TRUE)
        <5>1. spec.prometheus.enabled = OrElse(Said2("prometheus", "enabled", d.enabled),
                                               V3Defaults.metrics.prometheus.enabled)
          BY <3>8
        <5> QED BY <3>1, <4>1, <5>1
      <4> QED BY <4>2 DEF Said2, OrElse
    <3>10. spec.prometheus.path = Said2("prometheus", "path", "/internal-backstage/prometheus")
      <4>1. d.path # None
        BY <3>1, NoneAssumption DEF Texts
      <4>2. spec.prometheus.path = OrElse(Said2("prometheus", "path", d.path),
                                          V3Defaults.metrics.prometheus.path)
        BY <3>8
      <4> QED BY <3>1, <4>1, <4>2 DEF Said2, OrElse
    <3> QED BY <3>9, <3>10
  <2> DEFINE live == CheckWritten("liveness")
             v == OldCheck("liveness")
             kind == OldKind("liveness")
  <2>9. /\ IsCheckOf(v, kind, live, old) /\ IsReadAs(spec.liveness, v, kind)
        /\ spec.liveness # Invalid
        /\ ~Says2("healthchecks", "readiness") => spec.readiness = spec.liveness
    BY <2>1, Version2Checks DEF old
  <2>10. /\ spec.liveness.kind = "http" => kind = "http" /\ spec.liveness.path = v.http.path
         /\ kind = "http" /\ DOMAIN live = {} => v.http.path = old[1].path
    <3> HIDE DEF v, kind, live
    <3> QED BY <2>9 DEF IsCheckOf, IsReadAs
  <2>11. ASSUME "healthchecks" \notin DOMAIN input.config, spec.liveness.kind = "http"
         PROVE  /\ spec.liveness.path = spec.readiness.path
                /\ spec.liveness.path \in {"/"} \union
                    (IF "ports" \in DOMAIN input.config
                     THEN {p.path : p \in {p \in Range(input.config.ports) : "path" \in DOMAIN p}} ELSE {})
    <3>1. spec.readiness = spec.liveness
      BY <2>9, <2>11 DEF Says2
    <3>2. DOMAIN live = {}
      BY <2>11 DEF CheckWritten, Written, Says2, Nothing
    <3>3. spec.liveness.path = old[1].path
      BY <2>10, <2>11, <3>2
    <3>4. 1 \in DOMAIN old
      <4>1. Len(old) = 1
        <5>1. ~Given(Look(live, Check("/")), "http")
          BY <3>2 DEF Given, Look
        <5> QED BY <2>10, <2>11, <5>1 DEF CheckKind, OldKind, old
      <4> QED BY <2>1, <4>1, TranslatedPorts DEF old
    <3>5. old[1].path \in {"/"} \union
            (IF "ports" \in DOMAIN input.config
             THEN {p.path : p \in {p \in Range(input.config.ports) : "path" \in DOMAIN p}} ELSE {})
      BY <2>1, <3>4, TranslatedPorts DEF old
    <3> QED BY <3>1, <3>3, <3>5
  <2>12. Says2("healthchecks", "liveness") /\ ~Says2("healthchecks", "readiness") =>
           spec.readiness = spec.liveness
    BY <2>9
  <2> QED BY <2>5, <2>6, <2>7, <2>8, <2>11, <2>12 DEF Version2Kept
<1> QED BY <1>1, Invariance, PTL

-----------------------------------------------------------------------------
(* The ports. *)

\* A port number of a http port is that of one of the ports that speak http.
LEMMA HttpPortIsPort ==
    ASSUME NEW ports, NEW n \in Nat, DOMAIN ports = 1..n, NEW name \in DOMAIN HttpPorts(ports)
    PROVE  \E k \in DOMAIN ports :
             ports[k].protocol = "http" /\ ports[k].port = HttpPorts(ports)[name]
<1> DEFINE http == {k \in DOMAIN ports : ports[k].protocol = "http"}
           same == {k \in http : ports[k].name = name}
<1>1. same \in SUBSET Nat /\ same # {} /\ \A k \in same : k <= n
  BY DEF HttpPorts
<1>2. Max(same) \in same
  <2> HIDE DEF same
  <2>1. FoldInit!Max(same) = Max(same)
    BY DEF FoldInit!Max, Max
  <2> QED BY <1>1, <2>1, FoldInit!MaxUpTo
<1>3. HttpPorts(ports)[name] = ports[Max(same)].port
  BY DEF HttpPorts
<1> QED BY <1>2, <1>3

\* What a path's port resolves to is the number of an http port (resolve_port_number).
LEMMA PortNumberIsPort ==
    ASSUME NEW ports, NEW n \in Nat, DOMAIN ports = 1..n, NEW port, PortNumber(ports, port) # None
    PROVE  \E k \in DOMAIN ports :
             ports[k].protocol = "http" /\ ports[k].port = PortNumber(ports, port)
<1>1. \E name \in DOMAIN HttpPorts(ports) : PortNumber(ports, port) = HttpPorts(ports)[name]
  BY DEF PortNumber, Range
<1> QED BY <1>1, HttpPortIsPort

\* The ports of an AppSpec are a list.
LEMMA SpecPortsAreList ==
    ASSUME IInv, stage \in {"parsed", "made"}
    PROVE  Len(spec.ports) \in Nat /\ DOMAIN spec.ports = 1..Len(spec.ports)
<1>1. CASE input.version = 2
  <2> DEFINE old == V2Ports(input.config)
  <2>1. /\ Len(old) \in Nat /\ DOMAIN old = 1..Len(old)
        /\ Len(spec.ports) \in Nat /\ DOMAIN spec.ports = DOMAIN old
    BY <1>1, TranslatedPorts
  <2>2. spec.ports = [k \in DOMAIN spec.ports |-> spec.ports[k]]
    BY SpecOfConfiguration DEF Factored, PortSpecs
  <2>3. Len(spec.ports) = Len(old)
    <3> HIDE DEF old
    <3> QED BY <2>1, <2>2, FunctionIsList
  <2> QED BY <2>1, <2>3
<1>2. CASE input.version = 3
  <2>1. "ports" \in DOMAIN input.config => IsList(input.config.ports)
    BY <1>2, SettingsAssumption DEF IInv, IsConfig
  <2>2. IsList(V3Defaults.ports)
    BY DEF V3Defaults, IsList
  <2>3. spec.ports = PortSpecs(Look(input.config, V3Defaults), PortFields)
    BY <1>2, SpecOfConfiguration DEF Factored, Configuration
  <2> QED BY <2>1, <2>2, <2>3, PortsAreList
<1> QED BY <1>1, <1>2, SpecOfConfiguration

PortIn(c, kind) == IF kind \in DOMAIN c /\ "port" \in DOMAIN c[kind] THEN c[kind].port ELSE None

\* A check is on the port that is configured for its kind, or the first (_check_spec).
LEMMA CheckedPort ==
    ASSUME NEW c, NEW ports, NEW path, NEW check,
           check = CheckSpec(Look(c, Check(path)), ports), check # Invalid,
           check.kind \in {"http", "tcp"}
    PROVE  IF PortIn(c, check.kind) # None THEN check.port = PortIn(c, check.kind)
           ELSE ports # << >> /\ check.port = ports[1].name
<1> DEFINE l == Look(c, Check(path))
           kind == CheckKind(l, ports)
<1>1. check.kind = kind
  BY DEF CheckSpec
<1>2. Configured(At(l, kind), "port") = PortIn(c, kind)
  <2>1. At(l, kind) = Look(IF kind \in DOMAIN c THEN c[kind] ELSE Nothing, Check(path)[kind])
    BY AtIs
  <2> HIDE DEF kind, l
  <2> QED BY <2>1 DEF Configured, Look, PortIn, Nothing
<1> HIDE DEF l
<1>3. kind \in {"http", "tcp"} /\ check = CheckSpec(l, ports) /\ kind = CheckKind(l, ports)
  BY <1>1 DEF l
<1> HIDE DEF kind
<1>4. /\ check.port = IF PortIn(c, kind) # None THEN PortIn(c, kind) ELSE ports[1].name
      /\ PortIn(c, kind) = None => ports # << >>
  BY <1>2, <1>3 DEF CheckSpec
<1> QED BY <1>1, <1>4

\* What the transformer makes of the port of a check of version 2: the name of the only
\* port where nothing is configured, and the default "http" where something else is
\* (_health_check).
LEMMA TransformedPort ==
    ASSUME NEW c, NEW ports, NEW v, NEW kind \in {"http", "tcp"},
           v = V2Check(Look(c, Check("/")), ports), v # Invalid,
           kind = CheckKind(Look(c, Check("/")), ports)
    PROVE  LET given == IF kind \in DOMAIN c THEN c[kind] ELSE Nothing
           IN  \/ PortIn(c, kind) # None /\ PortIn(v, kind) = PortIn(c, kind)
               \/ /\ PortIn(c, kind) = None
                  /\ \/ PortIn(v, kind) = None
                     \/ PortIn(v, kind) = "http" /\ kind = "http" /\ DOMAIN given # {}
                     \/ PortIn(v, kind) = ports[1].name /\ Len(ports) = 1
<1> DEFINE l == Look(c, Check("/"))
           given == IF kind \in DOMAIN c THEN c[kind] ELSE Nothing
           d == Check("/")[kind]
<1>1. DOMAIN v = {kind, "initial_delay_seconds"}
        /\ v[kind] = CASE Given(l, kind) -> Flattened(At(l, kind))
                       [] ~Given(l, kind) /\ kind = "http" -> [path |-> ports[1].path, port |-> ports[1].name]
                       [] ~Given(l, kind) /\ kind = "tcp" -> [port |-> ports[1].name]
                       [] OTHER -> Nothing
  BY DEF V2Check
<1>2. At(l, kind) = Look(given, d) /\ Given(l, kind) = (DOMAIN given # {})
  BY AtIs DEF Given, Look, Nothing
<1>3. PortIn(c, kind) = IF "port" \in DOMAIN given THEN given.port ELSE None
  BY DEF PortIn, Nothing
<1>4. ~Given(l, kind) => Len(ports) = 1
  BY DEF CheckKind
<1>5. /\ "port" \in DOMAIN d /\ (kind = "http" => d.port = "http") /\ (kind = "tcp" => d.port = None)
  BY DEF Check
<1> HIDE DEF l, given, d
<1>6. CASE Given(l, kind)
  <2>1. v[kind] = Flattened(Look(given, d))
    BY <1>1, <1>2, <1>6
  <2>2. Keys(Look(given, d)) \in {DOMAIN d, DOMAIN given}
    BY DEF Keys, Look
  <2>3. /\ DOMAIN v[kind] = Keys(Look(given, d))
        /\ "port" \in DOMAIN v[kind] => v[kind].port = Val(Look(given, d), "port")
    BY <2>1 DEF Flattened
  <2>4. Val(Look(given, d), "port") = IF "port" \in DOMAIN given THEN OrElse(given.port, d.port) ELSE d.port
    BY LookIs
  <2>5. PortIn(v, kind) = IF "port" \in DOMAIN v[kind] THEN Val(Look(given, d), "port") ELSE None
    BY <1>1, <2>3 DEF PortIn
  <2>6. CASE PortIn(c, kind) # None
    <3>1. "port" \in DOMAIN given /\ given.port = PortIn(c, kind)
      BY <1>3, <2>6
    <3>2. "port" \in DOMAIN v[kind]
      BY <1>5, <2>2, <2>3, <3>1
    <3> QED BY <2>4, <2>5, <2>6, <3>1, <3>2 DEF OrElse
  <2>7. CASE PortIn(c, kind) = None
    <3>1. Val(Look(given, d), "port") = d.port
      BY <1>3, <2>4, <2>7 DEF OrElse
    <3>2. PortIn(v, kind) \in {None, d.port}
      BY <2>5, <3>1
    <3> QED BY <1>2, <1>5, <1>6, <2>7, <3>2 DEF given
  <2> QED BY <2>6, <2>7
<1>7. CASE ~Given(l, kind)
  <2>1. PortIn(c, kind) = None
    BY <1>2, <1>3, <1>7
  <2>2. PortIn(v, kind) = ports[1].name
    <3>1. kind = "http" => v[kind] = [path |-> ports[1].path, port |-> ports[1].name]
      BY <1>1, <1>7
    <3>2. kind = "tcp" => v[kind] = [port |-> ports[1].name]
      BY <1>1, <1>7
    <3>3. "port" \in DOMAIN v[kind] /\ v[kind].port = ports[1].name
      BY <3>1, <3>2
    <3> QED BY <1>1, <3>3 DEF PortIn
  <2> QED BY <1>4, <1>7, <2>1, <2>2
<1> QED BY <1>6, <1>7 DEF given

\* What version 3 reads of a check is what is written of it, or nothing is of either.
LEMMA Version3Checks ==
    ASSUME IInv, stage \in {"parsed", "made"}, input.version = 3, NEW c \in {"liveness", "readiness"}
    PROVE  /\ spec[c] # Invalid
           /\ \E w, path : /\ spec[c] = CheckSpec(Look(w, Check(path)), spec.ports)
                           /\ w = CheckWritten(c) \/ (DOMAIN w = {} /\ DOMAIN CheckWritten(c) = {})
<1> DEFINE l == Look(input.config, V3Defaults)
           hc == At(l, "healthchecks")
           given == IF "healthchecks" \in DOMAIN input.config THEN input.config.healthchecks ELSE Nothing
<1>1. Factored(spec, l, PortSpecs(l, PortFields))
  BY SpecOfConfiguration DEF Configuration
<1>2. \A d : Written(d) = IF d \in DOMAIN given THEN given[d] ELSE Nothing
  BY DEF Written, Says2, Nothing
<1>3. hc = Look(given, V3Defaults.healthchecks)
  BY AtIs
<1>4. V3Defaults.healthchecks.liveness = Check("/_/health")
        /\ V3Defaults.healthchecks.readiness = Check("/_/ready")
  BY DEF V3Defaults
<1>5. /\ spec.liveness = CheckSpec(At(hc, "liveness"), spec.ports) /\ spec.liveness # Invalid
      /\ spec.readiness = CheckSpec(ReadinessOf(hc), spec.ports) /\ spec.readiness # Invalid
  BY <1>1 DEF Factored
<1> HIDE DEF l, given, hc
<1>6. /\ At(hc, "liveness") = Look(Written("liveness"), Check("/_/health"))
      /\ At(hc, "readiness") = Look(Written("readiness"), Check("/_/ready"))
  BY <1>2, <1>3, <1>4, AtIs
<1>7. \A d : Given(hc, d) = (DOMAIN Written(d) # {})
  BY <1>2, <1>3 DEF Given, Look, Nothing
<1>8. CASE c = "liveness"
  <2>1. CheckWritten(c) = Written("liveness")
    BY <1>8 DEF CheckWritten
  <2> QED BY <1>5, <1>6, <1>8, <2>1
<1>9. CASE c = "readiness"
  <2>1. CASE DOMAIN Written("readiness") = {} /\ DOMAIN Written("liveness") # {}
    <3>1. ReadinessOf(hc) = Look(Written("liveness"), Check("/_/health"))
      BY <1>6, <1>7, <2>1 DEF ReadinessOf
    <3>2. CheckWritten(c) = Written("liveness")
      BY <1>9, <2>1 DEF CheckWritten
    <3> QED BY <1>5, <1>9, <3>1, <3>2
  <2>2. CASE ~(DOMAIN Written("readiness") = {} /\ DOMAIN Written("liveness") # {})
    <3>1. ReadinessOf(hc) = Look(Written("readiness"), Check("/_/ready"))
      BY <1>6, <1>7, <2>2 DEF ReadinessOf
    <3>2. CheckWritten(c) = Written("readiness")
            \/ (DOMAIN Written("readiness") = {} /\ DOMAIN CheckWritten(c) = {})
      BY <1>9, <2>2 DEF CheckWritten
    <3> QED BY <1>5, <1>9, <3>1, <3>2
  <2> QED BY <2>1, <2>2
<1> QED BY <1>8, <1>9

\* A check is on the port it names, or on one the application has, but for the http
\* checks of version 2; a path refers to a port that speaks http (_check_spec,
\* _health_check, resolve_port_number).
THEOREM PortsResolveHolds == Spec => []PortsResolve
<1>1. IInv => PortsResolve
  <2>1. SUFFICES ASSUME IInv, stage \in {"parsed", "made"} PROVE PortsResolve
    BY DEF PortsResolve
  <2> DEFINE l == Look(Configuration, V3Defaults)
             ports == PortSpecs(l, PortFields)
             hc == At(l, "healthchecks")
  <2>2. Factored(spec, l, ports)
    BY <2>1, SpecOfConfiguration
  <2>3. Len(spec.ports) \in Nat /\ DOMAIN spec.ports = 1..Len(spec.ports)
    BY <2>1, SpecPortsAreList
  <2>4. spec.ports = ports
    BY <2>2 DEF Factored
  <2>5. ASSUME NEW k \in DOMAIN spec.ingresses, NEW j \in DOMAIN spec.ingresses[k].paths
        PROVE  \E n \in DOMAIN spec.ports :
                 spec.ports[n].protocol = "http" /\ spec.ports[n].port = spec.ingresses[k].paths[j].port
    <3>1. spec.ingresses = IngressItems(l, spec.ports) /\ spec.ingresses[k].paths[j].port # None
      BY <2>2, <2>4 DEF Factored
    <3> HIDE DEF l
    <3>2. spec.ingresses # << >> /\ DOMAIN << >> = {}
      OBVIOUS
    <3> DEFINE list == Elems(l, "ingress")
               paths(i) == Elems(list[i], "paths")
               numbered(i) == [m \in DOMAIN paths(i) |->
                                 [path |-> Val(paths(i)[m], "path"),
                                  port |-> PortNumber(spec.ports, Val(paths(i)[m], "port"))]]
               made == [i \in DOMAIN list |->
                          [host |-> Val(list[i], "host"), paths |-> numbered(i),
                           annotations |-> Flattened(At(list[i], "annotations"))]]
    <3>4. spec.ingresses = made
      <4>1. IngressItems(l, spec.ports) = IF DOMAIN HttpPorts(spec.ports) = {} THEN << >> ELSE made
        BY DEF IngressItems
      <4> HIDE DEF made
      <4> QED BY <3>1, <3>2, <4>1
    <3> HIDE DEF list
    <3>5. spec.ingresses[k].paths = numbered(k)
      BY <3>4
    <3> HIDE DEF paths, made
    <3>6. \E port : spec.ingresses[k].paths[j].port = PortNumber(spec.ports, port)
      BY <3>5
    <3> QED BY <2>3, <3>1, <3>6, PortNumberIsPort
  <2>6. ASSUME NEW c \in {"liveness", "readiness"}, spec[c].kind \in {"http", "tcp"}
        PROVE  LET kind == spec[c].kind
                   port == PortWritten(c, kind)
               IN  \/ port # None /\ spec[c].port = port
                   \/ port = None /\ HasPortNamed(spec[c].port)
                   \/ /\ port = None /\ spec[c].port = "http"
                      /\ input.version = 2 /\ kind = "http" /\ DOMAIN KindWritten(c, kind) # {}
    <3> DEFINE kind == spec[c].kind
               port == PortWritten(c, kind)
    <3>1. port = PortIn(CheckWritten(c), kind)
      BY DEF PortWritten, KindWritten, PortIn, Nothing
    <3>2. spec.ports # << >> => HasPortNamed(spec.ports[1].name)
      <4>1. spec.ports = [k \in DOMAIN spec.ports |-> spec.ports[k]]
        BY <2>2 DEF Factored, PortSpecs
      <4>2. spec.ports # << >> => Len(spec.ports) # 0
        BY <2>3, <4>1, EmptyList
      <4> QED BY <2>3, <4>2 DEF HasPortNamed
    <3> HIDE DEF port
    <3>3. CASE input.version = 3
      <4>1. PICK w, path : /\ spec[c] = CheckSpec(Look(w, Check(path)), spec.ports)
                           /\ w = CheckWritten(c) \/ (DOMAIN w = {} /\ DOMAIN CheckWritten(c) = {})
        BY <2>1, <3>3, Version3Checks
      <4>2. spec[c] # Invalid
        BY <2>1, <3>3, Version3Checks
      <4>3. PortIn(w, kind) = port
        BY <3>1, <4>1 DEF PortIn
      <4>4. IF PortIn(w, kind) # None THEN spec[c].port = PortIn(w, kind)
            ELSE spec.ports # << >> /\ spec[c].port = spec.ports[1].name
        BY <2>6, <4>1, <4>2, CheckedPort
      <4> QED BY <3>2, <4>3, <4>4 DEF port
    <3>4. CASE input.version = 2
      <4> DEFINE old == V2Ports(input.config)
                 v == OldCheck(c)
                 given == IF kind \in DOMAIN CheckWritten(c) THEN CheckWritten(c)[kind] ELSE Nothing
      <4>1. /\ IsReadAs(spec[c], v, OldKind(c)) /\ spec[c] # Invalid /\ v # Invalid
            /\ \E path : spec[c] = CheckSpec(Look(v, Check(path)), spec.ports)
        BY <2>1, <3>4, Version2Checks
      <4>2. PICK path : spec[c] = CheckSpec(Look(v, Check(path)), spec.ports)
        BY <4>1
      <4>3. kind = OldKind(c)
        BY <2>6, <4>1 DEF IsReadAs
      <4>4. IF PortIn(v, kind) # None THEN spec[c].port = PortIn(v, kind)
            ELSE spec.ports # << >> /\ spec[c].port = spec.ports[1].name
        <5> HIDE DEF v
        <5> QED BY <2>6, <4>1, <4>2, CheckedPort
      <4>5. \/ PortIn(CheckWritten(c), kind) # None /\ PortIn(v, kind) = PortIn(CheckWritten(c), kind)
            \/ /\ PortIn(CheckWritten(c), kind) = None
               /\ \/ PortIn(v, kind) = None
                  \/ PortIn(v, kind) = "http" /\ kind = "http" /\ DOMAIN given # {}
                  \/ PortIn(v, kind) = old[1].name /\ Len(old) = 1
        <5>1. v = V2Check(Look(CheckWritten(c), Check("/")), old)
                /\ kind = CheckKind(Look(CheckWritten(c), Check("/")), old)
          BY <4>3 DEF OldCheck, OldKind
        <5> HIDE DEF v, old, kind
        <5> QED BY <2>6, <4>1, <5>1, TransformedPort DEF kind
      <4>6. Len(old) = 1 => HasPortNamed(old[1].name) /\ old[1].name # None
        BY <2>1, <3>4, TranslatedPorts DEF HasPortNamed
      <4>7. given = KindWritten(c, kind)
        BY DEF KindWritten
      <4> HIDE DEF v, old, given, kind
      <4>8. CASE port # None
        BY <3>1, <4>4, <4>5, <4>8 DEF kind, port
      <4>9. CASE port = None /\ PortIn(v, kind) = None
        BY <3>2, <4>4, <4>9 DEF kind, port
      <4>10. CASE port = None /\ PortIn(v, kind) # None
        <5>1. \/ PortIn(v, kind) = "http" /\ kind = "http" /\ DOMAIN given # {}
              \/ PortIn(v, kind) = old[1].name /\ Len(old) = 1
          BY <3>1, <4>5, <4>10
        <5>2. spec[c].port = PortIn(v, kind)
          BY <4>4, <4>10
        <5> QED BY <3>4, <4>6, <4>7, <4>10, <5>1, <5>2 DEF kind, port
      <4> QED BY <4>8, <4>9, <4>10
    <3> QED BY <2>1, <3>3, <3>4, SpecOfConfiguration
  <2> QED BY <2>5, <2>6 DEF PortsResolve
<1> QED BY <1>1, Invariance, PTL

-----------------------------------------------------------------------------
(* The items of the Ingresses: the folds. *)

Deduplicate(p, acc, x) == IF I!Contains(acc, x) THEN acc ELSE Append(acc, x)
FoldOnce == INSTANCE SequenceLemmas WITH Op <- Deduplicate

Pair(p, acc, item) ==
    IF item.host \in DOMAIN HostPairs /\ ~I!HasHost(acc, HostPairs[item.host])
    THEN Append(acc, [item EXCEPT !.host = HostPairs[item.host]])
    ELSE acc
FoldPairs == INSTANCE SequenceLemmas WITH Op <- Pair

\* Appending adds one element to a list's.
LEMMA AppendRange ==
    ASSUME NEW S, NEW seq \in Seq(S), NEW x \in S
    PROVE  Append(seq, x) \in Seq(S) /\ Range(Append(seq, x)) = Range(seq) \union {x}
<1>1. Append(seq, x) = seq \o <<x>> /\ <<x>> \in Seq(S)
  BY AppendIsConcat
<1>2. Range(<<x>>) = {x}
  BY DEF Range
<1>3. Range(seq \o <<x>>) = Range(seq) \union Range(<<x>>)
  <2> DEFINE last == <<x>>
  <2>1. seq \in Seq(S) /\ last \in Seq(S)
    BY <1>1
  <2> HIDE DEF last
  <2>2. Range(seq \o last) = Range(seq) \union Range(last)
    BY <2>1, RangeConcatenation
  <2> QED BY <2>2 DEF last
<1>4. Append(seq, x) \in Seq(S)
  BY AppendProperties
<1>5. Range(Append(seq, x)) = Range(seq) \union {x}
  BY <1>1, <1>2, <1>3
<1> QED BY <1>4, <1>5

\* Deduplicated drops no element.
LEMMA DeduplicatedRange ==
    ASSUME NEW S, NEW seq \in Seq(S)
    PROVE  I!Deduplicated(seq) \in Seq(S) /\ Range(I!Deduplicated(seq)) = Range(seq)
<1> DEFINE n == Len(seq)
           Seen(k) == {seq[j] : j \in 1..k}
           J == [k \in 0..n |-> {acc \in Seq(S) : Range(acc) = Seen(k)}]
<1>1. n \in Nat /\ DOMAIN seq = 1..n /\ \A k \in 1..n : seq[k] \in S
  BY LenProperties, ElementOfSeq
<1> HIDE DEF n
<1>2. I!Deduplicated(seq) = FoldOnce!Fold(0, << >>, seq)
  BY DEF I!Deduplicated, FoldOnce!Fold, Deduplicate, I!FoldLeft, FoldOnce!FoldLeft,
         I!MapThenFoldSet, FoldOnce!MapThenFoldSet, I!Max, FoldOnce!Max
<1>3. << >> \in J[0]
  <2>1. Range(<< >>) = {} /\ Seen(0) = {}
    BY DEF Range
  <2> QED BY <1>1, <2>1, EmptySeq
<1>4. ASSUME NEW k \in 1..n, NEW acc \in J[k - 1]
      PROVE  Deduplicate(0, acc, seq[k]) \in J[k]
  <2>1. acc \in Seq(S) /\ Range(acc) = Seen(k - 1) /\ k \in 0..n
    BY <1>1
  <2>2. Seen(k) = Seen(k - 1) \union {seq[k]}
    <3>1. 1..k = 1..(k - 1) \union {k}
      BY <1>1
    <3> QED BY <3>1
  <2>3. CASE I!Contains(acc, seq[k])
    <3>1. seq[k] \in Range(acc)
      BY <2>1, <2>3, LenProperties DEF I!Contains, Range
    <3> QED BY <2>1, <2>2, <2>3, <3>1 DEF Deduplicate
  <2>4. CASE ~I!Contains(acc, seq[k])
    BY <1>1, <2>1, <2>2, <2>4, AppendRange DEF Deduplicate
  <2> QED BY <2>3, <2>4
<1>5. FoldOnce!Fold(0, << >>, seq) \in J[n]
  <2> HIDE DEF J
  <2> QED BY <1>1, <1>3, <1>4, FoldOnce!FoldInvariant
<1>6. Seen(n) = Range(seq)
  BY <1>1 DEF Range
<1>7. FoldOnce!Fold(0, << >>, seq) \in {acc \in Seq(S) : Range(acc) = Seen(n)}
  <2> HIDE DEF Seen
  <2>1. J[n] = {acc \in Seq(S) : Range(acc) = Seen(n)}
    BY <1>1
  <2> QED BY <1>5, <2>1
<1> HIDE DEF Seen
<1> QED BY <1>2, <1>6, <1>7

\* An item on the pair of its host, and those that are there of the first k items.
Paired(x) == [x EXCEPT !.host = HostPairs[x.host]]
Firsts(items, k) == {j \in 1..k : FirstOfPair(items, j)}
PairsOf(items, k) == {Paired(items[j]) : j \in Firsts(items, k)}

\* The pairs are those of the first items on a host of theirs.
LEMMA PairsRange ==
    ASSUME NEW S, NEW items \in Seq(S),
           \A x \in S : x.host \in DOMAIN HostPairs =>
                          Paired(x) \in S /\ Paired(x).host = HostPairs[x.host]
    PROVE  /\ I!WithPairs(items) \in Seq(S)
           /\ Range(I!WithPairs(items)) = Range(items) \union PairsOf(items, Len(items))
<1> DEFINE n == Len(items)
           J == [k \in 0..n |-> {acc \in Seq(S) : Range(acc) = Range(items) \union PairsOf(items, k)}]
<1>1. n \in Nat /\ DOMAIN items = 1..n /\ \A k \in 1..n : items[k] \in S
  BY LenProperties, ElementOfSeq
<1> HIDE DEF n
<1>2. I!WithPairs(items) = FoldPairs!Fold(0, items, items)
  BY DEF I!WithPairs, FoldPairs!Fold, Pair, I!FoldLeft, FoldPairs!FoldLeft,
         I!MapThenFoldSet, FoldPairs!MapThenFoldSet, I!Max, FoldPairs!Max
<1>3. items \in J[0]
  <2>1. PairsOf(items, 0) = {}
    BY DEF PairsOf, Firsts
  <2> QED BY <1>1, <2>1
<1>4. ASSUME NEW k \in 1..n, NEW acc \in J[k - 1]
      PROVE  Pair(0, acc, items[k]) \in J[k]
  <2> DEFINE y == items[k]
             q == HostPairs[y.host]
  <2>1. /\ acc \in Seq(S) /\ Range(acc) = Range(items) \union PairsOf(items, k - 1)
        /\ k \in 0..n /\ k \in Nat /\ k - 1 \in Nat /\ y \in S
    BY <1>1
  <2>2. SUFFICES /\ Pair(0, acc, y) \in Seq(S)
                 /\ Range(Pair(0, acc, y)) = Range(items) \union PairsOf(items, k)
    BY <2>1
  <2>3. I!HasHost(acc, q) <=> \E z \in Range(acc) : z.host = q
    BY DEF I!HasHost, Range
  <2>4. \A j \in Firsts(items, k - 1) :
          /\ j \in 1..n /\ j < k /\ items[j].host \in DOMAIN HostPairs
          /\ Paired(items[j]).host = HostPairs[items[j].host]
    BY <1>1 DEF Firsts, FirstOfPair
  <2>5. \A z \in Range(items) : \E j \in 1..n : z = items[j]
    BY <1>1 DEF Range
  <2>6. ASSUME FirstOfPair(items, k) PROVE y.host \in DOMAIN HostPairs /\ ~I!HasHost(acc, q)
    <3>1. \A z \in Range(items) : z.host # q
      BY <1>1, <2>5, <2>6 DEF FirstOfPair
    <3>2. \A z \in PairsOf(items, k - 1) : z.host # q
      <4>1. \A j \in Firsts(items, k - 1) : Paired(items[j]).host # q
        BY <1>1, <2>4, <2>6 DEF FirstOfPair
      <4> QED BY <4>1 DEF PairsOf
    <3> QED BY <2>1, <2>3, <2>6, <3>1, <3>2 DEF FirstOfPair
  <2>7. ASSUME y.host \in DOMAIN HostPairs, ~I!HasHost(acc, q) PROVE FirstOfPair(items, k)
    <3>1. \A j \in DOMAIN items : items[j].host # q
      BY <2>1, <2>3, <2>7 DEF Range
    <3> DEFINE T == {j \in 1..(k - 1) : items[j].host \in DOMAIN HostPairs /\ HostPairs[items[j].host] = q}
    <3>2. ASSUME T # {} PROVE FALSE
      <4> DEFINE m == FoldInit!Min(T)
      <4>1. T \in SUBSET Nat
        OBVIOUS
      <4>2. m \in T /\ \A j \in T : m <= j
        BY <3>2, <4>1, FoldInit!MinOfNaturals
      <4> HIDE DEF m
      <4>3. /\ m \in 1..(k - 1) /\ m \in DOMAIN items /\ m < k
            /\ items[m].host \in DOMAIN HostPairs /\ HostPairs[items[m].host] = q
        BY <1>1, <4>2
      <4>4. FirstOfPair(items, m)
        <5>1. ASSUME NEW j \in DOMAIN items, j < m, items[j].host \in DOMAIN HostPairs
              PROVE  HostPairs[items[j].host] # q
          <6>1. j \in 1..(k - 1)
            BY <1>1, <4>3, <5>1
          <6> QED BY <4>2, <4>3, <5>1, <6>1
        <5> HIDE DEF q
        <5> QED BY <3>1, <4>3, <5>1 DEF FirstOfPair
      <4>5. m \in Firsts(items, k - 1)
        BY <4>3, <4>4 DEF Firsts
      <4>6. Paired(items[m]) \in Range(acc) /\ Paired(items[m]).host = q
        BY <2>1, <2>4, <4>3, <4>5 DEF PairsOf
      <4> QED BY <2>3, <2>7, <4>6
    <3>3. ASSUME NEW j \in DOMAIN items, j < k, items[j].host \in DOMAIN HostPairs
          PROVE  HostPairs[items[j].host] # q
      <4>1. j \in 1..(k - 1)
        BY <1>1, <3>3
      <4> QED BY <3>2, <3>3, <4>1
    <3> HIDE DEF T
    <3> QED BY <2>7, <3>1, <3>3 DEF FirstOfPair
  <2>8. CASE FirstOfPair(items, k)
    <3>1. Pair(0, acc, y) = Append(acc, Paired(y)) /\ Paired(y) \in S
      BY <2>1, <2>6, <2>8 DEF Pair, Paired
    <3>2. Append(acc, Paired(y)) \in Seq(S) /\ Range(Append(acc, Paired(y))) = Range(acc) \union {Paired(y)}
      BY <2>1, <3>1, AppendRange
    <3>3. Firsts(items, k) = Firsts(items, k - 1) \union {k}
      <4>1. 1..k = 1..(k - 1) \union {k}
        BY <1>1
      <4> QED BY <2>8, <4>1 DEF Firsts
    <3>4. PairsOf(items, k) = PairsOf(items, k - 1) \union {Paired(y)}
      BY <3>3 DEF PairsOf
    <3> QED BY <2>1, <3>1, <3>2, <3>4
  <2>9. CASE ~FirstOfPair(items, k)
    <3>1. Pair(0, acc, y) = acc
      BY <2>7, <2>9 DEF Pair
    <3>2. Firsts(items, k) = Firsts(items, k - 1)
      <4>1. 1..k = 1..(k - 1) \union {k}
        BY <1>1
      <4> QED BY <2>9, <4>1 DEF Firsts
    <3> QED BY <2>1, <3>1, <3>2 DEF PairsOf
  <2> QED BY <2>8, <2>9
<1>5. FoldPairs!Fold(0, items, items) \in J[n]
  <2> HIDE DEF J
  <2> QED BY <1>1, <1>3, <1>4, FoldPairs!FoldInvariant
<1> QED BY <1>1, <1>2, <1>5 DEF n

-----------------------------------------------------------------------------
(* The items of the Ingresses. *)

\* An application whose items have some of the paths P and of the annotations A.
Wanted(P, A) == [host : Domains \union {None}, paths : Seq(P), annotations : A]
HasItems(app, P, A) ==
    /\ app.name = "app" /\ Nothing \in A
    /\ app.ingresses \in Seq(Wanted(P, A))
    /\ [path |-> "/", port |-> I!NamedHttp(app)[1].port] \in P

\* The items that are placed: on a host of their own, or a default one.
Placed(P, A) == [host : Domains, paths : Seq(P), annotations : A]
OwnOf(app) == {[i EXCEPT !.host = I!Rewritten(i.host)] : i \in {i \in Range(app.ingresses) : i.host \notin {None, << >>}}}
PathsOf(app) == UNION {Range(i.paths) : i \in {i \in Range(app.ingresses) : i.annotations = Nothing}}

\* A rewritten host is a host (_apply_host_rewrite_rules).
LEMMA RewrittenIsDomain ==
    ASSUME NEW host \in Domains
    PROVE  I!Rewritten(host) \in Domains
<1> DEFINE rules == {k \in DOMAIN HostRewriteRules : host \in DOMAIN HostRewriteRules[k]}
<1>1. CASE rules = {}
  BY <1>1 DEF I!Rewritten
<1>2. CASE rules # {}
  <2>1. rules \in SUBSET Nat
    BY OperatorAssumption DEF IsList
  <2>2. I!Min(rules) \in rules
    <3> HIDE DEF rules
    <3>1. FoldInit!Min(rules) = I!Min(rules)
      BY DEF FoldInit!Min, I!Min
    <3> QED BY <1>2, <2>1, <3>1, FoldInit!MinOfNaturals
  <2>3. I!Rewritten(host) = HostRewriteRules[I!Min(rules)][host]
    BY <1>2 DEF I!Rewritten
  <2> QED BY <2>2, <2>3, OperatorAssumption
<1> QED BY <1>1, <1>2

\* Flattening, in the instance that the Ingresses are made with.
LEMMA FlattenedRange ==
    ASSUME NEW S, NEW n \in Nat, NEW ss \in [1..n -> Seq(S)]
    PROVE  /\ I!FlattenSeq(ss) \in Seq(S)
           /\ Range(I!FlattenSeq(ss)) = UNION {Range(ss[k]) : k \in 1..n}
<1>1. I!FlattenSeq(ss) = FoldInit!FlattenSeq(ss)
  BY DEF I!FlattenSeq, FoldInit!FlattenSeq
<1>2. \A f : FoldInit!Range(f) = Range(f)
  BY DEF FoldInit!Range, Range
<1> QED BY <1>1, <1>2, FoldInit!FlattenRange

\* The application's own items, as a set: those with a host, which is rewritten.
LEMMA OwnItemsRange ==
    ASSUME NEW app, NEW P, NEW A, HasItems(app, P, A)
    PROVE  I!OwnItems(app) \in Seq(Placed(P, A)) /\ Range(I!OwnItems(app)) = OwnOf(app)
<1> DEFINE own(item) == IF item.host \in {None, << >>} THEN << >>
                        ELSE <<[item EXCEPT !.host = I!Rewritten(@)]>>
           n == Len(app.ingresses)
           ss == [k \in DOMAIN app.ingresses |-> own(app.ingresses[k])]
<1>1. n \in Nat /\ DOMAIN app.ingresses = 1..n /\ \A k \in 1..n : app.ingresses[k] \in Wanted(P, A)
  BY LenProperties, ElementOfSeq DEF HasItems
<1>2. ASSUME NEW item \in Wanted(P, A)
      PROVE  /\ own(item) \in Seq(Placed(P, A))
             /\ Range(own(item)) = IF item.host \in {None, << >>} THEN {}
                                   ELSE {[item EXCEPT !.host = I!Rewritten(item.host)]}
  <2>1. CASE item.host \in {None, << >>}
    BY <2>1, EmptySeq DEF Range
  <2>2. CASE item.host \notin {None, << >>}
    <3>1. I!Rewritten(item.host) \in Domains
      BY <2>2, RewrittenIsDomain DEF Wanted
    <3>2. [item EXCEPT !.host = I!Rewritten(item.host)] \in Placed(P, A)
      BY <3>1 DEF Wanted, Placed
    <3> QED BY <2>2, <3>2 DEF Range
  <2> QED BY <2>1, <2>2
<1>3. I!OwnItems(app) = I!FlattenSeq(ss)
  BY DEF I!OwnItems
<1> HIDE DEF own, n
<1>4. ss \in [1..n -> Seq(Placed(P, A))]
  BY <1>1, <1>2
<1>5. /\ I!FlattenSeq(ss) \in Seq(Placed(P, A))
      /\ Range(I!FlattenSeq(ss)) = UNION {Range(ss[k]) : k \in 1..n}
  <2> HIDE DEF ss
  <2> QED BY <1>1, <1>4, FlattenedRange
<1>6. UNION {Range(ss[k]) : k \in 1..n} = OwnOf(app)
  <2>1. \A k \in 1..n : Range(ss[k]) = IF app.ingresses[k].host \in {None, << >>} THEN {}
                             ELSE {[app.ingresses[k] EXCEPT !.host = I!Rewritten(app.ingresses[k].host)]}
    BY <1>1, <1>2
  <2>2. Range(app.ingresses) = {app.ingresses[k] : k \in 1..n}
    BY <1>1 DEF Range
  <2> DEFINE placed(i) == [i EXCEPT !.host = I!Rewritten(i.host)]
             hostless(i) == i.host \in {None, << >>}
  <2>3. \A x : x \in OwnOf(app) <=> \E i \in Range(app.ingresses) : ~hostless(i) /\ x = placed(i)
    BY DEF OwnOf
  <2>4. \A k \in 1..n : \A x : x \in Range(ss[k]) <=>
          ~hostless(app.ingresses[k]) /\ x = placed(app.ingresses[k])
    <3> SUFFICES ASSUME NEW k \in 1..n
                 PROVE  \A x : x \in Range(ss[k]) <=>
                          ~hostless(app.ingresses[k]) /\ x = placed(app.ingresses[k])
      OBVIOUS
    <3>1. CASE hostless(app.ingresses[k])
      <4>1. Range(ss[k]) = {}
        BY <2>1, <3>1
      <4> QED BY <3>1, <4>1
    <3>2. CASE ~hostless(app.ingresses[k])
      <4>1. Range(ss[k]) = {placed(app.ingresses[k])}
        BY <2>1, <3>2
      <4> HIDE DEF placed, hostless, ss
      <4> QED BY <3>2, <4>1
    <3> QED BY <3>1, <3>2
  <2> HIDE DEF ss, placed, hostless
  <2>5. ASSUME NEW k \in 1..n, NEW x \in Range(ss[k]) PROVE x \in OwnOf(app)
    BY <2>2, <2>3, <2>4
  <2>6. ASSUME NEW x \in OwnOf(app) PROVE \E k \in 1..n : x \in Range(ss[k])
    <3>1. PICK i \in Range(app.ingresses) : ~hostless(i) /\ x = placed(i)
      BY <2>3
    <3>2. PICK k \in 1..n : i = app.ingresses[k]
      BY <2>2
    <3> QED BY <2>4, <3>1, <3>2
  <2> QED BY <2>5, <2>6
<1> QED BY <1>3, <1>5, <1>6

\* The paths of the default hosts.
LEMMA SharedPathsRange ==
    ASSUME NEW app, NEW P, NEW A, HasItems(app, P, A)
    PROVE  I!SharedPaths(app) \in Seq(P) /\ Range(I!SharedPaths(app)) = PathsOf(app)
<1> DEFINE paths(item) == IF item.annotations = Nothing THEN item.paths ELSE << >>
           n == Len(app.ingresses)
           ss == [k \in DOMAIN app.ingresses |-> paths(app.ingresses[k])]
<1>1. n \in Nat /\ DOMAIN app.ingresses = 1..n /\ \A k \in 1..n : app.ingresses[k] \in Wanted(P, A)
  BY LenProperties, ElementOfSeq DEF HasItems
<1>2. ASSUME NEW item \in Wanted(P, A)
      PROVE  /\ paths(item) \in Seq(P)
             /\ Range(paths(item)) = IF item.annotations = Nothing THEN Range(item.paths) ELSE {}
  BY EmptySeq DEF Wanted, Range
<1>3. I!SharedPaths(app) = I!Deduplicated(I!FlattenSeq(ss))
  BY DEF I!SharedPaths
<1> HIDE DEF paths, n
<1>4. ss \in [1..n -> Seq(P)]
  BY <1>1, <1>2
<1>5. /\ I!FlattenSeq(ss) \in Seq(P)
      /\ Range(I!FlattenSeq(ss)) = UNION {Range(ss[k]) : k \in 1..n}
  <2> HIDE DEF ss
  <2> QED BY <1>1, <1>4, FlattenedRange
<1>6. UNION {Range(ss[k]) : k \in 1..n} = PathsOf(app)
  <2>1. \A k \in 1..n : Range(ss[k]) = IF app.ingresses[k].annotations = Nothing
                                       THEN Range(app.ingresses[k].paths) ELSE {}
    BY <1>1, <1>2
  <2>2. Range(app.ingresses) = {app.ingresses[k] : k \in 1..n}
    BY <1>1 DEF Range
  <2> HIDE DEF ss
  <2> QED BY <2>1, <2>2 DEF PathsOf
<1> QED BY <1>3, <1>5, <1>6, DeduplicatedRange

DefaultOf(app) ==
    LET paths == IF I!SharedPaths(app) # << >> THEN I!SharedPaths(app)
                 ELSE <<[path |-> "/", port |-> I!NamedHttp(app)[1].port]>>
    IN  {[host |-> <<"app">> \o s, paths |-> paths, annotations |-> Nothing] : s \in Range(IngressSuffixes)}

\* The default items, as a set: one for each suffix (_expand_default_hosts).
LEMMA DefaultItemsRange ==
    ASSUME NEW app, NEW P, NEW A, HasItems(app, P, A)
    PROVE  I!DefaultItems(app) \in Seq(Placed(P, A)) /\ Range(I!DefaultItems(app)) = DefaultOf(app)
<1> DEFINE paths == IF I!SharedPaths(app) # << >> THEN I!SharedPaths(app)
                    ELSE <<[path |-> "/", port |-> I!NamedHttp(app)[1].port]>>
           n == Len(IngressSuffixes)
           f == [k \in DOMAIN IngressSuffixes |->
                   [host |-> <<app.name>> \o IngressSuffixes[k], paths |-> paths,
                    annotations |-> Nothing]]
<1>1. n \in Nat /\ DOMAIN IngressSuffixes = 1..n /\ \A k \in 1..n : IngressSuffixes[k] \in Domains
  BY LenProperties, ElementOfSeq, OperatorAssumption
<1>2. paths \in Seq(P)
  BY SharedPathsRange DEF HasItems
<1>3. I!DefaultItems(app) = f /\ app.name = "app" /\ Nothing \in A
  BY DEF I!DefaultItems, HasItems
<1>4. \A s \in Domains : <<"app">> \o s \in Domains
  BY DEF Domains, Texts
<1> HIDE DEF paths, n
<1>5. \A k \in 1..n : f[k] = [host |-> <<"app">> \o IngressSuffixes[k], paths |-> paths,
                               annotations |-> Nothing]
                        /\ f[k] \in Placed(P, A)
  BY <1>1, <1>2, <1>3, <1>4 DEF Placed
<1>6. f \in [1..n -> Placed(P, A)]
  BY <1>1, <1>5
<1>7. f \in Seq(Placed(P, A)) /\ DOMAIN f = 1..n
  <2> HIDE DEF f
  <2> QED BY <1>1, <1>6, FoldInit!FunctionIsSeq
<1>8. Range(f) = {f[k] : k \in 1..n} /\ Range(IngressSuffixes) = {IngressSuffixes[k] : k \in 1..n}
  BY <1>1, <1>7 DEF Range
<1>9. Range(f) = DefaultOf(app)
  <2>1. DefaultOf(app) = {[host |-> <<"app">> \o s, paths |-> paths, annotations |-> Nothing] :
                            s \in Range(IngressSuffixes)}
    BY DEF DefaultOf, paths
  <2> DEFINE item(x) == [host |-> <<"app">> \o x, paths |-> paths, annotations |-> Nothing]
  <2>2. DefaultOf(app) = {item(x) : x \in Range(IngressSuffixes)}
    BY <2>1
  <2>3. \A k \in 1..n : f[k] = item(IngressSuffixes[k])
    BY <1>5
  <2> HIDE DEF f, item
  <2> QED BY <1>8, <2>2, <2>3
<1> QED BY <1>3, <1>7, <1>9

\* The items are those of the user's, the default ones, and the pairs of these.
Base(app) == I!OwnItems(app) \o I!DefaultItems(app)
LEMMA ItemsRange ==
    ASSUME NEW app, NEW P, NEW A, HasItems(app, P, A)
    PROVE  /\ Base(app) \in Seq(Placed(P, A))
           /\ Range(Base(app)) = OwnOf(app) \union DefaultOf(app)
           /\ I!Items(app) \in Seq(Placed(P, A))
           /\ Range(I!Items(app)) = Range(Base(app)) \union PairsOf(Base(app), Len(Base(app)))
<1> DEFINE base == Base(app)
<1>1. base \in Seq(Placed(P, A))
  BY OwnItemsRange, DefaultItemsRange, ConcatProperties DEF Base
<1>2. Range(base) = OwnOf(app) \union DefaultOf(app)
  BY OwnItemsRange, DefaultItemsRange, RangeConcatenation DEF Base
<1>3. \A x \in Placed(P, A) : x.host \in DOMAIN HostPairs =>
        Paired(x) \in Placed(P, A) /\ Paired(x).host = HostPairs[x.host]
  BY OperatorAssumption DEF Placed, Paired
<1>4. I!Items(app) = I!WithPairs(base)
  BY DEF I!Items, Base
<1> HIDE DEF base
<1>5. /\ I!WithPairs(base) \in Seq(Placed(P, A))
      /\ Range(I!WithPairs(base)) = Range(base) \union PairsOf(base, Len(base))
  BY <1>1, <1>3, PairsRange
<1> QED BY <1>1, <1>2, <1>4, <1>5 DEF base

-----------------------------------------------------------------------------
(* The groups: what _group_ingresses has distributed. *)

GroupSet(app, P, A) ==
    [n : Nat, items : Seq(Placed(P, A)), annotations : A, explicit : BOOLEAN,
     type : {I!IssuerType(h) : h \in Domains} \union {I!DefaultType},
     name : {I!IssuerName(h, app) : h \in Domains} \union {I!DefaultName(app)}]

\* The items of a group have its annotations and its issuer.
OfOneKind(app, g) ==
    \A x \in Range(g.items) :
      x.annotations = g.annotations /\ I!IssuerType(x.host) = g.type /\ I!IssuerName(x.host, app) = g.name

SameIssuer(g, h) == g.type = h.type /\ g.name = h.name

\* The items of a list of groups.
AllItems(groups) == UNION {Range(groups[j].items) : j \in DOMAIN groups}

\* The default group and those with annotations (own) and those of other issuers
\* (shared), in which the items placed so far are.
Distributed(app, P, A, own, shared, placed) ==
    /\ own \in Seq(GroupSet(app, P, A)) /\ shared \in Seq(GroupSet(app, P, A))
    /\ 1 \in DOMAIN own /\ own[1].n = 0 /\ own[1].annotations = Nothing
    /\ own[1].type = I!DefaultType /\ own[1].name = I!DefaultName(app)
    /\ \A j \in DOMAIN own :
         /\ OfOneKind(app, own[j]) /\ own[j].n < Len(own) + Len(shared)
         /\ j # 1 => own[j].annotations # Nothing
    /\ \A k \in DOMAIN shared :
         /\ OfOneKind(app, shared[k]) /\ shared[k].n < Len(own) + Len(shared)
         /\ shared[k].annotations = Nothing /\ ~SameIssuer(shared[k], own[1])
    /\ \A j, k \in DOMAIN own : own[j].n = own[k].n => j = k
    /\ \A j, k \in DOMAIN shared :
         shared[j].n = shared[k].n \/ SameIssuer(shared[j], shared[k]) => j = k
    /\ \A j \in DOMAIN own, k \in DOMAIN shared : own[j].n # shared[k].n
    /\ placed = AllItems(own) \union AllItems(shared)

\* A list with one more element, and one with another element in one place.
LEMMA Appended ==
    ASSUME NEW S, NEW seq \in Seq(S), NEW x \in S
    PROVE  /\ Append(seq, x) \in Seq(S) /\ Len(seq) \in Nat /\ Len(Append(seq, x)) = Len(seq) + 1
           /\ DOMAIN seq = 1..Len(seq) /\ DOMAIN Append(seq, x) = 1..(Len(seq) + 1)
           /\ \A j \in 1..Len(seq) : Append(seq, x)[j] = seq[j]
           /\ Append(seq, x)[Len(seq) + 1] = x
<1>1. Append(seq, x) \in Seq(S) /\ Len(Append(seq, x)) = Len(seq) + 1
  BY AppendProperties
<1>2. DOMAIN seq = 1..Len(seq) /\ Len(seq) \in Nat
  BY LenProperties
<1>3. DOMAIN Append(seq, x) = 1..(Len(seq) + 1)
  BY <1>1, LenProperties
<1> QED BY <1>1, <1>2, <1>3, AppendProperties

\* ... with another group.
LEMMA ItemsOfAppended ==
    ASSUME NEW S, NEW seq \in Seq(S), NEW g \in S
    PROVE  AllItems(Append(seq, g)) = AllItems(seq) \union Range(g.items)
<1> DEFINE n == Len(seq)
           more == Append(seq, g)
<1>1. /\ n \in Nat /\ DOMAIN seq = 1..n /\ DOMAIN more = 1..(n + 1)
      /\ \A j \in 1..n : more[j] = seq[j]
      /\ more[n + 1] = g
  BY Appended
<1> HIDE DEF n, more
<1>2. 1..(n + 1) = 1..n \union {n + 1}
  BY <1>1
<1>3. \A j \in DOMAIN more : Range(more[j].items) \subseteq AllItems(seq) \union Range(g.items)
  BY <1>1, <1>2 DEF AllItems
<1>4. \A j \in DOMAIN seq : Range(seq[j].items) \subseteq AllItems(more)
  BY <1>1, <1>2 DEF AllItems
<1>5. Range(g.items) \subseteq AllItems(more)
  BY <1>1, <1>2 DEF AllItems
<1>6. AllItems(more) = AllItems(seq) \union Range(g.items)
  BY <1>3, <1>4, <1>5 DEF AllItems
<1> QED BY <1>6 DEF more

\* A new group of one item.
IsGroupOfOne(app, P, A, item, n, g) ==
    /\ g \in GroupSet(app, P, A) /\ OfOneKind(app, g) /\ Range(g.items) = {item}
    /\ g.n = n /\ g.annotations = item.annotations
    /\ g.type = I!IssuerType(item.host) /\ g.name = I!IssuerName(item.host, app)

\* A new group is of one kind.
LEMMA GroupOfOne ==
    ASSUME NEW app, NEW P, NEW A, NEW item \in Placed(P, A), NEW n \in Nat, NEW explicit \in BOOLEAN
    PROVE  IsGroupOfOne(app, P, A, item, n,
                        I!Group(app, n, <<item>>, item.annotations, explicit,
                                I!IssuerType(item.host), I!IssuerName(item.host, app)))
<1> DEFINE g == I!Group(app, n, <<item>>, item.annotations, explicit,
                        I!IssuerType(item.host), I!IssuerName(item.host, app))
<1>1. item.host \in Domains /\ item.annotations \in A
  BY DEF Placed
<1>2. <<item>> \in Seq(Placed(P, A))
  OBVIOUS
<1>3. Range(<<item>>) = {item}
  BY DEF Range
<1>4. /\ g.n = n /\ g.items = <<item>> /\ g.annotations = item.annotations
      /\ g.type = I!IssuerType(item.host) /\ g.name = I!IssuerName(item.host, app)
  BY DEF I!Group
<1>5. g \in GroupSet(app, P, A)
  <2>1. I!IssuerType(item.host) \in {I!IssuerType(h) : h \in Domains} \union {I!DefaultType}
    BY <1>1
  <2>2. I!IssuerName(item.host, app) \in {I!IssuerName(h, app) : h \in Domains} \union {I!DefaultName(app)}
    BY <1>1
  <2> QED BY <1>1, <1>2, <2>1, <2>2 DEF I!Group, GroupSet
<1> HIDE DEF g
<1>6. OfOneKind(app, g)
  BY <1>3, <1>4 DEF OfOneKind
<1>7. IsGroupOfOne(app, P, A, item, n, g)
  BY <1>3, <1>4, <1>5, <1>6 DEF IsGroupOfOne
<1> QED BY <1>7 DEF g

\* A group gets another item of its kind.
Joined(app, P, A, seq, k, item, new) ==
    /\ new \in Seq(GroupSet(app, P, A)) /\ Len(new) = Len(seq) /\ DOMAIN new = DOMAIN seq
    /\ \A j \in DOMAIN seq \ {k} : new[j] = seq[j]
    /\ \A j \in DOMAIN seq :
         new[j].n = seq[j].n /\ new[j].annotations = seq[j].annotations
           /\ new[j].type = seq[j].type /\ new[j].name = seq[j].name
    /\ OfOneKind(app, new[k]) /\ AllItems(new) = AllItems(seq) \union {item}

\* An item of a group's kind may join it.
LEMMA AnotherItem ==
    ASSUME NEW app, NEW P, NEW A, NEW item \in Placed(P, A),
           NEW seq \in Seq(GroupSet(app, P, A)), NEW k \in DOMAIN seq, OfOneKind(app, seq[k]),
           item.annotations = seq[k].annotations, I!IssuerType(item.host) = seq[k].type,
           I!IssuerName(item.host, app) = seq[k].name
    PROVE  Joined(app, P, A, seq, k, item, [seq EXCEPT ![k].items = Append(@, item)])
<1> DEFINE new == [seq EXCEPT ![k].items = Append(@, item)]
           g == [seq[k] EXCEPT !.items = Append(@, item)]
<1>1. Len(seq) \in Nat /\ DOMAIN seq = 1..Len(seq) /\ seq[k] \in GroupSet(app, P, A)
  BY LenProperties, ElementOfSeq
<1>2. seq[k].items \in Seq(Placed(P, A))
  BY <1>1 DEF GroupSet
<1>3. Append(seq[k].items, item) \in Seq(Placed(P, A))
        /\ Range(Append(seq[k].items, item)) = Range(seq[k].items) \union {item}
  BY <1>2, AppendRange
<1>4. /\ g \in GroupSet(app, P, A) /\ g.items = Append(seq[k].items, item)
      /\ g.n = seq[k].n /\ g.annotations = seq[k].annotations
      /\ g.type = seq[k].type /\ g.name = seq[k].name
  BY <1>1, <1>3 DEF GroupSet
<1>5. new = [seq EXCEPT ![k] = g]
  OBVIOUS
<1> HIDE DEF g, new
<1>6. /\ new \in Seq(GroupSet(app, P, A)) /\ Len(new) = Len(seq)
      /\ \A j \in 1..Len(seq) : new[j] = IF j = k THEN g ELSE seq[j]
  BY <1>1, <1>4, <1>5, ExceptSeq
<1>7. DOMAIN new = DOMAIN seq
  BY <1>1, <1>6, LenProperties
<1>8. OfOneKind(app, g)
  BY <1>3, <1>4 DEF OfOneKind
<1>9. new[k] = g /\ \A j \in DOMAIN seq \ {k} : new[j] = seq[j]
  BY <1>1, <1>6
<1>10. AllItems(new) = AllItems(seq) \union {item}
  <2>1. Range(new[k].items) = Range(seq[k].items) \union {item}
    BY <1>3, <1>4, <1>9
  <2>2. \A j \in DOMAIN new : Range(new[j].items) \subseteq AllItems(seq) \union {item}
    BY <1>7, <1>9, <2>1 DEF AllItems
  <2>3. \A j \in DOMAIN seq : Range(seq[j].items) \subseteq AllItems(new)
    BY <1>7, <1>9, <2>1 DEF AllItems
  <2>4. item \in AllItems(new)
    BY <1>7, <2>1 DEF AllItems
  <2> QED BY <2>2, <2>3, <2>4 DEF AllItems
<1>11. \A j \in DOMAIN seq :
         new[j].n = seq[j].n /\ new[j].annotations = seq[j].annotations
           /\ new[j].type = seq[j].type /\ new[j].name = seq[j].name
  BY <1>4, <1>9
<1>12. Joined(app, P, A, seq, k, item, new)
  BY <1>6, <1>7, <1>8, <1>9, <1>10, <1>11 DEF Joined
<1> QED BY <1>12 DEF new

\* An item with annotations has an Ingress of its own.
LEMMA DistributeOwn ==
    ASSUME NEW app, NEW P, NEW A, NEW own, NEW shared, NEW placed,
           Distributed(app, P, A, own, shared, placed),
           NEW g \in GroupSet(app, P, A), OfOneKind(app, g), NEW item, Range(g.items) = {item},
           g.n = Len(own) + Len(shared), g.annotations # Nothing
    PROVE  Distributed(app, P, A, Append(own, g), shared, placed \union {item})
<1> DEFINE new == Append(own, g)
           n == Len(own)
           m == Len(shared)
<1>1. own \in Seq(GroupSet(app, P, A)) /\ shared \in Seq(GroupSet(app, P, A)) /\ 1 \in DOMAIN own
  BY DEF Distributed
<1>2. /\ n \in Nat /\ DOMAIN own = 1..n /\ DOMAIN new = 1..(n + 1) /\ Len(new) = n + 1
      /\ new \in Seq(GroupSet(app, P, A))
      /\ \A j \in 1..n : new[j] = own[j]
      /\ new[n + 1] = g
  BY <1>1, Appended
<1>3. m \in Nat /\ DOMAIN shared = 1..m
  BY <1>1, LenProperties
<1>4. \A j \in DOMAIN own : own[j].n \in Nat
  <2>1. \A j \in DOMAIN own : own[j] \in GroupSet(app, P, A)
    BY <1>1, <1>2, ElementOfSeq
  <2> QED BY <2>1 DEF GroupSet
<1>5. \A j \in DOMAIN shared : shared[j].n \in Nat
  <2>1. \A j \in DOMAIN shared : shared[j] \in GroupSet(app, P, A)
    BY <1>1, <1>3, ElementOfSeq
  <2> QED BY <2>1 DEF GroupSet
<1>6. AllItems(new) = AllItems(own) \union {item}
  BY <1>1, ItemsOfAppended
<1> HIDE DEF new, n, m
<1>7. 1 \in DOMAIN new /\ new[1] = own[1]
  BY <1>1, <1>2
<1>8. \A j \in DOMAIN new :
        /\ OfOneKind(app, new[j]) /\ new[j].n < Len(new) + Len(shared)
        /\ j # 1 => new[j].annotations # Nothing
  <2>1. ASSUME NEW j \in 1..n
        PROVE  /\ OfOneKind(app, new[j]) /\ new[j].n < n + 1 + m
               /\ j # 1 => new[j].annotations # Nothing
    <3>1. OfOneKind(app, own[j]) /\ own[j].n < n + m /\ (j # 1 => own[j].annotations # Nothing)
      BY <1>2 DEF Distributed, n, m
    <3> QED BY <1>2, <1>3, <1>4, <3>1
  <2>2. g.n < n + 1 + m
    BY <1>2, <1>3 DEF n, m
  <2>3. 1..(n + 1) = 1..n \union {n + 1}
    BY <1>2
  <2> QED BY <1>2, <2>1, <2>2, <2>3 DEF m
<1>9. \A k \in DOMAIN shared :
        /\ OfOneKind(app, shared[k]) /\ shared[k].n < Len(new) + Len(shared)
        /\ shared[k].annotations = Nothing /\ ~SameIssuer(shared[k], new[1])
  <2> SUFFICES ASSUME NEW k \in DOMAIN shared
               PROVE  /\ OfOneKind(app, shared[k]) /\ shared[k].n < n + 1 + m
                      /\ shared[k].annotations = Nothing /\ ~SameIssuer(shared[k], new[1])
    BY <1>2 DEF m
  <2>1. /\ OfOneKind(app, shared[k]) /\ shared[k].n < n + m
        /\ shared[k].annotations = Nothing /\ ~SameIssuer(shared[k], own[1])
    BY DEF Distributed, n, m
  <2>2. shared[k].n < n + 1 + m
    BY <1>2, <1>3, <1>5, <2>1
  <2> QED BY <1>7, <2>1, <2>2
<1>10. \A j, k \in DOMAIN new : new[j].n = new[k].n => j = k
  <2>1. \A j \in 1..n : own[j].n < n + m
    BY <1>2 DEF Distributed, n, m
  <2>2. \A j, k \in 1..n : own[j].n = own[k].n => j = k
    BY <1>2 DEF Distributed
  <2>3. g.n = n + m
    BY DEF n, m
  <2> QED BY <1>2, <1>3, <1>4, <2>1, <2>2, <2>3
<1>11. \A j \in DOMAIN new, k \in DOMAIN shared : new[j].n # shared[k].n
  <2>1. \A k \in DOMAIN shared : shared[k].n < n + m
    BY DEF Distributed, n, m
  <2>2. \A j \in 1..n, k \in DOMAIN shared : own[j].n # shared[k].n
    BY <1>2 DEF Distributed
  <2>3. g.n = n + m
    BY DEF n, m
  <2> QED BY <1>2, <1>3, <1>5, <2>1, <2>2, <2>3
<1>12. /\ new[1].n = 0 /\ new[1].annotations = Nothing
       /\ new[1].type = I!DefaultType /\ new[1].name = I!DefaultName(app)
       /\ \A j, k \in DOMAIN shared :
            shared[j].n = shared[k].n \/ SameIssuer(shared[j], shared[k]) => j = k
       /\ placed = AllItems(own) \union AllItems(shared)
  BY <1>7 DEF Distributed
<1>13. placed \union {item} = AllItems(new) \union AllItems(shared)
  BY <1>6, <1>12
<1>14. Distributed(app, P, A, new, shared, placed \union {item})
  BY <1>1, <1>2, <1>7, <1>8, <1>9, <1>10, <1>11, <1>12, <1>13 DEF Distributed
<1> QED BY <1>14 DEF new

\* An item of another issuer than any before has an Ingress for that one.
LEMMA DistributeShared ==
    ASSUME NEW app, NEW P, NEW A, NEW own, NEW shared, NEW placed,
           Distributed(app, P, A, own, shared, placed),
           NEW g \in GroupSet(app, P, A), OfOneKind(app, g), NEW item, Range(g.items) = {item},
           g.n = Len(own) + Len(shared), g.annotations = Nothing,
           ~SameIssuer(g, own[1]), \A k \in DOMAIN shared : ~SameIssuer(shared[k], g)
    PROVE  Distributed(app, P, A, own, Append(shared, g), placed \union {item})
<1> DEFINE new == Append(shared, g)
           n == Len(own)
           m == Len(shared)
<1>1. own \in Seq(GroupSet(app, P, A)) /\ shared \in Seq(GroupSet(app, P, A)) /\ 1 \in DOMAIN own
  BY DEF Distributed
<1>2. /\ m \in Nat /\ DOMAIN shared = 1..m /\ DOMAIN new = 1..(m + 1) /\ Len(new) = m + 1
      /\ new \in Seq(GroupSet(app, P, A))
      /\ \A j \in 1..m : new[j] = shared[j]
      /\ new[m + 1] = g
  BY <1>1, Appended
<1>3. n \in Nat /\ DOMAIN own = 1..n
  BY <1>1, LenProperties
<1>4. \A j \in DOMAIN own : own[j].n \in Nat
  <2>1. \A j \in DOMAIN own : own[j] \in GroupSet(app, P, A)
    BY <1>1, <1>3, ElementOfSeq
  <2> QED BY <2>1 DEF GroupSet
<1>5. \A j \in DOMAIN shared : shared[j].n \in Nat
  <2>1. \A j \in DOMAIN shared : shared[j] \in GroupSet(app, P, A)
    BY <1>1, <1>2, ElementOfSeq
  <2> QED BY <2>1 DEF GroupSet
<1>6. AllItems(new) = AllItems(shared) \union {item}
  BY <1>1, ItemsOfAppended
<1> HIDE DEF new, n, m
<1>7. \A j \in DOMAIN own :
        /\ OfOneKind(app, own[j]) /\ own[j].n < Len(own) + Len(new)
        /\ j # 1 => own[j].annotations # Nothing
  <2> SUFFICES ASSUME NEW j \in DOMAIN own
               PROVE  /\ OfOneKind(app, own[j]) /\ own[j].n < n + (m + 1)
                      /\ j # 1 => own[j].annotations # Nothing
    BY <1>2 DEF n
  <2>1. OfOneKind(app, own[j]) /\ own[j].n < n + m /\ (j # 1 => own[j].annotations # Nothing)
    BY DEF Distributed, n, m
  <2> QED BY <1>2, <1>3, <1>4, <2>1
<1>8. \A k \in DOMAIN new :
        /\ OfOneKind(app, new[k]) /\ new[k].n < Len(own) + Len(new)
        /\ new[k].annotations = Nothing /\ ~SameIssuer(new[k], own[1])
  <2>1. ASSUME NEW k \in 1..m
        PROVE  /\ OfOneKind(app, new[k]) /\ new[k].n < n + (m + 1)
               /\ new[k].annotations = Nothing /\ ~SameIssuer(new[k], own[1])
    <3>1. /\ OfOneKind(app, shared[k]) /\ shared[k].n < n + m
          /\ shared[k].annotations = Nothing /\ ~SameIssuer(shared[k], own[1])
      BY <1>2 DEF Distributed, n, m
    <3>2. shared[k].n < n + (m + 1)
      BY <1>2, <1>3, <1>5, <3>1
    <3> QED BY <1>2, <3>1, <3>2
  <2>2. g.n < n + (m + 1)
    BY <1>2, <1>3 DEF n, m
  <2>3. 1..(m + 1) = 1..m \union {m + 1}
    BY <1>2
  <2> QED BY <1>2, <2>1, <2>2, <2>3 DEF n
<1>9. ASSUME NEW j \in DOMAIN new, NEW k \in DOMAIN new, new[j].n = new[k].n PROVE j = k
  <2>1. \A i \in 1..m : shared[i].n < n + m
    BY <1>2 DEF Distributed, n, m
  <2>2. \A h, i \in 1..m : shared[h].n = shared[i].n => h = i
    BY <1>2 DEF Distributed
  <2>3. g.n = n + m
    BY DEF n, m
  <2> QED BY <1>2, <1>3, <1>5, <1>9, <2>1, <2>2, <2>3
<1>10. ASSUME NEW j \in DOMAIN new, NEW k \in DOMAIN new, SameIssuer(new[j], new[k]) PROVE j = k
  <2>1. \A h, i \in 1..m : SameIssuer(shared[h], shared[i]) => h = i
    BY <1>2 DEF Distributed
  <2>2. \A i \in 1..m : ~SameIssuer(shared[i], g) /\ ~SameIssuer(g, shared[i])
    BY <1>2 DEF SameIssuer
  <2>3. (j \in 1..m \/ j = m + 1) /\ (k \in 1..m \/ k = m + 1)
    BY <1>2
  <2> QED BY <1>2, <1>10, <2>1, <2>2, <2>3
<1>11. \A j \in DOMAIN own, k \in DOMAIN new : own[j].n # new[k].n
  <2>1. \A j \in DOMAIN own : own[j].n < n + m
    BY DEF Distributed, n, m
  <2>2. \A j \in DOMAIN own, k \in 1..m : own[j].n # shared[k].n
    BY <1>2 DEF Distributed
  <2>3. g.n = n + m
    BY DEF n, m
  <2> QED BY <1>2, <1>3, <1>4, <2>1, <2>2, <2>3
<1>12. /\ own[1].n = 0 /\ own[1].annotations = Nothing
       /\ own[1].type = I!DefaultType /\ own[1].name = I!DefaultName(app)
       /\ \A j, k \in DOMAIN own : own[j].n = own[k].n => j = k
       /\ placed = AllItems(own) \union AllItems(shared)
  BY DEF Distributed
<1>13. placed \union {item} = AllItems(own) \union AllItems(new)
  BY <1>6, <1>12
<1>14. Distributed(app, P, A, own, new, placed \union {item})
  BY <1>1, <1>2, <1>7, <1>8, <1>9, <1>10, <1>11, <1>12, <1>13 DEF Distributed
<1> QED BY <1>14 DEF new

\* An item joins an Ingress of the first list ...
LEMMA JoinOwn ==
    ASSUME NEW app, NEW P, NEW A, NEW own, NEW shared, NEW placed,
           Distributed(app, P, A, own, shared, placed),
           NEW new \in Seq(GroupSet(app, P, A)), Len(new) = Len(own), DOMAIN new = DOMAIN own,
           \A j \in DOMAIN own :
             new[j].n = own[j].n /\ new[j].annotations = own[j].annotations
               /\ new[j].type = own[j].type /\ new[j].name = own[j].name
               /\ OfOneKind(app, new[j]),
           NEW item, AllItems(new) = AllItems(own) \union {item}
    PROVE  Distributed(app, P, A, new, shared, placed \union {item})
<1>1. /\ shared \in Seq(GroupSet(app, P, A)) /\ 1 \in DOMAIN own
      /\ own[1].n = 0 /\ own[1].annotations = Nothing
      /\ own[1].type = I!DefaultType /\ own[1].name = I!DefaultName(app)
      /\ \A j \in DOMAIN own :
           own[j].n < Len(own) + Len(shared) /\ (j # 1 => own[j].annotations # Nothing)
      /\ \A j, k \in DOMAIN own : own[j].n = own[k].n => j = k
  BY DEF Distributed
<1>2. /\ \A k \in DOMAIN shared :
           /\ OfOneKind(app, shared[k]) /\ shared[k].n < Len(own) + Len(shared)
           /\ shared[k].annotations = Nothing /\ ~SameIssuer(shared[k], own[1])
      /\ \A j, k \in DOMAIN shared :
           shared[j].n = shared[k].n \/ SameIssuer(shared[j], shared[k]) => j = k
      /\ \A j \in DOMAIN own, k \in DOMAIN shared : own[j].n # shared[k].n
      /\ placed = AllItems(own) \union AllItems(shared)
  BY DEF Distributed
<1>3. \A k \in DOMAIN shared :
        /\ OfOneKind(app, shared[k]) /\ shared[k].n < Len(new) + Len(shared)
        /\ shared[k].annotations = Nothing /\ ~SameIssuer(shared[k], new[1])
  BY <1>1, <1>2 DEF SameIssuer
<1>4. placed \union {item} = AllItems(new) \union AllItems(shared)
  BY <1>2
<1>5. \A j \in DOMAIN new :
        /\ OfOneKind(app, new[j]) /\ new[j].n < Len(new) + Len(shared)
        /\ j # 1 => new[j].annotations # Nothing
  BY <1>1
<1>6. /\ 1 \in DOMAIN new /\ new[1].n = 0 /\ new[1].annotations = Nothing
      /\ new[1].type = I!DefaultType /\ new[1].name = I!DefaultName(app)
      /\ \A j, k \in DOMAIN new : new[j].n = new[k].n => j = k
      /\ \A j \in DOMAIN new, k \in DOMAIN shared : new[j].n # shared[k].n
  BY <1>1, <1>2
<1> QED BY <1>1, <1>2, <1>3, <1>4, <1>5, <1>6 DEF Distributed

\* ... or of the second.
LEMMA JoinShared ==
    ASSUME NEW app, NEW P, NEW A, NEW own, NEW shared, NEW placed,
           Distributed(app, P, A, own, shared, placed),
           NEW new \in Seq(GroupSet(app, P, A)), Len(new) = Len(shared), DOMAIN new = DOMAIN shared,
           \A k \in DOMAIN shared :
             new[k].n = shared[k].n /\ new[k].annotations = shared[k].annotations
               /\ new[k].type = shared[k].type /\ new[k].name = shared[k].name
               /\ OfOneKind(app, new[k]),
           NEW item, AllItems(new) = AllItems(shared) \union {item}
    PROVE  Distributed(app, P, A, own, new, placed \union {item})
<1>1. /\ own \in Seq(GroupSet(app, P, A)) /\ 1 \in DOMAIN own
      /\ own[1].n = 0 /\ own[1].annotations = Nothing
      /\ own[1].type = I!DefaultType /\ own[1].name = I!DefaultName(app)
      /\ \A j \in DOMAIN own :
           /\ OfOneKind(app, own[j]) /\ own[j].n < Len(own) + Len(new)
           /\ j # 1 => own[j].annotations # Nothing
      /\ \A j, k \in DOMAIN own : own[j].n = own[k].n => j = k
  BY DEF Distributed
<1>2. /\ \A k \in DOMAIN shared :
           /\ shared[k].n < Len(own) + Len(new)
           /\ shared[k].annotations = Nothing /\ ~SameIssuer(shared[k], own[1])
      /\ \A j, k \in DOMAIN shared :
           shared[j].n = shared[k].n \/ SameIssuer(shared[j], shared[k]) => j = k
      /\ \A j \in DOMAIN own, k \in DOMAIN shared : own[j].n # shared[k].n
      /\ placed = AllItems(own) \union AllItems(shared)
  BY DEF Distributed
<1>3. \A k \in DOMAIN new :
        /\ OfOneKind(app, new[k]) /\ new[k].n < Len(own) + Len(new)
        /\ new[k].annotations = Nothing /\ ~SameIssuer(new[k], own[1])
  BY <1>1, <1>2 DEF SameIssuer
<1>4. \A j, k \in DOMAIN new : new[j].n = new[k].n \/ SameIssuer(new[j], new[k]) => j = k
  BY <1>2 DEF SameIssuer
<1>5. placed \union {item} = AllItems(own) \union AllItems(new)
  BY <1>2
<1> QED BY <1>1, <1>2, <1>3, <1>4, <1>5 DEF Distributed

Put(app, acc, item) == I!Place(app, acc, item)
FoldPlaces == INSTANCE SequenceLemmas WITH Op <- Put

Accs(app, P, A) == [own : Seq(GroupSet(app, P, A)), shared : Seq(GroupSet(app, P, A))]

\* Every item is placed, in one of the four ways.
LEMMA PlaceDistributes ==
    ASSUME NEW app, NEW P, NEW A, NEW acc \in Accs(app, P, A), NEW placed,
           Distributed(app, P, A, acc.own, acc.shared, placed), NEW item \in Placed(P, A)
    PROVE  /\ Put(app, acc, item) \in Accs(app, P, A)
           /\ Distributed(app, P, A, Put(app, acc, item).own, Put(app, acc, item).shared,
                          placed \union {item})
<1> DEFINE type == I!IssuerType(item.host)
           name == I!IssuerName(item.host, app)
           n == Len(acc.own) + Len(acc.shared)
           same == {k \in DOMAIN acc.shared :
                      acc.shared[k].type = type /\ acc.shared[k].name = name}
           next == Put(app, acc, item)
           group(explicit) == I!Group(app, n, <<item>>, item.annotations, explicit, type, name)
<1>1. /\ acc.own \in Seq(GroupSet(app, P, A)) /\ acc.shared \in Seq(GroupSet(app, P, A))
      /\ acc = [own |-> acc.own, shared |-> acc.shared]
  BY DEF Accs
<1>2. n \in Nat
  BY <1>1, LenProperties
<1>3. I!HasExplicitHost(app) \in BOOLEAN
  BY DEF I!HasExplicitHost
<1>4. ASSUME NEW explicit \in BOOLEAN
      PROVE  IsGroupOfOne(app, P, A, item, n, group(explicit))
  <2> HIDE DEF n
  <2> QED BY <1>2, GroupOfOne
<1>5. CASE item.annotations # Nothing
  <2> DEFINE g == group(TRUE)
  <2>1. next = [acc EXCEPT !.own = Append(@, g)]
    BY <1>5 DEF Put, I!Place
  <2>2. /\ g \in GroupSet(app, P, A) /\ OfOneKind(app, g)
        /\ Range(g.items) = {item} /\ g.n = n /\ g.annotations # Nothing
    <3> HIDE DEF n, group
    <3> QED BY <1>4, <1>5 DEF IsGroupOfOne
  <2> HIDE DEF g, next
  <2>3. next.own = Append(acc.own, g) /\ next.shared = acc.shared
          /\ next = [own |-> next.own, shared |-> next.shared]
    BY <1>1, <2>1
  <2>4. Append(acc.own, g) \in Seq(GroupSet(app, P, A))
    BY <1>1, <2>2, Appended
  <2>5. Distributed(app, P, A, Append(acc.own, g), acc.shared, placed \union {item})
    BY <2>2, DistributeOwn
  <2>6. next \in Accs(app, P, A)
    BY <1>1, <2>3, <2>4 DEF Accs
  <2>7. Distributed(app, P, A, next.own, next.shared, placed \union {item})
    BY <2>3, <2>5
  <2> QED BY <2>6, <2>7 DEF next
<1>6. CASE item.annotations = Nothing /\ <<type, name>> = <<I!DefaultType, I!DefaultName(app)>>
  <2> DEFINE new == [acc.own EXCEPT ![1].items = Append(@, item)]
  <2>1. next = [acc EXCEPT !.own[1].items = Append(@, item)]
    BY <1>6 DEF Put, I!Place
  <2>2. next.own = new /\ next.shared = acc.shared
          /\ next = [own |-> next.own, shared |-> next.shared]
    BY <1>1, <2>1
  <2>3. /\ 1 \in DOMAIN acc.own /\ OfOneKind(app, acc.own[1])
        /\ \A j \in DOMAIN acc.own : OfOneKind(app, acc.own[j])
        /\ item.annotations = acc.own[1].annotations
        /\ I!IssuerType(item.host) = acc.own[1].type /\ I!IssuerName(item.host, app) = acc.own[1].name
    BY <1>6 DEF Distributed
  <2>4. /\ new \in Seq(GroupSet(app, P, A)) /\ Len(new) = Len(acc.own) /\ DOMAIN new = DOMAIN acc.own
        /\ \A j \in DOMAIN acc.own \ {1} : new[j] = acc.own[j]
        /\ \A j \in DOMAIN acc.own :
             new[j].n = acc.own[j].n /\ new[j].annotations = acc.own[j].annotations
               /\ new[j].type = acc.own[j].type /\ new[j].name = acc.own[j].name
        /\ OfOneKind(app, new[1]) /\ AllItems(new) = AllItems(acc.own) \union {item}
    <3>1. Joined(app, P, A, acc.own, 1, item, new)
      BY <1>1, <2>3, AnotherItem
    <3> HIDE DEF new
    <3> QED BY <3>1 DEF Joined
  <2> HIDE DEF new, next
  <2>5. \A j \in DOMAIN acc.own : OfOneKind(app, new[j])
    BY <2>3, <2>4
  <2>6. Distributed(app, P, A, new, acc.shared, placed \union {item})
    BY <2>4, <2>5, JoinOwn
  <2>7. next \in Accs(app, P, A)
    BY <1>1, <2>2, <2>4 DEF Accs
  <2>8. Distributed(app, P, A, next.own, next.shared, placed \union {item})
    BY <2>2, <2>6
  <2> QED BY <2>7, <2>8 DEF next
<1>7. CASE /\ item.annotations = Nothing /\ <<type, name>> # <<I!DefaultType, I!DefaultName(app)>>
           /\ same # {}
  <2> DEFINE k == CHOOSE k \in same : TRUE
             new == [acc.shared EXCEPT ![k].items = Append(@, item)]
  <2>1. next = [acc EXCEPT !.shared[k].items = Append(@, item)]
    BY <1>7 DEF Put, I!Place
  <2>2. k \in same
    BY <1>7
  <2> HIDE DEF k
  <2>3. next.own = acc.own /\ next.shared = new
          /\ next = [own |-> next.own, shared |-> next.shared]
    BY <1>1, <2>1
  <2>4. /\ k \in DOMAIN acc.shared /\ OfOneKind(app, acc.shared[k])
        /\ \A j \in DOMAIN acc.shared : OfOneKind(app, acc.shared[j])
        /\ item.annotations = acc.shared[k].annotations
        /\ I!IssuerType(item.host) = acc.shared[k].type
        /\ I!IssuerName(item.host, app) = acc.shared[k].name
    BY <1>7, <2>2 DEF Distributed
  <2>5. /\ new \in Seq(GroupSet(app, P, A)) /\ Len(new) = Len(acc.shared)
        /\ DOMAIN new = DOMAIN acc.shared
        /\ \A j \in DOMAIN acc.shared \ {k} : new[j] = acc.shared[j]
        /\ \A j \in DOMAIN acc.shared :
             new[j].n = acc.shared[j].n /\ new[j].annotations = acc.shared[j].annotations
               /\ new[j].type = acc.shared[j].type /\ new[j].name = acc.shared[j].name
        /\ OfOneKind(app, new[k]) /\ AllItems(new) = AllItems(acc.shared) \union {item}
    <3>1. Joined(app, P, A, acc.shared, k, item, new)
      BY <1>1, <2>4, AnotherItem
    <3> HIDE DEF new
    <3> QED BY <3>1 DEF Joined
  <2> HIDE DEF new, next
  <2>6. \A j \in DOMAIN acc.shared : OfOneKind(app, new[j])
    BY <2>4, <2>5
  <2>7. Distributed(app, P, A, acc.own, new, placed \union {item})
    BY <2>5, <2>6, JoinShared
  <2>8. next \in Accs(app, P, A)
    BY <1>1, <2>3, <2>5 DEF Accs
  <2>9. Distributed(app, P, A, next.own, next.shared, placed \union {item})
    BY <2>3, <2>7
  <2> QED BY <2>8, <2>9 DEF next
<1>8. CASE /\ item.annotations = Nothing /\ <<type, name>> # <<I!DefaultType, I!DefaultName(app)>>
           /\ same = {}
  <2> DEFINE g == group(I!HasExplicitHost(app))
  <2>1. next = [acc EXCEPT !.shared = Append(@, g)]
    BY <1>8 DEF Put, I!Place
  <2>2. /\ g \in GroupSet(app, P, A) /\ OfOneKind(app, g)
        /\ Range(g.items) = {item} /\ g.n = n /\ g.annotations = Nothing
        /\ g.type = type /\ g.name = name
    <3> HIDE DEF n, group
    <3> QED BY <1>3, <1>4, <1>8 DEF IsGroupOfOne
  <2> HIDE DEF g, next
  <2>3. next.own = acc.own /\ next.shared = Append(acc.shared, g)
          /\ next = [own |-> next.own, shared |-> next.shared]
    BY <1>1, <2>1
  <2>4. Append(acc.shared, g) \in Seq(GroupSet(app, P, A))
    BY <1>1, <2>2, Appended
  <2>5. acc.own[1].type = I!DefaultType /\ acc.own[1].name = I!DefaultName(app)
    BY DEF Distributed
  <2>6. ~SameIssuer(g, acc.own[1])
    BY <1>8, <2>2, <2>5 DEF SameIssuer
  <2>7. \A k \in DOMAIN acc.shared : ~SameIssuer(acc.shared[k], g)
    BY <1>8, <2>2 DEF SameIssuer
  <2>8. Distributed(app, P, A, acc.own, Append(acc.shared, g), placed \union {item})
    BY <2>2, <2>6, <2>7, DistributeShared
  <2>9. next \in Accs(app, P, A)
    BY <1>1, <2>3, <2>4 DEF Accs
  <2>10. Distributed(app, P, A, next.own, next.shared, placed \union {item})
    BY <2>3, <2>8
  <2> QED BY <2>9, <2>10 DEF next
<1> QED BY <1>5, <1>6, <1>7, <1>8

\* _group_ingresses distributes all of the items.
LEMMA AllDistributed ==
    ASSUME NEW app, NEW P, NEW A, HasItems(app, P, A)
    PROVE  \E own, shared :
             /\ I!GroupIngresses(app) = own \o shared
             /\ Distributed(app, P, A, own, shared, Range(I!Items(app)))
<1> DEFINE items == I!Items(app)
           n == Len(items)
           default == I!Group(app, 0, << >>, Nothing, I!HasExplicitHost(app),
                              I!DefaultType, I!DefaultName(app))
           base == [own |-> <<default>>, shared |-> << >>]
           Seen(k) == {items[j] : j \in 1..k}
           J == [k \in 0..n |-> {acc \in Accs(app, P, A) :
                                   Distributed(app, P, A, acc.own, acc.shared, Seen(k))}]
<1>1. /\ items \in Seq(Placed(P, A)) /\ n \in Nat /\ DOMAIN items = 1..n
      /\ \A k \in 1..n : items[k] \in Placed(P, A)
  BY ItemsRange, LenProperties, ElementOfSeq
<1> HIDE DEF items, n
<1>2. I!GroupIngresses(app) = FoldPlaces!Fold(app, base, items).own \o FoldPlaces!Fold(app, base, items).shared
  BY DEF I!GroupIngresses, FoldPlaces!Fold, Put, I!FoldLeft, FoldPlaces!FoldLeft,
         I!MapThenFoldSet, FoldPlaces!MapThenFoldSet, I!Max, FoldPlaces!Max, items
<1>3. base \in J[0]
  <2>1. /\ default.n = 0 /\ default.items = << >> /\ default.annotations = Nothing
        /\ default.type = I!DefaultType /\ default.name = I!DefaultName(app)
    BY DEF I!Group
  <2>2. default \in GroupSet(app, P, A)
    <3>1. << >> \in Seq(Placed(P, A)) /\ Nothing \in A /\ I!HasExplicitHost(app) \in BOOLEAN
      BY EmptySeq DEF HasItems, I!HasExplicitHost
    <3> QED BY <3>1 DEF I!Group, GroupSet
  <2> HIDE DEF default
  <2>3. Range(default.items) = {}
    BY <2>1 DEF Range
  <2>4. OfOneKind(app, default)
    BY <2>3 DEF OfOneKind
  <2> DEFINE own == <<default>>
  <2>5. /\ own \in Seq(GroupSet(app, P, A)) /\ Len(own) = 1 /\ DOMAIN own = {1} /\ own[1] = default
    BY <2>2
  <2>6. << >> \in Seq(GroupSet(app, P, A)) /\ Len(<< >>) = 0 /\ DOMAIN << >> = {}
    BY EmptySeq
  <2>7. AllItems(own) = {} /\ AllItems(<< >>) = {} /\ Seen(0) = {}
    BY <2>3, <2>5, <2>6 DEF AllItems
  <2> HIDE DEF own, Seen
  <2>8. Distributed(app, P, A, own, << >>, Seen(0))
    <3>1. /\ 1 \in DOMAIN own /\ own[1].n = 0 /\ own[1].annotations = Nothing
          /\ own[1].type = I!DefaultType /\ own[1].name = I!DefaultName(app)
      BY <2>1, <2>5
    <3>2. \A j \in DOMAIN own :
            /\ OfOneKind(app, own[j]) /\ own[j].n < Len(own) + Len(<< >>)
            /\ j # 1 => own[j].annotations # Nothing
      BY <2>1, <2>4, <2>5, <2>6
    <3>3. \A j, k \in DOMAIN own : own[j].n = own[k].n => j = k
      BY <2>5
    <3>4. Seen(0) = AllItems(own) \union AllItems(<< >>)
      BY <2>7
    <3> QED BY <2>5, <2>6, <3>1, <3>2, <3>3, <3>4 DEF Distributed
  <2>9. base = [own |-> own, shared |-> << >>]
    BY DEF own
  <2>10. base \in Accs(app, P, A) /\ base.own = own /\ base.shared = << >>
    BY <2>5, <2>6, <2>9 DEF Accs
  <2> HIDE DEF base
  <2> QED BY <1>1, <2>8, <2>10
<1>4. ASSUME NEW k \in 1..n, NEW acc \in J[k - 1]
      PROVE  Put(app, acc, items[k]) \in J[k]
  <2> HIDE DEF Seen
  <2>1. /\ acc \in Accs(app, P, A) /\ k \in 0..n
        /\ Distributed(app, P, A, acc.own, acc.shared, Seen(k - 1))
    BY <1>1
  <2>2. Seen(k) = Seen(k - 1) \union {items[k]}
    <3>1. 1..k = 1..(k - 1) \union {k}
      BY <1>1
    <3> QED BY <3>1 DEF Seen
  <2>3. /\ Put(app, acc, items[k]) \in Accs(app, P, A)
        /\ Distributed(app, P, A, Put(app, acc, items[k]).own, Put(app, acc, items[k]).shared,
                       Seen(k - 1) \union {items[k]})
    <3> HIDE DEF J
    <3>1. items[k] \in Placed(P, A)
      BY <1>1
    <3> QED BY <2>1, <3>1, PlaceDistributes
  <2> QED BY <2>1, <2>2, <2>3
<1>5. FoldPlaces!Fold(app, base, items) \in J[n]
  <2> HIDE DEF J, base
  <2> QED BY <1>1, <1>3, <1>4, FoldPlaces!FoldInvariant
<1> DEFINE acc == FoldPlaces!Fold(app, base, items)
<1> HIDE DEF Seen, base
<1>6. Distributed(app, P, A, acc.own, acc.shared, Seen(n))
  <2>1. J[n] = {a \in Accs(app, P, A) : Distributed(app, P, A, a.own, a.shared, Seen(n))}
    BY <1>1
  <2> HIDE DEF J, acc
  <2>2. acc \in J[n]
    BY <1>5 DEF acc
  <2> QED BY <2>1, <2>2
<1>7. Seen(n) = Range(items)
  BY <1>1 DEF Seen, Range
<1> QED BY <1>2, <1>6, <1>7 DEF items

\* The groups of an application: each of one kind, no two of one name, no two without
\* annotations of one issuer.
LEMMA GroupsAreDistinct ==
    ASSUME NEW app, NEW P, NEW A, HasItems(app, P, A)
    PROVE  /\ I!GroupIngresses(app) \in Seq(GroupSet(app, P, A))
           /\ AllItems(I!GroupIngresses(app)) = Range(I!Items(app))
           /\ \A g \in Range(I!GroupIngresses(app)) : OfOneKind(app, g)
           /\ \A g, h \in Range(I!GroupIngresses(app)) : g # h =>
                /\ g.n # h.n
                /\ ~(g.annotations = Nothing /\ h.annotations = Nothing /\ SameIssuer(g, h))
<1> DEFINE groups == I!GroupIngresses(app)
<1>1. PICK own, shared : groups = own \o shared
                          /\ Distributed(app, P, A, own, shared, Range(I!Items(app)))
  BY AllDistributed
<1> HIDE DEF groups
<1>2. own \in Seq(GroupSet(app, P, A)) /\ shared \in Seq(GroupSet(app, P, A))
  BY <1>1 DEF Distributed
<1>3. groups \in Seq(GroupSet(app, P, A)) /\ Range(groups) = Range(own) \union Range(shared)
  BY <1>1, <1>2, ConcatProperties, RangeConcatenation
<1>4. AllItems(groups) = Range(I!Items(app))
  <2>1. \A s : AllItems(s) = UNION {Range(g.items) : g \in Range(s)}
    BY DEF AllItems, Range
  <2>2. Range(I!Items(app)) = AllItems(own) \union AllItems(shared)
    BY <1>1 DEF Distributed
  <2> QED BY <1>3, <2>1, <2>2
<1>5. \A g \in Range(groups) : OfOneKind(app, g)
  BY <1>1, <1>3 DEF Distributed, Range
<1>6. ASSUME NEW g \in Range(groups), NEW h \in Range(groups), g # h
      PROVE  /\ g.n # h.n
             /\ ~(g.annotations = Nothing /\ h.annotations = Nothing /\ SameIssuer(g, h))
  <2>1. CASE g \in Range(own) /\ h \in Range(own)
    <3>1. PICK j \in DOMAIN own, k \in DOMAIN own : g = own[j] /\ h = own[k]
      BY <2>1 DEF Range
    <3>2. j # k /\ own[j].n # own[k].n /\ (j # 1 => g.annotations # Nothing)
            /\ (k # 1 => h.annotations # Nothing)
      BY <1>1, <1>6, <3>1 DEF Distributed
    <3> QED BY <3>1, <3>2
  <2>2. CASE g \in Range(shared) /\ h \in Range(shared)
    <3>1. PICK j \in DOMAIN shared, k \in DOMAIN shared : g = shared[j] /\ h = shared[k]
      BY <2>2 DEF Range
    <3> QED BY <1>1, <1>6, <3>1 DEF Distributed
  <2>3. ASSUME NEW a \in Range(own), NEW b \in Range(shared)
        PROVE  a.n # b.n /\ ~(a.annotations = Nothing /\ SameIssuer(b, a))
    <3>1. PICK j \in DOMAIN own, k \in DOMAIN shared : a = own[j] /\ b = shared[k]
      BY DEF Range
    <3>2. own[j].n # shared[k].n /\ ~SameIssuer(shared[k], own[1]) /\ (j # 1 => a.annotations # Nothing)
      BY <1>1, <3>1 DEF Distributed
    <3> QED BY <3>1, <3>2
  <2>4. \A a, b : SameIssuer(a, b) => SameIssuer(b, a)
    BY DEF SameIssuer
  <2> QED BY <1>3, <2>1, <2>2, <2>3, <2>4
<1> QED BY <1>3, <1>4, <1>5, <1>6 DEF groups

\* Every group with items becomes an Ingress.
LEMMA IngressesRange ==
    ASSUME NEW app, NEW P, NEW A, HasItems(app, P, A)
    PROVE  \A i : i \in Range(I!Ingresses(app)) <=>
                    \E g \in Range(I!GroupIngresses(app)) : g.items # << >> /\ i = I!IngressOf(app, g)
<1> DEFINE groups == I!GroupIngresses(app)
           made(group) == IF group.items = << >> THEN << >> ELSE <<I!IngressOf(app, group)>>
           n == Len(groups)
           ss == [k \in DOMAIN groups |-> made(groups[k])]
           S == {I!IngressOf(app, groups[k]) : k \in 1..n}
<1>1. groups \in Seq(GroupSet(app, P, A))
  BY GroupsAreDistinct
<1>2. n \in Nat /\ DOMAIN groups = 1..n
  BY <1>1, LenProperties
<1>3. I!Ingresses(app) = I!FlattenSeq(ss)
  BY DEF I!Ingresses
<1> HIDE DEF groups, n
<1>4. ASSUME NEW k \in 1..n
      PROVE  /\ made(groups[k]) \in Seq(S)
             /\ \A i : i \in Range(made(groups[k])) <=>
                         groups[k].items # << >> /\ i = I!IngressOf(app, groups[k])
  <2>1. CASE groups[k].items = << >>
    BY <2>1, EmptySeq DEF Range
  <2>2. CASE groups[k].items # << >>
    BY <2>2 DEF Range
  <2> QED BY <2>1, <2>2
<1> HIDE DEF made, S
<1>5. ss \in [1..n -> Seq(S)]
  BY <1>2, <1>4
<1>6. Range(I!FlattenSeq(ss)) = UNION {Range(ss[k]) : k \in 1..n}
  <2> HIDE DEF ss
  <2> QED BY <1>2, <1>5, FlattenedRange
<1>7. Range(groups) = {groups[k] : k \in 1..n}
  BY <1>2 DEF Range
<1>8. \A k \in 1..n : ss[k] = made(groups[k])
  BY <1>2
<1> HIDE DEF ss
<1>9. \A i : i \in Range(I!FlattenSeq(ss)) <=> \E k \in 1..n : i \in Range(made(groups[k]))
  BY <1>6, <1>8
<1>10. \A i : i \in Range(I!FlattenSeq(ss)) <=>
               \E g \in Range(groups) : g.items # << >> /\ i = I!IngressOf(app, g)
  <2>1. ASSUME NEW k \in 1..n, NEW i
        PROVE  i \in Range(made(groups[k])) <=>
                 groups[k].items # << >> /\ i = I!IngressOf(app, groups[k])
    BY <1>4
  <2> HIDE DEF n
  <2>2. ASSUME NEW i, NEW g \in Range(groups), g.items # << >>, i = I!IngressOf(app, g)
        PROVE  i \in Range(I!FlattenSeq(ss))
    <3>1. PICK k \in 1..n : g = groups[k]
      BY <1>7
    <3> QED BY <1>9, <2>1, <2>2, <3>1
  <2>3. ASSUME NEW i \in Range(I!FlattenSeq(ss))
        PROVE  \E g \in Range(groups) : g.items # << >> /\ i = I!IngressOf(app, g)
    <3>1. PICK k \in 1..n : i \in Range(made(groups[k]))
      BY <1>9
    <3>2. groups[k] \in Range(groups)
      BY <1>7
    <3>3. groups[k].items # << >> /\ i = I!IngressOf(app, groups[k])
      BY <2>1, <3>1
    <3> QED BY <3>2, <3>3
  <2> QED BY <2>2, <2>3
<1> QED BY <1>3, <1>10 DEF groups

RuleOf(x) == [host |-> x.host, paths |-> I!Deduplicated(x.paths)]
IsIngressOf(app, g, i) ==
    /\ i.n = g.n /\ i.annotations = g.annotations
    /\ i.issuer \in {<< >>, <<g.type, g.name>>}
    /\ \A r : r \in Range(i.rules) <=> \E x \in Range(g.items) : r = RuleOf(x)

\* An Ingress has the rules of its group's items (create_ingress).
LEMMA IngressParts ==
    ASSUME NEW app, NEW P, NEW A, NEW g \in GroupSet(app, P, A)
    PROVE  IsIngressOf(app, g, I!IngressOf(app, g))
<1> DEFINE i == I!IngressOf(app, g)
           hosts == [k \in DOMAIN g.items |-> g.items[k].host]
           rules == [k \in DOMAIN hosts |->
                       [host |-> hosts[k], paths |-> I!Deduplicated(g.items[k].paths)]]
<1>1. i.n = g.n /\ i.annotations = g.annotations /\ i.issuer \in {<< >>, <<g.type, g.name>>}
  BY DEF I!IngressOf
<1>2. i.rules = rules
  BY DEF I!IngressOf
<1>3. rules = [k \in DOMAIN g.items |-> RuleOf(g.items[k])]
  BY DEF RuleOf
<1>4. \A r : r \in Range(rules) <=> \E k \in DOMAIN g.items : r = RuleOf(g.items[k])
  BY <1>3 DEF Range
<1>5. \A r : r \in Range(rules) <=> \E x \in Range(g.items) : r = RuleOf(x)
  <2> HIDE DEF rules
  <2> QED BY <1>4 DEF Range
<1> HIDE DEF i, rules
<1>6. IsIngressOf(app, g, i)
  BY <1>1, <1>2, <1>5 DEF IsIngressOf
<1> QED BY <1>6 DEF i

-----------------------------------------------------------------------------
(* The items of an AppSpec. *)

SpecPaths == (UNION {Range(spec.ingresses[k].paths) : k \in DOMAIN spec.ingresses})
               \union {[path |-> "/", port |-> I!NamedHttp(App)[1].port]}
SpecAnnotations == {spec.ingresses[k].annotations : k \in DOMAIN spec.ingresses} \union {Nothing}

\* The elements of a list are as many as the configuration, or else the default, has.
LEMMA ElemsAreList ==
    ASSUME NEW c, NEW d, NEW k, NEW list, list = IF k \in DOMAIN c THEN c[k] ELSE d[k], IsList(list)
    PROVE  /\ DOMAIN Elems(Look(c, d), k) = 1..Len(list)
           /\ \A j \in 1..Len(list) :
                Elems(Look(c, d), k)[j] = Look(IF k \in DOMAIN c THEN list[j] ELSE Nothing, d[k][1])
BY DEF Elems, Look, IsList

\* A list of items as a user may write it.
AreItems(list) ==
    /\ IsList(list)
    /\ \A k \in DOMAIN list :
         /\ "host" \in DOMAIN list[k] => list[k].host \in Domains \union {None}
         /\ "paths" \in DOMAIN list[k] => IsList(list[k].paths)

\* The transformer's ingress: one item, with the paths of the http ports.
LEMMA TransformedIngress ==
    ASSUME IInv, stage \in {"parsed", "made"}, input.version = 2
    PROVE  AreItems(Transformed(input.config).ingress) /\ "ingress" \in DOMAIN Transformed(input.config)
<1> DEFINE l == Look(input.config, V2Defaults)
           ports == V2Ports(input.config)
           piece(p) == IF p.protocol = "http" THEN <<[path |-> p.path, port |-> p.name]>> ELSE << >>
           ss == [k \in DOMAIN ports |-> piece(ports[k])]
           paths == FlattenSeq(ss)
           S == {[path |-> ports[k].path, port |-> ports[k].name] : k \in DOMAIN ports}
           n == Len(ports)
           t == Transformed(input.config)
<1>1. n \in Nat /\ DOMAIN ports = 1..n
  BY TranslatedPorts
<1>2. t.ingress = IF paths = << >> THEN << >> ELSE <<[host |-> Val(l, "host"), paths |-> paths]>>
  <2>1. t # Invalid
    BY SpecOfConfiguration
  <2> QED BY <2>1 DEF Transformed, V2Ports
<1>0. "ingress" \in DOMAIN t
  <2>1. t # Invalid
    BY SpecOfConfiguration
  <2> QED BY <2>1 DEF Transformed
<1> HIDE DEF ports, n, t
<1>3. ss \in [1..n -> Seq(S)]
  <2>1. \A k \in 1..n : piece(ports[k]) \in Seq(S)
    <3> SUFFICES ASSUME NEW k \in 1..n PROVE piece(ports[k]) \in Seq(S)
      OBVIOUS
    <3>1. CASE ports[k].protocol = "http"
      <4> DEFINE path == [path |-> ports[k].path, port |-> ports[k].name]
      <4>1. path \in S
        BY <1>1
      <4>2. piece(ports[k]) = <<path>>
        BY <3>1
      <4> HIDE DEF path, S, piece
      <4> QED BY <4>1, <4>2
    <3>2. CASE ports[k].protocol # "http"
      BY <3>2, EmptySeq
    <3> QED BY <3>1, <3>2
  <2> HIDE DEF piece, S
  <2> QED BY <1>1, <2>1
<1>4. paths \in Seq(S)
  <2>1. paths = FoldInit!FlattenSeq(ss)
    BY DEF FlattenSeq, FoldInit!FlattenSeq
  <2> HIDE DEF ss, S, paths
  <2> QED BY <1>1, <1>3, <2>1, FoldInit!FlattenRange
<1> HIDE DEF S, paths, l
<1>5. IsList(paths)
  BY <1>4, LenProperties DEF IsList
<1>6. Val(l, "host") \in Domains \union {None}
  <2>1. Val(l, "host") = Said("host", V2Defaults.host) /\ V2Defaults.host = None
    BY LookedUp DEF l, V2Defaults
  <2>2. "host" \in DOMAIN input.config => input.config.host \in Domains \union {None}
    BY SettingsAssumption DEF IInv, IsConfig
  <2> QED BY <2>1, <2>2 DEF Said, OrElse
<1>7. IsList(<< >>) /\ \A x : IsList(<<x>>) /\ DOMAIN <<x>> = {1} /\ <<x>>[1] = x
  BY DEF IsList
<1>8. /\ IsList(t.ingress)
      /\ \A k \in DOMAIN t.ingress :
           t.ingress[k].host \in Domains \union {None} /\ IsList(t.ingress[k].paths)
  <2>1. CASE paths = << >>
    BY <1>2, <1>7, <2>1
  <2>2. CASE paths # << >>
    <3> DEFINE item == [host |-> Val(l, "host"), paths |-> paths]
    <3>1. item.host = Val(l, "host") /\ item.paths = paths /\ t.ingress = <<item>>
      BY <1>2, <2>2
    <3> HIDE DEF item
    <3> QED BY <1>5, <1>6, <1>7, <3>1
  <2> QED BY <2>1, <2>2
<1> QED BY <1>0, <1>8 DEF t, AreItems

\* The items of an AppSpec are on hosts, or on none, with lists of paths.
LEMMA SpecHasItems ==
    ASSUME IInv, stage \in {"parsed", "made"}
    PROVE  HasItems(App, SpecPaths, SpecAnnotations)
<1> DEFINE l == Look(Configuration, V3Defaults)
           items == Elems(l, "ingress")
           list == IF "ingress" \in DOMAIN Configuration THEN Configuration.ingress ELSE V3Defaults.ingress
           default == V3Defaults.ingress[1]
           n == Len(list)
<1>1. spec.ingresses = IngressItems(l, spec.ports) /\ DOMAIN spec = Fields
  BY SpecOfConfiguration DEF Factored
<1>2. default.host = None /\ IsList(default.paths) /\ AreItems(V3Defaults.ingress)
  BY DEF V3Defaults, IsList, AreItems
<1>3. AreItems(list)
  <2>1. CASE input.version = 2
    BY <1>2, <2>1, TransformedIngress DEF Configuration
  <2>2. CASE input.version = 3
    <3>1. "ingress" \in DOMAIN input.config => input.config.ingress \in Values(3, "ingress")
      BY <2>2 DEF IInv, IsConfig
    <3> QED BY <1>2, <2>2, <3>1, SettingsAssumption DEF Configuration, AreItems
  <2> QED BY <2>1, <2>2, SpecOfConfiguration
<1> HIDE DEF list, default
<1>4. n \in Nat /\ DOMAIN list = 1..n
  BY <1>3 DEF AreItems, IsList
<1>5. /\ DOMAIN items = 1..n
      /\ \A k \in 1..n :
           items[k] = Look(IF "ingress" \in DOMAIN Configuration THEN list[k] ELSE Nothing, default)
  <2>1. IsList(list)
    BY <1>3 DEF AreItems
  <2> QED BY <2>1, ElemsAreList DEF list, default
<1>6. ASSUME NEW k \in 1..n
      PROVE  /\ Val(items[k], "host") \in Domains \union {None}
             /\ \E m \in Nat : DOMAIN Elems(items[k], "paths") = 1..m
  <2> DEFINE c == IF "ingress" \in DOMAIN Configuration THEN list[k] ELSE Nothing
             paths == IF "paths" \in DOMAIN c THEN c.paths ELSE default.paths
  <2>1. items[k] = Look(c, default)
    BY <1>5
  <2>2. /\ "host" \in DOMAIN c => c.host \in Domains \union {None}
        /\ "paths" \in DOMAIN c => IsList(c.paths)
    BY <1>3, <1>4 DEF AreItems, Nothing
  <2>3. IsList(paths)
    BY <1>2, <2>2
  <2> HIDE DEF c
  <2>4. Val(items[k], "host") \in Domains \union {None}
    BY <1>2, <2>1, <2>2, LookIs DEF OrElse
  <2>5. DOMAIN Elems(Look(c, default), "paths") = 1..Len(paths)
    BY <2>3, ElemsAreList
  <2> HIDE DEF paths
  <2> QED BY <2>1, <2>3, <2>4, <2>5 DEF IsList
<1> HIDE DEF items
<1> DEFINE PathAt(k, j) == [path |-> Val(Elems(items[k], "paths")[j], "path"),
                            port |-> PortNumber(spec.ports, Val(Elems(items[k], "paths")[j], "port"))]
           ItemAt(k) == [host |-> Val(items[k], "host"),
                         paths |-> [j \in DOMAIN Elems(items[k], "paths") |-> PathAt(k, j)],
                         annotations |-> Flattened(At(items[k], "annotations"))]
<1>7. spec.ingresses \in {<< >>, [k \in 1..n |-> ItemAt(k)]}
  BY <1>1, <1>5 DEF IngressItems, items
<1>8. ASSUME NEW k \in DOMAIN spec.ingresses
      PROVE  /\ spec.ingresses[k] = [host |-> spec.ingresses[k].host, paths |-> spec.ingresses[k].paths,
                                      annotations |-> spec.ingresses[k].annotations]
             /\ spec.ingresses[k].host \in Domains \union {None}
             /\ spec.ingresses[k].paths \in Seq(Range(spec.ingresses[k].paths))
  <2>1. k \in 1..n /\ spec.ingresses[k] = ItemAt(k)
    BY <1>7
  <2>2. PICK m \in Nat : DOMAIN Elems(items[k], "paths") = 1..m
    BY <1>6, <2>1
  <2> DEFINE paths == [j \in 1..m |-> PathAt(k, j)]
  <2>3. ItemAt(k) = [host |-> Val(items[k], "host"), paths |-> paths,
                     annotations |-> Flattened(At(items[k], "annotations"))]
    BY <2>2
  <2>4. paths \in [1..m -> Range(paths)]
    BY DEF Range
  <2> HIDE DEF paths, ItemAt
  <2>5. paths \in Seq(Range(paths))
    BY <2>4, FoldInit!FunctionIsSeq
  <2> QED BY <1>6, <2>1, <2>3, <2>5
<1>9. spec.ingresses \in Seq(Wanted(SpecPaths, SpecAnnotations))
  <2>1. ASSUME NEW k \in DOMAIN spec.ingresses
        PROVE  spec.ingresses[k] \in Wanted(SpecPaths, SpecAnnotations)
    <3>1. Range(spec.ingresses[k].paths) \subseteq SpecPaths
      BY DEF SpecPaths
    <3>2. spec.ingresses[k].paths \in Seq(SpecPaths)
      BY <1>8, <3>1, SeqMonotonic
    <3>3. spec.ingresses[k].annotations \in SpecAnnotations
      BY DEF SpecAnnotations
    <3>4. \A h \in Domains \union {None}, p \in Seq(SpecPaths), a \in SpecAnnotations :
            [host |-> h, paths |-> p, annotations |-> a] \in Wanted(SpecPaths, SpecAnnotations)
      BY DEF Wanted
    <3>5. [host |-> spec.ingresses[k].host, paths |-> spec.ingresses[k].paths,
           annotations |-> spec.ingresses[k].annotations] \in Wanted(SpecPaths, SpecAnnotations)
      BY <1>8, <3>2, <3>3, <3>4
    <3> QED BY <1>8, <3>5
  <2>2. CASE spec.ingresses = << >>
    BY <2>2, EmptySeq
  <2>3. CASE spec.ingresses = [k \in 1..n |-> ItemAt(k)]
    <3> HIDE DEF ItemAt
    <3>1. DOMAIN spec.ingresses = 1..n
      BY <2>3
    <3>2. spec.ingresses \in [1..n -> Wanted(SpecPaths, SpecAnnotations)]
      BY <2>1, <2>3, <3>1
    <3> QED BY <1>4, <3>2, FoldInit!FunctionIsSeq
  <2> QED BY <1>7, <2>2, <2>3
<1>10. App.name = "app" /\ App.ingresses = spec.ingresses
  BY <1>1, AppFields DEF Fields
<1>11. Nothing \in SpecAnnotations /\ [path |-> "/", port |-> I!NamedHttp(App)[1].port] \in SpecPaths
  BY DEF SpecPaths, SpecAnnotations
<1> QED BY <1>9, <1>10, <1>11 DEF HasItems

-----------------------------------------------------------------------------
(* The issuers. *)

\* A reversed list.
LEMMA Reversed ==
    ASSUME NEW S, NEW seq \in Seq(S)
    PROVE  /\ Reverse(seq) \in Seq(S) /\ Len(seq) \in Nat /\ Len(Reverse(seq)) = Len(seq)
           /\ \A j \in 1..Len(seq) : Reverse(seq)[j] = seq[Len(seq) - j + 1]
<1> DEFINE n == Len(seq)
           f == [j \in 1..n |-> seq[n - j + 1]]
<1>1. n \in Nat /\ \A j \in 1..n : seq[j] \in S
  BY LenProperties, ElementOfSeq
<1>2. Reverse(seq) = f
  BY DEF Reverse
<1> HIDE DEF n
<1>3. f \in [1..n -> S]
  <2>1. \A j \in 1..n : n - j + 1 \in 1..n
    BY <1>1
  <2> QED BY <1>1, <2>1
<1>4. f \in Seq(S) /\ Len(f) = n
  <2> HIDE DEF f
  <2> QED BY <1>1, <1>3, FoldInit!FunctionIsSeq
<1> QED BY <1>1, <1>2, <1>4 DEF n

\* Of two suffixes of one length of a domain there is only one.
LEMMA SuffixOfLength ==
    ASSUME NEW S, NEW s \in Seq(S), NEW t \in Seq(S), NEW d \in Seq(S),
           IsSuffix(s, d), IsSuffix(t, d), Len(s) = Len(t)
    PROVE  s = t
<1>1. Reverse(s) = Reverse(t)
  <2>1. \A x \in Seq(S) : Reverse(x) \in Seq(S) /\ Len(Reverse(x)) = Len(x)
    BY Reversed
  <2>2. SubSeq(Reverse(s), 1, Len(s)) = SubSeq(Reverse(t), 1, Len(t))
    BY <2>1 DEF IsSuffix, IsPrefix
  <2> QED BY <2>1, <2>2, SubSeqFull
<1>2. ASSUME NEW k \in 1..Len(s) PROVE s[k] = t[k]
  <2>1. Len(s) \in Nat
    BY LenProperties
  <2> DEFINE m == Len(s) - k + 1
  <2>2. m \in 1..Len(s) /\ Len(s) - m + 1 = k
    BY <2>1
  <2>3. Reverse(s)[m] = s[Len(s) - m + 1] /\ Reverse(t)[m] = t[Len(t) - m + 1]
    BY <2>2, Reversed
  <2> QED BY <1>1, <2>2, <2>3
<1> QED BY <1>2, SeqEqual

\* A suffix is not longer.
LEMMA SuffixIsShorter ==
    ASSUME NEW S, NEW s \in Seq(S), NEW d \in Seq(S), IsSuffix(s, d)
    PROVE  Len(s) <= Len(d)
<1>1. \A x \in Seq(S) : Len(Reverse(x)) = Len(x)
  BY Reversed
<1> QED BY <1>1 DEF IsSuffix, IsPrefix

\* The override of a domain is that of one of the longest suffixes.
LEMMA LongestSuffix ==
    ASSUME NEW overrides, DOMAIN overrides \subseteq Domains, NEW d \in Domains, NEW default,
           NEW s \in DOMAIN overrides, IsSuffix(s, d)
    PROVE  \E t \in DOMAIN overrides :
             /\ IsSuffix(t, d) /\ I!Override(overrides, d, default) = overrides[t]
             /\ \A u \in DOMAIN overrides : IsSuffix(u, d) => Len(u) <= Len(t)
<1> DEFINE fits == {u \in DOMAIN overrides : IsSuffix(u, d)}
           lens == {Len(u) : u \in fits}
           longest == CHOOSE u \in fits : \A t \in fits : Len(t) <= Len(u)
<1>1. \A u : I!IsSuffix(u, d) <=> IsSuffix(u, d)
  BY DEF I!IsSuffix, IsSuffix, I!IsPrefix, IsPrefix, I!Reverse, Reverse
<1>2. fits # {} /\ {u \in DOMAIN overrides : I!IsSuffix(u, d)} = fits
  BY <1>1
<1>3. I!Override(overrides, d, default) = overrides[longest]
  BY <1>2 DEF I!Override
<1>4. Len(d) \in Nat /\ lens \in SUBSET Nat /\ lens # {} /\ \A n \in lens : n <= Len(d)
  <2>1. \A u \in fits : Len(u) \in Nat /\ Len(u) <= Len(d)
    BY SuffixIsShorter, LenProperties DEF Domains
  <2>2. Len(d) \in Nat
    BY LenProperties DEF Domains
  <2> QED BY <1>2, <2>1, <2>2
<1> HIDE DEF lens
<1>5. FoldInit!Max(lens) \in lens /\ \A n \in lens : n <= FoldInit!Max(lens)
  BY <1>4, FoldInit!MaxUpTo
<1>6. \E u \in fits : \A t \in fits : Len(t) <= Len(u)
  BY <1>5 DEF lens
<1>7. longest \in fits /\ \A t \in fits : Len(t) <= Len(longest)
  BY <1>6
<1> QED BY <1>3, <1>7

\* The hosts that share an Ingress have its issuer, which is that of the most specific
\* override of each (_group_ingresses, _get_issuer_name).
THEOREM IssuerOfHostHolds == Spec => []IssuerOfHost
<1>1. IInv => IssuerOfHost
  <2>1. SUFFICES ASSUME IInv, stage = "made",
                        NEW i \in Range(ingresses), i.issuer # << >>,
                        NEW r \in Range(i.rules), NEW s \in DOMAIN IssuerOverrides,
                        IsSuffix(s, r.host), IssuerOverrides[s] # i.issuer[2]
                 PROVE  \E t \in DOMAIN IssuerOverrides :
                          /\ Len(t) > Len(s) /\ IsSuffix(t, r.host)
                          /\ IssuerOverrides[t] = i.issuer[2]
    BY DEF IssuerOfHost
  <2>2. HasItems(App, SpecPaths, SpecAnnotations)
    BY <2>1, SpecHasItems
  <2>3. i \in Range(I!Ingresses(App))
    <3>1. ingresses \in {I!Ingresses(App), << >>}
      BY <2>1 DEF IInv
    <3> QED BY <2>1, <3>1 DEF Range
  <2>4. PICK g \in Range(I!GroupIngresses(App)) : g.items # << >> /\ i = I!IngressOf(App, g)
    BY <2>2, <2>3, IngressesRange
  <2>5. g \in GroupSet(App, SpecPaths, SpecAnnotations) /\ OfOneKind(App, g)
    BY <2>2, GroupsAreDistinct, RangeOfSeq
  <2>6. IsIngressOf(App, g, i)
    BY <2>4, <2>5, IngressParts
  <2>7. i.issuer[2] = g.name
    BY <2>1, <2>6 DEF IsIngressOf
  <2>8. PICK x \in Range(g.items) : r = RuleOf(x)
    BY <2>1, <2>6 DEF IsIngressOf
  <2>9. r.host = x.host /\ x.host \in Domains
    <3>1. g.items \in Seq(Placed(SpecPaths, SpecAnnotations))
      BY <2>5 DEF GroupSet
    <3>2. x \in Placed(SpecPaths, SpecAnnotations)
      BY <2>8, <3>1, RangeOfSeq
    <3> QED BY <2>8, <3>2 DEF Placed, RuleOf
  <2>10. I!Override(IssuerOverrides, r.host, I!OwnIssuer(App)) = i.issuer[2]
    BY <2>5, <2>7, <2>8, <2>9 DEF OfOneKind, I!IssuerName
  <2>11. PICK t \in DOMAIN IssuerOverrides :
           /\ IsSuffix(t, r.host)
           /\ I!Override(IssuerOverrides, r.host, I!OwnIssuer(App)) = IssuerOverrides[t]
           /\ \A u \in DOMAIN IssuerOverrides : IsSuffix(u, r.host) => Len(u) <= Len(t)
    BY <2>1, <2>9, LongestSuffix, OperatorAssumption
  <2>12. s \in Domains /\ t \in Domains
    BY OperatorAssumption
  <2>13. Len(s) # Len(t)
    BY <2>1, <2>9, <2>10, <2>11, <2>12, SuffixOfLength DEF Domains
  <2>14. Len(t) > Len(s)
    <3>1. Len(s) \in Nat /\ Len(t) \in Nat
      BY <2>12, LenProperties DEF Domains
    <3>2. Len(s) <= Len(t)
      BY <2>1, <2>11
    <3> QED BY <2>13, <3>1, <3>2
  <2> QED BY <2>10, <2>11, <2>14
<1> QED BY <1>1, Invariance, PTL

-----------------------------------------------------------------------------
(* Every host is served. *)

AskedOf(x) == {<<x.host, p.path, p.port, x.annotations>> : p \in Range(x.paths)}

\* What is asked for is what the items ask for that are not there as pairs.
LEMMA AskedItems ==
    ASSUME IInv, stage = "made"
    PROVE  Asked = UNION {AskedOf(x) : x \in OwnOf(App) \union DefaultOf(App)}
<1> DEFINE P == SpecPaths
           A == SpecAnnotations
           wanted == {i \in Range(spec.ingresses) : i.host \notin {None, << >>}}
           paths == IF I!SharedPaths(App) # << >> THEN I!SharedPaths(App)
                    ELSE <<[path |-> "/", port |-> I!NamedHttp(App)[1].port]>>
           own == UNION {{<<I!Rewritten(i.host), p.path, p.port, i.annotations>> : p \in Range(i.paths)} : i \in wanted}
           defaults == {<< <<"app">> \o s, path[1], path[2], Nothing>> :
                          s \in Range(IngressSuffixes), path \in DefaultPaths}
<1>1. HasItems(App, P, A) /\ App.ingresses = spec.ingresses
  BY SpecHasItems, SpecOfConfiguration, AppFields DEF Factored, Fields
<1>2. \A i \in Range(spec.ingresses) : i \in Wanted(P, A)
  BY <1>1, RangeOfSeq DEF HasItems
<1>3. Asked = own \union defaults
  BY DEF Asked
<1>4. own = UNION {AskedOf(x) : x \in OwnOf(App)}
  <2> DEFINE moved(i) == [i EXCEPT !.host = I!Rewritten(i.host)]
  <2>1. \A i \in wanted : AskedOf(moved(i)) = {<<I!Rewritten(i.host), p.path, p.port, i.annotations>> : p \in Range(i.paths)}
    BY <1>2 DEF AskedOf, Wanted
  <2>2. OwnOf(App) = {moved(i) : i \in wanted}
    BY <1>1 DEF OwnOf
  <2>3. own = UNION {AskedOf(moved(i)) : i \in wanted}
    <3> HIDE DEF wanted, moved
    <3> QED BY <2>1
  <2> HIDE DEF wanted, moved, own
  <2> QED BY <2>2, <2>3
<1>5. Range(paths) # {} /\ DefaultPaths = {<<p.path, p.port>> : p \in Range(paths)}
  <2>1. I!SharedPaths(App) \in Seq(P) /\ Range(I!SharedPaths(App)) = PathsOf(App)
    BY <1>1, SharedPathsRange
  <2>2. SharedPaths = {<<p.path, p.port>> : p \in PathsOf(App)}
    BY <1>1 DEF SharedPaths, PathsOf
  <2>3. CASE I!SharedPaths(App) = << >>
    <3>1. PathsOf(App) = {}
      BY <2>1, <2>3 DEF Range
    <3>2. SharedPaths = {}
      BY <2>2, <3>1
    <3> DEFINE only == [path |-> "/", port |-> I!NamedHttp(App)[1].port]
    <3>3. paths = <<only>> /\ only.path = "/" /\ only.port = I!NamedHttp(App)[1].port
      BY <2>3
    <3> HIDE DEF only, paths
    <3>4. Range(paths) = {only}
      BY <3>3 DEF Range
    <3> QED BY <3>2, <3>3, <3>4 DEF DefaultPaths
  <2>4. CASE I!SharedPaths(App) # << >>
    <3>1. Len(I!SharedPaths(App)) \in Nat \ {0}
      BY <2>1, <2>4, EmptySeq
    <3>2. 1 \in DOMAIN I!SharedPaths(App)
      BY <2>1, <3>1, LenProperties
    <3>3. Range(I!SharedPaths(App)) # {}
      BY <3>2 DEF Range
    <3>4. SharedPaths # {}
      BY <2>1, <2>2, <3>3
    <3>5. paths = I!SharedPaths(App)
      BY <2>4
    <3> HIDE DEF paths
    <3> QED BY <2>1, <2>2, <3>3, <3>4, <3>5 DEF DefaultPaths
  <2> QED BY <2>3, <2>4
<1>6. defaults = UNION {AskedOf(x) : x \in DefaultOf(App)}
  <2> DEFINE item(s) == [host |-> <<"app">> \o s, paths |-> paths, annotations |-> Nothing]
  <2>1. DefaultOf(App) = {item(s) : s \in Range(IngressSuffixes)}
    BY DEF DefaultOf
  <2> HIDE DEF paths
  <2>2. \A s : AskedOf(item(s)) = {<< <<"app">> \o s, p.path, p.port, Nothing>> : p \in Range(paths)}
    BY DEF AskedOf
  <2>3. \A s : AskedOf(item(s)) = {<< <<"app">> \o s, path[1], path[2], Nothing>> : path \in DefaultPaths}
    <3> SUFFICES ASSUME NEW s
                 PROVE  AskedOf(item(s)) = {<< <<"app">> \o s, path[1], path[2], Nothing>> : path \in DefaultPaths}
      OBVIOUS
    <3> DEFINE pair(p) == <<p.path, p.port>>
               whole(h, path) == <<h, path[1], path[2], Nothing>>
    <3>1. DefaultPaths = {pair(p) : p \in Range(paths)}
      BY <1>5
    <3>2. \A h, p : whole(h, pair(p)) = <<h, p.path, p.port, Nothing>>
      OBVIOUS
    <3>3. {<< <<"app">> \o s, path[1], path[2], Nothing>> : path \in DefaultPaths}
            = {whole(<<"app">> \o s, path) : path \in DefaultPaths}
      OBVIOUS
    <3> HIDE DEF pair, whole
    <3>4. {whole(<<"app">> \o s, path) : path \in DefaultPaths}
            = {whole(<<"app">> \o s, pair(p)) : p \in Range(paths)}
      BY <3>1
    <3>5. {whole(<<"app">> \o s, pair(p)) : p \in Range(paths)}
            = {<< <<"app">> \o s, p.path, p.port, Nothing>> : p \in Range(paths)}
      BY <3>2
    <3> HIDE DEF item
    <3> QED BY <2>2, <3>3, <3>4, <3>5
  <2>4. defaults = UNION {AskedOf(item(s)) : s \in Range(IngressSuffixes)}
    <3> HIDE DEF item
    <3> QED BY <2>3
  <2> HIDE DEF defaults, item
  <2> QED BY <2>1, <2>4
<1> HIDE DEF own, defaults
<1> QED BY <1>3, <1>4, <1>6

\* What is on pairs is what the pairs ask for.
LEMMA PairItems ==
    ASSUME IInv, stage = "made"
    PROVE  OnPairs = UNION {AskedOf(x) : x \in PairsOf(Base(App), Len(Base(App)))}
<1> DEFINE P == SpecPaths
           A == SpecAnnotations
           items == Base(App)
           firsts == {k \in DOMAIN items : FirstOfPair(items, k)}
           on(k) == {<<HostPairs[items[k].host], p.path, p.port, items[k].annotations>> :
                       p \in Range(items[k].paths)}
<1>1. items \in Seq(Placed(P, A)) /\ DOMAIN items = 1..Len(items)
  BY SpecHasItems, ItemsRange, LenProperties
<1>2. OnPairs = UNION {on(k) : k \in firsts}
  BY DEF OnPairs, Base
<1>3. Firsts(items, Len(items)) = firsts
  BY <1>1 DEF Firsts
<1>4. ASSUME NEW k \in firsts PROVE on(k) = AskedOf(Paired(items[k]))
  <2> DEFINE x == items[k]
  <2>1. x \in Placed(P, A)
    BY <1>1, ElementOfSeq
  <2>2. /\ Paired(x).host = HostPairs[x.host] /\ Paired(x).paths = x.paths
        /\ Paired(x).annotations = x.annotations
    BY <2>1 DEF Paired, Placed
  <2> HIDE DEF x
  <2>3. AskedOf(Paired(x)) = {<<HostPairs[x.host], p.path, p.port, x.annotations>> : p \in Range(x.paths)}
    BY <2>2 DEF AskedOf
  <2> QED BY <2>3 DEF x
<1>5. PairsOf(items, Len(items)) = {Paired(items[k]) : k \in firsts}
  BY <1>3 DEF PairsOf
<1> HIDE DEF items, firsts, on
<1>6. UNION {on(k) : k \in firsts} = UNION {AskedOf(Paired(items[k])) : k \in firsts}
  BY <1>4
<1> QED BY <1>2, <1>5, <1>6 DEF items

\* A rule serves what its item asks for.
Serves(rule, x) == rule[2].host = x.host /\ Served(rule) = AskedOf(x)

\* The rule of an item serves it.
LEMMA RuleServes ==
    ASSUME IInv, stage = "made", NEW g \in Range(I!GroupIngresses(App)), NEW x \in Range(g.items)
    PROVE  Serves(<<I!IngressOf(App, g), RuleOf(x)>>, x)
<1> DEFINE P == SpecPaths
           A == SpecAnnotations
           i == I!IngressOf(App, g)
<1>1. HasItems(App, P, A)
  BY SpecHasItems
<1>2. g \in GroupSet(App, P, A) /\ OfOneKind(App, g)
  BY <1>1, GroupsAreDistinct, RangeOfSeq
<1>3. i.annotations = g.annotations /\ x.annotations = g.annotations
  BY <1>2, IngressParts DEF IsIngressOf, OfOneKind
<1>4. x \in Placed(P, A)
  BY <1>2, RangeOfSeq DEF GroupSet
<1>5. Range(I!Deduplicated(x.paths)) = Range(x.paths)
  <2>1. x.paths \in Seq(P)
    BY <1>4 DEF Placed
  <2> QED BY <2>1, DeduplicatedRange
<1>6. RuleOf(x).host = x.host /\ RuleOf(x).paths = I!Deduplicated(x.paths)
  BY DEF RuleOf
<1> HIDE DEF i
<1> DEFINE rule == <<i, RuleOf(x)>>
<1>7. rule[1] = i /\ rule[2] = RuleOf(x)
  OBVIOUS
<1> HIDE DEF rule
<1>8. Served(rule) = {<<x.host, p.path, p.port, x.annotations>> : p \in Range(x.paths)}
  BY <1>3, <1>5, <1>6, <1>7 DEF Served
<1>9. Serves(rule, x)
  BY <1>6, <1>7, <1>8 DEF Serves, AskedOf
<1> QED BY <1>9 DEF rule, i

\* The items of the Ingresses are served, each by a rule, and the rules serve items.
LEMMA RulesServeItems ==
    ASSUME IInv, stage = "made", ingresses # << >>
    PROVE  /\ \A x \in Range(I!Items(App)) : \E r \in Rules : Serves(r, x)
           /\ \A r \in Rules : \E x \in Range(I!Items(App)) : Serves(r, x)
<1> DEFINE P == SpecPaths
           A == SpecAnnotations
           groups == I!GroupIngresses(App)
<1>1. HasItems(App, P, A)
  BY SpecHasItems
<1>2. ingresses = I!Ingresses(App)
  BY DEF IInv
<1>3. /\ groups \in Seq(GroupSet(App, P, A)) /\ AllItems(groups) = Range(I!Items(App))
      /\ \A g \in Range(groups) : g \in GroupSet(App, P, A)
  BY <1>1, GroupsAreDistinct, RangeOfSeq
<1>4. \A x : x \in Range(I!Items(App)) <=> \E g \in Range(groups) : x \in Range(g.items)
  <2>1. \A s : AllItems(s) = UNION {Range(g.items) : g \in Range(s)}
    BY DEF AllItems, Range
  <2> HIDE DEF groups
  <2> QED BY <1>3, <2>1
<1> HIDE DEF groups
<1>5. ASSUME NEW x \in Range(I!Items(App)) PROVE \E r \in Rules : Serves(r, x)
  <2>1. PICK g \in Range(groups) : x \in Range(g.items)
    BY <1>4
  <2>2. g.items # << >>
    BY <2>1 DEF Range
  <2> DEFINE i == I!IngressOf(App, g)
  <2>3. i \in Range(ingresses)
    BY <1>1, <1>2, <2>2, IngressesRange DEF groups
  <2>4. RuleOf(x) \in Range(i.rules)
    BY <1>3, <2>1, IngressParts DEF IsIngressOf
  <2>5. Serves(<<i, RuleOf(x)>>, x)
    BY <2>1, RuleServes DEF groups
  <2> HIDE DEF i
  <2>6. <<i, RuleOf(x)>> \in Rules
    BY <2>3, <2>4 DEF Rules
  <2> QED BY <2>5, <2>6
<1>6. ASSUME NEW r \in Rules PROVE \E x \in Range(I!Items(App)) : Serves(r, x)
  <2>0. PICK i \in Range(ingresses) : \E rule \in Range(i.rules) : r = <<i, rule>>
    BY DEF Rules
  <2>1. PICK rule \in Range(i.rules) : r = <<i, rule>>
    BY <2>0
  <2>2. PICK g \in Range(groups) : i = I!IngressOf(App, g)
    BY <1>1, <1>2, IngressesRange DEF groups
  <2>3. PICK x \in Range(g.items) : rule = RuleOf(x)
    <3>1. IsIngressOf(App, g, i)
      BY <1>3, <2>2, IngressParts
    <3> QED BY <2>1, <3>1 DEF IsIngressOf
  <2>4. Serves(<<I!IngressOf(App, g), RuleOf(x)>>, x)
    BY <2>3, RuleServes DEF groups
  <2> QED BY <1>4, <2>1, <2>2, <2>3, <2>4
<1> QED BY <1>5, <1>6

\* All that is asked for is served, on the pairs too, and nothing else is, and no two
\* Ingresses have one name or, without annotations, one host (_group_ingresses).
THEOREM ServedOnceHolds == Spec => []ServedOnce
<1>1. IInv => ServedOnce
  <2>1. SUFFICES ASSUME IInv, stage = "made", ingresses # << >> PROVE ServedOnce
    BY DEF ServedOnce
  <2> DEFINE base == OwnOf(App) \union DefaultOf(App)
             pairs == PairsOf(Base(App), Len(Base(App)))
             items == I!Items(App)
             groups == I!GroupIngresses(App)
  <2>2. HasItems(App, SpecPaths, SpecAnnotations)
    BY <2>1, SpecHasItems
  <2>3. Range(items) = base \union pairs
    BY <2>2, ItemsRange
  <2>4. Asked = UNION {AskedOf(x) : x \in base} /\ OnPairs = UNION {AskedOf(x) : x \in pairs}
    BY <2>1, AskedItems, PairItems
  <2>5. /\ \A x \in Range(items) : \E r \in Rules : Serves(r, x)
        /\ \A r \in Rules : \E x \in Range(items) : Serves(r, x)
    BY <2>1, RulesServeItems
  <2> HIDE DEF base, pairs, items
  <2>6. UNION {AskedOf(x) : x \in Range(items)} = Asked \union OnPairs
    BY <2>3, <2>4
  <2>7. (UNION {Served(r) : r \in Rules}) = Asked \union OnPairs
    <3>1. \A r \in Rules : \E x \in Range(items) : Served(r) = AskedOf(x)
      BY <2>5 DEF Serves
    <3>2. \A x \in Range(items) : \E r \in Rules : Served(r) = AskedOf(x)
      BY <2>5 DEF Serves
    <3>3. (UNION {Served(r) : r \in Rules}) = UNION {AskedOf(x) : x \in Range(items)}
      BY <3>1, <3>2
    <3> QED BY <2>6, <3>3
  <2>8. ASSUME NEW i \in Range(ingresses), NEW j \in Range(ingresses), i # j
        PROVE  /\ i.n # j.n
               /\ i.annotations = Nothing /\ j.annotations = Nothing =>
                    {r.host : r \in Range(i.rules)} \intersect {r.host : r \in Range(j.rules)} = {}
    <3>1. ingresses = I!Ingresses(App)
      BY <2>1 DEF IInv
    <3>2. PICK g \in Range(groups), h \in Range(groups) : i = I!IngressOf(App, g) /\ j = I!IngressOf(App, h)
      BY <2>2, <2>8, <3>1, IngressesRange
    <3>3. g # h
      BY <2>8, <3>2
    <3>4. /\ g \in GroupSet(App, SpecPaths, SpecAnnotations) /\ OfOneKind(App, g)
          /\ h \in GroupSet(App, SpecPaths, SpecAnnotations) /\ OfOneKind(App, h)
          /\ g.n # h.n
          /\ ~(g.annotations = Nothing /\ h.annotations = Nothing /\ SameIssuer(g, h))
      BY <2>2, <3>2, <3>3, GroupsAreDistinct, RangeOfSeq
    <3>5. IsIngressOf(App, g, i) /\ IsIngressOf(App, h, j)
      BY <3>2, <3>4, IngressParts
    <3> HIDE DEF groups
    <3>6. i.n # j.n
      BY <3>4, <3>5 DEF IsIngressOf
    <3>7. ASSUME i.annotations = Nothing, j.annotations = Nothing,
                 NEW r \in Range(i.rules), NEW s \in Range(j.rules), r.host = s.host
          PROVE  FALSE
      <4>1. PICK x \in Range(g.items), y \in Range(h.items) : r = RuleOf(x) /\ s = RuleOf(y)
        BY <3>5, <3>7 DEF IsIngressOf
      <4>2. x.host = y.host
        BY <3>7, <4>1 DEF RuleOf
      <4>3. SameIssuer(g, h)
        BY <3>4, <4>1, <4>2 DEF OfOneKind, SameIssuer
      <4> QED BY <3>4, <3>5, <3>7, <4>3 DEF IsIngressOf
    <3> QED BY <3>6, <3>7
  <2> QED BY <2>7, <2>8 DEF ServedOnce
<1> QED BY <1>1, Invariance, PTL

-----------------------------------------------------------------------------
(* The secrets of the pod. *)

\* The list of a finite set has each of its elements once.
LEMMA SetAsListOnce ==
    ASSUME NEW S, IsFiniteSet(S)
    PROVE  /\ Range(D!SetToSeq(S)) = S
           /\ \A j, k \in DOMAIN D!SetToSeq(S) : D!SetToSeq(S)[j] = D!SetToSeq(S)[k] => j = k
<1> DEFINE f == D!SetToSeq(S)
           n == Cardinality(S)
<1>1. n \in Nat /\ f \in [1..n -> S] /\ D!IsInjective(f)
  BY SetAsList
<1> HIDE DEF f, n
<1>2. \A j, k \in DOMAIN f : f[j] = f[k] => j = k
  BY <1>1 DEF D!IsInjective
<1>3. f \in Injection(1..n, S)
  BY <1>1, <1>2 DEF Injection, IsInjective
<1>4. Cardinality(1..n) = Cardinality(S)
  <2>1. Cardinality(1..n) = IF 1 > n THEN 0 ELSE n - 1 + 1
    BY <1>1, FS_Interval
  <2> QED BY <1>1, <2>1 DEF n
<1>5. f \in Surjection(1..n, S)
  BY <1>3, <1>4, FS_Injection
<1>6. Range(f) = S
  BY <1>1, <1>5 DEF Surjection, Range
<1> QED BY <1>2, <1>6 DEF f

\* A set with at most one element has no two.
LEMMA AtMostOne ==
    ASSUME NEW S, IsFiniteSet(S), Cardinality(S) <= 1, NEW a \in S, NEW b \in S
    PROVE  a = b
<1>1. Cardinality(S) \in Nat
  BY FS_CardinalityType
<1>2. Cardinality(S) # 0
  BY FS_EmptySet
<1>3. Cardinality(S) = 1
  BY <1>1, <1>2
<1> QED BY <1>3, FS_Singleton

Usable(app) == app.secrets \intersect DOMAIN D!SecretImages(app)

\* If one type can be used at most, one init container is put into the pod at most.
LEMMA UsedOnce ==
    ASSUME NEW app, IsFiniteSet(app.secrets), Cardinality(Usable(app)) <= 1
    PROVE  /\ \A j, k \in DOMAIN D!SecretTypes(app) :
                /\ D!SecretTypes(app)[j] \in DOMAIN D!SecretImages(app)
                /\ D!SecretTypes(app)[k] \in DOMAIN D!SecretImages(app)
                => j = k
           /\ app.secrets # {} => Range(D!SecretTypes(app)) = app.secrets
<1> DEFINE types == D!SecretTypes(app)
<1>1. CASE app.secrets # {}
  <2>1. types = D!SetToSeq(app.secrets)
    BY <1>1 DEF D!SecretTypes
  <2>2. Range(types) = app.secrets /\ \A j, k \in DOMAIN types : types[j] = types[k] => j = k
    BY <2>1, SetAsListOnce
  <2>3. IsFiniteSet(Usable(app))
    BY FS_Subset DEF Usable
  <2> HIDE DEF types
  <2>4. ASSUME NEW j \in DOMAIN types, NEW k \in DOMAIN types,
               types[j] \in DOMAIN D!SecretImages(app), types[k] \in DOMAIN D!SecretImages(app)
        PROVE  j = k
    <3>1. types[j] \in Usable(app) /\ types[k] \in Usable(app)
      BY <2>2, <2>4 DEF Usable, Range
    <3>2. types[j] = types[k]
      BY <2>3, <3>1, AtMostOne
    <3> QED BY <2>2, <3>2
  <2> QED BY <2>2, <2>4 DEF types
<1>2. CASE app.secrets = {}
  <2>1. types \in {<< >>, <<"strongbox">>, <<"default">>}
    BY <1>2 DEF D!SecretTypes
  <2>2. \A j, k \in DOMAIN types : j = k
    BY <2>1
  <2> QED BY <1>2, <2>2
<1> QED BY <1>1, <1>2

\* The pod has its Secret, one init container, or neither if no type can be used.
LEMMA PodHasOneSource ==
    ASSUME NEW app, IsFiniteSet(app.secrets), Cardinality(Usable(app)) <= 1, NEW p
    PROVE  \/ D!SecretTypes(app) = << >> /\ D!WithSecrets(app, p) = D!WithSecret(app, p)
           \/ /\ D!SecretTypes(app) # << >> /\ D!WithSecrets(app, p) = p
              /\ \A t \in Range(D!SecretTypes(app)) : t \notin DOMAIN D!SecretImages(app)
           \/ \E t \in Range(D!SecretTypes(app)) \intersect DOMAIN D!SecretImages(app) :
                /\ D!WithSecrets(app, p) = WithInit(app, p, t)
                /\ \A u \in Range(D!SecretTypes(app)) \intersect DOMAIN D!SecretImages(app) : u = t
<1> DEFINE types == D!SecretTypes(app)
<1>1. CASE types = << >>
  BY <1>1 DEF D!WithSecrets
<1>2. CASE types # << >>
  <2>1. PICK m \in Nat : DOMAIN types = 1..m
    BY TypesAreList
  <2>2. D!WithSecrets(app, p) = FoldInit!Fold(app, p, types)
    BY <1>2 DEF D!WithSecrets, FoldInit!Fold, WithInit, D!FoldLeft, FoldInit!FoldLeft,
             D!MapThenFoldSet, FoldInit!MapThenFoldSet, D!Max, FoldInit!Max
  <2>3. \A j, k \in 1..m : types[j] \in DOMAIN D!SecretImages(app) /\ types[k] \in DOMAIN D!SecretImages(app) => j = k
    BY <2>1, UsedOnce
  <2> HIDE DEF types
  <2> DEFINE Used(k) == {j \in 1..k : types[j] \in DOMAIN D!SecretImages(app)}
             J == [k \in 0..m |-> IF Used(k) = {} THEN {p} ELSE {WithInit(app, p, types[j]) : j \in Used(k)}]
  <2>4. p \in J[0]
    BY <2>1
  <2>5. ASSUME NEW k \in 1..m, NEW q \in J[k - 1]
        PROVE  WithInit(app, q, types[k]) \in J[k]
    <3>1. k \in 0..m /\ k - 1 \in 0..m /\ Used(k - 1) = {j \in Used(k) : j # k}
      BY <2>1
    <3>2. CASE types[k] \in DOMAIN D!SecretImages(app)
      <4>1. Used(k - 1) = {} /\ k \in Used(k)
        BY <2>1, <2>3, <3>2
      <4>2. q = p
        BY <3>1, <4>1
      <4> HIDE DEF Used
      <4> QED BY <3>1, <4>1, <4>2
    <3>3. CASE types[k] \notin DOMAIN D!SecretImages(app)
      <4>1. Used(k) = Used(k - 1)
        BY <2>1, <3>3
      <4>2. WithInit(app, q, types[k]) = q
        BY <3>3 DEF WithInit, D!WithInitContainer
      <4> HIDE DEF Used
      <4> QED BY <3>1, <4>1, <4>2
    <3> QED BY <3>2, <3>3
  <2>6. FoldInit!Fold(app, p, types) \in J[m]
    <3> HIDE DEF J
    <3> QED BY <2>1, <2>4, <2>5, FoldInit!FoldInvariant
  <2>7. Range(types) = {types[j] : j \in 1..m}
    BY <2>1 DEF Range
  <2> DEFINE made == FoldInit!Fold(app, p, types)
  <2> HIDE DEF made
  <2>8. made \in IF Used(m) = {} THEN {p} ELSE {WithInit(app, p, types[j]) : j \in Used(m)}
    BY <2>1, <2>6 DEF made
  <2>9. CASE Used(m) = {}
    <3>1. made = p /\ \A t \in Range(types) : t \notin DOMAIN D!SecretImages(app)
      BY <2>7, <2>8, <2>9
    <3> QED BY <1>2, <2>2, <3>1 DEF made, types
  <2>10. CASE Used(m) # {}
    <3>1. PICK j \in Used(m) : made = WithInit(app, p, types[j])
      BY <2>8, <2>10
    <3>2. /\ types[j] \in Range(types) \intersect DOMAIN D!SecretImages(app)
          /\ \A u \in Range(types) \intersect DOMAIN D!SecretImages(app) : u = types[j]
      BY <2>3, <2>7
    <3> QED BY <2>2, <3>1, <3>2 DEF made, types
  <2> QED BY <2>9, <2>10
<1> QED BY <1>1, <1>2

\* Short lists, put together and as sets.
LEMMA ShortLists ==
    /\ \A a, b, c : <<a>> \o <<b, c>> = <<a, b, c>>
    /\ \A a, b, c, d : <<a, b>> \o <<c, d>> = <<a, b, c, d>>
    /\ \A a : Append(<< >>, a) = <<a>>
    /\ Range(<< >>) = {} /\ \A a : Range(<<a>>) = {a}
    /\ \A a, b : Range(<<a, b>>) = {a, b}
    /\ \A a, b, c : Range(<<a, b, c>>) = {a, b, c}
    /\ \A a, b, c, d : Range(<<a, b, c, d>>) = {a, b, c, d}
<1>1. ASSUME NEW a, NEW b, NEW c PROVE <<a>> \o <<b, c>> = <<a, b, c>>
  <2> DEFINE S == {a, b, c}
  <2>1. <<a>> \in Seq(S) /\ <<b, c>> \in Seq(S) /\ <<a, b, c>> \in Seq(S)
          /\ Len(<<a>>) = 1 /\ Len(<<b, c>>) = 2 /\ Len(<<a, b, c>>) = 3
    OBVIOUS
  <2> HIDE DEF S
  <2>2. /\ <<a>> \o <<b, c>> \in Seq(S) /\ Len(<<a>> \o <<b, c>>) = 3
        /\ \A i \in 1..3 : (<<a>> \o <<b, c>>)[i] = IF i <= 1 THEN <<a>>[i] ELSE <<b, c>>[i - 1]
    BY <2>1, ConcatProperties
  <2>3. \A i \in 1..3 : (<<a>> \o <<b, c>>)[i] = <<a, b, c>>[i]
    BY <2>2
  <2> QED BY <2>1, <2>2, <2>3, SeqEqual
<1>2. ASSUME NEW a, NEW b, NEW c, NEW d PROVE <<a, b>> \o <<c, d>> = <<a, b, c, d>>
  <2> DEFINE S == {a, b, c, d}
  <2>1. <<a, b>> \in Seq(S) /\ <<c, d>> \in Seq(S) /\ <<a, b, c, d>> \in Seq(S)
          /\ Len(<<a, b>>) = 2 /\ Len(<<c, d>>) = 2 /\ Len(<<a, b, c, d>>) = 4
    OBVIOUS
  <2> HIDE DEF S
  <2>2. /\ <<a, b>> \o <<c, d>> \in Seq(S) /\ Len(<<a, b>> \o <<c, d>>) = 4
        /\ \A i \in 1..4 : (<<a, b>> \o <<c, d>>)[i] = IF i <= 2 THEN <<a, b>>[i] ELSE <<c, d>>[i - 2]
    BY <2>1, ConcatProperties
  <2>3. \A i \in 1..4 : (<<a, b>> \o <<c, d>>)[i] = <<a, b, c, d>>[i]
    BY <2>2
  <2> QED BY <2>1, <2>2, <2>3, SeqEqual
<1>3. ASSUME NEW a PROVE Append(<< >>, a) = <<a>>
  <2> DEFINE S == {a}
  <2>1. << >> \in Seq(S) /\ <<a>> \in Seq(S) /\ Len(<<a>>) = 1 /\ Len(<< >>) = 0 /\ a \in S
    OBVIOUS
  <2> HIDE DEF S
  <2>2. Append(<< >>, a) \in Seq(S) /\ Len(Append(<< >>, a)) = 1 /\ Append(<< >>, a)[1] = a
    BY <2>1, AppendProperties
  <2>3. \A i \in 1..1 : Append(<< >>, a)[i] = <<a>>[i]
    BY <2>2
  <2> QED BY <2>1, <2>2, <2>3, SeqEqual
<1>4. Range(<< >>) = {} /\ \A a : Range(<<a>>) = {a}
  BY DEF Range
<1>5. ASSUME NEW a, NEW b PROVE Range(<<a, b>>) = {a, b}
  BY DEF Range
<1>6. ASSUME NEW a, NEW b, NEW c PROVE Range(<<a, b, c>>) = {a, b, c}
  BY DEF Range
<1>7. ASSUME NEW a, NEW b, NEW c, NEW d PROVE Range(<<a, b, c, d>>) = {a, b, c, d}
  BY DEF Range
<1> QED BY <1>1, <1>2, <1>3, <1>4, <1>5, <1>6, <1>7

\* What the names of the volumes, of the mounts and of the containers are.
SecretName == <<"app", "secret">>
ConfigName == <<"app", "config">>
TmpName == <<"tmp">>
DatadogName == <<"fiaas-datadog-container">>

\* They are different.
LEMMA NamesDiffer ==
    /\ SecretName # ConfigName /\ SecretName # TmpName /\ SecretName # D!InitConfig
    /\ ConfigName # TmpName /\ ConfigName # D!InitConfig /\ TmpName # D!InitConfig
    /\ <<"app">> # DatadogName
BY DEF SecretName, ConfigName, TmpName, DatadogName, D!InitConfig

\* A pod with these volumes, mounts of the application's container and init containers.
Names(seq) == {x.name : x \in Range(seq)}
Shape(p, volumes, mounts, inits) ==
    /\ p.volumes = volumes /\ p.initContainers = inits
    /\ \E S : p.containers \in Seq(S)
    /\ DOMAIN p.containers \in {1..1, 1..2}
    /\ p.containers[1].name = <<"app">> /\ p.containers[1].mounts = mounts
    /\ 2 \in DOMAIN p.containers => p.containers[2].name = DatadogName /\ p.containers[2].mounts = << >>

BaseVolumes == <<D!Volume(ConfigName, "configMap"), D!Volume(TmpName, "emptyDir")>>
BaseMounts == <<D!Mount(ConfigName, "config", FALSE), D!Mount(TmpName, "tmp", TRUE)>>

\* The pod before the secrets are put in.
LEMMA ShapeBeforeSecrets ==
    ASSUME NEW app, app.name = "app", NEW besteffort
    PROVE  Shape(BeforeSecrets(app, besteffort), BaseVolumes, BaseMounts, << >>)
<1> DEFINE p == BeforeSecrets(app, besteffort)
<1>1. /\ p.containers = IF app.datadog THEN <<Main(app), Datadog(besteffort)>> ELSE <<Main(app)>>
      /\ p.volumes = BaseVolumes /\ p.initContainers = << >>
  BY DEF BeforeSecrets, BaseVolumes, ConfigName, TmpName
<1>2. Main(app).name = <<"app">> /\ Main(app).mounts = BaseMounts
  BY DEF Main, D!ConfigMount, D!TmpMount, BaseMounts, ConfigName, TmpName
<1>3. Datadog(besteffort).name = DatadogName /\ Datadog(besteffort).mounts = << >>
  BY DEF Datadog, DatadogName
<1> HIDE DEF p
<1>4. CASE app.datadog
  <2>1. p.containers = <<Main(app), Datadog(besteffort)>>
    BY <1>1, <1>4
  <2>2. p.containers \in Seq({Main(app), Datadog(besteffort)})
    BY <2>1
  <2>3. /\ DOMAIN p.containers = 1..2
        /\ p.containers[1] = Main(app) /\ p.containers[2] = Datadog(besteffort)
    BY <2>1
  <2>4. Shape(p, BaseVolumes, BaseMounts, << >>)
    BY <1>1, <1>2, <1>3, <2>2, <2>3 DEF Shape
  <2> QED BY <2>4 DEF p
<1>5. CASE ~app.datadog
  <2>1. p.containers = <<Main(app)>>
    BY <1>1, <1>5
  <2>2. p.containers \in Seq({Main(app)})
    BY <2>1
  <2>3. DOMAIN p.containers = 1..1 /\ p.containers[1] = Main(app)
    BY <2>1
  <2>4. Shape(p, BaseVolumes, BaseMounts, << >>)
    BY <1>1, <1>2, <2>2, <2>3 DEF Shape
  <2> QED BY <2>4 DEF p
<1> QED BY <1>4, <1>5

\* What is put into the first container leaves the list of containers a list.
LEMMA FirstContainer ==
    ASSUME NEW p, NEW q, NEW volumes, NEW mounts, NEW inits, NEW c,
           Shape(p, BaseVolumes, BaseMounts, << >>),
           q.containers = [p.containers EXCEPT ![1] = c],
           c.name = <<"app">>, c.mounts = mounts, q.volumes = volumes, q.initContainers = inits
    PROVE  Shape(q, volumes, mounts, inits)
<1>1. PICK S : p.containers \in Seq(S)
  BY DEF Shape
<1> DEFINE T == S \union {c}
<1>2. p.containers \in Seq(T) /\ 1 \in 1..Len(p.containers)
  <2>1. p.containers \in Seq(T)
    BY <1>1, SeqMonotonic
  <2>2. 1 \in DOMAIN p.containers
    BY DEF Shape
  <2> QED BY <2>1, <2>2, LenProperties
<1>3. q.containers \in Seq(T) /\ DOMAIN q.containers = DOMAIN p.containers
  <2>1. c \in T
    OBVIOUS
  <2> HIDE DEF T
  <2> QED BY <1>2, <2>1, ExceptSeq, LenProperties
<1>4. q.containers[1] = c /\ (2 \in DOMAIN p.containers => q.containers[2] = p.containers[2])
  BY DEF Shape
<1> QED BY <1>3, <1>4 DEF Shape

SecretVolumes == <<D!Volume(SecretName, "secret")>> \o BaseVolumes
SecretMounts == <<D!Mount(SecretName, "secrets", FALSE)>> \o BaseMounts

\* The pod with the Secret ...
LEMMA ShapeWithSecret ==
    ASSUME NEW app, app.name = "app", NEW p, IsPod(p), Shape(p, BaseVolumes, BaseMounts, << >>)
    PROVE  Shape(D!WithSecret(app, p), SecretVolumes, SecretMounts, << >>)
<1> DEFINE q == D!WithSecret(app, p)
           c == q.containers[1]
<1>1. /\ q.containers = [p.containers EXCEPT ![1] = c]
      /\ c.name = p.containers[1].name
      /\ c.mounts = <<D!SecretMount(app, FALSE)>> \o p.containers[1].mounts
      /\ q.volumes = <<D!Volume(<<app.name, "secret">>, "secret")>> \o p.volumes
      /\ q.initContainers = p.initContainers
  <2> DEFINE first == [p.containers[1] EXCEPT
                         !.mounts = <<D!SecretMount(app, FALSE)>> \o @,
                         !.envFrom = @ \union (IF app.secrets_in_environment THEN {"secret"} ELSE {})]
  <2>1. q = [p EXCEPT !.containers = [p.containers EXCEPT ![1] = first],
                      !.volumes = <<D!Volume(<<app.name, "secret">>, "secret")>> \o p.volumes]
    BY DEF D!WithSecret, IsPod
  <2>2. /\ first.name = p.containers[1].name
        /\ first.mounts = <<D!SecretMount(app, FALSE)>> \o p.containers[1].mounts
    BY DEF IsPod
  <2> HIDE DEF q, first
  <2>3. q.containers = [p.containers EXCEPT ![1] = first] /\ c = first
    BY <2>1 DEF IsPod
  <2> QED BY <2>1, <2>2, <2>3 DEF IsPod
<1>2. D!SecretMount(app, FALSE) = D!Mount(SecretName, "secrets", FALSE) /\ <<app.name, "secret">> = SecretName
  BY DEF D!SecretMount, SecretName
<1> HIDE DEF q
<1>3. c.name = <<"app">> /\ c.mounts = SecretMounts /\ q.volumes = SecretVolumes /\ q.initContainers = << >>
  BY <1>1, <1>2 DEF Shape, SecretMounts, SecretVolumes
<1> HIDE DEF c
<1>4. Shape(q, SecretVolumes, SecretMounts, << >>)
  BY <1>1, <1>3, FirstContainer
<1> QED BY <1>4 DEF q

InitVolumes ==
    <<D!Volume(SecretName, "emptyDir"), D!Volume(D!InitConfig, "configMap")>> \o BaseVolumes
InitMounts ==
    <<D!Mount(SecretName, "secrets", TRUE), D!Mount(D!InitConfig, "init-config", FALSE),
      D!Mount(ConfigName, "config", FALSE), D!Mount(TmpName, "tmp", TRUE)>>
InitOf(app, t) ==
    [name |-> <<"fiaas-secrets-init-container">>, image |-> D!SecretImages(app)[t], mounts |-> InitMounts]

\* ... and with an init container.
LEMMA ShapeWithInit ==
    ASSUME NEW app, app.name = "app", NEW p, IsPod(p), Shape(p, BaseVolumes, BaseMounts, << >>),
           NEW t \in DOMAIN D!SecretImages(app)
    PROVE  Shape(WithInit(app, p, t), InitVolumes, SecretMounts, <<InitOf(app, t)>>)
<1> DEFINE q == WithInit(app, p, t)
           c == q.containers[1]
           init == [name |-> <<"fiaas-secrets-init-container">>, image |-> D!SecretImages(app)[t],
                    mounts |-> <<D!SecretMount(app, TRUE), D!Mount(D!InitConfig, "init-config", FALSE),
                                 D!ConfigMount(app), D!TmpMount>>]
<1>1. /\ q.containers = [p.containers EXCEPT ![1] = c]
      /\ c.name = p.containers[1].name
      /\ c.mounts = <<D!SecretMount(app, FALSE)>> \o p.containers[1].mounts
      /\ q.volumes = <<D!Volume(<<app.name, "secret">>, "emptyDir"),
                       D!Volume(D!InitConfig, "configMap")>> \o p.volumes
      /\ q.initContainers = Append(p.initContainers, init)
  <2> DEFINE first == [p.containers[1] EXCEPT !.mounts = <<D!SecretMount(app, FALSE)>> \o @]
             account == IF SecretsServiceAccount # None THEN SecretsServiceAccount ELSE p.serviceAccount
  <2>1. q = [p EXCEPT !.containers = [p.containers EXCEPT ![1] = first],
                      !.initContainers = Append(p.initContainers, init),
                      !.serviceAccount = account,
                      !.token = p.token \/ D!SecretsToken(app),
                      !.volumes = <<D!Volume(<<app.name, "secret">>, "emptyDir"),
                                    D!Volume(D!InitConfig, "configMap")>> \o p.volumes]
    BY DEF WithInit, D!WithInitContainer, IsPod
  <2>2. /\ first.name = p.containers[1].name
        /\ first.mounts = <<D!SecretMount(app, FALSE)>> \o p.containers[1].mounts
    BY DEF IsPod
  <2> HIDE DEF q, first, init, account
  <2>3. q.containers = [p.containers EXCEPT ![1] = first] /\ c = first
    BY <2>1 DEF IsPod
  <2> QED BY <2>1, <2>2, <2>3 DEF IsPod
<1>2. /\ D!SecretMount(app, FALSE) = D!Mount(SecretName, "secrets", FALSE)
      /\ D!SecretMount(app, TRUE) = D!Mount(SecretName, "secrets", TRUE)
      /\ D!ConfigMount(app) = D!Mount(ConfigName, "config", FALSE)
      /\ D!TmpMount = D!Mount(TmpName, "tmp", TRUE) /\ <<app.name, "secret">> = SecretName
  BY DEF D!SecretMount, D!ConfigMount, D!TmpMount, SecretName, ConfigName, TmpName
<1>3. init = InitOf(app, t)
  BY <1>2 DEF InitOf, InitMounts
<1> HIDE DEF q, init
<1>4. c.name = <<"app">> /\ c.mounts = SecretMounts /\ q.volumes = InitVolumes
  BY <1>1, <1>2 DEF Shape, SecretMounts, InitVolumes
<1>5. q.initContainers = <<InitOf(app, t)>>
  BY <1>1, <1>3, ShortLists DEF Shape
<1> HIDE DEF c
<1>6. Shape(q, InitVolumes, SecretMounts, <<InitOf(app, t)>>)
  BY <1>1, <1>4, <1>5, FirstContainer
<1> QED BY <1>6 DEF q

Distinct(seq) == \A j, k \in DOMAIN seq : seq[j].name = seq[k].name => j = k
Sources(p) == {v.source : v \in {v \in Range(p.volumes) : v.name = SecretName}}
Images(p) == {c.image : c \in Range(p.initContainers)}

\* No name occurs twice in the pod, and what is mounted is a volume.
IsWellMade(p) ==
    /\ Distinct(p.volumes) /\ Distinct(p.initContainers) /\ Distinct(p.containers)
    /\ \A c \in Range(p.containers \o p.initContainers) : Names(c.mounts) \subseteq Names(p.volumes)

\* A pod of this shape is well made if its volumes have different names and are those
\* that are mounted.
LEMMA ShapeIsWellMade ==
    ASSUME NEW p, NEW volumes, NEW mounts, NEW inits, Shape(p, volumes, mounts, inits),
           Distinct(volumes), Names(mounts) \subseteq Names(volumes),
           inits = << >> \/ \E i : inits = <<i>> /\ Names(i.mounts) \subseteq Names(volumes)
    PROVE  IsWellMade(p)
<1>1. PICK S : p.containers \in Seq(S)
  BY DEF Shape
<1> DEFINE T == S \union Range(inits)
<1>2. p.containers \in Seq(T) /\ inits \in Seq(T)
  <2>1. p.containers \in Seq(T)
    BY <1>1, SeqMonotonic
  <2>2. inits \in Seq(T)
    <3>1. CASE inits = << >>
      BY <3>1
    <3>2. CASE \E i : inits = <<i>>
      <4>1. PICK i : inits = <<i>>
        BY <3>2
      <4>2. i \in T
        BY <4>1, ShortLists
      <4> HIDE DEF T
      <4> QED BY <4>1, <4>2
    <3> QED BY <3>1, <3>2
  <2> QED BY <2>1, <2>2
<1>3. Range(p.containers \o inits) = Range(p.containers) \union Range(inits)
  <2> HIDE DEF T
  <2> QED BY <1>2, RangeConcatenation
<1>4. Names(<< >>) = {}
  BY ShortLists DEF Names
<1>5. \A c \in Range(p.containers) : Names(c.mounts) \subseteq Names(volumes)
  BY <1>4 DEF Shape, Range
<1>6. \A c \in Range(inits) : Names(c.mounts) \subseteq Names(volumes)
  BY ShortLists
<1>7. Distinct(inits)
  BY DEF Distinct
<1>8. Distinct(p.containers)
  <2>1. DOMAIN p.containers \subseteq {1, 2}
    BY DEF Shape
  <2>2. 2 \in DOMAIN p.containers => p.containers[1].name # p.containers[2].name
    BY NamesDiffer DEF Shape
  <2> QED BY <2>1, <2>2 DEF Distinct
<1> QED BY <1>3, <1>5, <1>6, <1>7, <1>8 DEF IsWellMade, Shape

\* The volumes and mounts as lists, and their names.
LEMMA ListsOfNames ==
    /\ SecretVolumes = <<D!Volume(SecretName, "secret"), D!Volume(ConfigName, "configMap"),
                         D!Volume(TmpName, "emptyDir")>>
    /\ SecretMounts = <<D!Mount(SecretName, "secrets", FALSE), D!Mount(ConfigName, "config", FALSE),
                        D!Mount(TmpName, "tmp", TRUE)>>
    /\ InitVolumes = <<D!Volume(SecretName, "emptyDir"), D!Volume(D!InitConfig, "configMap"),
                       D!Volume(ConfigName, "configMap"), D!Volume(TmpName, "emptyDir")>>
    /\ Names(BaseVolumes) = {ConfigName, TmpName} /\ Names(BaseMounts) = {ConfigName, TmpName}
    /\ Names(SecretVolumes) = {SecretName, ConfigName, TmpName}
    /\ Names(SecretMounts) = {SecretName, ConfigName, TmpName}
    /\ Names(InitVolumes) = {SecretName, D!InitConfig, ConfigName, TmpName}
    /\ Names(InitMounts) = {SecretName, D!InitConfig, ConfigName, TmpName}
<1>1. /\ \A n, s : D!Volume(n, s).name = n
      /\ \A n, s, w : D!Mount(n, s, w).name = n
  BY DEF D!Volume, D!Mount
<1> DEFINE config == D!Volume(ConfigName, "configMap")
           tmp == D!Volume(TmpName, "emptyDir")
           secret == D!Volume(SecretName, "secret")
           made == D!Volume(SecretName, "emptyDir")
           init == D!Volume(D!InitConfig, "configMap")
           configMount == D!Mount(ConfigName, "config", FALSE)
           tmpMount == D!Mount(TmpName, "tmp", TRUE)
           secretMount == D!Mount(SecretName, "secrets", FALSE)
<1>11. /\ SecretVolumes = <<secret>> \o <<config, tmp>>
       /\ SecretMounts = <<secretMount>> \o <<configMount, tmpMount>>
       /\ InitVolumes = <<made, init>> \o <<config, tmp>>
  BY DEF SecretVolumes, SecretMounts, InitVolumes, BaseVolumes, BaseMounts
<1>12. /\ SecretVolumes = <<secret, config, tmp>>
       /\ SecretMounts = <<secretMount, configMount, tmpMount>>
       /\ InitVolumes = <<made, init, config, tmp>>
  <2> HIDE DEF secret, config, tmp, secretMount, configMount, tmpMount, made, init
  <2> QED BY <1>11, ShortLists
<1>2. SecretVolumes = <<D!Volume(SecretName, "secret"), D!Volume(ConfigName, "configMap"),
                        D!Volume(TmpName, "emptyDir")>>
  BY <1>12
<1>3. SecretMounts = <<D!Mount(SecretName, "secrets", FALSE), D!Mount(ConfigName, "config", FALSE),
                       D!Mount(TmpName, "tmp", TRUE)>>
  BY <1>12
<1>4. InitVolumes = <<D!Volume(SecretName, "emptyDir"), D!Volume(D!InitConfig, "configMap"),
                      D!Volume(ConfigName, "configMap"), D!Volume(TmpName, "emptyDir")>>
  BY <1>12
<1>5. ASSUME NEW a, NEW b PROVE Names(<<a, b>>) = {a.name, b.name}
  <2>1. Range(<<a, b>>) = {a, b}
    BY ShortLists
  <2> QED BY <2>1 DEF Names
<1>6. ASSUME NEW a, NEW b, NEW c PROVE Names(<<a, b, c>>) = {a.name, b.name, c.name}
  <2>1. Range(<<a, b, c>>) = {a, b, c}
    BY ShortLists
  <2> QED BY <2>1 DEF Names
<1>7. ASSUME NEW a, NEW b, NEW c, NEW d PROVE Names(<<a, b, c, d>>) = {a.name, b.name, c.name, d.name}
  <2>1. Range(<<a, b, c, d>>) = {a, b, c, d}
    BY ShortLists
  <2> QED BY <2>1 DEF Names
<1>8. Names(BaseVolumes) = {ConfigName, TmpName} /\ Names(BaseMounts) = {ConfigName, TmpName}
  <2>1. BaseVolumes = <<config, tmp>> /\ BaseMounts = <<configMount, tmpMount>>
    BY DEF BaseVolumes, BaseMounts
  <2>2. /\ config.name = ConfigName /\ tmp.name = TmpName
        /\ configMount.name = ConfigName /\ tmpMount.name = TmpName
    BY <1>1
  <2> HIDE DEF config, tmp, configMount, tmpMount
  <2>3. /\ Names(<<config, tmp>>) = {config.name, tmp.name}
        /\ Names(<<configMount, tmpMount>>) = {configMount.name, tmpMount.name}
    BY <1>5
  <2> QED BY <2>1, <2>2, <2>3
<1>9. /\ Names(SecretVolumes) = {SecretName, ConfigName, TmpName}
      /\ Names(SecretMounts) = {SecretName, ConfigName, TmpName}
  <2>1. /\ secret.name = SecretName /\ config.name = ConfigName /\ tmp.name = TmpName
        /\ secretMount.name = SecretName /\ configMount.name = ConfigName /\ tmpMount.name = TmpName
    BY <1>1
  <2> HIDE DEF secret, config, tmp, secretMount, configMount, tmpMount
  <2>2. /\ Names(<<secret, config, tmp>>) = {secret.name, config.name, tmp.name}
        /\ Names(<<secretMount, configMount, tmpMount>>) = {secretMount.name, configMount.name, tmpMount.name}
    BY <1>6
  <2> QED BY <1>12, <2>1, <2>2
<1>10. /\ Names(InitVolumes) = {SecretName, D!InitConfig, ConfigName, TmpName}
       /\ Names(InitMounts) = {SecretName, D!InitConfig, ConfigName, TmpName}
  <2> DEFINE writable == D!Mount(SecretName, "secrets", TRUE)
             initMount == D!Mount(D!InitConfig, "init-config", FALSE)
  <2>1. InitMounts = <<writable, initMount, configMount, tmpMount>>
    BY DEF InitMounts
  <2>2. /\ made.name = SecretName /\ init.name = D!InitConfig
        /\ config.name = ConfigName /\ tmp.name = TmpName
        /\ writable.name = SecretName /\ initMount.name = D!InitConfig
        /\ configMount.name = ConfigName /\ tmpMount.name = TmpName
    BY <1>1
  <2> HIDE DEF made, init, config, tmp, writable, initMount, configMount, tmpMount
  <2>3. /\ Names(<<made, init, config, tmp>>) = {made.name, init.name, config.name, tmp.name}
        /\ Names(<<writable, initMount, configMount, tmpMount>>)
              = {writable.name, initMount.name, configMount.name, tmpMount.name}
    BY <1>7
  <2> QED BY <1>12, <2>1, <2>2, <2>3
<1> QED BY <1>2, <1>3, <1>4, <1>8, <1>9, <1>10

\* A pod without a source of secrets is well made and has none ...
LEMMA WithoutSource ==
    ASSUME NEW p, Shape(p, BaseVolumes, BaseMounts, << >>)
    PROVE  IsWellMade(p) /\ Sources(p) = {} /\ Images(p) = {} /\ p.initContainers = << >>
<1>1. Distinct(BaseVolumes)
  BY NamesDiffer DEF Distinct, BaseVolumes, D!Volume
<1>2. IsWellMade(p)
  BY <1>1, ListsOfNames, ShapeIsWellMade
<1>3. \A v \in Range(p.volumes) : v.name \in {ConfigName, TmpName}
  BY ListsOfNames DEF Shape, Names
<1>4. Sources(p) = {}
  BY <1>3, NamesDiffer DEF Sources
<1>5. Images(p) = {} /\ p.initContainers = << >>
  BY ShortLists DEF Images, Shape
<1> QED BY <1>2, <1>4, <1>5

\* ... one with the Secret ...
LEMMA WithItsSecret ==
    ASSUME NEW p, Shape(p, SecretVolumes, SecretMounts, << >>)
    PROVE  IsWellMade(p) /\ Sources(p) = {"secret"} /\ Images(p) = {} /\ p.initContainers = << >>
<1> DEFINE first == D!Volume(SecretName, "secret")
           second == D!Volume(ConfigName, "configMap")
           third == D!Volume(TmpName, "emptyDir")
<1>0. /\ first.name = SecretName /\ first.source = "secret"
      /\ second.name = ConfigName /\ third.name = TmpName
  BY DEF D!Volume
<1>1. SecretVolumes = <<first, second, third>>
  BY ListsOfNames
<1> HIDE DEF first, second, third
<1>2. Distinct(SecretVolumes)
  BY <1>0, <1>1, NamesDiffer DEF Distinct
<1>3. IsWellMade(p)
  BY <1>2, ListsOfNames, ShapeIsWellMade
<1>4. Range(p.volumes) = {first, second, third}
  BY <1>1, ShortLists DEF Shape
<1>5. {v \in Range(p.volumes) : v.name = SecretName} = {first}
  BY <1>0, <1>4, NamesDiffer
<1>6. Sources(p) = {"secret"}
  BY <1>0, <1>5 DEF Sources
<1>7. Images(p) = {} /\ p.initContainers = << >>
  BY ShortLists DEF Images, Shape
<1> QED BY <1>3, <1>6, <1>7

\* ... and one with an init container.
LEMMA WithItsInit ==
    ASSUME NEW app, NEW p, NEW t, Shape(p, InitVolumes, SecretMounts, <<InitOf(app, t)>>)
    PROVE  IsWellMade(p) /\ Sources(p) = {"emptyDir"} /\ Images(p) = {D!SecretImages(app)[t]}
<1> DEFINE first == D!Volume(SecretName, "emptyDir")
           second == D!Volume(D!InitConfig, "configMap")
           third == D!Volume(ConfigName, "configMap")
           fourth == D!Volume(TmpName, "emptyDir")
<1>0. /\ first.name = SecretName /\ first.source = "emptyDir"
      /\ second.name = D!InitConfig /\ third.name = ConfigName /\ fourth.name = TmpName
  BY DEF D!Volume
<1>1. InitVolumes = <<first, second, third, fourth>>
  BY ListsOfNames
<1> HIDE DEF first, second, third, fourth
<1>2. Distinct(InitVolumes)
  BY <1>0, <1>1, NamesDiffer DEF Distinct
<1>3. Names(SecretMounts) \subseteq Names(InitVolumes) /\ Names(InitOf(app, t).mounts) \subseteq Names(InitVolumes)
  BY ListsOfNames DEF InitOf
<1>4. IsWellMade(p)
  BY <1>2, <1>3, ShapeIsWellMade
<1>5. Range(p.volumes) = {first, second, third, fourth}
  BY <1>1, ShortLists DEF Shape
<1>6. {v \in Range(p.volumes) : v.name = SecretName} = {first}
  BY <1>0, <1>5, NamesDiffer
<1>7. Sources(p) = {"emptyDir"}
  BY <1>0, <1>6 DEF Sources
<1>8. Range(p.initContainers) = {InitOf(app, t)}
  BY ShortLists DEF Shape
<1>9. InitOf(app, t).image = D!SecretImages(app)[t]
  BY DEF InitOf
<1>10. Images(p) = {D!SecretImages(app)[t]}
  BY <1>8, <1>9 DEF Images
<1> QED BY <1>4, <1>7, <1>10

\* In a best-effort namespace no container has requirements.
LEMMA NoRequirements ==
    ASSUME IInv, stage = "made", input.besteffort
    PROVE  \A c \in Range(pod.containers) : c.resources = {}
<1> DEFINE p == BeforeSecrets(App, input.besteffort)
<1>1. Kept(p, pod)
  BY PodIs, SecretsKeep
<1>2. DOMAIN spec.resources = {"limits", "requests"}
  BY SpecOfConfiguration DEF Factored
<1>3. App.resources = [r \in {"limits", "requests"} |-> None]
  BY <1>2, SpecOfConfiguration, AppFields DEF Factored
<1>4. Main(App).resources = {} /\ Datadog(input.besteffort).resources = {}
  BY <1>3 DEF Main, Datadog
<1>5. \A j \in DOMAIN p.containers : p.containers[j].resources = {}
  <2>1. p.containers = IF App.datadog THEN <<Main(App), Datadog(input.besteffort)>> ELSE <<Main(App)>>
    BY DEF BeforeSecrets
  <2> HIDE DEF p
  <2>2. CASE App.datadog
    <3>1. p.containers = <<Main(App), Datadog(input.besteffort)>>
      BY <2>1, <2>2
    <3>2. DOMAIN p.containers = {1, 2}
      BY <3>1
    <3>3. p.containers[1] = Main(App) /\ p.containers[2] = Datadog(input.besteffort)
      BY <3>1
    <3> QED BY <1>4, <3>2, <3>3
  <2>3. CASE ~App.datadog
    <3>1. p.containers = <<Main(App)>>
      BY <2>1, <2>3
    <3>2. \A a : DOMAIN <<a>> = {1} /\ <<a>>[1] = a
      OBVIOUS
    <3> QED BY <1>4, <3>1, <3>2
  <2> QED BY <2>2, <2>3
<1> HIDE DEF p
<1>6. DOMAIN pod.containers = DOMAIN p.containers
        /\ \A j \in DOMAIN p.containers : pod.containers[j].resources = p.containers[j].resources
  BY <1>1 DEF Kept
<1>7. \A j \in DOMAIN pod.containers : pod.containers[j].resources = {}
  BY <1>5, <1>6
<1> QED BY <1>7 DEF Range

\* The secrets of an application come from one source, the one that it asked for or
\* else strongbox, the operator's default or its Secret; its pod is well made, and in
\* a best-effort namespace has no requirements (Secrets.apply, DeploymentDeployer.deploy).
THEOREM PodIsSoundHolds == Spec => []PodIsSound
<1>1. IInv => PodIsSound
  <2>1. SUFFICES ASSUME IInv, stage = "made" PROVE PodIsSound
    BY DEF PodIsSound
  <2> DEFINE p == BeforeSecrets(App, input.besteffort)
             has(type) == type \in DOMAIN D!SecretImages(App)
             usable == {type \in spec.secrets : has(type)}
             unasked == IF spec.strongbox /\ has("strongbox") THEN "strongbox" ELSE "default"
             types == D!SecretTypes(App)
  <2>2. /\ pod = D!WithSecrets(App, p) /\ IsPod(p) /\ IsFiniteSet(App.secrets)
        /\ App.name = "app" /\ App.secrets = spec.secrets /\ App.strongbox = spec.strongbox
    BY <2>1, PodIs, SpecOfConfiguration, AppFields DEF Factored, Fields
  <2>3. Shape(p, BaseVolumes, BaseMounts, << >>)
    BY <2>2, ShapeBeforeSecrets
  <2> HIDE DEF p
  <2>4. input.besteffort => \A c \in Range(pod.containers) : c.resources = {}
    BY <2>1, NoRequirements
  <2>5. ASSUME Cardinality(usable) <= 1
        PROVE  /\ IsWellMade(pod)
               /\ Images(pod) # {} => Sources(pod) = {"emptyDir"}
               /\ spec.secrets # {} =>
                    Images(pod) = {D!SecretImages(App)[type] : type \in usable}
                      /\ (usable = {} => Sources(pod) = {})
               /\ spec.secrets = {} =>
                    IF has(unasked) THEN Images(pod) = {D!SecretImages(App)[unasked]}
                    ELSE Images(pod) = {} /\ Sources(pod) = {"secret"}
    <3>1. Usable(App) = usable
      BY <2>2 DEF Usable
    <3>2. \/ types = << >> /\ pod = D!WithSecret(App, p)
          \/ types # << >> /\ pod = p /\ \A t \in Range(types) : ~has(t)
          \/ \E t \in Range(types) \intersect DOMAIN D!SecretImages(App) :
               /\ pod = WithInit(App, p, t)
               /\ \A u \in Range(types) \intersect DOMAIN D!SecretImages(App) : u = t
      <4>1. IsFiniteSet(App.secrets) /\ Cardinality(Usable(App)) <= 1
        BY <2>2, <2>5, <3>1
      <4> HIDE DEF types, has, usable, unasked
      <4>2. \/ D!SecretTypes(App) = << >> /\ D!WithSecrets(App, p) = D!WithSecret(App, p)
            \/ /\ D!SecretTypes(App) # << >> /\ D!WithSecrets(App, p) = p
               /\ \A t \in Range(D!SecretTypes(App)) : t \notin DOMAIN D!SecretImages(App)
            \/ \E t \in Range(D!SecretTypes(App)) \intersect DOMAIN D!SecretImages(App) :
                 /\ D!WithSecrets(App, p) = WithInit(App, p, t)
                 /\ \A u \in Range(D!SecretTypes(App)) \intersect DOMAIN D!SecretImages(App) : u = t
        BY <4>1, PodHasOneSource
      <4> QED BY <2>2, <4>2 DEF types, has
    <3>3. spec.secrets # {} => Range(types) = spec.secrets
      BY <2>2, <2>5, <3>1, UsedOnce
    <3>4. spec.secrets = {} => types = IF has(unasked) THEN <<unasked>> ELSE << >>
      BY <2>2 DEF D!SecretTypes
    <3>5. Range(<< >>) = {} /\ Range(<<unasked>>) = {unasked} /\ <<unasked>> # << >>
      BY ShortLists
    <3> HIDE DEF types, unasked
    <3>6. CASE types = << >> /\ pod = D!WithSecret(App, p)
      <4>1. IsWellMade(pod) /\ Sources(pod) = {"secret"} /\ Images(pod) = {}
        BY <2>2, <2>3, <3>6, ShapeWithSecret, WithItsSecret
      <4>2. spec.secrets = {}
        BY <3>3, <3>5, <3>6
      <4> QED BY <3>4, <3>5, <3>6, <4>1, <4>2
    <3>7. CASE types # << >> /\ pod = p /\ \A t \in Range(types) : ~has(t)
      <4>1. IsWellMade(pod) /\ Sources(pod) = {} /\ Images(pod) = {}
        BY <2>3, <3>7, WithoutSource
      <4>2. spec.secrets # {}
        BY <3>4, <3>5, <3>7
      <4>3. usable = {}
        BY <3>3, <3>7, <4>2
      <4> QED BY <4>1, <4>2, <4>3
    <3>8. CASE \E t \in Range(types) \intersect DOMAIN D!SecretImages(App) :
                 /\ pod = WithInit(App, p, t)
                 /\ \A u \in Range(types) \intersect DOMAIN D!SecretImages(App) : u = t
      <4>1. PICK t \in Range(types) \intersect DOMAIN D!SecretImages(App) :
              /\ pod = WithInit(App, p, t)
              /\ \A u \in Range(types) \intersect DOMAIN D!SecretImages(App) : u = t
        BY <3>8
      <4>2. IsWellMade(pod) /\ Sources(pod) = {"emptyDir"} /\ Images(pod) = {D!SecretImages(App)[t]}
        <5>1. Shape(WithInit(App, p, t), InitVolumes, SecretMounts, <<InitOf(App, t)>>)
          BY <2>2, <2>3, ShapeWithInit
        <5> QED BY <4>1, <5>1, WithItsInit
      <4>3. ASSUME spec.secrets # {}
            PROVE  usable = {t} /\ Images(pod) = {D!SecretImages(App)[u] : u \in usable}
        <5>1. usable = {t}
          BY <3>3, <4>1, <4>3
        <5> HIDE DEF usable
        <5> QED BY <4>2, <5>1
      <4>4. ASSUME spec.secrets = {} PROVE has(unasked) /\ t = unasked
        BY <3>4, <3>5, <4>1, <4>4
      <4> QED BY <4>2, <4>3, <4>4
    <3> QED BY <3>2, <3>6, <3>7, <3>8
  <2> HIDE DEF usable, unasked, has
  <2> QED BY <2>4, <2>5
       DEF PodIsSound, IsWellMade, Distinct, Names, Sources, Images, SecretName, usable, unasked, has
<1> QED BY <1>1, Invariance, PTL
===============================================================================
