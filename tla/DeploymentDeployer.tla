-------------------------- MODULE DeploymentDeployer --------------------------
(***************************************************************************)
(* deployer/kubernetes/deployment/: the Deployment an AppSpec becomes -    *)
(* its environment, probes, secrets and sidecar.  A string put together    *)
(* from parts is the sequence of these parts.                              *)
(***************************************************************************)
EXTENDS Naturals, Sequences, SequencesExt, Mappings

CONSTANTS
    None,
    GlobalEnv,                  \* global_env: a function from keys to values
    LegacyEnv,                  \* the keys of _build_fiaas_env
    DeprecatedEnv,              \* ~disable_deprecated_managed_env_vars
    ServiceAccountPerApp,       \* enable_service_account_per_app
    SecretInitContainers,       \* secret_init_containers: a function from types to images
    StrongboxImage,             \* strongbox_init_container_image, or None
    SecretsServiceAccount       \* secrets_service_account_name, or None

-----------------------------------------------------------------------------
(* The environment.  Keys are sequences: <<"FIAAS", k>> is the key FIAAS_k. *)

Prefixed(k) == <<"FIAAS">> \o k

\* _build_global_env: each key as it is and with the prefix, which wins.
GlobalVars ==
    Over([k \in {Prefixed(g) : g \in DOMAIN GlobalEnv} |-> GlobalEnv[Tail(k)]], GlobalEnv)

Described == {<<"ARTIFACT_NAME">>, <<"IMAGE">>, <<"VERSION">>}
ManagedVars ==
    [k \in {Prefixed(d) : d \in Described} \union (IF DeprecatedEnv THEN Described ELSE {})
       |-> "managed"]
DownwardVars == {<<"FIAAS", v>> : v \in {"REQUESTS_CPU", "REQUESTS_MEMORY", "LIMITS_CPU",
                                         "LIMITS_MEMORY", "NAMESPACE", "POD_NAME"}}
DatadogVars == {<<"STATSD_HOST">>, <<"STATSD_PORT">>}

MutStaticEnv == Over(GlobalVars, Over(ManagedVars, [k \in LegacyEnv |-> "legacy"]))

StaticEnv == Over(ManagedVars, Over(GlobalVars, [k \in LegacyEnv |-> "legacy"]))

\* _make_env, and what DataDog.apply adds: the value of each variable.  Sorting the
\* list by name is stable, so of two of one name the one added later counts.
Env(app) ==
    Over([k \in IF app.datadog THEN DatadogVars ELSE {} |-> "datadog"],
         Over([k \in DownwardVars |-> "managed"], StaticEnv))

-----------------------------------------------------------------------------
(* Secrets. *)

\* GenericInitSecrets.__init__: the images by type.  app.default_image is the operator's
\* secrets_init_container_image, or None.
SecretImages(app) ==
    Over(SecretInitContainers,
         Over([t \in IF StrongboxImage # None THEN {"strongbox"} ELSE {} |-> StrongboxImage],
              [t \in IF app.default_image # None THEN {"default"} ELSE {} |-> app.default_image]))

\* ... and whether the token is mounted for them.
SecretsToken(app) == app.default_image # None /\ "default" \notin DOMAIN SecretInitContainers

MutSecretTypesNoDefault(app) ==
    IF app.secrets = {} /\ "strongbox" \in DOMAIN SecretImages(app) /\ app.strongbox
    THEN <<"strongbox">> ELSE SetToSeq(app.secrets)

\* Secrets.apply: the types asked for, or those of strongbox or of the cluster.
SecretTypes(app) ==
    CASE app.secrets # {} -> SetToSeq(app.secrets)
      [] app.secrets = {} /\ "strongbox" \in DOMAIN SecretImages(app) /\ app.strongbox -> <<"strongbox">>
      [] app.secrets = {} /\ "default" \in DOMAIN SecretImages(app)
           /\ ~("strongbox" \in DOMAIN SecretImages(app) /\ app.strongbox) -> <<"default">>
      [] OTHER -> << >>

Volume(name, source) == [name |-> name, source |-> source]
Mount(name, path, writable) == [name |-> name, path |-> path, writable |-> writable]

ConfigMount(app) == Mount(<<app.name, "config">>, "config", FALSE)
TmpMount == Mount(<<"tmp">>, "tmp", TRUE)
SecretMount(app, init) == Mount(<<app.name, "secret">>, "secrets", init)
InitConfig == <<"fiaas-secrets-init-container", "config">>

\* KubernetesSecrets.apply
WithSecret(app, pod) ==
    [pod EXCEPT
       !.containers[1].mounts = <<SecretMount(app, FALSE)>> \o @,
       !.containers[1].envFrom = @ \union (IF app.secrets_in_environment THEN {"secret"} ELSE {}),
       !.volumes = <<Volume(<<app.name, "secret">>, "secret")>> \o @]

\* GenericInitSecrets.apply, which leaves the pod alone for a type it does not know.
WithInitContainer(app, pod, type) ==
    IF type \notin DOMAIN SecretImages(app) THEN pod
    ELSE [pod EXCEPT
            !.containers[1].mounts = <<SecretMount(app, FALSE)>> \o @,
            !.initContainers = Append(@,
               [name |-> <<"fiaas-secrets-init-container">>, image |-> SecretImages(app)[type],
                mounts |-> <<SecretMount(app, TRUE), Mount(InitConfig, "init-config", FALSE),
                             ConfigMount(app), TmpMount>>]),
            !.serviceAccount = IF SecretsServiceAccount # None THEN SecretsServiceAccount ELSE @,
            !.token = @ \/ SecretsToken(app),
            !.volumes = <<Volume(<<app.name, "secret">>, "emptyDir"),
                          Volume(InitConfig, "configMap")>> \o @]

WithSecrets(app, pod) ==
    LET types == SecretTypes(app)
    IN  IF types = << >> THEN WithSecret(app, pod)
        ELSE FoldLeft(LAMBDA p, type : WithInitContainer(app, p, type), pod, types)

-----------------------------------------------------------------------------
(* The pod. *)

\* _make_probe: an AppSpec without a check raises a RuntimeError.
LacksProbe(app) == "none" \in {app.liveness.kind, app.readiness.kind}

\* DataDog.apply; besteffort is what the adapter read for it.
WithDatadog(app, pod, besteffort) ==
    IF ~app.datadog THEN pod
    ELSE [pod EXCEPT !.containers = Append(@,
            [name |-> <<"fiaas-datadog-container">>, env |-> [k \in {} |-> None], envFrom |-> {}, mounts |-> << >>,
             resources |-> IF besteffort THEN {} ELSE {"limits", "requests"}])]

\* DeploymentDeployer.deploy: the pod template.
Pod(app, besteffort) ==
    LET main == [name |-> <<app.name>>, env |-> Env(app), envFrom |-> {"configMap"},
                 mounts |-> <<ConfigMount(app), TmpMount>>,
                 resources |-> {r \in {"limits", "requests"} : app.resources[r] # None}]
        plain == [containers |-> <<main>>, initContainers |-> << >>,
                  volumes |-> <<Volume(<<app.name, "config">>, "configMap"),
                                Volume(<<"tmp">>, "emptyDir")>>,
                  serviceAccount |-> IF ServiceAccountPerApp THEN app.name ELSE "default",
                  token |-> app.admin_access]
    IN  WithSecrets(app, WithDatadog(app, plain, besteffort))
===============================================================================
