------------------------------- MODULE AppObjects -------------------------------
(***************************************************************************)
(* From what a user writes to what the cluster gets: SpecFactory makes an  *)
(* AppSpec of a configuration, IngressDeployer its Ingresses and           *)
(* DeploymentDeployer its pod.  Each step works on what the step before it *)
(* left and may raise.  A configuration has one, two or three of Settings. *)
(***************************************************************************)
EXTENDS SpecFactory

CONSTANTS
    Settings,       \* for each version, a function from keys to the values they may be given
    Additional,     \* the Application's additional labels
    \* of IngressDeployer
    IngressSuffixes, HostRewriteRules, HostPairs, IssuerTypeOverrides, IssuerOverrides,
    IssuerTypeDefault, IssuerDefault, TlsEntryPerHost, LongHosts,
    \* of DeploymentDeployer
    GlobalEnv, LegacyEnv, DeprecatedEnv, ServiceAccountPerApp, SecretInitContainers,
    StrongboxImage, SecretsServiceAccount,
    SecretsImages   \* the operator's default sources of secrets (None for none) to be looked at

\* The texts; that the literals are among them is what a prover does not know.
Texts == STRING \union {"app", "/", "http", "/internal-backstage/prometheus"}

\* None is neither a number nor a text, and no user can write the transformer's object().
ASSUME NoneAssumption ==
    None \notin Nat /\ None \notin BOOLEAN /\ None \notin Texts /\ Undefined # None

Domains == Seq(Texts)
IsList(x) == Len(x) \in Nat /\ DOMAIN x = 1..Len(x)

\* The values a key may have.
Values(version, key) ==
    IF version \in DOMAIN Settings /\ key \in DOMAIN Settings[version]
    THEN Settings[version][key] ELSE {}

\* What values are, where the properties depend on it: numbers, lists, names of hosts,
\* and mappings with no other keys than the defaults'.
ASSUME SettingsAssumption ==
    /\ \A x \in Values(3, "replicas") :
         \A k \in {"minimum", "maximum"} \intersect DOMAIN x : x[k] \in Nat \union {None}
    /\ \A x \in Values(2, "ports") \union Values(3, "ports") : IsList(x)
    /\ \A x \in Values(3, "ingress") :
         /\ IsList(x)
         /\ \A k \in DOMAIN x :
              /\ "host" \in DOMAIN x[k] => x[k].host \in Domains \union {None}
              /\ "paths" \in DOMAIN x[k] => IsList(x[k].paths)
    /\ \A x \in Values(3, "extensions") :
         /\ "secrets" \in DOMAIN x => IsFiniteSet(DOMAIN x.secrets)
         /\ "tls" \in DOMAIN x /\ "short" \in DOMAIN x.tls =>
              DOMAIN x.tls = {"short"} /\ x.tls.short \in BOOLEAN
    /\ Values(2, "host") \subseteq Domains \union {None}
    /\ \A x \in Values(2, "prometheus") : DOMAIN x \subseteq {"enabled", "path"}
    /\ \A x \in Values(2, "healthchecks") : \A c \in DOMAIN x :
         "http" \in DOMAIN x[c] => DOMAIN x[c].http \subseteq {"path", "port"}
    /\ \A x \in Values(2, "resources") : \A r \in DOMAIN x :
         "cpu" \in DOMAIN x[r] => x[r].cpu # Undefined

\* The operator's suffixes, rules and pairs are of names of hosts.
ASSUME OperatorAssumption ==
    /\ IngressSuffixes \in Seq(Domains)
    /\ IsList(HostRewriteRules)
    /\ \A k \in DOMAIN HostRewriteRules :
         \A h \in DOMAIN HostRewriteRules[k] : HostRewriteRules[k][h] \in Domains
    /\ \A h \in DOMAIN HostPairs : HostPairs[h] \in Domains
    /\ DOMAIN IssuerOverrides \subseteq Domains
    /\ DOMAIN GlobalEnv \subseteq Seq(Texts)

VARIABLES
    input,      \* the configuration, its version, whether the namespace is best-effort, and
                \* the image of the operator's default source of secrets
    stage,      \* "given", "parsed", "made"; "refused" where something has raised
    spec,       \* the AppSpec
    ingresses,  \* its Ingresses
    pod         \* its pod template

vars == <<input, stage, spec, ingresses, pod>>

I == INSTANCE IngressDeployer WITH NoAnnotations <- Nothing
D == INSTANCE DeploymentDeployer

Init ==
    /\ \E version \in DOMAIN Settings, besteffort \in BOOLEAN, image \in SecretsImages :
         \E k, l, m \in DOMAIN Settings[version] :
           \E x \in Settings[version][k], y \in Settings[version][l], z \in Settings[version][m] :
             input = [version |-> version, besteffort |-> besteffort, default_image |-> image,
                      config |-> [i \in {k, l, m} |-> IF i = k THEN x ELSE IF i = l THEN y ELSE z]]
    /\ stage = "given"
    /\ spec = Nothing
    /\ ingresses = << >>
    /\ pod = Nothing

\* The deploy ends: the configuration is invalid, or an AppSpec cannot be deployed.
Refuse ==
    /\ stage' = "refused"
    /\ UNCHANGED <<input, spec, ingresses, pod>>

\* CrdWatcher._deploy: spec_factory(...).
Parse ==
    /\ stage = "given"
    /\ LET parsed == SpecOf(input.version, input.config, Additional) IN
       \/ parsed = Invalid /\ Refuse
       \/ /\ parsed # Invalid
          /\ spec' = parsed
          /\ stage' = "parsed"
          /\ UNCHANGED <<input, ingresses, pod>>

\* What the deployers are given: in a best-effort namespace K8s.deploy takes the
\* requirements away.
App ==
    Over([name |-> "app", issuer |-> spec.tls.certificate_issuer, tls |-> spec.tls.enabled,
          default_image |-> input.default_image,
          resources |-> IF input.besteffort THEN [r \in DOMAIN spec.resources |-> None]
                        ELSE spec.resources],
         spec)

\* K8s.deploy: the Ingresses, then the Deployment.
Make ==
    /\ stage = "parsed"
    /\ LET refused == \/ I!ShouldHaveIngress(App) /\ I!LacksHttpPort(App)
                      \/ D!LacksProbe(App)
       IN  \/ refused /\ Refuse
           \/ /\ ~refused
              /\ stage' = "made"
              /\ ingresses' = IF I!ShouldHaveIngress(App) THEN I!Ingresses(App) ELSE << >>
              /\ pod' = D!Pod(App, input.besteffort)
              /\ UNCHANGED <<input, spec>>

Next == Parse \/ Make

Spec == Init /\ [][Next]_vars

-----------------------------------------------------------------------------
(* The AppSpec says what the configuration says. *)

Stages == {"given", "parsed", "made", "refused"}
Parsed(version) == stage \in {"parsed", "made"} /\ input.version = version

\* What a configuration says under a, a.b, a.b.c; d if it does not, or says null.
OrElse(x, d) == IF x = None THEN d ELSE x
Said(a, d) == IF a \in DOMAIN input.config THEN OrElse(input.config[a], d) ELSE d
Says2(a, b) == a \in DOMAIN input.config /\ b \in DOMAIN input.config[a]
Said2(a, b, d) == IF Says2(a, b) THEN OrElse(input.config[a][b], d) ELSE d
Said3(a, b, c, d) ==
    IF Says2(a, b) /\ c \in DOMAIN input.config[a][b] THEN OrElse(input.config[a][b][c], d) ELSE d

\* What a user writes is what the AppSpec has, and only what he leaves out has the
\* default: also a false, a 0 or an empty list (LookupMapping tells them from an
\* absent key), but for the one value that Factory.__call__ takes for an absent one:
\* tls: false leaves the operator's default, where tls: {enabled: false} is a false.
\* The minimum of the replicas is never above the maximum, and there is an
\* autoscaler where it is below.
ExplicitWins ==
    Parsed(3) =>
      /\ spec.admin_access = Said("admin_access", FALSE)
      /\ spec.singleton = Said2("replicas", "singleton", TRUE)
      /\ spec.autoscaler.max = Said2("replicas", "maximum", 5)
      /\ spec.autoscaler.min \in {Said2("replicas", "minimum", 2), spec.autoscaler.max}
      /\ spec.autoscaler.min <= spec.autoscaler.max
      /\ spec.autoscaler.enabled <=> spec.autoscaler.min < spec.autoscaler.max
      /\ spec.prometheus.enabled = Said3("metrics", "prometheus", "enabled", TRUE)
      /\ spec.datadog = Said3("metrics", "datadog", "enabled", FALSE)
      /\ spec.tls.enabled =
           IF Said3("extensions", "tls", "short", FALSE) THEN TRUE
           ELSE Said3("extensions", "tls", "enabled", UseIngressTls = "default_on")
      /\ spec.tls.certificate_issuer = Said3("extensions", "tls", "certificate_issuer", None)
      /\ spec.liveness.delay = Said3("healthchecks", "liveness", "initial_delay_seconds", 10)
      /\ Said("ports", <<None>>) = << >> => spec.ports = << >> /\ spec.ingresses = << >>
      /\ Said("ingress", <<None>>) = << >> => spec.ingresses = << >>

\* What is written of a check: of the readiness what is written of the liveness, if
\* only that is configured.
Written(c) == IF Says2("healthchecks", c) THEN input.config.healthchecks[c] ELSE Nothing
CheckWritten(c) == Written(IF DOMAIN Written(c) = {} THEN "liveness" ELSE c)

\* ... under one of its kinds, and the port that is named there.
KindWritten(c, kind) ==
    IF kind \in DOMAIN CheckWritten(c) THEN CheckWritten(c)[kind] ELSE Nothing
PortWritten(c, kind) ==
    IF "port" \in DOMAIN KindWritten(c, kind) THEN KindWritten(c, kind).port ELSE None

HasPortNamed(name) == \E k \in DOMAIN spec.ports : spec.ports[k].name = name

\* What refers to a port finds one.  A check is on the port it names, and one that
\* names none on one of the application's ports, whatever the default port is called
\* (_check_spec): only to the http check of a version 2 configuration the transformer
\* gives the default of version 2, "http", which the application's ports may lack.  A
\* path has the number of a port that speaks http (resolve_port_number).
PortsResolve ==
    stage \in {"parsed", "made"} =>
      /\ \A c \in {"liveness", "readiness"} :
           LET kind == spec[c].kind
               port == PortWritten(c, kind)
           IN  kind \in {"http", "tcp"} =>
                 \/ port # None /\ spec[c].port = port
                 \/ port = None /\ HasPortNamed(spec[c].port)
                 \/ /\ port = None /\ spec[c].port = "http"
                    /\ input.version = 2 /\ kind = "http" /\ DOMAIN KindWritten(c, kind) # {}
      /\ \A k \in DOMAIN spec.ingresses : \A j \in DOMAIN spec.ingresses[k].paths :
           \E n \in DOMAIN spec.ports :
             spec.ports[n].protocol = "http" /\ spec.ports[n].port = spec.ingresses[k].paths[j].port

\* A version 2 configuration keeps the meaning it had in version 2, where version 3
\* has other defaults: no resources unless asked for, a fixed number of replicas,
\* checks on the path of the port, a readiness like the liveness.
Version2Kept ==
    Parsed(2) =>
      /\ \A r \in {"limits", "requests"} : spec.resources[r] = Said3("resources", r, "cpu", None)
      /\ spec.autoscaler.max = Said("replicas", 2)
      /\ spec.autoscaler.enabled => Said2("autoscaler", "enabled", FALSE)
      /\ spec.admin_access = Said("admin_access", FALSE)
      /\ spec.prometheus.enabled = Said2("prometheus", "enabled", TRUE)
      /\ spec.prometheus.path = Said2("prometheus", "path", "/internal-backstage/prometheus")
      /\ "healthchecks" \notin DOMAIN input.config /\ spec.liveness.kind = "http" =>
           spec.liveness.path = spec.readiness.path
             /\ spec.liveness.path \in {"/"} \union
                  (IF "ports" \in DOMAIN input.config
                   THEN {p.path : p \in {p \in Range(input.config.ports) : "path" \in DOMAIN p}} ELSE {})
      /\ Says2("healthchecks", "liveness") /\ ~Says2("healthchecks", "readiness") =>
           spec.readiness = spec.liveness

-----------------------------------------------------------------------------
(* Every host is served. *)

\* The paths, and their ports, of the default hosts: all that have no annotations, or
\* the default one.
SharedPaths ==
    {<<p.path, p.port>> :
       p \in UNION {Range(i.paths) : i \in {i \in Range(spec.ingresses) : i.annotations = Nothing}}}
DefaultPaths == IF SharedPaths = {} THEN {<<"/", I!NamedHttp(App)[1].port>>} ELSE SharedPaths

\* The hosts, paths, ports and annotations the user asked for, and the default hosts.
Asked ==
    (UNION {{<<I!Rewritten(i.host), p.path, p.port, i.annotations>> : p \in Range(i.paths)} :
              i \in {i \in Range(spec.ingresses) : i.host \notin {None, << >>}}})
    \union {<< <<"app">> \o s, path[1], path[2], Nothing>> :
              s \in Range(IngressSuffixes), path \in DefaultPaths}

\* What is served on the pair of a host that nothing is asked for on: what the first
\* item on a host of that pair asks for (_group_ingresses; items are in their order).
FirstOfPair(items, k) ==
    /\ items[k].host \in DOMAIN HostPairs
    /\ \A j \in DOMAIN items :
         /\ items[j].host # HostPairs[items[k].host]
         /\ j < k /\ items[j].host \in DOMAIN HostPairs =>
              HostPairs[items[j].host] # HostPairs[items[k].host]
OnPairs ==
    LET items == I!OwnItems(App) \o I!DefaultItems(App)
    IN  UNION {{<<HostPairs[items[k].host], p.path, p.port, items[k].annotations>> :
                 p \in Range(items[k].paths)} :
                k \in {k \in DOMAIN items : FirstOfPair(items, k)}}

Rules == UNION {{<<i, r>> : r \in Range(i.rules)} : i \in Range(ingresses)}
Served(rule) ==
    {<<rule[2].host, p.path, p.port, rule[1].annotations>> : p \in Range(rule[2].paths)}

\* All that is asked for is served, with its port and annotations, and so is, on the
\* pair of a host, what the first item on the host asks for; nothing else is.  No two
\* Ingresses of one application have the same name or, without annotations, the same
\* host (_group_ingresses distributes the items, in any order and mixture, over the
\* Ingresses).
ServedOnce ==
    stage = "made" /\ ingresses # << >> =>
      /\ UNION {Served(r) : r \in Rules} = Asked \union OnPairs
      /\ \A i, j \in Range(ingresses) : i # j =>
           /\ i.n # j.n
           /\ i.annotations = Nothing /\ j.annotations = Nothing =>
                {r.host : r \in Range(i.rules)} \intersect {r.host : r \in Range(j.rules)} = {}

\* The hosts that share an Ingress, so a certificate, share its issuer, and that is
\* the one the most specific override wants for each of them: any override that
\* matches and says otherwise is overruled by a longer one.
IssuerOfHost ==
    stage = "made" =>
      \A i \in Range(ingresses) : i.issuer # << >> =>
        \A r \in Range(i.rules), s \in DOMAIN IssuerOverrides :
          IsSuffix(s, r.host) /\ IssuerOverrides[s] # i.issuer[2] =>
            \E t \in DOMAIN IssuerOverrides :
              Len(t) > Len(s) /\ IsSuffix(t, r.host) /\ IssuerOverrides[t] = i.issuer[2]

-----------------------------------------------------------------------------
(* The pod. *)

\* Whatever the operator puts into the global environment, the variables that the
\* daemon manages have its values (deployer.py: "fiaas_managed_env overrides
\* global_env overrides legacy_fiaas_env"), and each global one is there in both
\* forms unless a managed one, or one of the Datadog container's, takes its place.
ManagedEnvWins ==
    stage = "made" =>
      LET env == pod.containers[1].env
          managed == DOMAIN D!ManagedVars \union D!DownwardVars
          datadog == IF spec.datadog THEN D!DatadogVars ELSE {}
          prefixed == {D!Prefixed(g) : g \in DOMAIN GlobalEnv}
      IN  /\ \A k \in managed : env[k] = "managed"
          /\ \A g \in DOMAIN GlobalEnv :
               /\ D!Prefixed(g) \notin managed => env[D!Prefixed(g)] = GlobalEnv[g]
               /\ g \notin managed \union datadog \union prefixed => env[g] = GlobalEnv[g]

\* The application finds its secrets at one place, from one source: the init
\* container of the kind it asked for (none, and no secrets either, if the operator
\* has none of that kind); without asking that of strongbox, if it is configured and
\* the operator has it, or else the operator's default, or else its Secret.  What it
\* mounts is a volume of the pod, no name occurs twice, and in a best-effort
\* namespace no container has requirements.
PodIsSound ==
    stage = "made" =>
      LET sources == {v.source : v \in {v \in Range(pod.volumes) : v.name = <<"app", "secret">>}}
          images == {c.image : c \in Range(pod.initContainers)}
          has(type) == type \in DOMAIN D!SecretImages(App)
          usable == {type \in spec.secrets : has(type)}
          unasked == IF spec.strongbox /\ has("strongbox") THEN "strongbox" ELSE "default"
          distinct(seq) == \A j, k \in DOMAIN seq : seq[j].name = seq[k].name => j = k
      IN  /\ Cardinality(usable) <= 1 =>
               /\ distinct(pod.volumes) /\ distinct(pod.initContainers) /\ distinct(pod.containers)
               /\ \A c \in Range(pod.containers \o pod.initContainers) :
                    {m.name : m \in Range(c.mounts)} \subseteq {v.name : v \in Range(pod.volumes)}
               /\ images # {} => sources = {"emptyDir"}
               /\ spec.secrets # {} =>
                    images = {D!SecretImages(App)[type] : type \in usable} /\ (usable = {} => sources = {})
               /\ spec.secrets = {} =>
                    IF has(unasked) THEN images = {D!SecretImages(App)[unasked]}
                    ELSE images = {} /\ sources = {"secret"}
          /\ input.besteffort => \A c \in Range(pod.containers) : c.resources = {}

=============================================================================
