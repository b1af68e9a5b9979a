----------------------------- MODULE SpecFactory -----------------------------
(***************************************************************************)
(* specs/: from the configuration of an application to the facts of its    *)
(* AppSpec.  A configuration is a record with some of the keys the         *)
(* defaults have; version 2 is first transformed to version 3.  A mapping  *)
(* or list that is null is the same to the look-ups as one left out, so    *)
(* only plain values may be None.  Port numbers and quantities are names:  *)
(* they are only ever compared.                                            *)
(***************************************************************************)
EXTENDS Integers, FiniteSets, Sequences, SequencesExt, Mappings

CONSTANTS
    None,           \* Python's None
    Undefined,      \* RESOURCE_UNDEFINED_UGLYHACK
    UseIngressTls,  \* the flag --use-ingress-tls
    DatadogImage    \* datadog_container_image: None if there is none

Invalid == [invalid |-> TRUE]       \* what raises: an InvalidConfiguration, or a KeyError
Nothing == [k \in {} |-> None]      \* {}

-----------------------------------------------------------------------------
(* lookup.py: a part of a configuration (c, Nothing if absent) beside that *)
(* of the defaults (d).                                                    *)

Look(c, d) == [c |-> c, d |-> d]

\* get_config_value of a plain value.
Configured(l, k) == IF k \in DOMAIN l.c THEN l.c[k] ELSE None

MutVal(l, k) ==
    IF Configured(l, k) = None \/ (k \in {"enabled", "admin_access", "singleton"} /\ ~Configured(l, k))
    THEN l.d[k] ELSE Configured(l, k)

\* _Lookup.__getitem__ of a plain value, and of a mapping.
Val(l, k) == IF Configured(l, k) = None THEN l.d[k] ELSE Configured(l, k)
At(l, k) == Look(IF k \in DOMAIN l.c THEN l.c[k] ELSE Nothing, l.d[k])

\* get_config_value of a mapping is true.
Given(l, k) == k \in DOMAIN l.c /\ DOMAIN l.c[k] # {}

\* The elements of a list (_LookupList): they all have the first default.
Elems(l, k) ==
    LET list == IF k \in DOMAIN l.c THEN l.c[k] ELSE l.d[k]
    IN  [j \in DOMAIN list |->
           Look(IF k \in DOMAIN l.c THEN list[j] ELSE Nothing, l.d[k][1])]

\* LookupMapping.__iter__: the keys of the longer one.
Keys(l) == IF Cardinality(DOMAIN l.d) > Cardinality(DOMAIN l.c) THEN DOMAIN l.d ELSE DOMAIN l.c

Flattened(l) == [k \in Keys(l) |-> Val(l, k)]

-----------------------------------------------------------------------------
(* The defaults. *)

Check(path) ==
    [execute |-> [command |-> None], http |-> [path |-> path, port |-> "http"],
     tcp |-> [port |-> None], initial_delay_seconds |-> 10]

V2Defaults ==
    [replicas |-> 2,
     autoscaler |-> [enabled |-> FALSE, min_replicas |-> 2],
     host |-> None,
     admin_access |-> FALSE,
     prometheus |-> [enabled |-> TRUE, path |-> "/internal-backstage/prometheus"],
     resources |-> [r \in {"limits", "requests"} |-> [cpu |-> None]],
     ports |-> <<[protocol |-> "http", name |-> "http", port |-> "80", target_port |-> "80",
                  path |-> "/"]>>,
     healthchecks |-> [c \in {"liveness", "readiness"} |-> Check("/")]]

Objects == {"deployment", "pod", "status"}    \* some of LabelAndAnnotationSpec's fields

V3Defaults ==
    [replicas |-> [minimum |-> 2, maximum |-> 5, singleton |-> TRUE],
     ingress |-> <<[host |-> None, paths |-> <<[path |-> "/", port |-> "http"]>>,
                    annotations |-> Nothing]>>,
     healthchecks |-> [liveness |-> Check("/_/health"), readiness |-> Check("/_/ready")],
     resources |-> [limits |-> [cpu |-> "400m"], requests |-> [cpu |-> "200m"]],
     metrics |-> [prometheus |-> [enabled |-> TRUE, path |-> "/_/metrics"],
                  datadog |-> [enabled |-> FALSE]],
     ports |-> <<[protocol |-> "http", name |-> "http", port |-> "80", target_port |-> "8080"]>>,
     labels |-> [o \in Objects |-> Nothing],
     admin_access |-> FALSE,
     secrets_in_environment |-> FALSE,
     extensions |-> [strongbox |-> [iam_role |-> None, groups |-> << >>],
                     tls |-> [enabled |-> UseIngressTls = "default_on", certificate_issuer |-> None],
                     secrets |-> Nothing]]

-----------------------------------------------------------------------------
(* v3/factory.py *)

AutoscalerSpec(l) ==
    LET maximum == Val(l, "maximum")
        minimum == IF maximum < Val(l, "minimum") THEN maximum ELSE Val(l, "minimum")
    IN  [enabled |-> minimum # maximum, min |-> minimum, max |-> maximum]

\* _resource_requirements_spec
Resource(v) == IF v = Undefined THEN None ELSE v

PortFields == {"protocol", "name", "port", "target_port"}
PortSpecs(l, fields) ==
    [k \in DOMAIN Elems(l, "ports") |-> [f \in fields |-> Val(Elems(l, "ports")[k], f)]]

\* What a check is configured as, or what the only port suggests.
CheckKind(l, ports) ==
    IF Given(l, "execute") THEN "execute"
    ELSE IF Given(l, "http") THEN "http"
    ELSE IF Given(l, "tcp") THEN "tcp"
    ELSE IF Len(ports) # 1 THEN "invalid"
    ELSE IF ports[1].protocol \in {"http", "tcp"} THEN ports[1].protocol ELSE "none"

MutCheckSpec(l, ports) ==
    LET kind == CheckKind(l, ports)
    IN  IF kind = "invalid" THEN Invalid
        ELSE [kind |-> kind,
              port |-> IF kind \in {"http", "tcp"} THEN Val(At(l, kind), "port") ELSE None,
              path |-> IF kind = "http" THEN Val(At(l, kind), "path") ELSE None,
              delay |-> Val(l, "initial_delay_seconds")]

\* _check_spec, _http_check_spec, _tcp_check_spec, _exec_check_spec.  The port of a
\* check is only taken from its configuration, else it is the first.
CheckSpec(l, ports) ==
    LET kind == CheckKind(l, ports)
        port == Configured(At(l, kind), "port")
    IN  IF kind \in {"execute", "none"}
        THEN [kind |-> kind, port |-> None, path |-> None, delay |-> Val(l, "initial_delay_seconds")]
        ELSE IF kind = "invalid" \/ (port = None /\ ports = << >>) THEN Invalid
        ELSE [kind |-> kind,
              port |-> IF port # None THEN port ELSE ports[1].name,
              path |-> IF kind = "http" THEN Val(At(l, kind), "path") ELSE None,
              delay |-> Val(l, "initial_delay_seconds")]

\* A readiness that is not configured is a copy of a configured liveness (in both
\* versions).
ReadinessOf(l) ==
    IF ~Given(l, "readiness") /\ Given(l, "liveness")
    THEN At(l, "liveness") ELSE At(l, "readiness")

\* _labels_annotations_spec: the Application's additional labels over the configured
\* ones, those for one kind of object over the global ones.
Labels(l, overrides) ==
    [o \in Objects |->
       Over(overrides[o],
            Over(overrides["_global"], IF o = "status" THEN Nothing ELSE Flattened(At(l, o))))]

\* http_ports: the last of two ports of one name counts.
HttpPorts(ports) ==
    LET http == {k \in DOMAIN ports : ports[k].protocol = "http"}
    IN  [name \in {ports[k].name : k \in http} |-> ports[Max({k \in http : ports[k].name = name})].port]

\* resolve_port_number: the number a path's port stands for, by name or itself; None
\* is an InvalidConfiguration.
PortNumber(ports, port) ==
    LET http == HttpPorts(ports)
    IN  CASE port \in DOMAIN http -> http[port]
          [] port \in Range(http) \ DOMAIN http -> port
          [] OTHER -> None

\* _ingress_items
IngressItems(l, ports) ==
    IF DOMAIN HttpPorts(ports) = {} THEN << >>
    ELSE [k \in DOMAIN Elems(l, "ingress") |->
            LET item == Elems(l, "ingress")[k]
                paths == Elems(item, "paths")
            IN  [host |-> Val(item, "host"),
                 paths |-> [j \in DOMAIN paths |->
                              [path |-> Val(paths[j], "path"),
                               port |-> PortNumber(ports, Val(paths[j], "port"))]],
                 annotations |-> Flattened(At(item, "annotations"))]]

Strongbox(l) == Configured(l, "iam_role") # None /\ Configured(l, "groups") # None

\* tls: true (here [short |-> TRUE]) stands for tls: {enabled: true}; tls: false is
\* neither that nor a mapping, so it counts as absent.
TlsConfig(tls) ==
    IF "short" \notin DOMAIN tls THEN tls
    ELSE IF tls.short THEN [enabled |-> TRUE] ELSE Nothing

\* _secrets_specs: an entry without one of these, or null, raises.
LacksSecretKeys(l) ==
    \E type \in DOMAIN l.c : ~({"parameters", "annotations"} \subseteq DOMAIN l.c[type])

\* Factory.__call__ and SpecFactory._validate
AppSpecOf(config, overrides) ==
    LET l == Look(config, V3Defaults)
        ports == PortSpecs(l, PortFields)
        hc == At(l, "healthchecks")
        tls == Look(TlsConfig(At(At(l, "extensions"), "tls").c), V3Defaults.extensions.tls)
        secrets == At(At(l, "extensions"), "secrets")
        spec ==
          [autoscaler |-> AutoscalerSpec(At(l, "replicas")),
           singleton |-> Val(At(l, "replicas"), "singleton"),
           resources |-> [r \in {"limits", "requests"} |->
                            Resource(Val(At(At(l, "resources"), r), "cpu"))],
           admin_access |-> Val(l, "admin_access"),
           secrets_in_environment |-> Val(l, "secrets_in_environment"),
           prometheus |-> [f \in {"enabled", "path"} |-> Val(At(At(l, "metrics"), "prometheus"), f)],
           datadog |-> Val(At(At(l, "metrics"), "datadog"), "enabled"),
           ports |-> ports,
           liveness |-> CheckSpec(At(hc, "liveness"), ports),
           readiness |-> CheckSpec(ReadinessOf(hc), ports),
           labels |-> Labels(At(l, "labels"), overrides),
           ingresses |-> IngressItems(l, ports),
           strongbox |-> Strongbox(At(At(l, "extensions"), "strongbox")),
           tls |-> [f \in {"enabled", "certificate_issuer"} |-> Val(tls, f)],
           secrets |-> Keys(secrets)]
    IN  IF \/ Invalid \in {spec.liveness, spec.readiness}
           \/ LacksSecretKeys(secrets)
           \/ \E k \in DOMAIN spec.ingresses : \E j \in DOMAIN spec.ingresses[k].paths :
                spec.ingresses[k].paths[j].port = None
           \/ spec.datadog /\ DatadogImage = None
        THEN Invalid ELSE spec

-----------------------------------------------------------------------------
(* v2/transformer.py *)

\* _health_check: all that is configured or a default, of one kind of check.
V2Check(l, ports) ==
    LET kind == CheckKind(l, ports)
        how == CASE Given(l, kind) -> Flattened(At(l, kind))
                 [] ~Given(l, kind) /\ kind = "http" -> [path |-> ports[1].path, port |-> ports[1].name]
                 [] ~Given(l, kind) /\ kind = "tcp" -> [port |-> ports[1].name]
                 [] OTHER -> Nothing
        delay == "initial_delay_seconds"
    IN  IF kind = "invalid" THEN Invalid
        ELSE [f \in {kind, delay} \ {"none"} |-> IF f = delay THEN Val(l, delay) ELSE how]

MutUnlessConfigured(v) == v

\* _resource_requirement: v3's default shall not apply.
UnlessConfigured(v) == IF v = None THEN Undefined ELSE v

\* Transformer.__call__
Transformed(config) ==
    LET l == Look(config, V2Defaults)
        ports == PortSpecs(l, PortFields \union {"path"})
        hc == At(l, "healthchecks")
        auto == At(l, "autoscaler")
        paths == FlattenSeq([k \in DOMAIN ports |->
                    IF ports[k].protocol = "http"
                    THEN <<[path |-> ports[k].path, port |-> ports[k].name]>> ELSE << >>])
        liveness == V2Check(At(hc, "liveness"), ports)
        readiness == V2Check(ReadinessOf(hc), ports)
    IN  IF Invalid \in {liveness, readiness} THEN Invalid ELSE
        [replicas |-> [minimum |-> IF Val(auto, "enabled") THEN Val(auto, "min_replicas")
                                   ELSE Val(l, "replicas"),
                       maximum |-> Val(l, "replicas")],
         healthchecks |-> [liveness |-> liveness, readiness |-> readiness],
         metrics |-> [prometheus |-> Flattened(At(l, "prometheus"))],
         admin_access |-> Val(l, "admin_access"),
         resources |-> [r \in {"limits", "requests"} |->
                          [cpu |-> UnlessConfigured(Configured(At(At(l, "resources"), r), "cpu"))]],
         ingress |-> IF paths = << >> THEN << >>
                     ELSE <<[host |-> Val(l, "host"), paths |-> paths]>>,
         ports |-> [k \in DOMAIN ports |->
                      [f \in PortFields |-> ports[k][f]]]]

-----------------------------------------------------------------------------
\* SpecFactory.__call__ for an Application of version 2 or 3.
SpecOf(version, config, overrides) ==
    CASE version = 3 -> AppSpecOf(config, overrides)
      [] version = 2 ->
           IF Transformed(config) = Invalid THEN Invalid
           ELSE AppSpecOf(Transformed(config), overrides)
      [] OTHER -> Invalid
==============================================================================
