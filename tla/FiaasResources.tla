--------------------------- MODULE FiaasResources ---------------------------
(***************************************************************************)
(* What fiaas-deploy-daemon shares with the cluster: the Application       *)
(* objects its users write, the watch stream that tells of them, the       *)
(* ApplicationStatus objects and the Deployment of each application.       *)
(*                                                                         *)
(* A deployment id is an opaque label in the code.  Here it is a number,   *)
(* so that "an id never used before" (docs/operator_guide.md asks for it)  *)
(* is the number of the user's update.                                     *)
(***************************************************************************)
EXTENDS Naturals, Sequences

CONSTANTS
    Apps,           \* application names
    MaxRev,         \* bound: user updates per Application
    Keep,           \* OLD_STATUSES_TO_KEEP
    InlineStatus,   \* the include-status-in-app flag
    ReuseIds,       \* users may give a later update an old deployment id
    AllowBad,       \* users may write configurations that do not parse
    AllowDelete     \* users may delete Applications

ASSUME AppsAssumption == Apps # {}
ASSUME MaxRevAssumption == MaxRev \in Nat \ {0}
ASSUME KeepAssumption == Keep \in Nat \ {0}
ASSUME FlagsAssumption ==
    /\ InlineStatus \in BOOLEAN
    /\ ReuseIds \in BOOLEAN
    /\ AllowBad \in BOOLEAN
    /\ AllowDelete \in BOOLEAN

VARIABLES
    app,        \* Application objects; rev numbers the user's updates
    stream,     \* watch events on their way: snapshots of the Application
    seen,       \* the snapshot the watch client delivered last
    result,     \* result of each ApplicationStatus object, or "NONE"
    rank,       \* its place by fiaas/last_updated: 1 the newest, 0 no object
    k8s         \* the Deployment: last job applied (0 none), its rev, readiness

apiVars == <<app, stream, seen, result, rank, k8s>>

Ids == 1..MaxRev
Results == {"INITIATED", "RUNNING", "SUCCESS", "FAILED"}
Terminal == {"SUCCESS", "FAILED"}
Phases == {"live", "deleting", "gone"}

Application ==
    [phase : Phases, rev : 0..MaxRev, gen : Nat, id : Ids, bad : BOOLEAN,
     ogen : Nat, sid : 0..MaxRev, res : Results \union {"NONE"}]

\* An Application as a user creates it: the status fields have their defaults.
Created == [phase |-> "live", rev |-> 1, gen |-> 1, id |-> 1, bad |-> FALSE,
            ogen |-> 0, sid |-> 0, res |-> "NONE"]
Unseen == [Created EXCEPT !.phase = "gone", !.rev = 0, !.gen = 0]
NoDeployment == [n |-> 0, rev |-> 0, ready |-> FALSE]

ResourcesType ==
    /\ app \in [Apps -> Application]
    /\ stream \in [Apps -> Seq(Application)]
    /\ seen \in [Apps -> Application]
    /\ result \in [Apps -> [Ids -> Results \union {"NONE"}]]
    /\ rank \in [Apps -> [Ids -> Nat]]
    /\ k8s \in [Apps -> [n : Nat, rev : 0..MaxRev, ready : BOOLEAN]]

ResourcesInit ==
    /\ app = [a \in Apps |-> Created]
    /\ stream = [a \in Apps |-> <<Created>>]
    /\ seen = [a \in Apps |-> Unseen]
    /\ result = [a \in Apps |-> [i \in Ids |-> "NONE"]]
    /\ rank = [a \in Apps |-> [i \in Ids |-> 0]]
    /\ k8s = [a \in Apps |-> NoDeployment]

\* A PUT that changes the object is seen by the watch; one that does not is not.
Modify(a, new) ==
    /\ app' = [app EXCEPT ![a] = new]
    /\ stream' = IF new = app[a] THEN stream
                 ELSE [stream EXCEPT ![a] = Append(@, new)]

-----------------------------------------------------------------------------
(* Users, and the controllers of the cluster. *)

\* A user's update: a new label, a new spec (which raises the generation), or both.
UserUpdate(a) ==
    /\ app[a].phase = "live"
    /\ app[a].rev < MaxRev
    /\ \E i \in Ids, bump \in {0, 1}, bad \in BOOLEAN :
         /\ ReuseIds \/ i = app[a].rev + 1
         /\ bad => AllowBad
         /\ bump = 0 => i # app[a].id /\ bad = app[a].bad
         /\ Modify(a, [app[a] EXCEPT !.rev = @ + 1, !.gen = @ + bump,
                                     !.id = i, !.bad = bad])
    /\ UNCHANGED <<seen, result, rank, k8s>>

\* Foreground or orphan deletion first sets metadata.deletionTimestamp.
UserDelete(a) ==
    /\ AllowDelete
    /\ app[a].phase = "live"
    /\ Modify(a, [app[a] EXCEPT !.phase = "deleting"])
    /\ UNCHANGED <<seen, result, rank, k8s>>

\* The object goes, and the garbage collector takes what it owns.
Removed(a) ==
    /\ AllowDelete
    /\ app[a].phase # "gone"
    /\ Modify(a, [app[a] EXCEPT !.phase = "gone"])
    /\ result' = [result EXCEPT ![a] = [i \in Ids |-> "NONE"]]
    /\ rank' = [rank EXCEPT ![a] = [i \in Ids |-> 0]]
    /\ k8s' = [k8s EXCEPT ![a] = NoDeployment]
    /\ UNCHANGED seen

\* Pods come up or go down.
PodsChange(a) ==
    /\ k8s[a].n > 0
    /\ k8s' = [k8s EXCEPT ![a].ready = ~@]
    /\ UNCHANGED <<app, stream, seen, result, rank>>

Environment ==
    \E a \in Apps : UserUpdate(a) \/ UserDelete(a) \/ Removed(a) \/ PodsChange(a)

-----------------------------------------------------------------------------
(* The writes of the status handlers. *)

\* The status subresource is written only while the Application carries the id
\* of the deployment reported on, with the generation read here.
SaveInlineStatus(a, i, r) ==
    IF app[a].id = i
    THEN Modify(a, [app[a] EXCEPT !.ogen = app[a].gen, !.sid = i, !.res = r])
    ELSE UNCHANGED <<app, stream>>

\* The places by last update once the object of i has been written.
Touched(ranks, i) ==
    [j \in Ids |-> CASE j = i -> 1
                     [] ranks[j] > 0 /\ (ranks[i] = 0 \/ ranks[j] < ranks[i]) -> ranks[j] + 1
                     [] OTHER -> ranks[j]]

MutSaveStatusCreatesOnly(a, i, r, keep) ==
    IF rank[a][i] > 0
    THEN UNCHANGED <<result, rank>>
    ELSE /\ rank' = [rank EXCEPT ![a][i] = 1]
         /\ result' = [result EXCEPT ![a][i] = r]

\* Update or create the ApplicationStatus of i, then delete all but the newest
\* `keep`.  What is written for an Application that is gone is garbage collected.
SaveStatusObject(a, i, r, keep) ==
    IF app[a].phase = "gone"
    THEN UNCHANGED <<result, rank>>
    ELSE LET new == Touched(rank[a], i)
         IN  /\ rank' = [rank EXCEPT ![a] =
                   [j \in Ids |-> IF new[j] > keep THEN 0 ELSE new[j]]]
             /\ result' = [result EXCEPT ![a] =
                   [j \in Ids |-> IF new[j] > keep THEN "NONE"
                                  ELSE IF j = i THEN r ELSE result[a][j]]]

MutApplyOnlyNew(a, n, rev) ==
    k8s' = IF k8s[a].n > 0 THEN k8s
           ELSE [k8s EXCEPT ![a] = [n |-> n, rev |-> rev, ready |-> FALSE]]

\* The Deployment of job n with content rev is written.  The same content leaves
\* its generation and readiness alone.
ApplyDeployment(a, n, rev) ==
    IF app[a].phase = "gone"
    THEN UNCHANGED k8s
    ELSE k8s' = [k8s EXCEPT ![a] =
                   [n |-> n, rev |-> rev, ready |-> @.ready /\ @.rev = rev]]

\* What a new watch lists: every Application whose version was not yet delivered.
Relisted(a, last) ==
    IF app[a].phase = "gone" \/ app[a] = last THEN << >> ELSE <<app[a]>>
=============================================================================
