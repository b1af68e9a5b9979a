----------------------------- MODULE StatusStore -----------------------------
(***************************************************************************)
(* crd/status.py with retry.py, call by call: each API call of a report is *)
(* a step, so threads that report on one application at a time, and its    *)
(* user, come between a read and the write based on it.  The API server    *)
(* refuses a write based on a version that is not the current one (409);   *)
(* a refused save is tried again from its start, CONFLICT_MAX_RETRIES      *)
(* times in all.                                                           *)
(*                                                                         *)
(* Instead of resourceVersions, a thread's copy of an object is "fresh"    *)
(* until somebody else writes the object; instead of times, each holder of *)
(* a time (a status object, or a thread that is saving one) knows the set  *)
(* of the holders of earlier ones.  So nothing here needs a bound.         *)
(***************************************************************************)
EXTENDS Naturals, FiniteSets

CONSTANTS
    Threads,        \* those who report
    Ids,            \* deployment ids of the application
    Says,           \* Says[t]: the results thread t reports
    Tagged,         \* threads whose log lines name their deploy (set_extras)
    Keep,           \* OLD_STATUSES_TO_KEEP
    Tries,          \* CONFLICT_MAX_RETRIES
    InlineStatus,   \* the include-status-in-app flag
    None

Results == {"INITIATED", "RUNNING", "SUCCESS", "FAILED"}

ASSUME ThreadsAssumption == IsFiniteSet(Threads) /\ Threads \intersect Ids = {}
ASSUME IdsAssumption == IsFiniteSet(Ids) /\ Ids # {}
ASSUME SaysAssumption == Says \in [Threads -> SUBSET Results] /\ Tagged \subseteq Threads
ASSUME BoundsAssumption == Keep \in Nat \ {0} /\ Tries \in Nat \ {0}
ASSUME FlagAssumption == InlineStatus \in BOOLEAN
ASSUME NoneAssumption == None \notin Ids \union Results \union Threads

VARIABLES
    app,        \* the Application: its id, and its status: id, result, error logs
    status,     \* result of the ApplicationStatus of each id, None if there is none
    before,     \* by fiaas/last_updated: the holders of earlier times
    errors,     \* ids with lines in the buffer of error logs
    w,          \* each thread's report
    dirty       \* history: a cleanup was broken off, and none was made since

vars == <<app, status, before, errors, w, dirty>>

Holders == Ids \union Threads
Final == {"SUCCESS", "FAILED"}
Ends == {"none", "ok", "Conflict", "NotFound", "Error"}

Writer ==
    [pc : {"idle", "getApp", "putApp", "stamp", "get", "getOrCreate", "save", "list", "delete"},
     i : Ids \union {None}, r : Results \union {None},
     try : 1..Tries, copy : {"none", "new", "fresh", "stale"}, errs : BOOLEAN,
     todo : SUBSET Ids, end : Ends]

TypeOK ==
    /\ app \in [id : Ids, sid : Ids \union {None}, res : Results \union {None}, errs : BOOLEAN]
    /\ status \in [Ids -> Results \union {None}]
    /\ before \in [Holders -> SUBSET Holders]
    /\ errors \subseteq Ids
    /\ w \in [Threads -> Writer]
    /\ dirty \in BOOLEAN

Idle(end) ==
    [pc |-> "idle", i |-> None, r |-> None, try |-> 1, copy |-> "none", errs |-> FALSE,
     todo |-> {}, end |-> end]

Init ==
    /\ \E i \in Ids : app = [id |-> i, sid |-> None, res |-> None, errs |-> FALSE]
    /\ status = [i \in Ids |-> None]
    /\ before = [x \in Holders |-> {}]
    /\ errors = {}
    /\ w = [t \in Threads |-> Idle("none")]
    /\ dirty = FALSE

-----------------------------------------------------------------------------
Step(t, state) == w' = [w EXCEPT ![t] = state]
Goto(t, pc) == Step(t, [w[t] EXCEPT !.pc = pc])

\* Thread t writes or deletes the status of i: the copies of others are stale.
Spoil(i, t, state) ==
    w' = [u \in Threads |->
            IF u = t THEN state
            ELSE IF w[u].pc = "save" /\ w[u].i = i /\ w[u].copy = "fresh"
                 THEN [w[u] EXCEPT !.copy = "stale"]
                 ELSE w[u]]

\* The same for the Application; its user is no thread.
SpoilApp(t, state) ==
    w' = [u \in Threads |->
            IF u = t THEN state
            ELSE IF w[u].pc = "putApp" THEN [w[u] EXCEPT !.copy = "stale"] ELSE w[u]]

\* t takes the time, ...
Timed ==
    {i \in Ids : status[i] # None} \union
    {t \in Threads : w[t].pc \in {"get", "getOrCreate", "save"}}
Latest(t) ==
    before' = [x \in Holders |-> IF x = t THEN Timed \ {t} ELSE before[x] \ {t}]

\* ... and the status of i takes it over.
Inherit(i, t) ==
    before' = [x \in Holders |->
                 IF x = i THEN before[t] \ {i}
                 ELSE IF x = t THEN {}
                 ELSE IF t \in before[x] THEN (before[x] \union {i}) \ {t}
                 ELSE before[x] \ {i}]

MutRefusedOnceMore(t, again) ==
    /\ Step(t, IF w[t].try <= Tries
               THEN [w[t] EXCEPT !.pc = again, !.try = @ + 1, !.copy = "none", !.errs = FALSE]
               ELSE Idle("Conflict"))
    /\ UNCHANGED dirty

MutRefusedAlways(t, again) ==
    /\ Step(t, [w[t] EXCEPT !.pc = again, !.copy = "none", !.errs = FALSE])
    /\ UNCHANGED dirty

\* backoff gives up, or calls the function again from its start.
Refused(t, again) ==
    /\ Step(t, IF w[t].try < Tries
               THEN [w[t] EXCEPT !.pc = again, !.try = @ + 1, !.copy = "none", !.errs = FALSE]
               ELSE Idle("Conflict"))
    /\ UNCHANGED dirty

-----------------------------------------------------------------------------
\* A thread sends deploy_status_changed, having logged why if the deploy failed.
Begin(t, i, r) ==
    /\ w[t].pc = "idle"
    /\ r \in Says[t]
    /\ errors' = IF r = "FAILED" /\ t \in Tagged THEN errors \union {i} ELSE errors
    /\ Step(t, [Idle("none") EXCEPT !.pc = IF InlineStatus THEN "getApp" ELSE "stamp",
                                    !.i = i, !.r = r])
    /\ UNCHANGED <<app, status, before, dirty>>

\* A user writes the Application.
UserEdit ==
    /\ \E i \in Ids : app' = [app EXCEPT !.id = i]
    /\ SpoilApp(None, None)
    /\ UNCHANGED <<status, before, errors, dirty>>

\* FiaasApplication.get, and the logs if there is something to save; those of a
\* final result are taken out of their buffer.
GetApp(t) ==
    /\ w[t].pc = "getApp"
    /\ \/ /\ app.id # w[t].i
          /\ Step(t, [w[t] EXCEPT !.pc = "stamp", !.try = 1])
          /\ UNCHANGED errors
       \/ /\ app.id = w[t].i
          /\ Step(t, [w[t] EXCEPT !.pc = "putApp", !.copy = "fresh", !.errs = w[t].i \in errors])
          /\ errors' = IF w[t].r \in Final THEN errors \ {w[t].i} ELSE errors
    /\ UNCHANGED <<app, status, before, dirty>>

WriteApp(t) ==
    app' = [app EXCEPT !.sid = w[t].i, !.res = w[t].r, !.errs = w[t].errs]

MutPutAppBlindly(t) ==
    /\ w[t].pc = "putApp"
    /\ WriteApp(t)
    /\ SpoilApp(t, [w[t] EXCEPT !.pc = "stamp", !.try = 1, !.copy = "none", !.errs = FALSE])
    /\ UNCHANGED <<status, before, errors, dirty>>

\* app.save_status
PutApp(t) ==
    /\ w[t].pc = "putApp"
    /\ \/ /\ w[t].copy = "fresh"
          /\ WriteApp(t)
          /\ SpoilApp(t, [w[t] EXCEPT !.pc = "stamp", !.try = 1, !.copy = "none", !.errs = FALSE])
          /\ UNCHANGED dirty
       \/ /\ w[t].copy = "stale"
          /\ Refused(t, "getApp")
          /\ UNCHANGED app
    /\ UNCHANGED <<status, before, errors>>

\* now()
Stamp(t) ==
    /\ w[t].pc = "stamp"
    /\ Latest(t)
    /\ Goto(t, "get")
    /\ UNCHANGED <<app, status, errors, dirty>>

\* FiaasApplicationStatus.get, then get_or_create, which gets once more.
Get(t) ==
    /\ w[t].pc \in {"get", "getOrCreate"}
    /\ Step(t, IF status[w[t].i] # None
               THEN [w[t] EXCEPT !.pc = "save", !.copy = "fresh"]
               ELSE IF w[t].pc = "get" THEN [w[t] EXCEPT !.pc = "getOrCreate"]
               ELSE [w[t] EXCEPT !.pc = "save", !.copy = "new"])
    /\ UNCHANGED <<app, status, before, errors, dirty>>

WriteStatus(t, state) ==
    /\ status' = [status EXCEPT ![w[t].i] = w[t].r]
    /\ Inherit(w[t].i, t)
    /\ Spoil(w[t].i, t, state)

\* What the API server says of status.save: a POST or a PUT.
Accepted(t) == w[t].copy = "fresh" \/ (w[t].copy = "new" /\ status[w[t].i] = None)
Missing(t) == w[t].copy = "stale" /\ status[w[t].i] = None

MutSave(t) ==
    /\ w[t].pc = "save"
    /\ \/ Accepted(t) /\ WriteStatus(t, [w[t] EXCEPT !.pc = "list", !.copy = "none"])
       \/ ~Accepted(t) /\ Goto(t, "list") /\ UNCHANGED <<status, before>>
    /\ UNCHANGED <<app, errors, dirty>>

Save(t) ==
    /\ w[t].pc = "save"
    /\ \/ /\ Accepted(t)
          /\ WriteStatus(t, [w[t] EXCEPT !.pc = "list", !.copy = "none"])
          /\ UNCHANGED dirty
       \/ /\ Missing(t)
          /\ Step(t, Idle("NotFound"))
          /\ UNCHANGED <<status, before, dirty>>
       \/ /\ ~Accepted(t) /\ ~Missing(t)
          /\ Refused(t, "stamp")
          /\ UNCHANGED <<status, before>>
    /\ UNCHANGED <<app, errors>>

-----------------------------------------------------------------------------
(* _cleanup *)

Existing == {i \in Ids : status[i] # None}
Newer(i) == {j \in Existing : i \in before[j]}

MutOutdated == {i \in Existing : Cardinality(Newer(i)) > Keep}

\* statuses[:-OLD_STATUSES_TO_KEEP]
Outdated == {i \in Existing : Cardinality(Newer(i)) >= Keep}

Finish(t, todo) ==
    IF todo = {} THEN Idle("ok") ELSE [w[t] EXCEPT !.pc = "delete", !.todo = todo]

List(t) ==
    /\ w[t].pc = "list"
    /\ Step(t, Finish(t, Outdated))
    /\ dirty' = FALSE
    /\ UNCHANGED <<app, status, before, errors>>

\* A status that is no longer there is not an error.
Delete(t, i) ==
    /\ w[t].pc = "delete"
    /\ i \in w[t].todo
    /\ status' = [status EXCEPT ![i] = None]
    /\ Spoil(i, t, Finish(t, w[t].todo \ {i}))
    /\ UNCHANGED <<app, before, errors, dirty>>

\* Any call raises something else; a write may have been performed.
Fails(t) ==
    /\ w[t].pc # "idle"
    /\ \/ /\ Step(t, Idle("Error"))
          /\ UNCHANGED <<app, status, before>>
       \/ /\ w[t].pc = "putApp" /\ w[t].copy = "fresh"
          /\ WriteApp(t)
          /\ SpoilApp(t, Idle("Error"))
          /\ UNCHANGED <<status, before>>
       \/ /\ w[t].pc = "save" /\ Accepted(t)
          /\ WriteStatus(t, Idle("Error"))
          /\ UNCHANGED app
    /\ dirty' = (dirty \/ w[t].pc \in {"save", "list", "delete"})
    /\ UNCHANGED errors

Work(t) ==
    \/ GetApp(t) \/ PutApp(t)
    \/ Stamp(t) \/ Get(t) \/ Save(t)
    \/ List(t) \/ \E i \in Ids : Delete(t, i)

Next ==
    \/ \E t \in Threads, i \in Ids, r \in Results : Begin(t, i, r)
    \/ \E t \in Threads : Work(t) \/ Fails(t)
    \/ UserEdit

Spec == Init /\ [][Next]_vars

\* A thread in the middle of a report goes on with it.
FairSpec == Spec /\ \A t \in Threads : WF_vars(Work(t))

-----------------------------------------------------------------------------
\* However often the user and the other threads get in between, a report ends:
\* refused saves are tried again a bounded number of times.
ReportsEnd == \A t \in Threads : w[t].pc # "idle" ~> w[t].pc = "idle"

\* No more statuses than may be kept are there, or will be once the cleanups under
\* way, of lists that may be old by now, are through.
Bounded ==
    dirty \/
    Cardinality({i \in Existing : \A t \in Threads : i \notin w[t].todo})
      <= Keep + Cardinality({t \in Threads : w[t].pc = "list"})

\* The status in the Application is replaced only by a report on the deployment id
\* the Application has at that moment (docs/operator_guide.md: reports of other
\* deploys are not written), though its user changes the id at any time.
InlineOfCurrent ==
    [][<<app'.sid, app'.res>> # <<app.sid, app.res>> =>
         app'.sid = app'.id /\ app'.id = app.id]_vars

\* A report stores its result exactly once, or raises.
Call(writer) ==
    [key |-> writer.i, val |-> writer.r,
     stage |-> IF writer.pc = "idle" THEN "idle"
               ELSE IF writer.pc \in {"list", "delete"} THEN "stored" ELSE "called"]
Calls == [t \in Threads |-> Call(w[t])]
Register == INSTANCE StatusRegister WITH
    Writers <- Threads, Keys <- Ids, Values <- Results, value <- status, call <- Calls
RegisterSpec == Register!Spec
==============================================================================
