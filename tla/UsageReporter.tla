----------------------------- MODULE UsageReporter -----------------------------
(***************************************************************************)
(* usage_reporting/: a receiver of the life cycle's signals that queues an *)
(* event for each deploy that starts or ends, and a thread that tells a    *)
(* server of them, one at a time.  The report of an end carries the time   *)
(* the deploy started, which the transformer keeps by application and      *)
(* deployment id.  A time is represented by the event it was taken at.     *)
(***************************************************************************)
EXTENDS Naturals, Sequences

CONSTANTS
    Deploys,    \* deploys of one application
    IdOf,       \* the deployment id of each
    MaxSends    \* max_tries of _send_data

ASSUME SendsAssumption == MaxSends \in Nat \ {0}

VARIABLES
    events,     \* _event_queue
    queued,     \* number of events queued so far
    started,    \* _deployments_started: the event whose time is kept, 0 none
    sending,    \* the report being sent, the tries it had, and whether a POST is open
    began       \* history: the event that announced the start of each deploy

usageVars == <<events, queued, started, sending, began>>

Keys == {IdOf[d] : d \in Deploys}
Nothing == [n |-> 0, start |-> 0, deploy |-> 0, tries |-> 0, open |-> FALSE]

UsageInit ==
    /\ events = << >>
    /\ queued = 0
    /\ started = [i \in Keys |-> 0]
    /\ sending = Nothing
    /\ began = [d \in Deploys |-> 0]

Put(e) == events' = Append(events, e)

\* _handle_signal: the thread that reports a change puts the event and goes on.
HandleSignal(kind, d) ==
    /\ queued' = queued + 1
    /\ Put([n |-> queued + 1, kind |-> kind, deploy |-> d])
    /\ began' = IF kind = "STARTED" THEN [began EXCEPT ![d] = queued + 1] ELSE began
    /\ UNCHANGED <<started, sending>>

MutTransform(e) ==
    LET i == IdOf[e.deploy] IN
    /\ started' = IF e.kind = "STARTED" THEN [started EXCEPT ![i] = e.n] ELSE started
    /\ sending' = [n |-> e.n, start |-> started'[i], deploy |-> e.deploy,
                    tries |-> 0, open |-> FALSE]

\* The transformer: a start is noted, an end takes what was noted for its id; an
\* end nothing was noted for counts as its own start.
Transform(e) ==
    LET i == IdOf[e.deploy]
        start == IF e.kind = "STARTED" \/ started[i] = 0 THEN e.n ELSE started[i]
    IN  /\ started' = [started EXCEPT ![i] = IF e.kind = "STARTED" THEN e.n ELSE 0]
        /\ sending' = [n |-> e.n, start |-> start, deploy |-> e.deploy,
                        tries |-> 0, open |-> FALSE]

HandleEvent ==
    /\ sending = Nothing
    /\ events # << >>
    /\ Transform(Head(events))
    /\ events' = Tail(events)
    /\ UNCHANGED <<queued, began>>

MutGiveUp == sending' = [sending EXCEPT !.tries = 0, !.open = FALSE]

\* After max_tries the report is logged and forgotten.
GiveUp == sending' = Nothing

\* The thread sends a POST, and waits for its answer without a timeout.
Post ==
    /\ sending # Nothing
    /\ ~sending.open
    /\ sending' = [sending EXCEPT !.open = TRUE]
    /\ UNCHANGED <<events, queued, started, began>>

\* The POST is answered well, or it is not or raises.
Answer ==
    /\ sending.open
    /\ \/ sending' = Nothing
       \/ /\ sending.tries + 1 = MaxSends
          /\ GiveUp
       \/ /\ sending.tries + 1 < MaxSends
          /\ sending' = [sending EXCEPT !.tries = @ + 1, !.open = FALSE]
    /\ UNCHANGED <<events, queued, started, began>>
===============================================================================
