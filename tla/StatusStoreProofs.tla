-------------------------- MODULE StatusStoreProofs --------------------------
(***************************************************************************)
(* Reports to the status store are well typed, write the status of the     *)
(* Application only for the id it has, and implement StatusRegister, for   *)
(* any number of threads, ids and tries.  The argument needs of a thread   *)
(* only that between its reports it names no id, and that its copy of the  *)
(* Application, unless stale, is the Application (WriterInv).              *)
(***************************************************************************)
EXTENDS StatusStore, FiniteSetTheorems, TLAPS

USE ThreadsAssumption, IdsAssumption, SaysAssumption, BoundsAssumption, FlagAssumption, NoneAssumption
DEF ThreadsAssumption, IdsAssumption, SaysAssumption, BoundsAssumption, FlagAssumption, NoneAssumption

WriterInv ==
    \A t \in Threads :
      /\ w[t].pc = "idle" <=> w[t].i = None
      /\ w[t].pc = "idle" <=> w[t].r = None
      /\ w[t].pc = "putApp" /\ w[t].copy = "fresh" => app.id = w[t].i

IInv == TypeOK /\ WriterInv

-----------------------------------------------------------------------------
(* The state of one thread. *)

LEMMA IdleIsWriter ==
    ASSUME NEW end \in Ends
    PROVE  /\ Idle(end) \in Writer
           /\ Idle(end).pc = "idle" /\ Idle(end).i = None /\ Idle(end).r = None
<1>1. 1 \in 1..Tries
  OBVIOUS
<1> QED BY <1>1 DEF Idle, Writer, Ends

LEMMA StepType ==
    ASSUME w \in [Threads -> Writer], NEW t \in Threads, NEW state \in Writer, Step(t, state)
    PROVE  w' \in [Threads -> Writer]
BY DEF Step

LEMMA SpoilType ==
    ASSUME w \in [Threads -> Writer], NEW i, NEW t, NEW state,
           t \in Threads => state \in Writer, Spoil(i, t, state)
    PROVE  w' \in [Threads -> Writer]
<1> SUFFICES ASSUME NEW u \in Threads
             PROVE  (IF u = t THEN state
                     ELSE IF w[u].pc = "save" /\ w[u].i = i /\ w[u].copy = "fresh"
                          THEN [w[u] EXCEPT !.copy = "stale"]
                          ELSE w[u]) \in Writer
  BY DEF Spoil
<1>1. w[u] \in Writer
  OBVIOUS
<1>2. [w[u] EXCEPT !.copy = "stale"] \in Writer
  BY <1>1 DEF Writer
<1> QED BY <1>1, <1>2

LEMMA SpoilAppType ==
    ASSUME w \in [Threads -> Writer], NEW t, NEW state,
           t \in Threads => state \in Writer, SpoilApp(t, state)
    PROVE  w' \in [Threads -> Writer]
<1> SUFFICES ASSUME NEW u \in Threads
             PROVE  (IF u = t THEN state
                     ELSE IF w[u].pc = "putApp" THEN [w[u] EXCEPT !.copy = "stale"]
                          ELSE w[u]) \in Writer
  BY DEF SpoilApp
<1>1. w[u] \in Writer
  OBVIOUS
<1>2. [w[u] EXCEPT !.copy = "stale"] \in Writer
  BY <1>1 DEF Writer
<1> QED BY <1>1, <1>2

-----------------------------------------------------------------------------
(* Types *)

LEMMA InitCorrect == Init => IInv
<1> SUFFICES ASSUME Init PROVE IInv
  OBVIOUS
<1>1. Idle("none") \in Writer /\ Idle("none").pc = "idle"
      /\ Idle("none").i = None /\ Idle("none").r = None
  BY IdleIsWriter DEF Ends
<1>2. app \in [id : Ids, sid : Ids \union {None}, res : Results \union {None}, errs : BOOLEAN]
  BY DEF Init
<1>3. TypeOK
  BY <1>1, <1>2 DEF Init, TypeOK
<1>4. WriterInv
  BY <1>1 DEF Init, WriterInv
<1> QED BY <1>3, <1>4 DEF IInv

\* What a write stores is typed.
LEMMA WriteTypes ==
    ASSUME TypeOK, WriterInv, NEW t \in Threads, w[t].pc # "idle"
    PROVE  /\ WriteApp(t) => app' \in [id : Ids, sid : Ids \union {None},
                                       res : Results \union {None}, errs : BOOLEAN]
           /\ \A state : WriteStatus(t, state) =>
                /\ status' \in [Ids -> Results \union {None}]
                /\ before' \in [Holders -> SUBSET Holders]
<1>1. w[t] \in Writer /\ w[t].i \in Ids /\ w[t].r \in Results /\ w[t].errs \in BOOLEAN
  BY DEF TypeOK, WriterInv, Writer
<1>2. WriteApp(t) => app' \in [id : Ids, sid : Ids \union {None},
                               res : Results \union {None}, errs : BOOLEAN]
  BY <1>1 DEF WriteApp, TypeOK
<1>3. Inherit(w[t].i, t) => before' \in [Holders -> SUBSET Holders]
  BY <1>1 DEF Inherit, TypeOK, Holders
<1>4. \A state : WriteStatus(t, state) => status' \in [Ids -> Results \union {None}]
  BY <1>1 DEF WriteStatus, TypeOK
<1> QED BY <1>2, <1>3, <1>4 DEF WriteStatus

LEMMA RefusedType ==
    ASSUME TypeOK, NEW t \in Threads, NEW again \in {"getApp", "stamp"}, Refused(t, again)
    PROVE  w' \in [Threads -> Writer] /\ dirty' \in BOOLEAN
<1>1. w[t] \in Writer
  BY DEF TypeOK
<1>2. ASSUME w[t].try < Tries
      PROVE  [w[t] EXCEPT !.pc = again, !.try = @ + 1, !.copy = "none", !.errs = FALSE] \in Writer
  <2>1. w[t].try + 1 \in 1..Tries
    BY <1>1, <1>2 DEF Writer
  <2>2. ASSUME NEW n \in 1..Tries
        PROVE  [w[t] EXCEPT !.pc = again, !.try = n, !.copy = "none", !.errs = FALSE] \in Writer
    BY <1>1 DEF Writer
  <2> QED BY <2>1, <2>2
<1>3. Idle("Conflict") \in Writer
  BY IdleIsWriter DEF Ends
<1> QED BY <1>2, <1>3, StepType DEF Refused, TypeOK

LEMMA FinishIsWriter ==
    ASSUME TypeOK, NEW t \in Threads, NEW todo \in SUBSET Ids
    PROVE  Finish(t, todo) \in Writer
<1>1. w[t] \in Writer
  BY DEF TypeOK
<1>2. [w[t] EXCEPT !.pc = "delete", !.todo = todo] \in Writer
  BY <1>1 DEF Writer
<1>3. Idle("ok") \in Writer
  BY IdleIsWriter DEF Ends
<1> QED BY <1>2, <1>3 DEF Finish

LEMMA BeginIsWriter ==
    ASSUME NEW i \in Ids, NEW r \in Results
    PROVE  [Idle("none") EXCEPT !.pc = IF InlineStatus THEN "getApp" ELSE "stamp",
                                !.i = i, !.r = r] \in Writer
<1>1. Idle("none") \in Writer
  BY IdleIsWriter DEF Ends
<1>2. ASSUME NEW s \in Writer, NEW pc \in {"getApp", "stamp"}
      PROVE  [s EXCEPT !.pc = pc, !.i = i, !.r = r] \in Writer
  BY DEF Writer
<1>3. (IF InlineStatus THEN "getApp" ELSE "stamp") \in {"getApp", "stamp"}
  OBVIOUS
<1> QED BY <1>1, <1>2, <1>3, Zenon

LEMMA GetAppIsWriter ==
    ASSUME NEW s \in Writer, NEW logged \in BOOLEAN
    PROVE  [s EXCEPT !.pc = "putApp", !.copy = "fresh", !.errs = logged] \in Writer
BY DEF Writer

LEMMA StampIsWriter ==
    ASSUME NEW s \in Writer
    PROVE  [s EXCEPT !.pc = "stamp", !.try = 1, !.copy = "none", !.errs = FALSE] \in Writer
<1>1. 1 \in 1..Tries /\ FALSE \in BOOLEAN
  OBVIOUS
<1>2. ASSUME NEW n \in 1..Tries, NEW b \in BOOLEAN
      PROVE  [s EXCEPT !.pc = "stamp", !.try = n, !.copy = "none", !.errs = b] \in Writer
  BY DEF Writer
<1> QED BY <1>1, <1>2, Zenon

LEMMA TypeStep ==
    ASSUME TypeOK, WriterInv, [Next]_vars
    PROVE  TypeOK'
<1> USE DEF TypeOK
<1>1. ASSUME NEW t \in Threads, NEW i \in Ids, NEW r \in Results, Begin(t, i, r)
      PROVE  TypeOK'
  <2> QED BY <1>1, BeginIsWriter, StepType DEF Begin
<1>2. ASSUME UserEdit PROVE TypeOK'
  <2>1. w' \in [Threads -> Writer]
    BY <1>2, SpoilAppType DEF UserEdit
  <2>2. app' \in [id : Ids, sid : Ids \union {None}, res : Results \union {None}, errs : BOOLEAN]
    BY <1>2 DEF UserEdit
  <2> QED BY <1>2, <2>1, <2>2 DEF UserEdit
<1>3. ASSUME NEW t \in Threads, GetApp(t) PROVE TypeOK'
  <2>1. w[t] \in Writer
    OBVIOUS
  <2>2. [w[t] EXCEPT !.pc = "stamp", !.try = 1] \in Writer
    <3>1. 1 \in 1..Tries
      OBVIOUS
    <3> QED BY <2>1, <3>1 DEF Writer
  <2>3. [w[t] EXCEPT !.pc = "putApp", !.copy = "fresh", !.errs = w[t].i \in errors] \in Writer
    <3>1. (w[t].i \in errors) \in BOOLEAN
      OBVIOUS
    <3> QED BY <2>1, <3>1, GetAppIsWriter, Zenon
  <2>4. w' \in [Threads -> Writer]
    BY <1>3, <2>2, <2>3, StepType DEF GetApp
  <2> QED BY <1>3, <2>4 DEF GetApp
<1>4. ASSUME NEW t \in Threads, PutApp(t) PROVE TypeOK'
  <2>1. w[t] \in Writer
    OBVIOUS
  <2>2. [w[t] EXCEPT !.pc = "stamp", !.try = 1, !.copy = "none", !.errs = FALSE] \in Writer
    BY <2>1, StampIsWriter
  <2>3. CASE /\ WriteApp(t)
             /\ SpoilApp(t, [w[t] EXCEPT !.pc = "stamp", !.try = 1, !.copy = "none", !.errs = FALSE])
             /\ UNCHANGED dirty
    BY <1>4, <2>2, <2>3, SpoilAppType, WriteTypes DEF PutApp
  <2>4. CASE Refused(t, "getApp") /\ UNCHANGED app
    BY <1>4, <2>4, RefusedType DEF PutApp
  <2> QED BY <1>4, <2>3, <2>4 DEF PutApp
<1>5. ASSUME NEW t \in Threads, Stamp(t) PROVE TypeOK'
  <2>1. w[t] \in Writer
    OBVIOUS
  <2>2. [w[t] EXCEPT !.pc = "get"] \in Writer
    BY <2>1 DEF Writer
  <2>3. before' \in [Holders -> SUBSET Holders]
    BY <1>5 DEF Stamp, Latest, Timed, Holders
  <2> QED BY <1>5, <2>2, <2>3, StepType DEF Stamp, Goto
<1>6. ASSUME NEW t \in Threads, Get(t) PROVE TypeOK'
  <2>1. w[t] \in Writer
    OBVIOUS
  <2>2. /\ [w[t] EXCEPT !.pc = "save", !.copy = "fresh"] \in Writer
        /\ [w[t] EXCEPT !.pc = "getOrCreate"] \in Writer
        /\ [w[t] EXCEPT !.pc = "save", !.copy = "new"] \in Writer
    BY <2>1 DEF Writer
  <2>3. w' \in [Threads -> Writer]
    BY <1>6, <2>2, StepType DEF Get
  <2> QED BY <1>6, <2>3 DEF Get
<1>7. ASSUME NEW t \in Threads, Save(t) PROVE TypeOK'
  <2>1. w[t] \in Writer
    OBVIOUS
  <2>2. [w[t] EXCEPT !.pc = "list", !.copy = "none"] \in Writer
    BY <2>1 DEF Writer
  <2>3. CASE WriteStatus(t, [w[t] EXCEPT !.pc = "list", !.copy = "none"]) /\ UNCHANGED dirty
    <3>1. w' \in [Threads -> Writer]
      BY <2>2, <2>3, SpoilType DEF WriteStatus
    <3> QED BY <1>7, <2>3, <3>1, WriteTypes DEF Save
  <2>4. CASE Step(t, Idle("NotFound")) /\ UNCHANGED <<status, before, dirty>>
    BY <1>7, <2>4, IdleIsWriter, StepType DEF Save, Ends
  <2>5. CASE Refused(t, "stamp") /\ UNCHANGED <<status, before>>
    BY <1>7, <2>5, RefusedType DEF Save
  <2> QED BY <1>7, <2>3, <2>4, <2>5 DEF Save
<1>8. ASSUME NEW t \in Threads, List(t) PROVE TypeOK'
  <2>1. Outdated \in SUBSET Ids
    BY DEF Outdated, Existing
  <2> QED BY <1>8, <2>1, FinishIsWriter, StepType DEF List
<1>9. ASSUME NEW t \in Threads, NEW i \in Ids, Delete(t, i) PROVE TypeOK'
  <2>1. w[t].todo \ {i} \in SUBSET Ids
    BY DEF Writer
  <2>2. w' \in [Threads -> Writer]
    BY <1>9, <2>1, FinishIsWriter, SpoilType DEF Delete
  <2> QED BY <1>9, <2>2 DEF Delete
<1>10. ASSUME NEW t \in Threads, Fails(t) PROVE TypeOK'
  <2>1. Idle("Error") \in Writer
    BY IdleIsWriter DEF Ends
  <2>2. dirty' \in BOOLEAN /\ errors' \subseteq Ids
    BY <1>10 DEF Fails
  <2>3. CASE Step(t, Idle("Error")) /\ UNCHANGED <<app, status, before>>
    BY <2>1, <2>2, <2>3, StepType
  <2>4. CASE WriteApp(t) /\ SpoilApp(t, Idle("Error")) /\ UNCHANGED <<status, before>>
    BY <1>10, <2>1, <2>2, <2>4, SpoilAppType, WriteTypes DEF Fails
  <2>5. CASE WriteStatus(t, Idle("Error")) /\ UNCHANGED app
    <3>1. w' \in [Threads -> Writer]
      BY <2>1, <2>5, SpoilType DEF WriteStatus
    <3> QED BY <1>10, <2>2, <2>5, <3>1, WriteTypes DEF Fails
  <2> QED BY <1>10, <2>3, <2>4, <2>5 DEF Fails
<1>11. CASE UNCHANGED vars
  BY <1>11 DEF vars
<1> QED
  BY <1>1, <1>2, <1>3, <1>4, <1>5, <1>6, <1>7, <1>8, <1>9, <1>10, <1>11 DEF Next, Work

-----------------------------------------------------------------------------
(* The invariant *)

\* A step of thread t leaves what the others report, though not their copies.
LEMMA Frame ==
    ASSUME TypeOK, NEW t \in Threads, NEW i, NEW state,
           Step(t, state) \/ Spoil(i, t, state) \/ SpoilApp(t, state)
    PROVE  /\ w'[t] = state
           /\ \A u \in Threads \ {t} :
                /\ w'[u].pc = w[u].pc /\ w'[u].i = w[u].i /\ w'[u].r = w[u].r
                /\ w'[u].copy = "fresh" => w[u].copy = "fresh"
<1>1. w \in [Threads -> Writer] /\ \A u \in Threads : w[u] \in Writer
  BY DEF TypeOK
<1>2. \A u \in Threads :
        LET s == [w[u] EXCEPT !.copy = "stale"] IN
        s.pc = w[u].pc /\ s.i = w[u].i /\ s.r = w[u].r /\ s.copy = "stale"
  BY <1>1 DEF Writer
<1>3. CASE Step(t, state)
  BY <1>1, <1>3 DEF Step
<1>4. CASE Spoil(i, t, state)
  BY <1>1, <1>2, <1>4 DEF Spoil
<1>5. CASE SpoilApp(t, state)
  BY <1>1, <1>2, <1>5 DEF SpoilApp
<1> QED BY <1>3, <1>4, <1>5

\* So of the invariant only what it says of t and of the id is to be shown.
LEMMA FrameInv ==
    ASSUME TypeOK, WriterInv, NEW t \in Threads, NEW i, NEW state,
           Step(t, state) \/ Spoil(i, t, state) \/ SpoilApp(t, state),
           app'.id = app.id,
           state.pc = "idle" <=> state.i = None,
           state.pc = "idle" <=> state.r = None,
           state.pc = "putApp" /\ state.copy = "fresh" => app.id = state.i
    PROVE  WriterInv'
<1> SUFFICES ASSUME NEW u \in Threads
             PROVE  /\ w'[u].pc = "idle" <=> w'[u].i = None
                    /\ w'[u].pc = "idle" <=> w'[u].r = None
                    /\ w'[u].pc = "putApp" /\ w'[u].copy = "fresh" => app'.id = w'[u].i
  BY DEF WriterInv
<1>1. /\ w'[t] = state
      /\ \A v \in Threads \ {t} :
           /\ w'[v].pc = w[v].pc /\ w'[v].i = w[v].i /\ w'[v].r = w[v].r
           /\ w'[v].copy = "fresh" => w[v].copy = "fresh"
  BY Frame
<1>2. CASE u = t
  BY <1>1, <1>2
<1>3. CASE u # t
  BY <1>1, <1>3 DEF WriterInv
<1> QED BY <1>2, <1>3

\* The state a thread is idle in satisfies what is required of it.
LEMMA IdleInv ==
    ASSUME NEW end \in Ends
    PROVE  LET s == Idle(end) IN
           /\ s.pc = "idle" <=> s.i = None
           /\ s.pc = "idle" <=> s.r = None
           /\ s.pc = "putApp" /\ s.copy = "fresh" => app.id = s.i
BY DEF Idle

\* So does the state of a thread that goes on with its report.
LEMMA GoesOn ==
    ASSUME TypeOK, WriterInv, NEW t \in Threads, w[t].pc # "idle", NEW state,
           state.pc \notin {"idle", "putApp"}, state.i = w[t].i, state.r = w[t].r
    PROVE  /\ state.pc = "idle" <=> state.i = None
           /\ state.pc = "idle" <=> state.r = None
           /\ state.pc = "putApp" /\ state.copy = "fresh" => app.id = state.i
BY DEF WriterInv

LEMMA WriteAppKeepsId ==
    ASSUME TypeOK, NEW t \in Threads, WriteApp(t)
    PROVE  app'.id = app.id /\ app'.sid = w[t].i
BY DEF WriteApp, TypeOK

LEMMA RefusedInv ==
    ASSUME TypeOK, WriterInv, NEW t \in Threads, w[t].pc # "idle", UNCHANGED app,
           NEW again \in {"getApp", "stamp"}, Refused(t, again)
    PROVE  WriterInv'
<1> DEFINE state == [w[t] EXCEPT !.pc = again, !.try = @ + 1, !.copy = "none", !.errs = FALSE]
<1>1. state.pc = again /\ state.i = w[t].i /\ state.r = w[t].r
  BY DEF TypeOK, Writer
<1>2. CASE Step(t, state)
  <2> HIDE DEF state
  <2> QED BY <1>1, <1>2, GoesOn, FrameInv
<1>3. CASE Step(t, Idle("Conflict"))
  BY <1>3, IdleInv, FrameInv DEF Ends
<1> QED BY <1>2, <1>3 DEF Refused

LEMMA WriterStep ==
    ASSUME TypeOK, WriterInv, [Next]_vars
    PROVE  WriterInv'
<1>1. ASSUME NEW t \in Threads, NEW i \in Ids, NEW r \in Results, Begin(t, i, r)
      PROVE  WriterInv'
  <2> DEFINE pc == IF InlineStatus THEN "getApp" ELSE "stamp"
             state == [Idle("none") EXCEPT !.pc = pc, !.i = i, !.r = r]
  <2>1. state.pc = pc /\ state.i = i /\ state.r = r /\ pc \in {"getApp", "stamp"}
    BY DEF Idle
  <2>2. Step(t, state) /\ UNCHANGED app
    BY <1>1 DEF Begin
  <2>3. i # None /\ r # None
    OBVIOUS
  <2> HIDE DEF state, pc
  <2> QED BY <2>1, <2>2, <2>3, FrameInv
<1>2. ASSUME UserEdit PROVE WriterInv'
  <2> SUFFICES ASSUME NEW u \in Threads
               PROVE  /\ w'[u].pc = "idle" <=> w'[u].i = None
                      /\ w'[u].pc = "idle" <=> w'[u].r = None
                      /\ w'[u].pc = "putApp" => w'[u].copy # "fresh"
    BY DEF WriterInv
  <2>1. w[u] \in Writer /\ u # None
    BY DEF TypeOK
  <2>2. w'[u] = IF w[u].pc = "putApp" THEN [w[u] EXCEPT !.copy = "stale"] ELSE w[u]
    BY <1>2, <2>1 DEF UserEdit, SpoilApp
  <2>3. /\ w'[u].pc = w[u].pc /\ w'[u].i = w[u].i /\ w'[u].r = w[u].r
        /\ w'[u].pc = "putApp" => w'[u].copy = "stale"
    BY <2>1, <2>2 DEF Writer
  <2> QED BY <2>3 DEF WriterInv
<1>3. ASSUME NEW t \in Threads, GetApp(t) PROVE WriterInv'
  <2> DEFINE skip == [w[t] EXCEPT !.pc = "stamp", !.try = 1]
             read == [w[t] EXCEPT !.pc = "putApp", !.copy = "fresh", !.errs = w[t].i \in errors]
  <2>1. /\ skip.pc = "stamp" /\ skip.i = w[t].i /\ skip.r = w[t].r
        /\ read.pc = "putApp" /\ read.i = w[t].i /\ read.r = w[t].r
    BY DEF TypeOK, Writer
  <2>2. /\ Step(t, skip) \/ (app.id = w[t].i /\ Step(t, read))
        /\ w[t].pc # "idle" /\ UNCHANGED app
    BY <1>3 DEF GetApp
  <2> HIDE DEF skip, read
  <2>3. CASE Step(t, skip)
    BY <2>1, <2>2, <2>3, GoesOn, FrameInv
  <2>4. CASE app.id = w[t].i /\ Step(t, read)
    <3>1. w[t].i # None /\ w[t].r # None
      BY <2>2 DEF WriterInv
    <3> QED BY <2>1, <2>2, <2>4, <3>1, FrameInv
  <2> QED BY <2>2, <2>3, <2>4
<1>4. ASSUME NEW t \in Threads, PutApp(t) PROVE WriterInv'
  <2> DEFINE state == [w[t] EXCEPT !.pc = "stamp", !.try = 1, !.copy = "none", !.errs = FALSE]
  <2>1. state.pc = "stamp" /\ state.i = w[t].i /\ state.r = w[t].r
    BY DEF TypeOK, Writer
  <2>2. /\ w[t].pc # "idle"
        /\ \/ WriteApp(t) /\ SpoilApp(t, state)
           \/ Refused(t, "getApp") /\ UNCHANGED app
    BY <1>4 DEF PutApp
  <2> HIDE DEF state
  <2>3. CASE WriteApp(t) /\ SpoilApp(t, state)
    BY <2>1, <2>2, <2>3, WriteAppKeepsId, GoesOn, FrameInv
  <2>4. CASE Refused(t, "getApp") /\ UNCHANGED app
    BY <2>2, <2>4, RefusedInv
  <2> QED BY <2>2, <2>3, <2>4
<1>5. ASSUME NEW t \in Threads, Stamp(t) PROVE WriterInv'
  <2> DEFINE state == [w[t] EXCEPT !.pc = "get"]
  <2>1. state.pc = "get" /\ state.i = w[t].i /\ state.r = w[t].r
    BY DEF TypeOK, Writer
  <2>2. w[t].pc # "idle" /\ Step(t, state) /\ UNCHANGED app
    BY <1>5 DEF Stamp, Goto
  <2> HIDE DEF state
  <2> QED BY <2>1, <2>2, GoesOn, FrameInv
<1>6. ASSUME NEW t \in Threads, Get(t) PROVE WriterInv'
  <2> DEFINE state == IF status[w[t].i] # None THEN [w[t] EXCEPT !.pc = "save", !.copy = "fresh"]
                      ELSE IF w[t].pc = "get" THEN [w[t] EXCEPT !.pc = "getOrCreate"]
                      ELSE [w[t] EXCEPT !.pc = "save", !.copy = "new"]
  <2>1. state.pc \in {"save", "getOrCreate"} /\ state.i = w[t].i /\ state.r = w[t].r
    BY DEF TypeOK, Writer
  <2>2. w[t].pc # "idle" /\ Step(t, state) /\ UNCHANGED app
    BY <1>6 DEF Get
  <2> HIDE DEF state
  <2> QED BY <2>1, <2>2, GoesOn, FrameInv
<1>7. ASSUME NEW t \in Threads, Save(t) PROVE WriterInv'
  <2> DEFINE state == [w[t] EXCEPT !.pc = "list", !.copy = "none"]
  <2>1. state.pc = "list" /\ state.i = w[t].i /\ state.r = w[t].r
    BY DEF TypeOK, Writer
  <2>2. /\ w[t].pc # "idle" /\ UNCHANGED app
        /\ Spoil(w[t].i, t, state) \/ Step(t, Idle("NotFound")) \/ Refused(t, "stamp")
    BY <1>7 DEF Save, WriteStatus
  <2> HIDE DEF state
  <2>3. CASE Spoil(w[t].i, t, state)
    BY <2>1, <2>2, <2>3, GoesOn, FrameInv
  <2>4. CASE Step(t, Idle("NotFound"))
    BY <2>2, <2>4, IdleInv, FrameInv DEF Ends
  <2>5. CASE Refused(t, "stamp")
    BY <2>2, <2>5, RefusedInv
  <2> QED BY <2>2, <2>3, <2>4, <2>5
<1>8. ASSUME NEW t \in Threads, NEW todo, w[t].pc # "idle", UNCHANGED app, NEW i,
             Step(t, Finish(t, todo)) \/ Spoil(i, t, Finish(t, todo))
      PROVE  WriterInv'
  <2> DEFINE state == [w[t] EXCEPT !.pc = "delete", !.todo = todo]
  <2>1. state.pc = "delete" /\ state.i = w[t].i /\ state.r = w[t].r
    BY DEF TypeOK, Writer
  <2>2. Finish(t, todo) \in {Idle("ok"), state}
    BY DEF Finish
  <2> HIDE DEF state
  <2>3. CASE Finish(t, todo) = Idle("ok")
    BY <1>8, <2>3, IdleInv, FrameInv DEF Ends
  <2>4. CASE Finish(t, todo) = state
    BY <1>8, <2>1, <2>4, GoesOn, FrameInv
  <2> QED BY <2>2, <2>3, <2>4
<1>9. ASSUME NEW t \in Threads, List(t) PROVE WriterInv'
  BY <1>8, <1>9 DEF List
<1>10. ASSUME NEW t \in Threads, NEW i \in Ids, Delete(t, i) PROVE WriterInv'
  BY <1>8, <1>10 DEF Delete
<1>11. ASSUME NEW t \in Threads, Fails(t) PROVE WriterInv'
  <2>1. \/ Step(t, Idle("Error")) /\ UNCHANGED app
        \/ SpoilApp(t, Idle("Error")) /\ WriteApp(t)
        \/ Spoil(w[t].i, t, Idle("Error")) /\ UNCHANGED app
    BY <1>11 DEF Fails, WriteStatus
  <2>2. app'.id = app.id
    BY <2>1, WriteAppKeepsId
  <2> QED BY <2>1, <2>2, IdleInv, FrameInv DEF Ends
<1>12. CASE UNCHANGED vars
  BY <1>12 DEF vars, WriterInv
<1> QED
  BY <1>1, <1>2, <1>3, <1>4, <1>5, <1>6, <1>7, <1>9, <1>10, <1>11, <1>12 DEF Next, Work

\* What a thread reports on, and that its fresh copy of the Application is the
\* Application, through all interleavings of crd/status.py.
THEOREM StoreInductive == Spec => []IInv
<1>1. Init => IInv
  BY InitCorrect
<1>2. IInv /\ [Next]_vars => IInv'
  BY TypeStep, WriterStep DEF IInv
<1> QED BY <1>1, <1>2, PTL DEF Spec

\* All variables of the status store stay in their types; so a save is tried at most
\* CONFLICT_MAX_RETRIES times (crd/status.py, retry.py).
THEOREM StoreTypeCorrect == Spec => []TypeOK
<1>1. IInv => TypeOK
  BY DEF IInv
<1> QED BY <1>1, StoreInductive, PTL

-----------------------------------------------------------------------------
(* What is promised *)

LEMMA InlineStep ==
    ASSUME TypeOK, WriterInv, [Next]_vars, <<app'.sid, app'.res>> # <<app.sid, app.res>>
    PROVE  app'.sid = app'.id /\ app'.id = app.id
<1>1. \/ UserEdit
      \/ \E t \in Threads : w[t].pc = "putApp" /\ w[t].copy = "fresh" /\ WriteApp(t)
  BY DEF Next, vars, Begin, Work, GetApp, PutApp, Stamp, Get, Save, List, Delete, Fails
<1>2. CASE UserEdit
  <2>1. app'.sid = app.sid /\ app'.res = app.res
    BY <1>2 DEF UserEdit, TypeOK
  <2> QED BY <2>1
<1>3. ASSUME NEW t \in Threads, w[t].pc = "putApp", w[t].copy = "fresh", WriteApp(t)
      PROVE  app'.sid = app'.id /\ app'.id = app.id
  BY <1>3, WriteAppKeepsId DEF WriterInv
<1> QED BY <1>1, <1>2, <1>3

\* The status in the Application is replaced only by a report on the deployment id
\* the Application has then, whoever writes in between (_save_status_inline).
THEOREM InlineCurrent == Spec => InlineOfCurrent
<1>1. IInv /\ [Next]_vars =>
        [<<app'.sid, app'.res>> # <<app.sid, app.res>> =>
           app'.sid = app'.id /\ app'.id = app.id]_vars
  BY InlineStep DEF IInv
<1> QED BY <1>1, StoreInductive, PTL DEF Spec, InlineOfCurrent

\* A step of thread t is a step of its call.
LEMMA CallsFrame ==
    ASSUME TypeOK, NEW t \in Threads, NEW i, NEW state,
           Step(t, state) \/ Spoil(i, t, state) \/ SpoilApp(t, state)
    PROVE  Calls' = [Calls EXCEPT ![t] = Call(state)]
<1>1. /\ w'[t] = state
      /\ \A u \in Threads \ {t} : w'[u].pc = w[u].pc /\ w'[u].i = w[u].i /\ w'[u].r = w[u].r
  BY Frame
<1>2. \A u \in Threads \ {t} : Call(w'[u]) = Call(w[u])
  BY <1>1 DEF Call
<1> QED BY <1>1, <1>2 DEF Calls

LEMMA CallOfIdle ==
    ASSUME NEW end \in Ends
    PROVE  Call(Idle(end)) = Register!Idle
<1>1. Idle(end).pc = "idle" /\ Idle(end).i = None /\ Idle(end).r = None
  BY IdleIsWriter
<1> QED BY <1>1 DEF Call, Register!Idle

\* What the register is told of a thread's call.
LEMMA CallOf ==
    ASSUME NEW t \in Threads
    PROVE  /\ Calls[t] = Call(w[t])
           /\ Calls[t].key = w[t].i /\ Calls[t].val = w[t].r
           /\ w[t].pc = "idle" => Calls[t].stage = "idle"
           /\ w[t].pc \in {"list", "delete"} => Calls[t].stage = "stored"
           /\ w[t].pc \notin {"idle", "list", "delete"} => Calls[t].stage = "called"
BY DEF Calls, Call

\* A thread that goes on without a write to the statuses does not move its call.
LEMMA CallStays ==
    ASSUME TypeOK, NEW t \in Threads, NEW i, NEW state,
           Step(t, state) \/ Spoil(i, t, state) \/ SpoilApp(t, state),
           Call(state) = Call(w[t])
    PROVE  Calls' = Calls
<1>1. Calls' = [Calls EXCEPT ![t] = Call(state)]
  BY CallsFrame
<1>2. Calls[t] = Call(state)
  BY DEF Calls
<1> QED BY <1>1, <1>2 DEF Calls

\* A report that gives up, or raises, without a write.
LEMMA RaiseStep ==
    ASSUME TypeOK, WriterInv, NEW t \in Threads, NEW i, NEW end \in Ends, w[t].pc # "idle",
           Step(t, Idle(end)) \/ Spoil(i, t, Idle(end)) \/ SpoilApp(t, Idle(end)),
           UNCHANGED status \/ (w[t].pc = "save" /\ Register!Stored(t))
    PROVE  Register!Next
<1>1. Calls' = [Calls EXCEPT ![t] = Register!Idle]
  BY CallsFrame, CallOfIdle
<1>2. Calls[t].stage # "idle" /\ (w[t].pc = "save" => Calls[t].stage = "called")
  BY CallOf
<1>3. Register!Raise(t)
  BY <1>1, <1>2 DEF Register!Raise
<1> QED BY <1>3 DEF Register!Next

LEMMA RefusedRefines ==
    ASSUME TypeOK, WriterInv, NEW t \in Threads, w[t].pc \in {"putApp", "save"},
           NEW again \in {"getApp", "stamp"}, Refused(t, again), UNCHANGED status
    PROVE  [Register!Next]_<<status, Calls>>
<1> DEFINE state == [w[t] EXCEPT !.pc = again, !.try = @ + 1, !.copy = "none", !.errs = FALSE]
<1>1. state.pc = again /\ state.i = w[t].i /\ state.r = w[t].r
  BY DEF TypeOK, Writer
<1>2. CASE Step(t, state)
  <2> HIDE DEF state
  <2>1. Call(state) = Call(w[t])
    BY <1>1 DEF Call
  <2> QED BY <1>2, <2>1, CallStays
<1>3. CASE Step(t, Idle("Conflict"))
  BY <1>3, RaiseStep DEF Ends
<1> QED BY <1>2, <1>3 DEF Refused

LEMMA WriteIsStored ==
    ASSUME TypeOK, WriterInv, NEW t \in Threads, NEW state, WriteStatus(t, state)
    PROVE  Register!Stored(t) /\ Spoil(w[t].i, t, state)
BY CallOf DEF WriteStatus, Register!Stored

\* The loop of the cleanup ends, or goes on.
LEMMA FinishRefines ==
    ASSUME TypeOK, WriterInv, NEW t \in Threads, NEW i, NEW todo,
           w[t].pc \in {"list", "delete"},
           Step(t, Finish(t, todo)) \/ Spoil(i, t, Finish(t, todo))
    PROVE  Calls[t].stage = "stored" /\ Calls' \in {Calls, [Calls EXCEPT ![t] = Register!Idle]}
<1> DEFINE state == [w[t] EXCEPT !.pc = "delete", !.todo = todo]
<1>1. state.pc = "delete" /\ state.i = w[t].i /\ state.r = w[t].r
  BY DEF TypeOK, Writer
<1>2. Finish(t, todo) \in {Idle("ok"), state}
  BY DEF Finish
<1> HIDE DEF state
<1>3. Call(state) = Call(w[t])
  BY <1>1 DEF Call
<1>4. CASE Finish(t, todo) = Idle("ok")
  <2>1. Call(Idle("ok")) = Register!Idle
    BY CallOfIdle DEF Ends
  <2>2. Calls' = [Calls EXCEPT ![t] = Call(Idle("ok"))]
    BY <1>4, CallsFrame
  <2> QED BY <2>1, <2>2, CallOf
<1>5. CASE Finish(t, todo) = state
  BY <1>3, <1>5, CallStays, CallOf
<1> QED BY <1>2, <1>4, <1>5

LEMMA StoreStepRefines ==
    ASSUME TypeOK, WriterInv, [Next]_vars
    PROVE  [Register!Next]_<<status, Calls>>
<1>1. ASSUME NEW t \in Threads, NEW i \in Ids, NEW r \in Results, Begin(t, i, r)
      PROVE  [Register!Next]_<<status, Calls>>
  <2> DEFINE pc == IF InlineStatus THEN "getApp" ELSE "stamp"
             state == [Idle("none") EXCEPT !.pc = pc, !.i = i, !.r = r]
  <2>1. state.pc = pc /\ state.i = i /\ state.r = r /\ pc \in {"getApp", "stamp"}
    BY DEF Idle
  <2>2. w[t].pc = "idle" /\ Step(t, state) /\ UNCHANGED status
    BY <1>1 DEF Begin
  <2> HIDE DEF state, pc
  <2>3. Call(state) = [key |-> i, val |-> r, stage |-> "called"]
    BY <2>1 DEF Call
  <2>4. Calls' = [Calls EXCEPT ![t] = Call(state)] /\ Calls[t].stage = "idle"
    BY <2>2, CallsFrame, CallOf
  <2>5. Register!Begin(t, i, r)
    BY <2>2, <2>3, <2>4 DEF Register!Begin
  <2> QED BY <2>5 DEF Register!Next
<1>2. ASSUME UserEdit PROVE UNCHANGED <<status, Calls>>
  <2>1. ASSUME NEW u \in Threads PROVE Call(w'[u]) = Call(w[u])
    <3>1. w[u] \in Writer /\ u # None
      BY DEF TypeOK
    <3>2. w'[u] = IF w[u].pc = "putApp" THEN [w[u] EXCEPT !.copy = "stale"] ELSE w[u]
      BY <1>2, <3>1 DEF UserEdit, SpoilApp
    <3>3. w'[u].pc = w[u].pc /\ w'[u].i = w[u].i /\ w'[u].r = w[u].r
      BY <3>1, <3>2 DEF Writer
    <3> QED BY <3>3 DEF Call
  <2> QED BY <1>2, <2>1 DEF UserEdit, Calls
<1>3. ASSUME NEW t \in Threads, NEW state,
             w[t].pc \notin {"idle", "list", "delete"},
             state.pc \notin {"idle", "list", "delete"},
             state.i = w[t].i, state.r = w[t].r,
             Step(t, state) \/ SpoilApp(t, state), UNCHANGED status
      PROVE  UNCHANGED <<status, Calls>>
  <2>1. Call(state) = Call(w[t])
    BY <1>3 DEF Call
  <2> QED BY <1>3, <2>1, CallStays
<1>4. ASSUME NEW t \in Threads, GetApp(t) PROVE UNCHANGED <<status, Calls>>
  <2> DEFINE skip == [w[t] EXCEPT !.pc = "stamp", !.try = 1]
             read == [w[t] EXCEPT !.pc = "putApp", !.copy = "fresh", !.errs = w[t].i \in errors]
  <2>1. /\ skip.pc = "stamp" /\ skip.i = w[t].i /\ skip.r = w[t].r
        /\ read.pc = "putApp" /\ read.i = w[t].i /\ read.r = w[t].r
    BY DEF TypeOK, Writer
  <2>2. /\ Step(t, skip) \/ Step(t, read)
        /\ w[t].pc = "getApp" /\ UNCHANGED status
    BY <1>4 DEF GetApp
  <2> HIDE DEF skip, read
  <2> QED BY <1>3, <2>1, <2>2
<1>5. ASSUME NEW t \in Threads, PutApp(t) PROVE [Register!Next]_<<status, Calls>>
  <2> DEFINE state == [w[t] EXCEPT !.pc = "stamp", !.try = 1, !.copy = "none", !.errs = FALSE]
  <2>1. state.pc = "stamp" /\ state.i = w[t].i /\ state.r = w[t].r
    BY DEF TypeOK, Writer
  <2>2. /\ w[t].pc = "putApp" /\ UNCHANGED status
        /\ SpoilApp(t, state) \/ Refused(t, "getApp")
    BY <1>5 DEF PutApp
  <2> HIDE DEF state
  <2>3. CASE SpoilApp(t, state)
    BY <1>3, <2>1, <2>2, <2>3
  <2>4. CASE Refused(t, "getApp")
    BY <2>2, <2>4, RefusedRefines
  <2> QED BY <2>2, <2>3, <2>4
<1>6. ASSUME NEW t \in Threads, Stamp(t) PROVE UNCHANGED <<status, Calls>>
  <2> DEFINE state == [w[t] EXCEPT !.pc = "get"]
  <2>1. state.pc = "get" /\ state.i = w[t].i /\ state.r = w[t].r
    BY DEF TypeOK, Writer
  <2>2. w[t].pc = "stamp" /\ Step(t, state) /\ UNCHANGED status
    BY <1>6 DEF Stamp, Goto
  <2> HIDE DEF state
  <2> QED BY <1>3, <2>1, <2>2
<1>7. ASSUME NEW t \in Threads, Get(t) PROVE UNCHANGED <<status, Calls>>
  <2> DEFINE state == IF status[w[t].i] # None THEN [w[t] EXCEPT !.pc = "save", !.copy = "fresh"]
                      ELSE IF w[t].pc = "get" THEN [w[t] EXCEPT !.pc = "getOrCreate"]
                      ELSE [w[t] EXCEPT !.pc = "save", !.copy = "new"]
  <2>1. state.pc \in {"save", "getOrCreate"} /\ state.i = w[t].i /\ state.r = w[t].r
    BY DEF TypeOK, Writer
  <2>2. w[t].pc \in {"get", "getOrCreate"} /\ Step(t, state) /\ UNCHANGED status
    BY <1>7 DEF Get
  <2> HIDE DEF state
  <2> QED BY <1>3, <2>1, <2>2
<1>8. ASSUME NEW t \in Threads, Save(t) PROVE [Register!Next]_<<status, Calls>>
  <2> DEFINE state == [w[t] EXCEPT !.pc = "list", !.copy = "none"]
  <2>1. state.pc = "list" /\ state.i = w[t].i /\ state.r = w[t].r
    BY DEF TypeOK, Writer
  <2>2. /\ w[t].pc = "save"
        /\ \/ WriteStatus(t, state)
           \/ Step(t, Idle("NotFound")) /\ UNCHANGED status
           \/ Refused(t, "stamp") /\ UNCHANGED status
    BY <1>8 DEF Save
  <2> HIDE DEF state
  <2>3. CASE WriteStatus(t, state)
    <3>1. Register!Stored(t) /\ Calls' = [Calls EXCEPT ![t] = Call(state)]
      BY <2>3, WriteIsStored, CallsFrame
    <3>2. Calls[t].stage = "called"
      BY <2>2, CallOf
    <3>3. Call(state) = [Calls[t] EXCEPT !.stage = "stored"]
      BY <2>1 DEF Call, Calls
    <3>4. Register!Store(t)
      BY <3>1, <3>2, <3>3 DEF Register!Store
    <3> QED BY <3>4 DEF Register!Next
  <2>4. CASE Step(t, Idle("NotFound")) /\ UNCHANGED status
    BY <2>2, <2>4, RaiseStep DEF Ends
  <2>5. CASE Refused(t, "stamp") /\ UNCHANGED status
    BY <2>2, <2>5, RefusedRefines
  <2> QED BY <2>2, <2>3, <2>4, <2>5
<1>9. ASSUME NEW t \in Threads, List(t) PROVE [Register!Next]_<<status, Calls>>
  <2>1. UNCHANGED status /\ Calls[t].stage = "stored"
        /\ Calls' \in {Calls, [Calls EXCEPT ![t] = Register!Idle]}
    BY <1>9, FinishRefines DEF List
  <2> QED BY <2>1 DEF Register!Next, Register!Return
<1>10. ASSUME NEW t \in Threads, NEW i \in Ids, Delete(t, i) PROVE [Register!Next]_<<status, Calls>>
  <2>1. status' = [status EXCEPT ![i] = None] /\ Calls[t].stage = "stored"
        /\ Calls' \in {Calls, [Calls EXCEPT ![t] = Register!Idle]}
    BY <1>10, FinishRefines DEF Delete
  <2>2. Register!Evict(t, i)
    BY <2>1 DEF Register!Evict
  <2> QED BY <2>2 DEF Register!Next
<1>11. ASSUME NEW t \in Threads, Fails(t) PROVE [Register!Next]_<<status, Calls>>
  <2>1. /\ w[t].pc # "idle"
        /\ \/ Step(t, Idle("Error")) /\ UNCHANGED status
           \/ SpoilApp(t, Idle("Error")) /\ UNCHANGED status
           \/ w[t].pc = "save" /\ WriteStatus(t, Idle("Error"))
    BY <1>11 DEF Fails
  <2> QED BY <2>1, RaiseStep, WriteIsStored DEF Ends
<1>12. CASE UNCHANGED vars
  BY <1>12 DEF vars, Calls
<1> QED
  BY <1>1, <1>2, <1>4, <1>5, <1>6, <1>7, <1>8, <1>9, <1>10, <1>11, <1>12 DEF Next, Work

\* A report stores its result exactly once if it returns, at most once if it raises,
\* with any number of threads, conflicts and failing calls (crd/status.py, retry.py).
THEOREM StoreRefines == Spec => RegisterSpec
<1>1. Init => Register!Init
  BY CallOfIdle DEF Init, Register!Init, Calls, Ends
<1>2. IInv /\ [Next]_vars => [Register!Next]_<<status, Calls>>
  BY StoreStepRefines DEF IInv
<1> QED BY <1>1, <1>2, StoreInductive, PTL DEF Spec, RegisterSpec, Register!Spec
-----------------------------------------------------------------------------
(* How many statuses stay *)

\* The times of the statuses, and of the threads about to write one, are in order.
Earlier(x, y) == x \in before[y]

TimesInv ==
    /\ \A x \in Timed : ~Earlier(x, x)
    /\ \A x, y \in Timed : x # y => Earlier(x, y) \/ Earlier(y, x)
    /\ \A x, y, z \in Timed : Earlier(x, y) /\ Earlier(y, z) => Earlier(x, z)

\* Only a thread that deletes has something to delete.
TodoInv == \A t \in Threads : w[t].pc # "delete" => w[t].todo = {}

Unmarked == {i \in Existing : \A t \in Threads : i \notin w[t].todo}
Listing == {t \in Threads : w[t].pc = "list"}

CountInv == TimesInv /\ TodoInv /\ Bounded

\* A step of thread t leaves where the others are, and what they have to delete.
LEMMA TodoFrame ==
    ASSUME TypeOK, NEW t \in Threads, NEW i, NEW state,
           Step(t, state) \/ Spoil(i, t, state) \/ SpoilApp(t, state)
    PROVE  /\ w'[t] = state
           /\ \A u \in Threads \ {t} : w'[u].pc = w[u].pc /\ w'[u].todo = w[u].todo
<1>1. \A u \in Threads : w[u] \in Writer
  BY DEF TypeOK
<1>2. \A u \in Threads :
        LET s == [w[u] EXCEPT !.copy = "stale"] IN s.pc = w[u].pc /\ s.todo = w[u].todo
  BY <1>1 DEF Writer
<1>3. CASE Step(t, state)
  BY <1>3 DEF Step, TypeOK
<1>4. CASE Spoil(i, t, state)
  BY <1>2, <1>4 DEF Spoil
<1>5. CASE SpoilApp(t, state)
  BY <1>2, <1>5 DEF SpoilApp
<1> QED BY <1>3, <1>4, <1>5

LEMMA Finite ==
    /\ IsFiniteSet(Existing) /\ IsFiniteSet(Unmarked) /\ IsFiniteSet(Listing)
    /\ Cardinality(Existing) \in Nat /\ Cardinality(Unmarked) \in Nat /\ Cardinality(Listing) \in Nat
<1>1. Existing \in SUBSET Ids /\ Unmarked \in SUBSET Ids /\ Listing \in SUBSET Threads
  BY DEF Existing, Unmarked, Listing
<1>2. IsFiniteSet(Existing) /\ IsFiniteSet(Unmarked) /\ IsFiniteSet(Listing)
  BY <1>1, FS_Subset
<1> QED BY <1>2, FS_CardinalityType

LEMMA FiniteNext ==
    /\ IsFiniteSet(Existing') /\ IsFiniteSet(Unmarked') /\ IsFiniteSet(Listing')
    /\ Cardinality(Existing') \in Nat /\ Cardinality(Unmarked') \in Nat /\ Cardinality(Listing') \in Nat
<1>1. Existing' \in SUBSET Ids /\ Unmarked' \in SUBSET Ids /\ Listing' \in SUBSET Threads
  BY DEF Existing, Unmarked, Listing
<1>2. IsFiniteSet(Existing') /\ IsFiniteSet(Unmarked') /\ IsFiniteSet(Listing')
  BY <1>1, FS_Subset
<1> QED BY <1>2, FS_CardinalityType

\* Of the statuses that a list shows, as many as may be kept are not outdated: no two
\* of them have the same number of newer ones.
LEMMA KeptFew ==
    ASSUME TimesInv
    PROVE  Cardinality(Existing \ Outdated) <= Keep
<1> DEFINE Kept == Existing \ Outdated
           f == [i \in Kept |-> Cardinality(Newer(i))]
<1>1. \A i \in Existing : i \in Timed /\ IsFiniteSet(Newer(i)) /\ Cardinality(Newer(i)) \in Nat
  <2> SUFFICES ASSUME NEW i \in Existing
               PROVE  i \in Timed /\ IsFiniteSet(Newer(i)) /\ Cardinality(Newer(i)) \in Nat
    OBVIOUS
  <2>1. Newer(i) \in SUBSET Existing
    BY DEF Newer
  <2>2. IsFiniteSet(Newer(i))
    BY <2>1, Finite, FS_Subset
  <2> QED BY <2>2, FS_CardinalityType DEF Existing, Timed
<1>2. f \in [Kept -> 0..Keep - 1]
  BY <1>1 DEF Outdated
<1>3. ASSUME NEW i \in Existing, NEW j \in Existing, Earlier(i, j)
      PROVE  Cardinality(Newer(j)) # Cardinality(Newer(i))
  <2>1. Newer(j) \in SUBSET Newer(i)
    BY <1>1, <1>3 DEF Newer, TimesInv, Earlier
  <2>2. j \in Newer(i) /\ j \notin Newer(j)
    BY <1>1, <1>3 DEF Newer, TimesInv, Earlier
  <2> QED BY <1>1, <2>1, <2>2, FS_Subset
<1>4. \A i, j \in Kept : i # j => f[i] # f[j]
  <2> SUFFICES ASSUME NEW i \in Kept, NEW j \in Kept, i # j
               PROVE  Cardinality(Newer(i)) # Cardinality(Newer(j))
    OBVIOUS
  <2>1. Earlier(i, j) \/ Earlier(j, i)
    BY <1>1 DEF TimesInv
  <2> QED BY <1>3, <2>1
<1>5. f \in Injection(Kept, 0..Keep - 1)
  BY <1>2, <1>4 DEF Injection, IsInjective
<1>6. IsFiniteSet(0..Keep - 1) /\ Cardinality(0..Keep - 1) = Keep
  <2>1. 0 \in Int /\ Keep - 1 \in Int /\ ~(0 > Keep - 1) /\ Keep - 1 - 0 + 1 = Keep
    OBVIOUS
  <2> QED BY <2>1, FS_Interval
<1> HIDE DEF Kept, f
<1>7. Cardinality(Kept) <= Keep
  BY <1>5, <1>6, FS_Injection
<1> QED BY <1>7 DEF Kept

\* The bound holds after a step that takes nothing away from what is being listed and
\* adds nothing that is not marked.
LEMMA BoundKept ==
    ASSUME Bounded, dirty' = dirty,
           Unmarked' \subseteq Unmarked, Listing \subseteq Listing'
    PROVE  Bounded'
<1>1. /\ Cardinality(Unmarked') <= Cardinality(Unmarked)
      /\ Cardinality(Listing) <= Cardinality(Listing')
  BY Finite, FiniteNext, FS_Subset
<1>2. dirty \/ Cardinality(Unmarked) <= Keep + Cardinality(Listing)
  BY DEF Bounded, Unmarked, Listing
<1>3. dirty' \/ Cardinality(Unmarked') <= Keep + Cardinality(Listing')
  BY <1>1, <1>2, Finite, FiniteNext
<1> QED BY <1>3 DEF Bounded, Unmarked, Listing

\* In particular after a step that neither lists, nor writes, nor deletes a status.
LEMMA PlainCount ==
    ASSUME TypeOK, CountInv, NEW t \in Threads, NEW i, NEW state,
           Step(t, state) \/ Spoil(i, t, state) \/ SpoilApp(t, state),
           UNCHANGED <<status, before, dirty>>,
           w[t].pc \notin {"list", "delete"}, state.pc \notin {"list", "delete"}, state.todo = {},
           state.pc \in {"get", "getOrCreate", "save"} => w[t].pc \in {"get", "getOrCreate", "save"}
    PROVE  CountInv'
<1> USE DEF CountInv
<1>1. /\ w'[t] = state
      /\ \A u \in Threads \ {t} : w'[u].pc = w[u].pc /\ w'[u].todo = w[u].todo
  BY TodoFrame
<1>2. Timed' \subseteq Timed
  BY <1>1 DEF Timed
<1>3. TimesInv'
  <2> HIDE DEF CountInv
  <2>1. TimesInv /\ before' = before
    BY DEF CountInv
  <2> QED BY <1>2, <2>1 DEF TimesInv, Earlier
<1>4. TodoInv'
  BY <1>1 DEF TodoInv
<1>5. Unmarked' \subseteq Unmarked /\ Listing \subseteq Listing'
  BY <1>1 DEF Unmarked, Listing, Existing, TodoInv
<1> QED BY <1>3, <1>4, <1>5, BoundKept
\* A thread that takes the time is later than all others.
LEMMA StampCount ==
    ASSUME TypeOK, CountInv, NEW t \in Threads, Stamp(t)
    PROVE  CountInv'
<1> DEFINE state == [w[t] EXCEPT !.pc = "get"]
<1>1. state.pc = "get" /\ state.todo = w[t].todo
  BY DEF TypeOK, Writer
<1>2. /\ w[t].pc = "stamp" /\ Step(t, state) /\ Latest(t)
      /\ UNCHANGED <<app, status, errors, dirty>>
  BY DEF Stamp, Goto
<1> HIDE DEF state
<1>3. /\ w'[t] = state
      /\ \A u \in Threads \ {t} : w'[u].pc = w[u].pc /\ w'[u].todo = w[u].todo
  BY <1>2, TodoFrame
<1>4. t \notin Timed /\ t \in Holders /\ Timed \subseteq Holders
  BY <1>2 DEF Timed, Holders
<1>5. Timed' = Timed \union {t}
  BY <1>1, <1>2, <1>3 DEF Timed
<1>6. \A x \in Holders : before'[x] = IF x = t THEN Timed ELSE before[x] \ {t}
  BY <1>2, <1>4 DEF Latest
<1>7. TimesInv'
  <2>1. TimesInv
    BY DEF CountInv
  <2>2. \A x \in Timed' : before'[x] = IF x = t THEN Timed ELSE before[x] \ {t}
    BY <1>4, <1>5, <1>6
  <2>3. ASSUME NEW x \in Timed' PROVE x \notin before'[x]
    BY <1>4, <1>5, <2>1, <2>2 DEF TimesInv, Earlier
  <2>4. ASSUME NEW x \in Timed', NEW y \in Timed', x # y
        PROVE  x \in before'[y] \/ y \in before'[x]
    <3>1. CASE x = t \/ y = t
      BY <1>5, <2>2, <2>4, <3>1
    <3>2. CASE x # t /\ y # t
      <4>1. x \in Timed /\ y \in Timed
        BY <1>5, <3>2
      <4>2. x \in before[y] \/ y \in before[x]
        BY <2>1, <2>4, <4>1 DEF TimesInv, Earlier
      <4> QED BY <2>2, <3>2, <4>2
    <3> QED BY <3>1, <3>2
  <2>5. ASSUME NEW x \in Timed', NEW y \in Timed', NEW z \in Timed',
               x \in before'[y], y \in before'[z]
        PROVE  x \in before'[z]
    <3>1. y # t /\ (x = t => y = t)
      BY <1>4, <2>2, <2>5
    <3>2. x \in Timed /\ y \in Timed /\ x \in before[y]
      BY <1>5, <2>2, <2>5, <3>1
    <3>3. CASE z = t
      BY <2>2, <3>2, <3>3
    <3>4. CASE z # t
      <4>1. z \in Timed /\ y \in before[z]
        BY <1>5, <2>2, <2>5, <3>4
      <4>2. x \in before[z]
        BY <2>1, <3>2, <4>1 DEF TimesInv, Earlier
      <4> QED BY <2>2, <3>1, <3>4, <4>2
    <3> QED BY <3>3, <3>4
  <2> QED BY <2>3, <2>4, <2>5 DEF TimesInv, Earlier
<1>8. TodoInv'
  BY <1>1, <1>2, <1>3 DEF TodoInv, CountInv
<1>9. Unmarked' \subseteq Unmarked /\ Listing \subseteq Listing'
  BY <1>1, <1>2, <1>3 DEF Unmarked, Listing, Existing
<1> QED BY <1>2, <1>7, <1>8, <1>9, BoundKept DEF CountInv

\* A status that is written takes the place of its writer in the order.
LEMMA WriteTimesInv ==
    ASSUME TypeOK, TimesInv, NEW t \in Threads, NEW i \in Ids,
           t \in Timed, Inherit(i, t),
           Timed' \subseteq (Timed \ {t}) \union {i}
    PROVE  TimesInv'
<1> DEFINE place(x) == IF x = i THEN t ELSE x
<1>1. t \notin Ids /\ i # t /\ t \notin Timed'
  OBVIOUS
<1>2. \A x \in Timed' : x \in Holders /\ place(x) \in Timed
  BY <1>1 DEF Timed, Holders
<1>3. \A x, y \in Timed' : Earlier(x, y)' <=> Earlier(place(x), place(y))
  <2> SUFFICES ASSUME NEW x \in Timed', NEW y \in Timed'
               PROVE  x \in before'[y] <=> place(x) \in before[place(y)]
    BY DEF Earlier
  <2>1. before'[y] = IF y = i THEN before[t] \ {i}
                     ELSE IF t \in before[y] THEN (before[y] \union {i}) \ {t}
                     ELSE before[y] \ {i}
    BY <1>1, <1>2 DEF Inherit
  <2>2. t \notin before[t]
    BY DEF TimesInv, Earlier
  <2> QED BY <1>1, <2>1, <2>2
<1>4. \A x, y \in Timed' : x # y => place(x) # place(y)
  BY <1>1
<1> HIDE DEF place
<1> QED BY <1>2, <1>3, <1>4 DEF TimesInv

LEMMA WriteCount ==
    ASSUME TypeOK, WriterInv, CountInv, NEW t \in Threads, w[t].pc = "save",
           NEW state, state.pc \in {"list", "idle"}, state.todo = {}, WriteStatus(t, state)
    PROVE  /\ TimesInv' /\ TodoInv'
           /\ state.pc = "list" /\ dirty' = dirty => Bounded'
<1>1. w[t].i \in Ids /\ w[t].r \in Results
  BY DEF TypeOK, WriterInv, Writer
<1>2. /\ w'[t] = state
      /\ \A u \in Threads \ {t} : w'[u].pc = w[u].pc /\ w'[u].todo = w[u].todo
  BY TodoFrame DEF WriteStatus
<1>3. \A j \in Ids : status'[j] = IF j = w[t].i THEN w[t].r ELSE status[j]
  BY DEF WriteStatus, TypeOK
<1>4. t \in Timed /\ Timed' \subseteq (Timed \ {t}) \union {w[t].i}
  BY <1>1, <1>2, <1>3 DEF Timed
<1>5. TimesInv'
  BY <1>1, <1>4, WriteTimesInv DEF WriteStatus, CountInv
<1>6. TodoInv'
  BY <1>2 DEF TodoInv, CountInv
<1>7. ASSUME state.pc = "list", dirty' = dirty PROVE Bounded'
  <2>1. Unmarked' \subseteq Unmarked \union {w[t].i}
    BY <1>2, <1>3 DEF Unmarked, Existing, CountInv, TodoInv
  <2>2. Listing' = Listing \union {t} /\ t \notin Listing
    BY <1>2, <1>7 DEF Listing
  <2>3. /\ IsFiniteSet(Unmarked \union {w[t].i})
        /\ Cardinality(Unmarked \union {w[t].i}) <= Cardinality(Unmarked) + 1
    <3>1. /\ IsFiniteSet(Unmarked \union {w[t].i})
          /\ Cardinality(Unmarked \union {w[t].i})
               = IF w[t].i \in Unmarked THEN Cardinality(Unmarked) ELSE Cardinality(Unmarked) + 1
      BY Finite, FS_AddElement
    <3>2. Cardinality(Unmarked) <= Cardinality(Unmarked) + 1
      BY Finite
    <3> QED BY <3>1, <3>2, Finite
  <2>4. Cardinality(Unmarked') <= Cardinality(Unmarked) + 1
    <3>1. Cardinality(Unmarked') <= Cardinality(Unmarked \union {w[t].i})
      BY <2>1, <2>3, FS_Subset
    <3>2. Cardinality(Unmarked \union {w[t].i}) \in Nat
      BY <2>3, FS_CardinalityType
    <3> QED BY <2>3, <3>1, <3>2, Finite, FiniteNext
  <2>5. Cardinality(Listing') = Cardinality(Listing) + 1
    BY <2>2, Finite, FS_AddElement
  <2>6. dirty \/ Cardinality(Unmarked) <= Keep + Cardinality(Listing)
    BY DEF CountInv, Bounded, Unmarked, Listing
  <2>7. dirty' \/ Cardinality(Unmarked') <= Keep + Cardinality(Listing')
    BY <1>7, <2>4, <2>5, <2>6, Finite, FiniteNext
  <2> QED BY <2>7 DEF Bounded, Unmarked, Listing
<1> QED BY <1>5, <1>6, <1>7

\* A list marks all that are outdated, so the bound is restored whatever was before.
LEMMA ListCount ==
    ASSUME TypeOK, CountInv, NEW t \in Threads, List(t)
    PROVE  CountInv'
<1> DEFINE state == Finish(t, Outdated)
<1>1. /\ w'[t] = state
      /\ \A u \in Threads \ {t} : w'[u].pc = w[u].pc /\ w'[u].todo = w[u].todo
      /\ w[t].pc = "list" /\ UNCHANGED <<status, before>> /\ dirty' = FALSE
  BY TodoFrame DEF List
<1>2. state.todo = Outdated /\ state.pc \in {"idle", "delete"} /\ (state.pc = "idle" => Outdated = {})
  BY DEF Finish, Idle, TypeOK, Writer
<1> HIDE DEF state
<1>3. TimesInv'
  <2>1. TimesInv /\ Timed' \subseteq Timed
    BY <1>1, <1>2 DEF CountInv, Timed
  <2> QED BY <1>1, <2>1 DEF TimesInv, Earlier
<1>4. TodoInv'
  BY <1>1, <1>2 DEF CountInv, TodoInv
<1>5. Unmarked' \subseteq Existing \ Outdated
  BY <1>1, <1>2 DEF Unmarked, Existing
<1>6. Cardinality(Unmarked') <= Keep
  <2>1. IsFiniteSet(Existing \ Outdated) /\ Cardinality(Existing \ Outdated) \in Nat
    BY Finite, FS_Difference, FS_CardinalityType
  <2>2. Cardinality(Unmarked') <= Cardinality(Existing \ Outdated)
    BY <1>5, <2>1, FS_Subset
  <2> QED BY <2>1, <2>2, KeptFew, FiniteNext DEF CountInv
<1>7. Cardinality(Unmarked') <= Keep + Cardinality(Listing')
  BY <1>6, FiniteNext
<1> QED BY <1>3, <1>4, <1>7 DEF CountInv, Bounded, Unmarked, Listing

LEMMA DeleteCount ==
    ASSUME TypeOK, CountInv, NEW t \in Threads, NEW i \in Ids, Delete(t, i)
    PROVE  CountInv'
<1> DEFINE state == Finish(t, w[t].todo \ {i})
<1>1. /\ w'[t] = state
      /\ \A u \in Threads \ {t} : w'[u].pc = w[u].pc /\ w'[u].todo = w[u].todo
      /\ w[t].pc = "delete" /\ UNCHANGED <<before, dirty>>
  BY TodoFrame DEF Delete
<1>2. /\ state.todo = w[t].todo \ {i} /\ state.pc \in {"idle", "delete"}
      /\ state.pc = "idle" => w[t].todo \ {i} = {}
  BY DEF Finish, Idle, TypeOK, Writer
<1> HIDE DEF state
<1>3. \A j \in Ids : status'[j] = IF j = i THEN None ELSE status[j]
  BY DEF Delete, TypeOK
<1>4. TimesInv'
  <2>1. TimesInv /\ Timed' \subseteq Timed
    BY <1>1, <1>2, <1>3 DEF CountInv, Timed
  <2> QED BY <1>1, <2>1 DEF TimesInv, Earlier
<1>5. TodoInv'
  BY <1>1, <1>2 DEF CountInv, TodoInv
<1>6. Unmarked' \subseteq Unmarked /\ Listing \subseteq Listing'
  BY <1>1, <1>2, <1>3 DEF Unmarked, Existing, Listing
<1> QED BY <1>1, <1>4, <1>5, <1>6, BoundKept DEF CountInv

\* A save that is refused begins again, without a time.
LEMMA RefusedCount ==
    ASSUME TypeOK, CountInv, NEW t \in Threads, w[t].pc \in {"putApp", "save"},
           UNCHANGED <<status, before>>,
           NEW again \in {"getApp", "stamp"}, Refused(t, again)
    PROVE  CountInv'
<1> DEFINE state == [w[t] EXCEPT !.pc = again, !.try = @ + 1, !.copy = "none", !.errs = FALSE]
<1>1. state.pc = again /\ state.todo = {}
  BY DEF TypeOK, Writer, CountInv, TodoInv
<1>2. Idle("Conflict").pc = "idle" /\ Idle("Conflict").todo = {}
  BY DEF Idle
<1>3. (Step(t, state) \/ Step(t, Idle("Conflict"))) /\ UNCHANGED dirty
  BY DEF Refused
<1> HIDE DEF state
<1> QED BY <1>1, <1>2, <1>3, PlainCount

LEMMA FailsCount ==
    ASSUME TypeOK, WriterInv, CountInv, NEW t \in Threads, Fails(t)
    PROVE  CountInv'
<1>1. Idle("Error").pc = "idle" /\ Idle("Error").todo = {} /\ w[t].pc # "idle"
  BY DEF Idle, Fails
<1>2. \/ (Step(t, Idle("Error")) \/ SpoilApp(t, Idle("Error"))) /\ UNCHANGED <<status, before>>
      \/ w[t].pc = "save" /\ WriteStatus(t, Idle("Error"))
  BY DEF Fails
<1>3. dirty' = (dirty \/ w[t].pc \in {"save", "list", "delete"})
  BY DEF Fails
<1>4. CASE w[t].pc \notin {"save", "list", "delete"}
  <2>1. dirty' = dirty
    BY <1>3, <1>4 DEF TypeOK
  <2> QED BY <1>1, <1>2, <1>4, <2>1, PlainCount
<1>5. CASE w[t].pc \in {"save", "list", "delete"}
  <2>1. Bounded'
    BY <1>3, <1>5 DEF Bounded
  <2>2. TimesInv' /\ TodoInv'
    <3>1. CASE w[t].pc = "save" /\ WriteStatus(t, Idle("Error"))
      BY <1>1, <3>1, WriteCount
    <3>2. CASE (Step(t, Idle("Error")) \/ SpoilApp(t, Idle("Error"))) /\ UNCHANGED <<status, before>>
      <4>1. /\ w'[t] = Idle("Error")
            /\ \A u \in Threads \ {t} : w'[u].pc = w[u].pc /\ w'[u].todo = w[u].todo
        BY <3>2, TodoFrame
      <4>2. TimesInv /\ Timed' \subseteq Timed /\ before' = before
        BY <1>1, <3>2, <4>1 DEF CountInv, Timed
      <4>3. TodoInv'
        BY <1>1, <4>1 DEF CountInv, TodoInv
      <4> QED BY <4>2, <4>3 DEF TimesInv, Earlier
    <3> QED BY <1>2, <3>1, <3>2
  <2> QED BY <2>1, <2>2 DEF CountInv
<1> QED BY <1>4, <1>5

LEMMA CountStep ==
    ASSUME TypeOK, WriterInv, CountInv, [Next]_vars
    PROVE  CountInv'
<1>1. ASSUME NEW t \in Threads, NEW i \in Ids, NEW r \in Results, Begin(t, i, r)
      PROVE  CountInv'
  <2> DEFINE pc == IF InlineStatus THEN "getApp" ELSE "stamp"
             state == [Idle("none") EXCEPT !.pc = pc, !.i = i, !.r = r]
  <2>1. state.pc = pc /\ state.todo = {} /\ pc \in {"getApp", "stamp"}
    BY DEF Idle
  <2>2. Step(t, state) /\ w[t].pc = "idle" /\ UNCHANGED <<status, before, dirty>>
    BY <1>1 DEF Begin
  <2> HIDE DEF state, pc
  <2> QED BY <2>1, <2>2, PlainCount
<1>2. ASSUME UserEdit PROVE CountInv'
  <2>1. \A u \in Threads : w'[u].pc = w[u].pc /\ w'[u].todo = w[u].todo
    <3> SUFFICES ASSUME NEW u \in Threads PROVE w'[u].pc = w[u].pc /\ w'[u].todo = w[u].todo
      OBVIOUS
    <3>1. w[u] \in Writer /\ u # None
      BY DEF TypeOK
    <3>2. w'[u] = IF w[u].pc = "putApp" THEN [w[u] EXCEPT !.copy = "stale"] ELSE w[u]
      BY <1>2, <3>1 DEF UserEdit, SpoilApp
    <3> QED BY <3>1, <3>2 DEF Writer
  <2>2. UNCHANGED <<status, before, dirty>>
    BY <1>2 DEF UserEdit
  <2>3. TimesInv'
    <3>1. TimesInv /\ Timed' \subseteq Timed
      BY <2>1, <2>2 DEF CountInv, Timed
    <3> QED BY <2>2, <3>1 DEF TimesInv, Earlier
  <2>4. TodoInv'
    BY <2>1 DEF CountInv, TodoInv
  <2>5. Unmarked' \subseteq Unmarked /\ Listing \subseteq Listing'
    BY <2>1, <2>2 DEF Unmarked, Listing, Existing
  <2> QED BY <2>2, <2>3, <2>4, <2>5, BoundKept DEF CountInv
<1>3. ASSUME NEW t \in Threads, GetApp(t) PROVE CountInv'
  <2> DEFINE skip == [w[t] EXCEPT !.pc = "stamp", !.try = 1]
             read == [w[t] EXCEPT !.pc = "putApp", !.copy = "fresh", !.errs = w[t].i \in errors]
  <2>1. w[t].pc = "getApp" /\ w[t].todo = {} /\ UNCHANGED <<status, before, dirty>>
    BY <1>3 DEF GetApp, CountInv, TodoInv
  <2>2. skip.pc = "stamp" /\ skip.todo = {} /\ read.pc = "putApp" /\ read.todo = {}
    BY <2>1 DEF TypeOK, Writer
  <2>3. Step(t, skip) \/ Step(t, read)
    BY <1>3 DEF GetApp
  <2> HIDE DEF skip, read
  <2> QED BY <2>1, <2>2, <2>3, PlainCount
<1>4. ASSUME NEW t \in Threads, PutApp(t) PROVE CountInv'
  <2> DEFINE state == [w[t] EXCEPT !.pc = "stamp", !.try = 1, !.copy = "none", !.errs = FALSE]
  <2>1. w[t].pc = "putApp" /\ w[t].todo = {} /\ UNCHANGED <<status, before>>
    BY <1>4 DEF PutApp, CountInv, TodoInv
  <2>2. state.pc = "stamp" /\ state.todo = {}
    BY <2>1 DEF TypeOK, Writer
  <2>3. (SpoilApp(t, state) /\ UNCHANGED dirty) \/ Refused(t, "getApp")
    BY <1>4 DEF PutApp
  <2> HIDE DEF state
  <2> QED BY <2>1, <2>2, <2>3, PlainCount, RefusedCount
<1>5. ASSUME NEW t \in Threads, Stamp(t) PROVE CountInv'
  BY <1>5, StampCount
<1>6. ASSUME NEW t \in Threads, Get(t) PROVE CountInv'
  <2> DEFINE state == IF status[w[t].i] # None THEN [w[t] EXCEPT !.pc = "save", !.copy = "fresh"]
                      ELSE IF w[t].pc = "get" THEN [w[t] EXCEPT !.pc = "getOrCreate"]
                      ELSE [w[t] EXCEPT !.pc = "save", !.copy = "new"]
  <2>1. w[t].pc \in {"get", "getOrCreate"} /\ w[t].todo = {} /\ UNCHANGED <<status, before, dirty>>
    BY <1>6 DEF Get, CountInv, TodoInv
  <2>2. state.pc \in {"save", "getOrCreate"} /\ state.todo = {}
    BY <2>1 DEF TypeOK, Writer
  <2>3. Step(t, state)
    BY <1>6 DEF Get
  <2> HIDE DEF state
  <2> QED BY <2>1, <2>2, <2>3, PlainCount
<1>7. ASSUME NEW t \in Threads, Save(t) PROVE CountInv'
  <2> DEFINE state == [w[t] EXCEPT !.pc = "list", !.copy = "none"]
  <2>1. w[t].pc = "save" /\ w[t].todo = {}
    BY <1>7 DEF Save, CountInv, TodoInv
  <2>2. state.pc = "list" /\ state.todo = {}
    BY <2>1 DEF TypeOK, Writer
  <2>3. \/ WriteStatus(t, state) /\ UNCHANGED dirty
        \/ Step(t, Idle("NotFound")) /\ UNCHANGED <<status, before, dirty>>
        \/ Refused(t, "stamp") /\ UNCHANGED <<status, before>>
    BY <1>7 DEF Save
  <2>4. Idle("NotFound").pc = "idle" /\ Idle("NotFound").todo = {}
    BY DEF Idle
  <2> HIDE DEF state
  <2>5. CASE WriteStatus(t, state) /\ UNCHANGED dirty
    BY <2>1, <2>2, <2>5, WriteCount DEF CountInv
  <2>6. CASE Step(t, Idle("NotFound")) /\ UNCHANGED <<status, before, dirty>>
    BY <2>1, <2>4, <2>6, PlainCount
  <2>7. CASE Refused(t, "stamp") /\ UNCHANGED <<status, before>>
    BY <2>1, <2>7, RefusedCount
  <2> QED BY <2>3, <2>5, <2>6, <2>7
<1>8. ASSUME NEW t \in Threads, List(t) PROVE CountInv'
  BY <1>8, ListCount
<1>9. ASSUME NEW t \in Threads, NEW i \in Ids, Delete(t, i) PROVE CountInv'
  BY <1>9, DeleteCount
<1>10. ASSUME NEW t \in Threads, Fails(t) PROVE CountInv'
  BY <1>10, FailsCount
<1>11. CASE UNCHANGED vars
  BY <1>11 DEF vars, CountInv, TimesInv, Earlier, Timed, TodoInv, Bounded, Existing
<1> QED
  BY <1>1, <1>2, <1>3, <1>4, <1>5, <1>6, <1>7, <1>8, <1>9, <1>10, <1>11 DEF Next, Work

\* No more statuses stay than OLD_STATUSES_TO_KEEP, but for those that are about to be
\* listed or deleted, for any number of threads and ids (crd/status.py, _cleanup).
THEOREM FewStay == Spec => []Bounded
<1>1. Init => CountInv
  <2> SUFFICES ASSUME Init PROVE CountInv OBVIOUS
  <2>1. \A t \in Threads : w[t].pc = "idle" /\ w[t].todo = {}
    BY DEF Init, Idle
  <2>2. Existing = {} /\ Timed = {}
    BY <2>1 DEF Init, Existing, Timed
  <2>3. TimesInv /\ TodoInv
    BY <2>1, <2>2 DEF TimesInv, TodoInv
  <2>4. Unmarked = {} /\ Cardinality(Unmarked) = 0
    BY <2>2, FS_EmptySet DEF Unmarked
  <2>5. Cardinality(Unmarked) <= Keep + Cardinality(Listing)
    BY <2>4, Finite
  <2> QED BY <2>3, <2>5 DEF CountInv, Bounded, Unmarked, Listing
<1>2. IInv /\ CountInv /\ [Next]_vars => CountInv'
  BY CountStep DEF IInv
<1>3. CountInv => Bounded
  BY DEF CountInv
<1> QED BY <1>1, <1>2, <1>3, StoreInductive, PTL DEF Spec
===============================================================================
