------------------------- MODULE StateManagerProofs -------------------------
(***************************************************************************)
(* The state manager for any rule, interval and delay, and any number of   *)
(* ticks, failures, restarts and updates: its types, that what is sent is  *)
(* saved, that the pending period is observed, that a restart goes on with *)
(* the alert it finds, and that an alert is sent again before it expires.  *)
(***************************************************************************)
EXTENDS StateManager, TLAPS

Known(i) == cache[i] # None

(* A due evaluation is of a tick that nothing was evaluated at. *)
Begun == pc \in {"delete", "save", "send"}

InTime ==
    /\ tick <= now
    /\ breached # None => breached <= tick
    /\ \A i \in Ids :
         /\ Known(i) => cache[i].lastEval <= tick
         /\ rows[i] # None => rows[i].lastEval <= tick
         /\ (cycle = "due" /\ ~Begun) =>
              /\ Known(i) => cache[i].lastEval < tick
              /\ rows[i] # None => rows[i].lastEval < tick

(* A process that is down, or that resets the rule, has no states. *)
Emptied == pc \in {"down", "deleteAll", "stop"} => \A i \in Ids : ~Known(i)

(* The routine works on the state in the cache, until it is saved. *)
Batched ==
    Begun =>
        \A t \in batch : ~t.missing =>
            /\ t.id = "plain"
            /\ Known("plain")
            /\ t.s = cache["plain"]
            /\ t.s.lastEval = tick

Unsaved ==
    (pc \in {"delete", "save"} /\ Known("plain")) =>
        (cache["plain"].lastEval = tick => Evaluated # {})

IInv == TypeOK /\ InTime /\ Emptied /\ Batched /\ Unsaved /\ SavedBeforeSent

(* What PendingPeriodObserved says of the state in the cache, for the row  *)
(* as well, and of Pending states.                                         *)
Observed(s) ==
    /\ s.state = "Pending" => breached # None /\ breached <= s.startsAt
    /\ s.state = "Alerting" => breached # None /\ s.startsAt - breached >= rule.for

(* The row is the one of the state, but for the statements that the        *)
(* routine has still to execute.                                           *)
RowObserved ==
    /\ pc \notin {"delete", "save", "deleteAll"} =>
         (rows["plain"] # None => Observed(rows["plain"]))
    /\ (pc \in {"delete", "save"} /\ Evaluated = {} /\ Known("plain")) =>
         (rows["plain"] # None => Observed(rows["plain"]))
    /\ (pc \in {"idle", "save", "send", "stop"} /\ ~Known("plain")) =>
         rows["plain"] = None
    /\ (pc = "delete" /\ ~Known("plain")) =>
         (rows["plain"] = None \/ \E t \in Stale : Key(t.s) = "plain")

Regular == failures = 0 /\ ~lost /\ ~relabelled

PInv ==
    Regular =>
        /\ Known("plain") => Observed(cache["plain"]) /\ ~cache["plain"].labelled
        /\ RowObserved

-----------------------------------------------------------------------------
(* What the handlers make of a state: it is a state, evaluated when it was *)
(* before, and still Observed when the result says nothing of the          *)
(* condition, or that it holds, `breached' being the first such tick.      *)
Settings == tick \in Nat /\ rule \in AllRules /\ ResendDelay \in Nat /\ Interval \in Nat

LEMMA NextEndsTimeType == Settings => NextEndsTime \in Nat
  BY DEF Settings, NextEndsTime, Longest

LEMMA ResultNormalType ==
    ASSUME Settings, NEW s \in States
    PROVE  /\ ResultNormal(s) \in States
           /\ ResultNormal(s).lastEval = s.lastEval
           /\ ResultNormal(s).labelled = s.labelled
           /\ ResultNormal(s).state = "Normal"
  BY DEF Settings, ResultNormal, SetState, States, EvalStates

LEMMA ResultAlertingType ==
    ASSUME Settings, NEW s \in States
    PROVE  /\ ResultAlerting(s) \in States
           /\ ResultAlerting(s).lastEval = s.lastEval
           /\ ResultAlerting(s).labelled = s.labelled
<1> DEFINE E == NextEndsTime
<1>1. E \in Nat
  BY NextEndsTimeType
<1> HIDE DEF E
<1>2. ResultAlerting(s) \in {s, [s EXCEPT !.endsAt = E],
                             SetState(s, "Alerting", tick, E),
                             SetState(s, "Pending", tick, E)}
  BY DEF ResultAlerting, Maintain, E
<1> QED
  BY <1>1, <1>2 DEF Settings, SetState, States, EvalStates

LEMMA ResultKeepLastType ==
    ASSUME Settings, NEW s \in States
    PROVE  /\ ResultKeepLast(s) \in States
           /\ ResultKeepLast(s).lastEval = s.lastEval
           /\ ResultKeepLast(s).labelled = s.labelled
  BY ResultNormalType, ResultAlertingType DEF ResultKeepLast

LEMMA SetStateType ==
    ASSUME NEW s \in States, NEW st \in EvalStates, NEW b \in Nat, NEW e \in Nat
    PROVE  /\ SetState(s, st, b, e) \in States
           /\ SetState(s, st, b, e).lastEval = s.lastEval
  BY DEF SetState, States, EvalStates

LEMMA ResultErrorType ==
    ASSUME Settings, NEW s \in States
    PROVE  /\ ResultError(s) \in States
           /\ ResultError(s).lastEval = s.lastEval
<1> DEFINE E == NextEndsTime
           L == s.labelled \/ rule.queryErrors
           e == SetState(s, "Error", tick, E)
<1>1. E \in Nat /\ L \in BOOLEAN
  BY NextEndsTimeType DEF Settings, AllRules, States
<1>2. e \in States /\ e.lastEval = s.lastEval
  BY <1>1, SetStateType DEF Settings, EvalStates
<1> HIDE DEF E, L, e
<1>3. [e EXCEPT !.labelled = L] \in States /\ [e EXCEPT !.labelled = L].lastEval = s.lastEval
  BY <1>1, <1>2 DEF States
<1>4. [s EXCEPT !.endsAt = E] \in States /\ [s EXCEPT !.endsAt = E].lastEval = s.lastEval
  BY <1>1 DEF States
<1>5. \/ ResultError(s) = ResultAlerting(s)
      \/ ResultError(s) = ResultNormal(s)
      \/ ResultError(s) = ResultKeepLast(s)
      \/ ResultError(s) = [s EXCEPT !.endsAt = E]
      \/ ResultError(s) = [e EXCEPT !.labelled = L]
  BY DEF ResultError, Maintain, E, L, e
<1> QED
  BY <1>3, <1>4, <1>5, ResultAlertingType, ResultNormalType, ResultKeepLastType

LEMMA ResultNoDataType ==
    ASSUME Settings, NEW s \in States
    PROVE  /\ ResultNoData(s) \in States
           /\ ResultNoData(s).lastEval = s.lastEval
<1> DEFINE E == NextEndsTime
           e == SetState(s, "NoData", tick, E)
<1>1. E \in Nat
  BY NextEndsTimeType
<1>2. e \in States /\ e.lastEval = s.lastEval
  BY <1>1, SetStateType DEF Settings, EvalStates
<1> HIDE DEF E, e
<1>3. [s EXCEPT !.endsAt = E] \in States /\ [s EXCEPT !.endsAt = E].lastEval = s.lastEval
  BY <1>1 DEF States
<1>4. \/ ResultNoData(s) = ResultAlerting(s)
      \/ ResultNoData(s) = ResultNormal(s)
      \/ ResultNoData(s) = ResultKeepLast(s)
      \/ ResultNoData(s) = [s EXCEPT !.endsAt = E]
      \/ ResultNoData(s) = e
  BY DEF ResultNoData, Maintain, E, e
<1> QED
  BY <1>2, <1>3, <1>4, ResultAlertingType, ResultNormalType, ResultKeepLastType

(* The state before the result is applied, without the labels of an error  *)
(* that is over.                                                           *)
Clean(s, res) == [s EXCEPT !.lastEval = tick,
                           !.labelled = s.labelled /\ (s.state = "Error" =>
                                                          res = "Error")]

LEMMA CleanType ==
    ASSUME Settings, NEW s \in States, NEW res
    PROVE  /\ Clean(s, res) \in States
           /\ Clean(s, res).lastEval = tick
           /\ Clean(s, res).state = s.state
           /\ Clean(s, res).startsAt = s.startsAt
           /\ ~s.labelled => ~Clean(s, res).labelled
  BY DEF Settings, Clean, States

Applied(s, res) == CASE res = "Normal"   -> ResultNormal(s)
                     [] res = "Alerting" -> ResultAlerting(s)
                     [] res = "NoData"   -> ResultNoData(s)
                     [] OTHER            -> ResultError(s)

LEMMA NextStateIs ==
    ASSUME NEW s, NEW res
    PROVE  NextState(s, res) =
             [Applied(Clean(s, res), res) EXCEPT
                !.resolved = s.state = "Alerting" /\
                             Applied(Clean(s, res), res).state = "Normal"]
  BY DEF NextState, Applied, Clean

LEMMA NextStateType ==
    ASSUME Settings, NEW s \in States, NEW res
    PROVE  NextState(s, res) \in States /\ NextState(s, res).lastEval = tick
<1> DEFINE c == Clean(s, res)
           a == Applied(c, res)
           b == s.state = "Alerting" /\ a.state = "Normal"
<1>1. c \in States /\ c.lastEval = tick
  BY CleanType
<1>2. a \in States /\ a.lastEval = tick
  <2> HIDE DEF c
  <2> QED
    BY <1>1, ResultNormalType, ResultAlertingType, ResultNoDataType, ResultErrorType
       DEF Applied
<1>3. b \in BOOLEAN
  OBVIOUS
<1>4. NextState(s, res) = [a EXCEPT !.resolved = b]
  BY NextStateIs
<1> HIDE DEF a, b
<1> QED
  BY <1>2, <1>3, <1>4 DEF States

-----------------------------------------------------------------------------
LEMMA InitIInv == Init => IInv
<1> SUFFICES ASSUME Init PROVE IInv
  OBVIOUS
<1> USE StateManagerAssumption DEF Init
<1>1. TypeOK
  BY DEF TypeOK, Optional, Ids
<1>2. InTime /\ Emptied /\ Batched /\ Unsaved
  BY DEF InTime, Emptied, Batched, Unsaved, Known, Begun, Ids
<1>3. SavedBeforeSent
  BY DEF SavedBeforeSent, Ids
<1> QED
  BY <1>1, <1>2, <1>3 DEF IInv

LEMMA PassIInv == IInv /\ Pass => IInv'
<1> SUFFICES ASSUME IInv, Pass PROVE IInv'
  OBVIOUS
<1> USE StateManagerAssumption DEF IInv, Pass, historyVars
<1>1. TypeOK'
  BY DEF TypeOK
<1>2. /\ now' = now + 1
      /\ (tick' = tick /\ cycle' = cycle) \/ (tick' = now' /\ ~Begun)
      /\ UNCHANGED <<pc, batch, cache, rows, breached, failures>>
  BY DEF Begun
<1>3. InTime'
  <2>1. ASSUME NEW i \in Ids
        PROVE  /\ Known(i) => cache[i].lastEval \in Nat
               /\ rows[i] # None => rows[i].lastEval \in Nat
    BY DEF Known, TypeOK, Optional, States, Rows
  <2>2. now \in Nat /\ tick \in Nat /\ (breached # None => breached \in Nat)
    BY DEF TypeOK, Optional
  <2> QED
    BY <1>2, <2>1, <2>2 DEF InTime, Known, Begun
<1>4. Emptied'
  BY <1>2 DEF Emptied, Known
<1>5. Batched'
  BY <1>2 DEF Batched, Known, Begun
<1>6. Unsaved'
  BY <1>2 DEF Unsaved, Known, Begun, Evaluated, Stale
<1>7. SavedBeforeSent'
  <2>1. cache["plain"] # None => cache["plain"].lastEval \in Nat /\ cache["plain"].lastEval <= tick
    BY DEF InTime, Known, TypeOK, Optional, States, Ids
  <2>2. now \in Nat /\ tick \in Nat /\ tick <= now
    BY DEF TypeOK, InTime
  <2> QED
    BY <1>2, <2>1, <2>2 DEF SavedBeforeSent, Row, Key, Begun
<1> QED
  BY <1>1, <1>3, <1>4, <1>5, <1>6, <1>7

(* A statement that fails touches only the control and the count. *)
LEMMA StatementFailsIInv ==
    ASSUME IInv, NEW from, NEW to, StatementFails(from, to),
           <<from, to>> \in {<<"delete", "save">>, <<"save", "send">>,
                             <<"deleteAll", "stop">>}
    PROVE  IInv'
<1> USE DEF IInv, StatementFails, timeVars
<1>1. TypeOK'
  BY DEF TypeOK
<1>2. InTime'
  BY DEF InTime, Known, Begun
<1>3. Emptied' /\ Unsaved'
  BY DEF Emptied, Unsaved, Known, Evaluated, Stale
<1>4. Batched'
  BY DEF Batched, Known, Begun
<1>5. SavedBeforeSent'
  BY DEF SavedBeforeSent, TypeOK
<1> QED
  BY <1>1, <1>2, <1>3, <1>4, <1>5

LEMMA DeleteAlertStatesIInv == IInv /\ DeleteAlertStates => IInv'
<1> SUFFICES ASSUME IInv, DeleteAlertStates PROVE IInv'
  OBVIOUS
<1> USE DEF IInv, DeleteAlertStates, timeVars, historyVars
<1>1. \A i \in Ids : rows'[i] \in {None, rows[i]}
  OBVIOUS
<1>2. TypeOK'
  <2>1. rows' \in [Ids -> Optional(Rows)]
    BY <1>1 DEF TypeOK, Optional
  <2> QED
    BY <2>1 DEF TypeOK
<1>3. InTime'
  BY <1>1 DEF InTime, Known, Begun
<1>4. Emptied' /\ Unsaved' /\ Batched'
  BY DEF Emptied, Unsaved, Batched, Known, Begun, Evaluated, Stale
<1>5. SavedBeforeSent'
  BY DEF SavedBeforeSent
<1> QED
  BY <1>2, <1>3, <1>4, <1>5

(* The transition that is saved is that of the state in the cache. *)
LEMMA SavedIs ==
    ASSUME IInv, pc = "save", Evaluated # {}
    PROVE  /\ Known("plain")
           /\ cache["plain"].lastEval = tick
           /\ \A i \in Ids :
                LET of == {t \in Evaluated : Key(t.s) = i} IN
                /\ (\E t \in Evaluated : Key(t.s) = i) <=> Key(cache["plain"]) = i
                /\ Key(cache["plain"]) = i =>
                     Row((CHOOSE t \in Evaluated : Key(t.s) = i).s) = Row(cache["plain"])
<1>1. \A t \in Evaluated : t.s = cache["plain"] /\ t.s.lastEval = tick /\ Known("plain")
  BY DEF IInv, Batched, Begun, Evaluated, Stale
<1> QED
  BY <1>1

LEMMA RowType == ASSUME NEW s \in States PROVE Row(s) \in Rows /\ Row(s).lastEval = s.lastEval
  BY DEF Row, Rows, States

LEMMA SaveAlertStatesIInv == IInv /\ SaveAlertStates => IInv'
<1> SUFFICES ASSUME IInv, SaveAlertStates PROVE IInv'
  OBVIOUS
<1> USE DEF IInv, SaveAlertStates, timeVars, historyVars
<1>1. rows' = rows \/ Evaluated # {}
  BY DEF TypeOK
<1>2. Evaluated # {} =>
        /\ Known("plain")
        /\ cache["plain"].lastEval = tick
        /\ \A i \in Ids : rows'[i] = IF Key(cache["plain"]) = i THEN Row(cache["plain"])
                                                             ELSE rows[i]
  BY SavedIs
<1>3. Known("plain") => cache["plain"] \in States /\ tick \in Nat
  BY DEF TypeOK, Optional, Known, Ids
<1>4. TypeOK'
  <2>1. rows' \in [Ids -> Optional(Rows)]
    BY <1>1, <1>2, <1>3, RowType DEF TypeOK, Optional
  <2> QED
    BY <2>1 DEF TypeOK
<1>5. InTime'
  BY <1>1, <1>2, <1>3, RowType DEF InTime, Known, Begun
<1>6. Emptied' /\ Unsaved'
  BY DEF Emptied, Unsaved, Known
<1>7. Batched'
  BY DEF Batched, Known, Begun
<1>8. SavedBeforeSent'
  <2>1. (Known("plain") /\ cache["plain"].lastEval = tick) => Evaluated # {}
    BY DEF Unsaved
  <2>2. \A x : Key(x) \in Ids
    BY DEF Key, Ids
  <2> QED
    BY <1>2, <2>1, <2>2 DEF SavedBeforeSent, Known, Row, Key
<1> QED
  BY <1>4, <1>5, <1>6, <1>7, <1>8

-----------------------------------------------------------------------------
(* ProcessEvalResults, in steps.                                           *)
LEMMA CurrentType ==
    IInv => /\ Settings
            /\ Current \in States
            /\ ~Known("plain") => Current.state = "Normal" /\ ~Current.labelled
            /\ Known("plain") => Current = cache["plain"]
<1> SUFFICES ASSUME IInv
             PROVE  /\ Settings
                    /\ Current \in States
                    /\ ~Known("plain") => Current.state = "Normal" /\ ~Current.labelled
                    /\ Known("plain") => Current = cache["plain"]
  OBVIOUS
<1>1. Settings
  BY StateManagerAssumption DEF IInv, TypeOK, Settings
<1>2. CASE Known("plain")
  BY <1>1, <1>2 DEF Current, Known, IInv, TypeOK, Optional, Ids
<1>3. CASE ~Known("plain")
  BY <1>1, <1>3 DEF Current, Known, Settings, States, EvalStates
<1> QED
  BY <1>1, <1>2, <1>3

LEMMA MissingType ==
    ASSUME Settings, NEW s \in States
    PROVE  Missing(s) \in States /\ Missing(s).labelled = s.labelled
<1> DEFINE r == s.resolved \/ s.state = "Alerting"
<1>1. r \in BOOLEAN
  BY DEF States
<1>2. Missing(s) = [s EXCEPT !.state = "Normal", !.endsAt = tick, !.lastEval = tick,
                             !.resolved = r]
  BY DEF Missing
<1> HIDE DEF r
<1> QED
  BY <1>1, <1>2 DEF Settings, States, EvalStates

(* The cache after the results are applied, and what is stale in it. *)
After(res) == IF res = None THEN cache
              ELSE [cache EXCEPT !["plain"] = NextState(Current, res)]
StaleIds(res) == {i \in Ids : After(res)[i] # None /\ IsStale(After(res)[i])}

LEMMA AfterType ==
    ASSUME IInv, NEW res \in Results
    PROVE  /\ After(res) \in [Ids -> Optional(States)]
           /\ res # None => /\ After(res)["plain"] = NextState(Current, res)
                            /\ After(res)["plain"] \in States
                            /\ After(res)["plain"].lastEval = tick
                            /\ "plain" \notin StaleIds(res)
           /\ \A i \in Ids : i # "plain" => After(res)[i] = cache[i]
           /\ \A i \in Ids : After(res)[i] # None => After(res)[i] \in States
<1>1. CASE res = None
  BY <1>1 DEF After, IInv, TypeOK, Optional
<1>2. CASE res # None
  <2>1. NextState(Current, res) \in States /\ NextState(Current, res).lastEval = tick
    BY CurrentType, NextStateType
  <2>2. After(res)["plain"] = NextState(Current, res)
    BY <1>2 DEF After, IInv, TypeOK, Ids
  <2>3. ~IsStale(After(res)["plain"])
    BY <2>1, <2>2, StateManagerAssumption DEF IsStale, IInv, TypeOK
  <2>4. After(res) \in [Ids -> Optional(States)]
    BY <1>2, <2>1 DEF After, IInv, TypeOK, Optional
  <2>5. \A i \in Ids : i # "plain" => After(res)[i] = cache[i]
    BY <1>2 DEF After, IInv, TypeOK
  <2> QED
    BY <1>2, <2>1, <2>2, <2>3, <2>4, <2>5 DEF StaleIds, Optional
<1> QED
  BY <1>1, <1>2

LEMMA ProcessIs ==
    ASSUME NEW res, ProcessEvalResults(res)
    PROVE  /\ pc = "idle" /\ cycle = "due" /\ pc' = "delete"
           /\ cache' = [i \in Ids |-> IF i \in StaleIds(res) THEN None ELSE After(res)[i]]
           /\ batch' =
                (IF res = None THEN {}
                 ELSE {[id |-> "plain", s |-> NextState(Current, res),
                        previous |-> Current.state, missing |-> FALSE]})
                \cup {[id |-> i, s |-> Missing(After(res)[i]),
                       previous |-> After(res)[i].state, missing |-> TRUE] :
                        i \in StaleIds(res)}
           /\ breached' = BreachedAfter(res, StaleIds(res))
           /\ relabelled' = (relabelled \/ (res # None /\ NextState(Current, res).labelled))
           /\ UNCHANGED <<timeVars, rule, rows, am, lost, failures, crashes, resets>>
  BY DEF ProcessEvalResults, After, StaleIds

LEMMA ProcessIInv ==
    ASSUME IInv, NEW res \in Results, ProcessEvalResults(res)
    PROVE  IInv'
<1> DEFINE stale == StaleIds(res)
           after == After(res)
           next == NextState(Current, res)
           evaluated == [id |-> "plain", s |-> next,
                         previous |-> Current.state, missing |-> FALSE]
           missing(i) == [id |-> i, s |-> Missing(after[i]),
                          previous |-> after[i].state, missing |-> TRUE]
<1>1. /\ pc = "idle" /\ cycle = "due" /\ pc' = "delete"
      /\ cache' = [i \in Ids |-> IF i \in stale THEN None ELSE after[i]]
      /\ batch' = (IF res = None THEN {} ELSE {evaluated})
                  \cup {missing(i) : i \in stale}
      /\ breached' = BreachedAfter(res, stale)
      /\ relabelled' = (relabelled \/ (res # None /\ next.labelled))
      /\ UNCHANGED <<now, tick, cycle, missed, rule, rows, am, lost, failures,
                     crashes, resets>>
  BY ProcessIs DEF timeVars
<1>2. /\ after \in [Ids -> Optional(States)]
      /\ res # None => /\ after["plain"] = next
                       /\ next \in States
                       /\ next.lastEval = tick
                       /\ "plain" \notin stale
      /\ \A i \in Ids : i # "plain" => after[i] = cache[i]
      /\ \A i \in Ids : after[i] # None => after[i] \in States
  BY AfterType
<1>3. /\ stale \subseteq Ids
      /\ \A i \in stale : after[i] \in States
  BY <1>2 DEF StaleIds
<1>4. Settings /\ Current \in States
  BY CurrentType
<1>5. res = None => after = cache
  BY DEF After
<1> HIDE DEF stale, after, next
<1>6. TypeOK'
  <2>1. cache' \in [Ids -> Optional(States)]
    BY <1>1, <1>2 DEF Optional
  <2>2. res # None => evaluated \in Transitions
    BY <1>2, <1>4 DEF Transitions, States, Ids
  <2>3. \A i \in stale : missing(i) \in Transitions
    BY <1>3, <1>4, MissingType DEF Transitions, States
  <2>4. batch' \subseteq Transitions
    BY <1>1, <2>2, <2>3
  <2>5. breached' \in Optional(Nat)
    BY <1>1 DEF BreachedAfter, Optional, IInv, TypeOK
  <2>6. relabelled' \in BOOLEAN
    BY <1>1 DEF IInv, TypeOK
  <2> QED
    BY <1>1, <2>1, <2>4, <2>5, <2>6 DEF IInv, TypeOK
<1>7. InTime'
  <2>1. \A i \in Ids : cache'[i] # None => cache'[i].lastEval <= tick
    <3> SUFFICES ASSUME NEW i \in Ids, cache'[i] # None
                 PROVE  cache'[i].lastEval <= tick
      OBVIOUS
    <3>1. cache'[i] = after[i]
      BY <1>1
    <3>2. CASE res # None /\ i = "plain"
      BY <1>2, <3>1, <3>2 DEF IInv, TypeOK
    <3>3. CASE ~(res # None /\ i = "plain")
      BY <1>2, <1>5, <3>1, <3>3 DEF IInv, InTime, Known
    <3> QED
      BY <3>2, <3>3
  <2>2. breached' # None => breached' <= tick
    BY <1>1 DEF BreachedAfter, IInv, InTime, TypeOK
  <2> QED
    BY <1>1, <2>1, <2>2 DEF IInv, InTime, Known, Begun
<1>8. Emptied'
  BY <1>1 DEF Emptied
<1>9. Batched'
  <2>1. res # None => cache'["plain"] = next /\ next # None
    BY <1>1, <1>2, StateManagerAssumption DEF Ids
  <2>2. \A t \in batch' : ~t.missing => t = evaluated /\ res # None
    BY <1>1
  <2> QED
    BY <1>1, <1>2, <2>1, <2>2 DEF Batched, Known
<1>10. Unsaved'
  <2>1. CASE res # None
    <3>1. evaluated \in batch' /\ ~evaluated.missing
      BY <1>1, <2>1
    <3> QED
      BY <3>1 DEF Unsaved, Evaluated, Stale
  <2>2. CASE res = None
    <3>1. cache'["plain"] \in {None, cache["plain"]}
      BY <1>1, <1>5, <2>2 DEF Ids
    <3>2. Known("plain") => cache["plain"].lastEval < tick /\ cache["plain"].lastEval \in Nat
      BY <1>1 DEF IInv, InTime, Begun, Known, TypeOK, Optional, States, Ids
    <3> QED
      BY <1>1, <1>4, <3>1, <3>2 DEF Unsaved, Known, Settings
  <2> QED
    BY <2>1, <2>2
<1>11. SavedBeforeSent'
  BY <1>1 DEF SavedBeforeSent
<1> QED
  BY <1>6, <1>7, <1>8, <1>9, <1>10, <1>11 DEF IInv

-----------------------------------------------------------------------------
(* Messages come from transitions. *)
LEMMA ToldType ==
    ASSUME TypeOK, NEW sent, sent \subseteq Transitions
    PROVE  Told(sent) \in [Alerts -> Optional(Messages)]
<1> SUFFICES ASSUME NEW a \in Alerts
             PROVE  Told(sent)[a] \in Optional(Messages)
  BY DEF Told
<1> DEFINE of == {t \in sent : Alert(t) = a}
           last == CHOOSE t \in of : (\E u \in of : u.missing) => t.missing
<1>1. Told(sent)[a] = IF of = {} THEN am[a]
                      ELSE [startsAt |-> last.s.startsAt, endsAt |-> last.s.endsAt]
  BY DEF Told
<1>2. of # {} => last \in of
  OBVIOUS
<1>3. of \subseteq Transitions
  OBVIOUS
<1> HIDE DEF of, last
<1> QED
  BY <1>1, <1>2, <1>3 DEF TypeOK, Optional, Transitions, States, Messages

LEMMA SendAlertsIInv == IInv /\ SendAlerts => IInv'
<1> SUFFICES ASSUME IInv, SendAlerts PROVE IInv'
  OBVIOUS
<1> DEFINE sent == {t \in batch : NeedsSending(t.s)}
           put == {t.id : t \in sent \cap Evaluated}
           again(i) == [cache[i] EXCEPT !.lastSent = now]
<1>1. /\ pc = "send" /\ pc' = "idle" /\ batch' = {}
      /\ am' = Told(sent)
      /\ cache' = [i \in Ids |-> IF i \in put THEN again(i) ELSE cache[i]]
      /\ cycle' \in {"void", "done"}
      /\ missed' \in {missed, 0}
      /\ UNCHANGED <<now, tick, rule, rows, breached, lost, relabelled,
                     failures, crashes, resets>>
  BY DEF SendAlerts, historyVars
<1>2. \A i \in put : i = "plain" /\ Known("plain")
  BY <1>1 DEF IInv, Batched, Begun, Evaluated, Stale
<1>3. /\ am' \in [Alerts -> Optional(Messages)]
      /\ now \in Nat
  BY <1>1, ToldType DEF IInv, TypeOK
<1> HIDE DEF sent, put
<1>4. ASSUME NEW i \in Ids, Known(i)
      PROVE  /\ cache[i] \in States
             /\ again(i) \in States
             /\ again(i).lastEval = cache[i].lastEval
             /\ again(i).labelled = cache[i].labelled
             /\ Row(again(i)) = Row(cache[i])
  BY <1>3, <1>4 DEF Known, IInv, TypeOK, Optional, States, Row
<1>5. ASSUME NEW i \in Ids
      PROVE  /\ cache'[i] \in Optional(States)
             /\ cache'[i] # None =>
                  /\ Known(i)
                  /\ cache'[i].lastEval = cache[i].lastEval
                  /\ cache'[i].labelled = cache[i].labelled
                  /\ Row(cache'[i]) = Row(cache[i])
  BY <1>1, <1>2, <1>4 DEF Known, Optional, IInv, TypeOK
<1>6. TypeOK'
  <2>1. cache' \in [Ids -> Optional(States)]
    BY <1>1, <1>5
  <2> QED
    BY <1>1, <1>3, <2>1 DEF IInv, TypeOK
<1>7. InTime'
  BY <1>1, <1>5 DEF IInv, InTime, Known
<1>8. Emptied' /\ Batched' /\ Unsaved'
  BY <1>1 DEF Emptied, Batched, Begun, Unsaved
<1>9. SavedBeforeSent'
  BY <1>1, <1>5 DEF IInv, SavedBeforeSent, Known, Key, Ids
<1> QED
  BY <1>6, <1>7, <1>8, <1>9 DEF IInv

LEMMA ResetType ==
    ASSUME IInv, NEW s \in States
    PROVE  Reset(s) \in States
<1> DEFINE b == IF s.state = "Normal" THEN s.startsAt ELSE now
           r == s.state \in {"Alerting", "Error", "NoData"}
<1>1. b \in Nat /\ r \in BOOLEAN /\ now \in Nat
  BY DEF IInv, TypeOK, States
<1>2. Reset(s) = [s EXCEPT !.state = "Normal", !.startsAt = b, !.endsAt = now,
                           !.lastEval = now, !.resolved = r]
  BY DEF Reset
<1> HIDE DEF b, r
<1> QED
  BY <1>1, <1>2 DEF States, EvalStates

LEMMA RemoveIInv ==
    ASSUME IInv, NEW r \in Rules, RemoveByRuleUID(r)
    PROVE  IInv'
<1> DEFINE known == {i \in Ids : cache[i] # None}
           stopped(i) == [id |-> i, s |-> Reset(cache[i]),
                          previous |-> cache[i].state, missing |-> FALSE]
<1>1. /\ pc = "idle" /\ pc' \in {"idle", "deleteAll"}
      /\ resets' = resets + 1
      /\ rule' = r
      /\ cache' = [i \in Ids |-> None]
      /\ batch' = {stopped(i) : i \in known}
      /\ breached' = None
      /\ UNCHANGED <<now, tick, cycle, missed, rows, am, lost, relabelled,
                     failures, crashes>>
  BY DEF RemoveByRuleUID, timeVars
<1>2. \A i \in known : stopped(i) \in Transitions
  BY ResetType DEF IInv, TypeOK, Optional, Transitions, States
<1>3. TypeOK'
  BY <1>1, <1>2, StateManagerAssumption DEF IInv, TypeOK, Optional
<1> HIDE DEF known
<1>4. InTime'
  BY <1>1 DEF IInv, InTime, Known, Begun
<1>5. Emptied' /\ Batched' /\ Unsaved'
  BY <1>1 DEF Emptied, Batched, Unsaved, Known, Begun
<1>6. SavedBeforeSent'
  BY <1>1 DEF SavedBeforeSent, Ids
<1> QED
  BY <1>3, <1>4, <1>5, <1>6 DEF IInv

LEMMA DeleteByRuleIInv == IInv /\ DeleteAlertInstancesByRule => IInv'
<1> SUFFICES ASSUME IInv, DeleteAlertInstancesByRule PROVE IInv'
  OBVIOUS
<1> USE DEF IInv, DeleteAlertInstancesByRule, timeVars, historyVars
<1>1. TypeOK'
  BY DEF TypeOK, Optional
<1>2. InTime'
  BY DEF InTime, Known, Begun
<1>3. Emptied' /\ Batched' /\ Unsaved'
  BY DEF Emptied, Batched, Unsaved, Known, Begun
<1>4. SavedBeforeSent'
  BY DEF SavedBeforeSent
<1> QED
  BY <1>1, <1>2, <1>3, <1>4

LEMMA SendStoppedIInv == IInv /\ SendStoppedAlerts => IInv'
<1> SUFFICES ASSUME IInv, SendStoppedAlerts PROVE IInv'
  OBVIOUS
<1> DEFINE firing == {u \in batch : u.previous \notin {"Normal", "Pending"}}
           sent == {[t EXCEPT !.s.endsAt = now] : t \in firing}
<1>1. /\ pc = "stop" /\ pc' = "idle" /\ batch' = {}
      /\ am' = Told(sent)
      /\ UNCHANGED <<now, tick, cycle, missed, rule, cache, rows, breached, lost,
                     relabelled, failures, crashes, resets>>
  BY DEF SendStoppedAlerts, timeVars, historyVars
<1>2. sent \subseteq Transitions
  <2> SUFFICES ASSUME NEW t \in batch PROVE [t EXCEPT !.s.endsAt = now] \in Transitions
    OBVIOUS
  <2>1. t \in Transitions /\ now \in Nat
    BY DEF IInv, TypeOK
  <2>2. [t.s EXCEPT !.endsAt = now] \in States
    BY <2>1 DEF Transitions, States
  <2> QED
    BY <2>1, <2>2 DEF Transitions
<1>3. am' \in [Alerts -> Optional(Messages)]
  BY <1>1, <1>2, ToldType DEF IInv
<1> HIDE DEF sent
<1>4. TypeOK'
  BY <1>1, <1>3 DEF IInv, TypeOK
<1>5. \A i \in Ids : ~Known(i)
  BY <1>1 DEF IInv, Emptied
<1>6. InTime'
  BY <1>1, <1>5 DEF IInv, InTime, Known, Begun
<1>7. Emptied' /\ Batched' /\ Unsaved'
  BY <1>1 DEF Emptied, Batched, Unsaved, Begun
<1>8. SavedBeforeSent'
  BY <1>1, <1>5 DEF SavedBeforeSent, Known, Ids
<1> QED
  BY <1>4, <1>6, <1>7, <1>8 DEF IInv

LEMMA CrashIInv == IInv /\ Crash => IInv'
<1> SUFFICES ASSUME IInv, Crash PROVE IInv'
  OBVIOUS
<1> USE DEF IInv, Crash
<1>1. TypeOK'
  BY DEF TypeOK, Optional
<1>2. cycle' # "due"
  OBVIOUS
<1>3. InTime'
  BY <1>2 DEF InTime, Known
<1>4. Emptied' /\ Batched' /\ Unsaved'
  BY DEF Emptied, Batched, Unsaved, Known, Begun
<1>5. SavedBeforeSent'
  BY DEF SavedBeforeSent
<1> QED
  BY <1>1, <1>3, <1>4, <1>5

LEMMA RestoredType ==
    ASSUME TypeOK, NEW i \in Ids, rows[i] # None
    PROVE  /\ Restored(i) \in States
           /\ Restored(i).lastEval = rows[i].lastEval
           /\ Key(Restored(i)) = i
           /\ Row(Restored(i)) = rows[i]
  BY DEF TypeOK, Optional, Restored, States, Rows, Key, Row, Ids

LEMMA WarmIInv == IInv /\ Warm => IInv'
<1> SUFFICES ASSUME IInv, Warm PROVE IInv'
  OBVIOUS
<1>1. /\ pc = "down" /\ pc' = "idle"
      /\ cycle' \in {cycle, "void"}
      /\ cache' = [i \in Ids |-> IF rows[i] = None THEN None ELSE Restored(i)]
      /\ UNCHANGED <<now, tick, missed, rule, batch, rows, am, breached, lost,
                     relabelled, failures, crashes, resets>>
  BY DEF Warm, Restart
<1>2. TypeOK
  BY DEF IInv
<1>3. TypeOK'
  <2>1. cache' \in [Ids -> Optional(States)]
    BY <1>1, <1>2, RestoredType DEF Optional
  <2> QED
    BY <1>1, <1>2, <2>1 DEF TypeOK
<1>4. InTime'
  BY <1>1, <1>2, RestoredType DEF IInv, InTime, Known, Begun
<1>5. Emptied' /\ Batched' /\ Unsaved'
  BY <1>1 DEF Emptied, Batched, Unsaved, Begun
<1>6. SavedBeforeSent'
  BY <1>1, <1>2, RestoredType DEF SavedBeforeSent, Ids
<1> QED
  BY <1>3, <1>4, <1>5, <1>6 DEF IInv

LEMMA WarmFailsIInv == IInv /\ WarmFails => IInv'
<1> SUFFICES ASSUME IInv, WarmFails PROVE IInv'
  OBVIOUS
<1> USE DEF IInv, WarmFails, Restart
<1>1. TypeOK'
  BY DEF TypeOK
<1>2. InTime'
  BY DEF InTime, Known, Begun
<1>3. Emptied' /\ Batched' /\ Unsaved'
  BY DEF Emptied, Batched, Unsaved, Begun
<1>4. SavedBeforeSent'
  BY DEF SavedBeforeSent, TypeOK
<1> QED
  BY <1>1, <1>2, <1>3, <1>4

-----------------------------------------------------------------------------
LEMMA NextIInv == IInv /\ [Next]_vars => IInv'
<1> SUFFICES ASSUME IInv, [Next]_vars PROVE IInv'
  OBVIOUS
<1>1. CASE UNCHANGED vars
  <2> USE <1>1 DEF vars, timeVars, historyVars
  <2>1. TypeOK' /\ InTime' /\ Emptied'
    BY DEF IInv, TypeOK, InTime, Emptied, Known, Begun
  <2>2. Batched' /\ Unsaved' /\ SavedBeforeSent'
    BY DEF IInv, Batched, Unsaved, SavedBeforeSent, Known, Begun, Evaluated, Stale
  <2> QED
    BY <2>1, <2>2 DEF IInv
<1>2. CASE DeleteAlertStatesFails
  BY <1>2, StatementFailsIInv DEF DeleteAlertStatesFails
<1>3. CASE SaveAlertStatesFails
  BY <1>3, StatementFailsIInv DEF SaveAlertStatesFails
<1>4. CASE DeleteAlertInstancesByRuleFails
  BY <1>4, StatementFailsIInv DEF DeleteAlertInstancesByRuleFails
<1> QED
  BY <1>1, <1>2, <1>3, <1>4, PassIInv, ProcessIInv, DeleteAlertStatesIInv,
     SaveAlertStatesIInv, SendAlertsIInv, RemoveIInv, DeleteByRuleIInv,
     SendStoppedIInv, CrashIInv, WarmIInv, WarmFailsIInv DEF Next

LEMMA Invariance == Spec => []IInv
  BY InitIInv, NextIInv, PTL DEF Spec

(* The variables keep their types, whatever the rules, the interval, the   *)
(* delay and the number of ticks, failures, restarts and updates.          *)
THEOREM TypeCorrect == Spec => []TypeOK
<1>1. IInv => TypeOK
  BY DEF IInv
<1> QED
  BY <1>1, Invariance, PTL

(* The row of alert_instance is the state that was evaluated last, before  *)
(* its alert is sent and after, as long as no statement fails: wherever    *)
(* the process dies, and whichever labels the state has.                   *)
THEOREM SavedFirst == Spec => []SavedBeforeSent
<1>1. IInv => SavedBeforeSent
  BY DEF IInv
<1> QED
  BY <1>1, Invariance, PTL

-----------------------------------------------------------------------------
(* The pending period.  What the handlers do to an observed state, when    *)
(* `b' is the tick since which nothing denied the condition after it.      *)
ObservedSince(s, b) ==
    /\ s.state = "Pending" => b # None /\ b <= s.startsAt
    /\ s.state = "Alerting" => b # None /\ s.startsAt - b >= rule.for

LEMMA AlertingObserved ==
    ASSUME Settings, NEW s \in States, NEW b \in Nat, b <= tick, b # None,
           s.state \in {"Pending", "Alerting"} => ObservedSince(s, b)
    PROVE  ObservedSince(ResultAlerting(s), b)
<1> DEFINE E == NextEndsTime
<1>1. /\ rule.for \in Nat /\ tick \in Nat /\ s.startsAt \in Nat
      /\ s.state \in EvalStates
  BY DEF Settings, AllRules, States
<1>2. CASE s.state = "Alerting"
  <2>1. ResultAlerting(s) = [s EXCEPT !.endsAt = E]
    BY <1>2 DEF ResultAlerting, Maintain
  <2> HIDE DEF E
  <2> QED
    BY <1>2, <2>1 DEF ObservedSince, States
<1>3. CASE s.state = "Pending" /\ tick - s.startsAt >= rule.for
  <2>1. ResultAlerting(s) = SetState(s, "Alerting", tick, E)
    BY <1>3 DEF ResultAlerting
  <2>2. b <= s.startsAt
    BY <1>3 DEF ObservedSince
  <2>3. tick - b >= rule.for
    BY <1>1, <1>3, <2>2
  <2> HIDE DEF E
  <2> QED
    BY <2>1, <2>3 DEF ObservedSince, SetState, States
<1>4. CASE s.state = "Pending" /\ ~(tick - s.startsAt >= rule.for)
  BY <1>4 DEF ResultAlerting
<1>5. CASE s.state \notin {"Alerting", "Pending"}
  <2>1. ResultAlerting(s) = SetState(s, IF rule.for > 0 THEN "Pending" ELSE "Alerting",
                                     tick, E)
    BY <1>5 DEF ResultAlerting
  <2> HIDE DEF E
  <2>2. CASE rule.for > 0
    BY <2>1, <2>2 DEF ObservedSince, SetState, States
  <2>3. CASE ~(rule.for > 0)
    BY <1>1, <2>1, <2>3 DEF ObservedSince, SetState, States
  <2> QED
    BY <2>2, <2>3
<1> QED
  BY <1>2, <1>3, <1>4, <1>5

LEMMA KeepLastObserved ==
    ASSUME Settings, NEW s \in States, NEW b \in Nat \cup {None},
           b # None => b <= tick, ObservedSince(s, b)
    PROVE  ObservedSince(ResultKeepLast(s), b)
<1>1. CASE s.state \in {"Alerting", "Pending"}
  <2>1. b \in Nat /\ b # None /\ b <= tick
    BY <1>1 DEF ObservedSince
  <2>2. ObservedSince(ResultAlerting(s), b)
    BY <2>1, AlertingObserved
  <2>3. ResultKeepLast(s) = ResultAlerting(s) \/ ResultKeepLast(s) = s
    BY <1>1 DEF ResultKeepLast
  <2> QED
    BY <2>2, <2>3
<1>2. CASE s.state \notin {"Alerting", "Pending"}
  <2>1. ResultKeepLast(s) = ResultNormal(s)
    BY <1>2 DEF ResultKeepLast
  <2> QED
    BY <2>1, ResultNormalType DEF ObservedSince
<1> QED
  BY <1>1, <1>2

LEMMA AppliedObserved ==
    ASSUME Settings, NEW s \in States, NEW res \in Results, res # None,
           breached \in Nat \cup {None}, breached # None => breached <= tick,
           None \notin Nat,
           NEW stale, "plain" \notin stale, ObservedSince(s, breached)
    PROVE  ObservedSince(Applied(s, res), BreachedAfter(res, stale))
<1> DEFINE b == BreachedAfter(res, stale)
<1>1. tick \in Nat
  BY DEF Settings
<1>2. Confirms(res) =>
        /\ b \in Nat /\ b <= tick /\ b # None
        /\ ObservedSince(ResultAlerting(s), b)
  <2> SUFFICES ASSUME Confirms(res)
               PROVE  /\ b \in Nat /\ b <= tick /\ b # None
                      /\ ObservedSince(ResultAlerting(s), b)
    OBVIOUS
  <2>1. ~Denies(res)
    BY DEF Confirms, Denies
  <2>2. b = IF breached = None THEN tick ELSE breached
    BY <2>1 DEF BreachedAfter
  <2>3. b \in Nat /\ b <= tick /\ b # None
    BY <1>1, <2>2
  <2>4. s.state \in {"Pending", "Alerting"} => ObservedSince(s, b)
    BY <2>2 DEF ObservedSince
  <2> HIDE DEF b
  <2> QED
    BY <2>3, <2>4, AlertingObserved
<1>3. (~Confirms(res) /\ ~Denies(res)) =>
        /\ b = breached
        /\ ObservedSince(ResultKeepLast(s), b)
  BY KeepLastObserved DEF BreachedAfter
<1>4. ObservedSince(ResultNormal(s), b)
  BY ResultNormalType DEF ObservedSince
<1> HIDE DEF b
<1>5. CASE res = "Normal"
  BY <1>4, <1>5 DEF Applied, b
<1>6. CASE res = "Alerting"
  BY <1>2, <1>6 DEF Applied, b, Confirms
<1>7. CASE res = "NoData"
  <2>1. Applied(s, res) = ResultNoData(s)
    BY <1>7 DEF Applied
  <2>2. CASE rule.noDataState = "Alerting"
    BY <1>2, <1>7, <2>1, <2>2 DEF ResultNoData, b, Confirms
  <2>3. CASE rule.noDataState = "OK"
    BY <1>4, <2>1, <2>3 DEF ResultNoData, b
  <2>4. CASE rule.noDataState = "KeepLast"
    BY <1>3, <1>7, <2>1, <2>4 DEF ResultNoData, b, Confirms, Denies
  <2>5. CASE rule.noDataState = "NoData"
    <3>1. ResultNoData(s) = IF s.state = "NoData" THEN Maintain(s)
                            ELSE SetState(s, "NoData", tick, NextEndsTime)
      BY <2>5 DEF ResultNoData
    <3>2. ResultNoData(s).state = "NoData"
      <4> DEFINE E == NextEndsTime
      <4>1. ResultNoData(s) = IF s.state = "NoData" THEN [s EXCEPT !.endsAt = E]
                              ELSE SetState(s, "NoData", tick, E)
        BY <3>1 DEF Maintain
      <4> HIDE DEF E
      <4> QED
        BY <4>1 DEF SetState, States
    <3> QED
      BY <2>1, <3>2 DEF ObservedSince
  <2> QED
    BY <2>2, <2>3, <2>4, <2>5 DEF Settings, AllRules, NoDataStates
<1>8. CASE res = "Error"
  <2>1. Applied(s, res) = ResultError(s)
    BY <1>8 DEF Applied
  <2>2. CASE rule.execErrState = "Alerting"
    BY <1>2, <1>8, <2>1, <2>2 DEF ResultError, b, Confirms
  <2>3. CASE rule.execErrState = "OK"
    BY <1>4, <2>1, <2>3 DEF ResultError, b
  <2>4. CASE rule.execErrState = "KeepLast"
    BY <1>3, <1>8, <2>1, <2>4 DEF ResultError, b, Confirms, Denies
  <2>5. CASE rule.execErrState = "Error"
    <3>1. ResultError(s).state = "Error"
      <4> DEFINE E == NextEndsTime
                 L == s.labelled \/ rule.queryErrors
      <4>1. ResultError(s) = IF s.state = "Error" THEN [s EXCEPT !.endsAt = E]
                             ELSE [SetState(s, "Error", tick, E) EXCEPT !.labelled = L]
        BY <2>5 DEF ResultError, Maintain
      <4> HIDE DEF E, L
      <4> QED
        BY <4>1 DEF SetState, States
    <3> QED
      BY <2>1, <3>1 DEF ObservedSince
  <2> QED
    BY <2>2, <2>3, <2>4, <2>5 DEF Settings, AllRules, ExecErrStates
<1> QED
  BY <1>5, <1>6, <1>7, <1>8 DEF Results

LEMMA NextStateObserved ==
    ASSUME Settings, NEW s \in States, NEW res \in Results, res # None,
           breached \in Nat \cup {None}, breached # None => breached <= tick,
           None \notin Nat,
           NEW stale, "plain" \notin stale, ObservedSince(s, breached)
    PROVE  ObservedSince(NextState(s, res), BreachedAfter(res, stale))
<1> DEFINE c == Clean(s, res)
           a == Applied(c, res)
           r == s.state = "Alerting" /\ a.state = "Normal"
<1>1. c \in States /\ c.state = s.state /\ c.startsAt = s.startsAt
  BY CleanType
<1>2. ObservedSince(c, breached)
  BY <1>1 DEF ObservedSince
<1>3. NextState(s, res) = [a EXCEPT !.resolved = r]
  BY NextStateIs
<1> HIDE DEF c, r
<1>4. a \in States
  BY <1>1, ResultNormalType, ResultAlertingType, ResultNoDataType, ResultErrorType
     DEF Applied
<1>5. ObservedSince(a, BreachedAfter(res, stale))
  BY <1>1, <1>2, AppliedObserved
<1> HIDE DEF a
<1> QED
  BY <1>3, <1>4, <1>5 DEF ObservedSince, States

LEMMA ProcessPInv ==
    ASSUME IInv, PInv, NEW res \in Results, ProcessEvalResults(res)
    PROVE  PInv'
<1> SUFFICES ASSUME Regular'
             PROVE  /\ Known("plain")' => /\ Observed(cache["plain"])'
                                          /\ ~cache'["plain"].labelled
                    /\ RowObserved'
  BY DEF PInv
<1> DEFINE stale == StaleIds(res)
           after == After(res)
           next == NextState(Current, res)
<1>1. /\ pc = "idle" /\ cycle = "due" /\ pc' = "delete"
      /\ cache' = [i \in Ids |-> IF i \in stale THEN None ELSE after[i]]
      /\ batch' =
           (IF res = None THEN {}
            ELSE {[id |-> "plain", s |-> next,
                   previous |-> Current.state, missing |-> FALSE]})
           \cup {[id |-> i, s |-> Missing(after[i]),
                  previous |-> after[i].state, missing |-> TRUE] : i \in stale}
      /\ breached' = BreachedAfter(res, stale)
      /\ relabelled' = (relabelled \/ (res # None /\ next.labelled))
      /\ UNCHANGED <<rule, rows, lost, failures>>
  BY ProcessIs
<1>2. Regular /\ (res # None => ~next.labelled)
  BY <1>1 DEF Regular
<1>3. /\ Known("plain") => Observed(cache["plain"]) /\ ~cache["plain"].labelled
      /\ RowObserved
  BY <1>2 DEF PInv
<1>4. "plain" \in Ids
  BY DEF Ids
<1>5. CASE res # None
  <2>1. /\ after["plain"] = next /\ next \in States /\ "plain" \notin stale
    BY <1>5, AfterType
  <2>2. ObservedSince(Current, breached)
    BY <1>3, CurrentType DEF ObservedSince, Observed
  <2>3. /\ Settings /\ Current \in States /\ None \notin Nat
        /\ breached \in Nat \cup {None} /\ (breached # None => breached <= tick)
    BY CurrentType, StateManagerAssumption DEF IInv, TypeOK, InTime, Optional
  <2>4. ObservedSince(next, BreachedAfter(res, stale))
    <3> HIDE DEF stale
    <3> QED
      BY <1>5, <2>1, <2>2, <2>3, NextStateObserved
  <2> HIDE DEF stale, after, next
  <2>5. cache'["plain"] = next
    BY <1>1, <1>4, <2>1
  <2>6. next # None
    BY <2>1, StateManagerAssumption
  <2>7. Evaluated' # {}
    <3>1. [id |-> "plain", s |-> next, previous |-> Current.state, missing |-> FALSE]
            \in Evaluated'
      BY <1>1, <1>5 DEF Evaluated, Stale
    <3> QED
      BY <3>1
  <2>8. RowObserved'
    BY <1>1, <2>5, <2>6, <2>7 DEF RowObserved, Known
  <2> QED
    BY <1>1, <1>2, <1>5, <2>4, <2>5, <2>8 DEF Observed, ObservedSince
<1>6. CASE res = None
  <2>1. after = cache
    BY <1>6 DEF After
  <2>2. CASE "plain" \in stale
    <3>1. ~Known("plain")'
      BY <1>1, <1>4, <2>2 DEF Known
    <3>2. cache["plain"] \in States /\ Known("plain")
      BY <2>1, <2>2, <1>4, AfterType DEF StaleIds, Known
    <3>3. Key(Missing(cache["plain"])) = "plain"
      BY <1>3, <3>2, CurrentType, MissingType DEF Key
    <3> HIDE DEF stale, after
    <3>4. [id |-> "plain", s |-> Missing(after["plain"]),
           previous |-> after["plain"].state, missing |-> TRUE] \in Stale'
      BY <1>1, <2>2 DEF Stale
    <3>5. \E t \in Stale' : Key(t.s) = "plain"
      BY <2>1, <3>3, <3>4
    <3> QED
      BY <1>1, <3>1, <3>5 DEF RowObserved, Key
  <2>3. CASE "plain" \notin stale
    <3>1. cache'["plain"] = cache["plain"]
      BY <1>1, <1>4, <2>1, <2>3
    <3>2. breached' = breached
      BY <1>1, <1>6, <2>3, StateManagerAssumption
         DEF BreachedAfter, Denies, Confirms, EvalStates
    <3>3. RowObserved'
      BY <1>1, <1>3, <3>1, <3>2 DEF RowObserved, Known, Observed
    <3> QED
      BY <1>1, <1>3, <3>1, <3>2, <3>3 DEF Known, Observed
  <2> QED
    BY <2>2, <2>3
<1> QED
  BY <1>5, <1>6

(* Every other action leaves the rule and what was observed alone, or      *)
(* removes the states with them.                                           *)
LEMMA StatementFailsPInv ==
    ASSUME IInv, NEW from, NEW to, StatementFails(from, to)
    PROVE  PInv'
  BY DEF StatementFails, PInv, Regular, IInv, TypeOK

LEMMA DeleteAlertStatesPInv == IInv /\ PInv /\ DeleteAlertStates => PInv'
<1> SUFFICES ASSUME IInv, PInv, DeleteAlertStates, Regular'
             PROVE  /\ Known("plain")' => /\ Observed(cache["plain"])'
                                          /\ ~cache'["plain"].labelled
                    /\ RowObserved'
  BY DEF PInv
<1>1. /\ pc = "delete" /\ pc' = "save"
      /\ UNCHANGED <<rule, batch, cache, breached, lost, relabelled, failures>>
      /\ rows'["plain"] \in {None, rows["plain"]}
      /\ (\E t \in Stale : Key(t.s) = "plain") => rows'["plain"] = None
  BY DEF DeleteAlertStates, historyVars, Ids
<1>2. /\ Known("plain") => Observed(cache["plain"]) /\ ~cache["plain"].labelled
      /\ RowObserved
  BY <1>1 DEF PInv, Regular
<1>3. Evaluated' = Evaluated
  BY <1>1 DEF Evaluated, Stale
<1>4. RowObserved'
  BY <1>1, <1>2, <1>3 DEF RowObserved, Known, Observed
<1> QED
  BY <1>1, <1>2, <1>4 DEF Known, Observed

LEMMA SaveAlertStatesPInv == IInv /\ PInv /\ SaveAlertStates => PInv'
<1> SUFFICES ASSUME IInv, PInv, SaveAlertStates, Regular'
             PROVE  /\ Known("plain")' => /\ Observed(cache["plain"])'
                                          /\ ~cache'["plain"].labelled
                    /\ RowObserved'
  BY DEF PInv
<1>1. /\ pc = "save" /\ pc' = "send"
      /\ UNCHANGED <<rule, batch, cache, breached, lost, relabelled, failures>>
  BY DEF SaveAlertStates, historyVars
<1>2. /\ Known("plain") => Observed(cache["plain"]) /\ ~cache["plain"].labelled
      /\ RowObserved
  BY <1>1 DEF PInv, Regular
<1>3. CASE Evaluated = {}
  <2>1. rows'["plain"] = rows["plain"]
    BY <1>3 DEF SaveAlertStates, Ids
  <2> QED
    BY <1>1, <1>2, <1>3, <2>1 DEF RowObserved, Known, Observed
<1>4. CASE Evaluated # {}
  <2>1. Known("plain") /\ Key(cache["plain"]) = "plain"
    BY <1>1, <1>2, <1>4, SavedIs DEF Key
  <2>2. rows'["plain"] = Row(cache["plain"])
    BY <1>1, <1>4, <2>1, SavedIs DEF SaveAlertStates, Ids
  <2>3. Observed(rows["plain"])'
    BY <1>1, <1>2, <2>1, <2>2 DEF Observed, Row
  <2> QED
    BY <1>1, <1>2, <2>1, <2>3 DEF RowObserved, Known, Observed
<1> QED
  BY <1>3, <1>4

LEMMA SendAlertsPInv == IInv /\ PInv /\ SendAlerts => PInv'
<1> SUFFICES ASSUME IInv, PInv, SendAlerts, Regular'
             PROVE  /\ Known("plain")' => /\ Observed(cache["plain"])'
                                          /\ ~cache'["plain"].labelled
                    /\ RowObserved'
  BY DEF PInv
<1> DEFINE again == [cache["plain"] EXCEPT !.lastSent = now]
<1>1. /\ pc = "send" /\ pc' = "idle"
      /\ UNCHANGED <<rule, rows, breached, lost, relabelled, failures>>
      /\ cache'["plain"] \in {cache["plain"], again}
  BY DEF SendAlerts, historyVars, Ids
<1>2. /\ Known("plain") => Observed(cache["plain"]) /\ ~cache["plain"].labelled
      /\ RowObserved
  BY <1>1 DEF PInv, Regular
<1>3. CASE Known("plain")
  <2>1. /\ cache'["plain"].state = cache["plain"].state
        /\ cache'["plain"].startsAt = cache["plain"].startsAt
        /\ cache'["plain"].labelled = cache["plain"].labelled
        /\ cache'["plain"] # None
    <3>1. cache["plain"] \in States /\ now \in Nat
      BY <1>3 DEF IInv, TypeOK, Optional, Known, Ids
    <3>2. again \in States
      BY <3>1 DEF States
    <3> QED
      BY <1>1, <1>3, <3>1, <3>2, StateManagerAssumption DEF States, Known
  <2> QED
    BY <1>1, <1>2, <1>3, <2>1 DEF RowObserved, Known, Observed
<1>4. CASE ~Known("plain")
  <2>1. cache'["plain"] = None
    <3>1. \A i \in {t.id : t \in Evaluated} : Known("plain")
      BY <1>1 DEF IInv, Batched, Begun, Evaluated, Stale
    <3> QED
      BY <1>4, <3>1 DEF SendAlerts, Known, Ids
  <2> QED
    BY <1>1, <1>2, <1>4, <2>1 DEF RowObserved, Known, Observed
<1> QED
  BY <1>3, <1>4

LEMMA RemovePInv ==
    ASSUME IInv, PInv, NEW r \in Rules, RemoveByRuleUID(r)
    PROVE  PInv'
<1>1. /\ pc = "idle"
      /\ pc' = IF {i \in Ids : cache[i] # None} = {} THEN "idle" ELSE "deleteAll"
      /\ cache' = [i \in Ids |-> None]
      /\ UNCHANGED <<rows, lost, relabelled, failures>>
  BY DEF RemoveByRuleUID
<1>2. ~Known("plain")'
  BY <1>1 DEF Known, Ids
<1>3. CASE pc' = "idle"
  <2>1. ~Known("plain")
    BY <1>1, <1>3 DEF Known, Ids
  <2>2. Regular => rows["plain"] = None
    BY <1>1, <2>1 DEF PInv, RowObserved
  <2> QED
    BY <1>1, <1>2, <1>3, <2>2 DEF PInv, RowObserved, Regular
<1>4. CASE pc' = "deleteAll"
  BY <1>2, <1>4 DEF PInv, RowObserved
<1> QED
  BY <1>1, <1>3, <1>4

LEMMA DeleteByRulePInv == IInv /\ PInv /\ DeleteAlertInstancesByRule => PInv'
<1> SUFFICES ASSUME IInv, DeleteAlertInstancesByRule PROVE PInv'
  OBVIOUS
<1>1. pc' = "stop" /\ cache' = cache /\ rows'["plain"] = None
  BY DEF DeleteAlertInstancesByRule, Ids
<1>2. ~Known("plain")
  BY DEF DeleteAlertInstancesByRule, IInv, Emptied, Ids
<1> QED
  BY <1>1, <1>2 DEF PInv, RowObserved, Known

LEMMA SendStoppedPInv == IInv /\ PInv /\ SendStoppedAlerts => PInv'
<1> SUFFICES ASSUME IInv, PInv, SendStoppedAlerts PROVE PInv'
  OBVIOUS
<1>1. /\ pc = "stop" /\ pc' = "idle"
      /\ UNCHANGED <<rule, cache, rows, breached, lost, relabelled, failures>>
  BY DEF SendStoppedAlerts, historyVars
<1>2. ~Known("plain")
  BY <1>1 DEF IInv, Emptied, Ids
<1> QED
  BY <1>1, <1>2 DEF PInv, RowObserved, Known, Regular

LEMMA CrashPInv == IInv /\ PInv /\ Crash => PInv'
<1> SUFFICES ASSUME IInv, PInv, Crash PROVE PInv'
  OBVIOUS
<1>1. /\ pc' = "down" /\ cache'["plain"] = None
      /\ lost' = (lost \/ pc \in {"delete", "save", "deleteAll"})
      /\ UNCHANGED <<rule, rows, breached, relabelled, failures>>
  BY DEF Crash, Ids
<1> QED
  BY <1>1 DEF PInv, RowObserved, Known, Regular, Observed

LEMMA WarmPInv == IInv /\ PInv /\ Warm => PInv'
<1> SUFFICES ASSUME IInv, PInv, Warm PROVE PInv'
  OBVIOUS
<1>1. /\ pc = "down" /\ pc' = "idle"
      /\ cache'["plain"] = IF rows["plain"] = None THEN None ELSE Restored("plain")
      /\ UNCHANGED <<rule, rows, breached, lost, relabelled, failures>>
  BY DEF Warm, Restart, Ids
<1>2. Regular => (rows["plain"] # None => Observed(rows["plain"]))
  BY <1>1 DEF PInv, RowObserved
<1>3. /\ Restored("plain").state = rows["plain"].state
      /\ Restored("plain").startsAt = rows["plain"].startsAt
      /\ ~Restored("plain").labelled
  BY DEF Restored
<1>4. Regular' = Regular
  BY <1>1 DEF Regular
<1>5. RowObserved' \/ ~Regular
  <2>1. rows["plain"] # None => Restored("plain") # None
    BY RestoredType, StateManagerAssumption DEF IInv, Ids
  <2> QED
    BY <1>1, <1>2, <2>1 DEF RowObserved, Known, Observed
<1>6. (Regular /\ Known("plain")') =>
        /\ Observed(cache["plain"])'
        /\ ~cache'["plain"].labelled
  BY <1>1, <1>2, <1>3 DEF Known, Observed
<1> QED
  BY <1>4, <1>5, <1>6 DEF PInv

LEMMA NextPInv == IInv /\ PInv /\ [Next]_vars => PInv'
<1> SUFFICES ASSUME IInv, PInv, [Next]_vars PROVE PInv'
  OBVIOUS
<1>1. CASE Pass \/ UNCHANGED vars
  <2>1. UNCHANGED <<rule, pc, batch, cache, rows, breached, lost, relabelled, failures>>
    BY <1>1 DEF Pass, vars, historyVars, timeVars
  <2> QED
    BY <2>1 DEF PInv, RowObserved, Known, Regular, Observed, Evaluated, Stale, Key
<1>2. CASE DeleteAlertStatesFails \/ SaveAlertStatesFails \/ DeleteAlertInstancesByRuleFails
  BY <1>2, StatementFailsPInv
     DEF DeleteAlertStatesFails, SaveAlertStatesFails, DeleteAlertInstancesByRuleFails
<1>3. CASE WarmFails
  BY <1>3 DEF WarmFails, PInv, Regular, IInv, TypeOK
<1> QED
  BY <1>1, <1>2, <1>3, ProcessPInv, DeleteAlertStatesPInv, SaveAlertStatesPInv,
     SendAlertsPInv, RemovePInv, DeleteByRulePInv, SendStoppedPInv, CrashPInv,
     WarmPInv DEF Next

(* The pending period is respected for every rule and every sequence of    *)
(* evaluations, restarts and updates: a series is Alerting only after its  *)
(* condition was observed for as long as the rule says, unless an error    *)
(* added labels to its state, a statement failed, or a crash came between  *)
(* an evaluation and its write.                                            *)
THEOREM PendingPeriod == Spec => []ForRespected
<1>1. Init => PInv
  BY DEF Init, PInv, RowObserved, Known, Ids
<1>2. PInv => ForRespected
  BY DEF PInv, ForRespected, PendingPeriodObserved, Regular, Known, Observed
<1> QED
  BY <1>1, <1>2, InitIInv, NextIInv, NextPInv, PTL DEF Spec

-----------------------------------------------------------------------------
(***************************************************************************)
(* The clock, what is in the cache and in the rows, and the batch.         *)
(***************************************************************************)
OnTick(x) == x \in Int /\ \E q \in Int : x = Interval * q

Clock == OnTick(tick) /\ now < tick + Interval

Fires(s) == s.state \in {"Alerting", "NoData", "Error"}

(* Only an error of the rule has labels, and only what is over is resolved. *)
Plain(s) ==
    /\ s.startsAt <= tick
    /\ s.labelled => s.state = "Error" /\ rule.execErrState = "Error"
    /\ s.resolved => s.state = "Normal"

(* No evaluation at this tick was sent before it took place. *)
SentInTime(s) ==
    s.lastSent # None => /\ s.lastSent <= now
                         /\ cycle = "due" => s.lastSent < tick

PlainSound ==
    Known("plain") =>
        /\ Plain(cache["plain"])
        /\ SentInTime(cache["plain"])
        /\ (Begun /\ cache["plain"].lastEval = tick) => Evaluated # {}

LabelledSound ==
    /\ Known("labelled") => /\ cache["labelled"].state = "Error"
                            /\ cache["labelled"].labelled
                            /\ ~cache["labelled"].resolved
    /\ rows["labelled"] # None => rows["labelled"].state = "Error"

RowSound == rows["plain"] # None => rows["plain"].startsAt <= tick

(* A transition that is resolved ends at the tick, one that fires does not *)
(* end before four intervals; what went missing is not known any more, or  *)
(* an error that is not sent.                                              *)
InBatch(t) ==
    /\ t.s.resolved => t.s.state = "Normal" /\ t.s.endsAt = tick
    /\ (~t.missing /\ Fires(t.s)) => t.s.endsAt = NextEndsTime
    /\ t.missing => /\ t.s.state = "Normal"
                    /\ t.id = "plain" => ~Known("plain")
                    /\ t.id = "labelled" => t.s.labelled /\ ~t.s.resolved

BatchSound == Begun => \A t \in batch : InBatch(t)

SInv == Clock /\ PlainSound /\ LabelledSound /\ RowSound /\ BatchSound

-----------------------------------------------------------------------------
(* Multiples of the interval. *)
LEMMA Multiple ==
    ASSUME NEW a \in Int
    PROVE  a % Interval = 0 <=> OnTick(a)
<1> DEFINE d == Interval
<1>0. d \in Nat \ {0}
  BY StateManagerAssumption
<1> HIDE DEF d
<1>1. ASSUME a % d = 0 PROVE \E q \in Int : a = d * q
  <2>1. a \div d \in Int
    BY <1>0, Z3
  <2>2. a = (d * (a \div d)) + (a % d)
    BY <1>0, Z3
  <2>3. a = d * (a \div d)
    <3> DEFINE q == a \div d
    <3> HIDE DEF q
    <3>1. a = (d * q) + 0
      BY <1>1, <2>2 DEF q
    <3>2. q \in Int
      BY <2>1 DEF q
    <3> QED
      BY <1>0, <3>1, <3>2 DEF q
  <2> QED
    BY <2>1, <2>3
<1>2. ASSUME NEW q \in Int, a = d * q PROVE a % d = 0
  <2>1. (d * q) % d = 0
    BY <1>0, Z3
  <2> QED
    BY <1>2, <2>1
<1> QED
  BY <1>1, <1>2 DEF OnTick, d

LEMMA Apart ==
    ASSUME NEW a, NEW b, OnTick(a), OnTick(b)
    PROVE  /\ a < b + 2 * Interval => a <= b + Interval
           /\ a < b + Interval => a <= b
<1>0. Interval \in Nat \ {0}
  BY StateManagerAssumption
<1>1. PICK p \in Int : a = Interval * p
  BY DEF OnTick
<1>2. PICK q \in Int : b = Interval * q
  BY DEF OnTick
<1> DEFINE d == Interval
<1>3. /\ d * (q + 1) = b + d
      /\ d * (q + 2) = b + 2 * d
  BY <1>0, <1>2, Z3
<1> HIDE DEF d
<1>4. ASSUME NEW x \in Int, d * p < d * x PROVE p + 1 <= x
  BY <1>0, <1>4, Z3 DEF d
<1>5. ASSUME NEW x \in Int, p <= x PROVE d * p <= d * x
  BY <1>0, <1>5, Z3 DEF d
<1>6. ASSUME a < b + 2 * d PROVE a <= b + d
  <2>1. p + 1 <= q + 2
    BY <1>1, <1>2, <1>3, <1>4, <1>6 DEF d
  <2>2. p <= q + 1
    BY <2>1
  <2> QED
    BY <1>1, <1>3, <1>5, <2>2 DEF d
<1>7. ASSUME a < b + d PROVE a <= b
  <2>1. p + 1 <= q + 1
    BY <1>1, <1>3, <1>4, <1>7 DEF d
  <2>2. p <= q
    BY <2>1
  <2> QED
    BY <1>1, <1>2, <1>5, <2>2 DEF d
<1> QED
  BY <1>6, <1>7 DEF d

LEMMA TickAfter == ASSUME NEW a, OnTick(a) PROVE OnTick(a + Interval)
<1>0. Interval \in Nat \ {0}
  BY StateManagerAssumption
<1>1. PICK p \in Int : a = Interval * p
  BY DEF OnTick
<1>2. a + Interval = Interval * (p + 1)
  BY <1>0, <1>1, Z3
<1> QED
  BY <1>0, <1>1, <1>2 DEF OnTick

LEMMA NextTick ==
    ASSUME NEW n \in Nat, NEW t \in Nat, OnTick(t), t <= n, n < t + Interval
    PROVE  /\ OnTick(n + 1) => n + 1 = t + Interval
           /\ ~OnTick(n + 1) => n + 1 < t + Interval
<1>0. Interval \in Nat \ {0}
  BY StateManagerAssumption
<1>1. OnTick(t + Interval)
  BY TickAfter
<1>2. ASSUME OnTick(n + 1) PROVE n + 1 = t + Interval
  <2>1. ~(n + 1 < t + Interval)
    BY <1>2, Apart
  <2> QED
    BY <1>0, <2>1
<1>3. ASSUME ~OnTick(n + 1) PROVE n + 1 < t + Interval
  BY <1>0, <1>1, <1>3
<1> QED
  BY <1>2, <1>3

-----------------------------------------------------------------------------
(* What a handler makes of a state: it starts at this tick or goes on as   *)
(* it was, and when it fires it ends NextEndsTime.                         *)
Follows(s, n) ==
    /\ n \in States
    /\ n.lastSent = s.lastSent
    /\ n.startsAt \in {s.startsAt, tick}
    /\ Fires(n) => /\ n.endsAt = NextEndsTime
                   /\ n.startsAt = tick \/ (n.state = s.state /\ n.startsAt = s.startsAt)
    /\ (n.state = "Normal" /\ s.state # "Normal") => n.endsAt = tick

LEMMA SetStateFollows ==
    ASSUME Settings, NEW s \in States, NEW st \in EvalStates
    PROVE  /\ Follows(s, SetState(s, st, tick, NextEndsTime)) \/ st = "Normal"
           /\ SetState(s, st, tick, NextEndsTime).state = st
           /\ Follows(s, SetState(s, "Normal", tick, tick))
<1> DEFINE E == NextEndsTime
<1>1. E \in Nat
  BY NextEndsTimeType
<1> HIDE DEF E
<1>2. SetState(s, st, tick, E) \in States
  BY <1>1, SetStateType DEF Settings
<1>3. SetState(s, "Normal", tick, tick) \in States
  BY SetStateType DEF Settings, EvalStates
<1>4. /\ SetState(s, st, tick, E).state = st
      /\ SetState(s, st, tick, E).startsAt = tick
      /\ SetState(s, st, tick, E).endsAt = E
      /\ SetState(s, st, tick, E).lastSent = s.lastSent
  BY DEF SetState, States
<1>5. /\ SetState(s, "Normal", tick, tick).state = "Normal"
      /\ SetState(s, "Normal", tick, tick).startsAt = tick
      /\ SetState(s, "Normal", tick, tick).endsAt = tick
      /\ SetState(s, "Normal", tick, tick).lastSent = s.lastSent
  BY DEF SetState, States
<1>6. Follows(s, SetState(s, "Normal", tick, tick))
  BY <1>3, <1>5 DEF Follows, Fires
<1>7. Follows(s, SetState(s, st, tick, E)) \/ st = "Normal"
  BY <1>2, <1>4 DEF Follows, E
<1> QED
  BY <1>4, <1>6, <1>7 DEF E

LEMMA MaintainFollows ==
    ASSUME Settings, NEW s \in States
    PROVE  /\ Follows(s, Maintain(s))
           /\ Maintain(s).state = s.state
           /\ Maintain(s).startsAt = s.startsAt
           /\ Maintain(s).labelled = s.labelled
<1> DEFINE E == NextEndsTime
<1>1. E \in Nat
  BY NextEndsTimeType
<1>2. Maintain(s) = [s EXCEPT !.endsAt = E]
  BY DEF Maintain
<1> HIDE DEF E
<1>3. /\ Maintain(s) \in States
      /\ Maintain(s).state = s.state
      /\ Maintain(s).startsAt = s.startsAt
      /\ Maintain(s).labelled = s.labelled
      /\ Maintain(s).lastSent = s.lastSent
      /\ Maintain(s).endsAt = E
  BY <1>1, <1>2 DEF States
<1> QED
  BY <1>3 DEF Follows, E

(* A state that does not fire may be left as it is. *)
LEMMA SameFollows ==
    ASSUME NEW s \in States, ~Fires(s)
    PROVE  Follows(s, s)
  BY DEF Follows

LEMMA ResultNormalFollows ==
    ASSUME Settings, NEW s \in States
    PROVE  Follows(s, ResultNormal(s))
<1>1. CASE s.state = "Normal"
  BY <1>1, SameFollows DEF ResultNormal, Fires
<1>2. CASE s.state # "Normal"
  BY <1>2, SetStateFollows DEF ResultNormal, EvalStates
<1> QED
  BY <1>1, <1>2

LEMMA ResultAlertingFollows ==
    ASSUME Settings, NEW s \in States
    PROVE  /\ Follows(s, ResultAlerting(s))
           /\ s.state = "Alerting" => ResultAlerting(s) = Maintain(s)
<1>1. CASE s.state = "Alerting"
  BY <1>1, MaintainFollows DEF ResultAlerting
<1>2. CASE s.state = "Pending"
  <2>1. ResultAlerting(s) \in {s, SetState(s, "Alerting", tick, NextEndsTime)}
    BY <1>2 DEF ResultAlerting
  <2> QED
    BY <1>2, <2>1, SameFollows, SetStateFollows DEF Fires, EvalStates
<1>3. CASE s.state \notin {"Alerting", "Pending"}
  <2>1. ResultAlerting(s) \in {SetState(s, "Pending", tick, NextEndsTime),
                               SetState(s, "Alerting", tick, NextEndsTime)}
    BY <1>3 DEF ResultAlerting
  <2> QED
    BY <1>3, <2>1, SetStateFollows DEF EvalStates
<1> QED
  BY <1>1, <1>2, <1>3

LEMMA ResultKeepLastFollows ==
    ASSUME Settings, NEW s \in States
    PROVE  /\ Follows(s, ResultKeepLast(s))
           /\ s.state = "Alerting" => ResultKeepLast(s) = Maintain(s)
<1>1. CASE s.state = "Alerting"
  BY <1>1, ResultAlertingFollows DEF ResultKeepLast
<1>2. CASE s.state = "Pending"
  BY <1>2, ResultAlertingFollows, SameFollows DEF ResultKeepLast, Fires
<1>3. CASE s.state \notin {"Alerting", "Pending"}
  BY <1>3, ResultNormalFollows DEF ResultKeepLast
<1> QED
  BY <1>1, <1>2, <1>3

LEMMA ResultNoDataFollows ==
    ASSUME Settings, NEW s \in States
    PROVE  /\ Follows(s, ResultNoData(s))
           /\ ResultNoData(s).labelled = s.labelled
<1>1. CASE rule.noDataState = "Alerting"
  BY <1>1, ResultAlertingFollows, ResultAlertingType DEF ResultNoData
<1>2. CASE rule.noDataState = "OK"
  BY <1>2, ResultNormalFollows, ResultNormalType DEF ResultNoData
<1>3. CASE rule.noDataState = "KeepLast"
  BY <1>3, ResultKeepLastFollows, ResultKeepLastType DEF ResultNoData
<1>4. CASE rule.noDataState = "NoData"
  <2>1. ResultNoData(s) = IF s.state = "NoData" THEN Maintain(s)
                          ELSE SetState(s, "NoData", tick, NextEndsTime)
    BY <1>4 DEF ResultNoData
  <2>2. SetState(s, "NoData", tick, NextEndsTime).labelled = s.labelled
    BY DEF SetState, States
  <2>3. Follows(s, SetState(s, "NoData", tick, NextEndsTime))
    BY SetStateFollows DEF EvalStates
  <2> QED
    BY <2>1, <2>2, <2>3, MaintainFollows
<1> QED
  BY <1>1, <1>2, <1>3, <1>4 DEF Settings, AllRules, NoDataStates

(* The labels of the query are those of an error of the rule. *)
LEMMA ResultErrorFollows ==
    ASSUME Settings, NEW s \in States
    PROVE  /\ Follows(s, ResultError(s))
           /\ ResultError(s).labelled =>
                \/ s.labelled /\ rule.execErrState # "Error"
                \/ ResultError(s).state = "Error" /\ rule.execErrState = "Error"
<1>1. CASE rule.execErrState = "Alerting"
  BY <1>1, ResultAlertingFollows, ResultAlertingType DEF ResultError
<1>2. CASE rule.execErrState = "OK"
  BY <1>2, ResultNormalFollows, ResultNormalType DEF ResultError
<1>3. CASE rule.execErrState = "KeepLast"
  BY <1>3, ResultKeepLastFollows, ResultKeepLastType DEF ResultError
<1>4. CASE rule.execErrState = "Error"
  <2> DEFINE e == SetState(s, "Error", tick, NextEndsTime)
             L == s.labelled \/ rule.queryErrors
  <2>1. ResultError(s) = IF s.state = "Error" THEN Maintain(s)
                         ELSE [e EXCEPT !.labelled = L]
    BY <1>4 DEF ResultError
  <2>2. Follows(s, e) /\ e.state = "Error"
    BY SetStateFollows DEF EvalStates
  <2>3. L \in BOOLEAN
    BY DEF Settings, AllRules, States
  <2> HIDE DEF e, L
  <2>4. /\ [e EXCEPT !.labelled = L] \in States
        /\ [e EXCEPT !.labelled = L].state = e.state
        /\ [e EXCEPT !.labelled = L].startsAt = e.startsAt
        /\ [e EXCEPT !.labelled = L].endsAt = e.endsAt
        /\ [e EXCEPT !.labelled = L].lastSent = e.lastSent
    BY <2>2, <2>3 DEF Follows, States
  <2>5. Follows(s, [e EXCEPT !.labelled = L])
    BY <2>2, <2>4 DEF Follows, Fires
  <2> QED
    BY <1>4, <2>1, <2>2, <2>4, <2>5, MaintainFollows
<1> QED
  BY <1>1, <1>2, <1>3, <1>4 DEF Settings, AllRules, ExecErrStates

LEMMA AppliedFollows ==
    ASSUME Settings, NEW s \in States, NEW res \in Results, res # None
    PROVE  /\ Follows(s, Applied(s, res))
           /\ Applied(s, res).labelled =>
                \/ s.labelled /\ (res = "Error" => rule.execErrState # "Error")
                \/ Applied(s, res).state = "Error" /\ rule.execErrState = "Error"
           /\ (s.state = "Alerting" /\ ~Denies(res)) => Applied(s, res) = Maintain(s)
<1>1. CASE res = "Normal"
  BY <1>1, ResultNormalFollows, ResultNormalType DEF Applied, Denies
<1>2. CASE res = "Alerting"
  BY <1>2, ResultAlertingFollows, ResultAlertingType DEF Applied
<1>3. CASE res = "NoData"
  <2>1. Applied(s, res) = ResultNoData(s)
    BY <1>3 DEF Applied
  <2>2. (s.state = "Alerting" /\ ~Denies(res)) => ResultNoData(s) = Maintain(s)
    BY <1>3, ResultAlertingFollows, ResultKeepLastFollows
       DEF Denies, ResultNoData, Settings, AllRules, NoDataStates
  <2> QED
    BY <1>3, <2>1, <2>2, ResultNoDataFollows
<1>4. CASE res = "Error"
  <2>1. Applied(s, res) = ResultError(s)
    BY <1>4 DEF Applied
  <2>2. (s.state = "Alerting" /\ ~Denies(res)) => ResultError(s) = Maintain(s)
    BY <1>4, ResultAlertingFollows, ResultKeepLastFollows
       DEF Denies, ResultError, Settings, AllRules, ExecErrStates
  <2> QED
    BY <1>4, <2>1, <2>2, ResultErrorFollows
<1> QED
  BY <1>1, <1>2, <1>3, <1>4 DEF Results

-----------------------------------------------------------------------------
LEMMA NextStateFollows ==
    ASSUME Settings, NEW s \in States, NEW res \in Results, res # None,
           s.labelled => s.state = "Error" /\ rule.execErrState = "Error"
    PROVE  LET n == NextState(s, res) IN
           /\ Follows(s, n)
           /\ n.resolved => n.state = "Normal" /\ n.endsAt = tick
           /\ n.labelled => n.state = "Error" /\ rule.execErrState = "Error"
           /\ (s.state = "Alerting" /\ ~Denies(res)) =>
                n.state = "Alerting" /\ n.startsAt = s.startsAt
<1> DEFINE c == Clean(s, res)
           a == Applied(c, res)
           r == s.state = "Alerting" /\ a.state = "Normal"
           n == NextState(s, res)
<1>1. /\ c \in States /\ c.state = s.state /\ c.startsAt = s.startsAt
      /\ c.lastSent = s.lastSent
      /\ c.labelled => s.labelled /\ (s.state = "Error" => res = "Error")
  <2>1. c \in States /\ c.state = s.state /\ c.startsAt = s.startsAt
    BY CleanType
  <2>2. c.lastSent = s.lastSent
    BY DEF Clean, States
  <2>3. c.labelled => s.labelled /\ (s.state = "Error" => res = "Error")
    BY DEF Clean, States
  <2> QED
    BY <2>1, <2>2, <2>3
<1>2. n = [a EXCEPT !.resolved = r]
  BY NextStateIs
<1>3. r \in BOOLEAN
  OBVIOUS
<1>4. r => s.state = "Alerting" /\ a.state = "Normal"
  OBVIOUS
<1> HIDE DEF c, r, n
<1>5. /\ Follows(c, a)
      /\ a.labelled =>
           \/ c.labelled /\ (res = "Error" => rule.execErrState # "Error")
           \/ a.state = "Error" /\ rule.execErrState = "Error"
      /\ (c.state = "Alerting" /\ ~Denies(res)) => a = Maintain(c)
  BY <1>1, AppliedFollows
<1>6. (s.state = "Alerting" /\ ~Denies(res)) =>
        a.state = "Alerting" /\ a.startsAt = s.startsAt
  BY <1>1, <1>5, MaintainFollows
<1> HIDE DEF a
<1>7. a \in States
  BY <1>5 DEF Follows
<1>8. /\ n \in States
      /\ n.state = a.state /\ n.startsAt = a.startsAt /\ n.endsAt = a.endsAt
      /\ n.lastSent = a.lastSent /\ n.labelled = a.labelled
      /\ n.resolved = r
  BY <1>2, <1>3, <1>7 DEF States
<1>9. Follows(s, n)
  BY <1>1, <1>5, <1>8 DEF Follows, Fires
<1>10. n.resolved => n.state = "Normal" /\ n.endsAt = tick
  BY <1>1, <1>4, <1>5, <1>8 DEF Follows
<1>11. n.labelled => n.state = "Error" /\ rule.execErrState = "Error"
  BY <1>1, <1>5, <1>8
<1> QED
  BY <1>6, <1>8, <1>9, <1>10, <1>11 DEF n

LEMMA MissingIs ==
    ASSUME Settings, NEW s \in States
    PROVE  /\ Missing(s).state = "Normal"
           /\ Missing(s).endsAt = tick
           /\ Missing(s).labelled = s.labelled
           /\ (Missing(s).resolved => s.resolved \/ s.state = "Alerting")
<1> DEFINE r == s.resolved \/ s.state = "Alerting"
<1>1. Missing(s) = [s EXCEPT !.state = "Normal", !.endsAt = tick, !.lastEval = tick,
                             !.resolved = r]
  BY DEF Missing
<1>2. r => s.resolved \/ s.state = "Alerting"
  OBVIOUS
<1> HIDE DEF r
<1> QED
  BY <1>1, <1>2 DEF States

-----------------------------------------------------------------------------
LEMMA CurrentSound ==
    ASSUME IInv, SInv
    PROVE  Plain(Current) /\ SentInTime(Current)
<1>1. CASE Known("plain")
  BY <1>1, CurrentType DEF SInv, PlainSound
<1>2. CASE ~Known("plain")
  <2>1. /\ Current.startsAt = tick /\ Current.lastSent = None
        /\ ~Current.labelled /\ ~Current.resolved
    BY <1>2 DEF Current, Known
  <2> QED
    BY <2>1 DEF Plain, SentInTime, IInv, TypeOK
<1> QED
  BY <1>1, <1>2

LEMMA InitSInv == Init => SInv
<1> SUFFICES ASSUME Init PROVE SInv
  OBVIOUS
<1> USE StateManagerAssumption DEF Init
<1>1. Clock
  <2>1. Interval = Interval * 1
    BY Z3
  <2> QED
    BY <2>1 DEF Clock, OnTick
<1>2. PlainSound /\ LabelledSound /\ RowSound /\ BatchSound
  BY DEF PlainSound, LabelledSound, RowSound, BatchSound, Known, Ids
<1> QED
  BY <1>1, <1>2 DEF SInv

LEMMA PassSInv == IInv /\ SInv /\ Pass => SInv'
<1> SUFFICES ASSUME IInv, SInv, Pass PROVE SInv'
  OBVIOUS
<1>0. /\ Interval \in Nat \ {0}
      /\ now \in Nat /\ tick \in Nat /\ tick <= now /\ now < tick + Interval
      /\ OnTick(tick)
  BY StateManagerAssumption DEF IInv, TypeOK, InTime, SInv, Clock
<1>1. /\ now' = now + 1
      /\ UNCHANGED <<rule, pc, batch, cache, rows>>
      /\ IF OnTick(now') THEN ~Begun /\ tick' = now' /\ cycle' = "due"
                         ELSE UNCHANGED <<tick, cycle>>
  <2>1. now + 1 \in Int
    BY <1>0
  <2> QED
    BY <2>1, Multiple DEF Pass, Begun
<1>2. tick <= tick' /\ now < tick' + Interval
  BY <1>0, <1>1
<1>3. Clock'
  <2>1. OnTick(now + 1) => now + 1 = tick + Interval
    BY <1>0, NextTick
  <2>2. ~OnTick(now + 1) => now + 1 < tick + Interval
    BY <1>0, NextTick
  <2>3. \E q \in Int : tick' = Interval * q
    BY <1>0, <1>1 DEF OnTick
  <2>4. now' < tick' + Interval /\ tick' \in Int
    BY <1>0, <1>1, <2>1, <2>2
  <2> QED
    BY <2>3, <2>4 DEF Clock, OnTick
<1>4. PlainSound'
  <2> SUFFICES ASSUME Known("plain")
               PROVE  /\ Plain(cache["plain"])'
                      /\ SentInTime(cache["plain"])'
                      /\ (Begun' /\ cache["plain"].lastEval = tick') => Evaluated' # {}
    BY <1>1 DEF PlainSound, Known
  <2>1. /\ Plain(cache["plain"]) /\ SentInTime(cache["plain"])
        /\ (Begun /\ cache["plain"].lastEval = tick) => Evaluated # {}
    BY DEF SInv, PlainSound
  <2>2. cache["plain"].startsAt \in Nat /\ cache["plain"].lastSent \in Nat \cup {None}
    BY DEF Known, IInv, TypeOK, Optional, States, Ids
  <2>3. Plain(cache["plain"])'
    BY <1>0, <1>1, <1>2, <2>1, <2>2 DEF Plain
  <2>4. SentInTime(cache["plain"])'
    BY <1>0, <1>1, <2>1, <2>2 DEF SentInTime
  <2>5. (Begun' /\ cache["plain"].lastEval = tick') => Evaluated' # {}
    BY <1>1, <2>1 DEF Begun, Evaluated, Stale
  <2> QED
    BY <2>3, <2>4, <2>5
<1>5. LabelledSound'
  BY <1>1 DEF SInv, LabelledSound, Known
<1>6. RowSound'
  BY <1>0, <1>1, <1>2 DEF SInv, RowSound, IInv, TypeOK, Optional, Rows, Ids
<1>7. BatchSound'
  BY <1>1 DEF SInv, BatchSound, InBatch, Begun, Known, NextEndsTime
<1> QED
  BY <1>3, <1>4, <1>5, <1>6, <1>7 DEF SInv

LEMMA ProcessSInv ==
    ASSUME IInv, SInv, NEW res \in Results, ProcessEvalResults(res)
    PROVE  SInv'
<1> DEFINE stale == StaleIds(res)
           after == After(res)
           next == NextState(Current, res)
           evaluated == [id |-> "plain", s |-> next,
                         previous |-> Current.state, missing |-> FALSE]
           missing(i) == [id |-> i, s |-> Missing(after[i]),
                          previous |-> after[i].state, missing |-> TRUE]
<1>1. /\ pc = "idle" /\ cycle = "due" /\ pc' = "delete"
      /\ cache' = [i \in Ids |-> IF i \in stale THEN None ELSE after[i]]
      /\ batch' = (IF res = None THEN {} ELSE {evaluated})
                  \cup {missing(i) : i \in stale}
      /\ UNCHANGED <<now, tick, cycle, rule, rows>>
  BY ProcessIs DEF timeVars
<1>2. /\ res # None => /\ after["plain"] = next
                       /\ next \in States
                       /\ "plain" \notin stale
      /\ after["labelled"] = cache["labelled"]
      /\ stale \subseteq Ids
      /\ \A i \in stale : after[i] \in States /\ after[i] # None
  BY AfterType DEF StaleIds, Ids
<1>3. Settings /\ Current \in States
  BY CurrentType
<1>4. res = None => after = cache
  BY DEF After
<1>5. Plain(Current) /\ SentInTime(Current)
  BY CurrentSound
<1>6. res # None =>
        /\ Follows(Current, next)
        /\ next.resolved => next.state = "Normal" /\ next.endsAt = tick
        /\ next.labelled => next.state = "Error" /\ rule.execErrState = "Error"
  BY <1>3, <1>5, NextStateFollows DEF Plain
<1> HIDE DEF stale, after, next
<1>7. \A i \in Ids : cache'[i] = IF i \in stale THEN None ELSE after[i]
  BY <1>1
<1>8. PlainSound'
  <2> SUFFICES ASSUME Known("plain")'
               PROVE  /\ Plain(cache["plain"])'
                      /\ SentInTime(cache["plain"])'
                      /\ cache'["plain"].lastEval = tick => Evaluated' # {}
    BY <1>1 DEF PlainSound
  <2>1. cache'["plain"] = after["plain"]
    BY <1>7 DEF Known, Ids
  <2>2. CASE res # None
    <3>1. Plain(next)
      BY <1>3, <1>5, <1>6, <2>2 DEF Plain, Follows, Settings, States
    <3>2. SentInTime(next)
      BY <1>5, <1>6, <2>2 DEF SentInTime, Follows
    <3>3. evaluated \in Evaluated'
      BY <1>1, <2>2 DEF Evaluated, Stale
    <3> QED
      BY <1>1, <1>2, <2>1, <2>2, <3>1, <3>2, <3>3 DEF Plain, SentInTime
  <2>3. CASE res = None
    <3>1. cache'["plain"] = cache["plain"] /\ Known("plain")
      BY <1>4, <2>1, <2>3 DEF Known
    <3>2. cache["plain"].lastEval < tick /\ cache["plain"].lastEval \in Nat
      BY <1>1, <3>1 DEF IInv, InTime, Begun, Known, TypeOK, Optional, States, Ids
    <3>3. Plain(cache["plain"]) /\ SentInTime(cache["plain"])
      BY <3>1 DEF SInv, PlainSound
    <3> QED
      BY <1>1, <1>3, <3>1, <3>2, <3>3 DEF Plain, SentInTime, Settings
  <2> QED
    BY <2>2, <2>3
<1>9. LabelledSound'
  BY <1>1, <1>2, <1>7 DEF SInv, LabelledSound, Known, Ids
<1>10. RowSound'
  BY <1>1 DEF SInv, RowSound
<1>11. BatchSound'
  <2> SUFFICES ASSUME NEW t \in batch' PROVE InBatch(t)'
    BY DEF BatchSound
  <2>1. NextEndsTime' = NextEndsTime
    BY <1>1 DEF NextEndsTime
  <2>2. CASE res # None /\ t = evaluated
    <3>1. /\ next.resolved => next.state = "Normal" /\ next.endsAt = tick
          /\ Fires(next) => next.endsAt = NextEndsTime
      BY <1>6, <2>2 DEF Follows
    <3>2. t.s = next /\ ~t.missing
      BY <2>2
    <3> HIDE DEF evaluated
    <3> QED
      BY <1>1, <2>1, <3>1, <3>2 DEF InBatch, Fires
  <2>3. ASSUME NEW i \in stale, t = missing(i) PROVE InBatch(t)'
    <3>1. /\ Missing(after[i]).state = "Normal"
          /\ Missing(after[i]).endsAt = tick
          /\ Missing(after[i]).labelled = after[i].labelled
          /\ Missing(after[i]).resolved => after[i].resolved \/ after[i].state = "Alerting"
      BY <1>2, <1>3, <2>3, MissingIs
    <3>2. i = "plain" => ~Known("plain")'
      BY <1>2, <1>7, <2>3 DEF Known
    <3>3. i = "labelled" => /\ after[i].labelled /\ ~after[i].resolved
                            /\ after[i].state = "Error"
      BY <1>2, <2>3 DEF SInv, LabelledSound, Known
    <3>4. t.id = i /\ t.s = Missing(after[i]) /\ t.missing
      BY <2>3
    <3> HIDE DEF missing
    <3> QED
      BY <1>1, <3>1, <3>2, <3>3, <3>4 DEF InBatch
  <2> QED
    BY <1>1, <2>2, <2>3
<1>12. Clock'
  BY <1>1 DEF SInv, Clock, OnTick
<1> QED
  BY <1>8, <1>9, <1>10, <1>11, <1>12 DEF SInv

-----------------------------------------------------------------------------
(* A step that does not touch the states and the batch. *)
LEMMA ControlSInv ==
    ASSUME SInv, UNCHANGED <<timeVars, rule, batch, cache>>,
           Begun' = Begun, rows' = rows
    PROVE  SInv'
<1> USE DEF SInv, timeVars
<1>1. Clock'
  BY DEF Clock, OnTick
<1>2. PlainSound'
  BY DEF PlainSound, Known, Plain, SentInTime, Evaluated, Stale
<1>3. LabelledSound' /\ RowSound'
  BY DEF LabelledSound, RowSound, Known
<1>4. BatchSound'
  BY DEF BatchSound, InBatch, Known, NextEndsTime
<1> QED
  BY <1>1, <1>2, <1>3, <1>4

LEMMA StatementFailsSInv ==
    ASSUME SInv, NEW from, NEW to, StatementFails(from, to),
           <<from, to>> \in {<<"delete", "save">>, <<"save", "send">>,
                             <<"deleteAll", "stop">>}
    PROVE  SInv'
<1>1. Begun' = Begun
  BY DEF StatementFails, Begun
<1> QED
  BY <1>1, ControlSInv DEF StatementFails

(* A step that only changes rows. *)
LEMMA RowsSInv ==
    ASSUME SInv, UNCHANGED <<timeVars, rule, batch, cache>>, Begun' = Begun,
           rows'["labelled"] # None => rows'["labelled"].state = "Error",
           rows'["plain"] # None => rows'["plain"].startsAt <= tick
    PROVE  SInv'
<1> USE DEF SInv, timeVars
<1>1. Clock'
  BY DEF Clock, OnTick
<1>2. PlainSound'
  BY DEF PlainSound, Known, Plain, SentInTime, Evaluated, Stale
<1>3. LabelledSound' /\ RowSound'
  BY DEF LabelledSound, RowSound, Known
<1>4. BatchSound'
  BY DEF BatchSound, InBatch, Known, NextEndsTime
<1> QED
  BY <1>1, <1>2, <1>3, <1>4

LEMMA DeleteAlertStatesSInv == SInv /\ DeleteAlertStates => SInv'
<1> SUFFICES ASSUME SInv, DeleteAlertStates PROVE SInv'
  OBVIOUS
<1>1. /\ Begun' = Begun
      /\ UNCHANGED <<timeVars, rule, batch, cache>>
      /\ \A i \in Ids : rows'[i] \in {None, rows[i]}
  BY DEF DeleteAlertStates, Begun
<1>2. /\ rows'["labelled"] # None => rows'["labelled"].state = "Error"
      /\ rows'["plain"] # None => rows'["plain"].startsAt <= tick
  BY <1>1 DEF SInv, LabelledSound, RowSound, Ids
<1> QED
  BY <1>1, <1>2, RowsSInv

LEMMA SaveAlertStatesSInv == IInv /\ SInv /\ SaveAlertStates => SInv'
<1> SUFFICES ASSUME IInv, SInv, SaveAlertStates PROVE SInv'
  OBVIOUS
<1>1. /\ Begun' = Begun
      /\ UNCHANGED <<timeVars, rule, batch, cache>>
      /\ pc = "save"
  BY DEF SaveAlertStates, Begun
<1>2. ASSUME NEW i \in Ids
      PROVE  \/ rows'[i] = rows[i]
             \/ /\ rows'[i] = Row(cache["plain"])
                /\ Key(cache["plain"]) = i
                /\ Known("plain")
  <2>1. CASE Evaluated = {}
    BY <2>1 DEF SaveAlertStates
  <2>2. CASE Evaluated # {}
    BY <1>1, <2>2, SavedIs DEF SaveAlertStates
  <2> QED
    BY <2>1, <2>2
<1>3. Known("plain") => Plain(cache["plain"])
  BY DEF SInv, PlainSound
<1>4. /\ Row(cache["plain"]).state = cache["plain"].state
      /\ Row(cache["plain"]).startsAt = cache["plain"].startsAt
  BY DEF Row
<1>5. rows'["labelled"] # None => rows'["labelled"].state = "Error"
  <2>1. Key(cache["plain"]) = "labelled" => cache["plain"].labelled
    BY DEF Key
  <2> QED
    BY <1>2, <1>3, <1>4, <2>1 DEF SInv, LabelledSound, Ids, Plain
<1>6. rows'["plain"] # None => rows'["plain"].startsAt <= tick
  BY <1>2, <1>3, <1>4 DEF SInv, RowSound, Ids, Plain
<1> QED
  BY <1>1, <1>5, <1>6, RowsSInv

LEMMA DeleteByRuleSInv == SInv /\ DeleteAlertInstancesByRule => SInv'
<1> SUFFICES ASSUME SInv, DeleteAlertInstancesByRule PROVE SInv'
  OBVIOUS
<1>1. /\ Begun' = Begun
      /\ UNCHANGED <<timeVars, rule, batch, cache>>
      /\ \A i \in Ids : rows'[i] = None
  BY DEF DeleteAlertInstancesByRule, Begun
<1> QED
  BY <1>1, RowsSInv DEF Ids

(* What SendAlerts makes of the cache. *)
LEMMA SendIs ==
    ASSUME IInv, SInv, SendAlerts
    PROVE  /\ cache'["labelled"] = cache["labelled"]
           /\ \/ cache'["plain"] = cache["plain"]
              \/ /\ cache'["plain"] = [cache["plain"] EXCEPT !.lastSent = now]
                 /\ Known("plain")
                 /\ Evaluated # {}
                 /\ NeedsSending(cache["plain"])
           /\ (Evaluated # {} /\ NeedsSending(cache["plain"])) =>
                cache'["plain"] = [cache["plain"] EXCEPT !.lastSent = now]
<1> DEFINE sent == {t \in batch : NeedsSending(t.s)}
           put == {t.id : t \in sent \cap Evaluated}
<1>1. \A t \in Evaluated : t \in batch /\ t.id = "plain" /\ Known("plain") /\ t.s = cache["plain"]
  BY DEF SendAlerts, IInv, Batched, Begun, Evaluated, Stale
<1>2. /\ \A i \in put : /\ i = "plain" /\ Known("plain") /\ Evaluated # {}
                        /\ NeedsSending(cache["plain"])
      /\ (Evaluated # {} /\ NeedsSending(cache["plain"])) => "plain" \in put
  BY <1>1
<1>3. \A i \in Ids : cache'[i] = IF i \in put THEN [cache[i] EXCEPT !.lastSent = now]
                                              ELSE cache[i]
  BY DEF SendAlerts
<1> HIDE DEF put
<1> QED
  BY <1>2, <1>3 DEF Ids

LEMMA SentAgain ==
    ASSUME IInv, Known("plain")
    PROVE  LET s == cache["plain"]  n == [cache["plain"] EXCEPT !.lastSent = now] IN
           /\ n \in States
           /\ n.state = s.state /\ n.startsAt = s.startsAt /\ n.endsAt = s.endsAt
           /\ n.lastEval = s.lastEval /\ n.resolved = s.resolved
           /\ n.labelled = s.labelled /\ n.lastSent = now
  BY DEF IInv, TypeOK, Optional, Known, Ids, States

LEMMA SendAlertsSInv == IInv /\ SInv /\ SendAlerts => SInv'
<1> SUFFICES ASSUME IInv, SInv, SendAlerts PROVE SInv'
  OBVIOUS
<1>1. /\ pc = "send" /\ pc' = "idle" /\ batch' = {}
      /\ cycle' # "due"
      /\ UNCHANGED <<now, tick, rule, rows>>
  BY DEF SendAlerts
<1>2. Clock'
  BY <1>1 DEF SInv, Clock, OnTick
<1>3. PlainSound'
  <2> SUFFICES ASSUME Known("plain")'
               PROVE  Plain(cache["plain"])' /\ SentInTime(cache["plain"])'
    BY <1>1 DEF PlainSound, Begun
  <2>1. CASE cache'["plain"] = cache["plain"]
    BY <1>1, <2>1 DEF SInv, PlainSound, Plain, SentInTime, Known
  <2>2. CASE Known("plain") /\ cache'["plain"] = [cache["plain"] EXCEPT !.lastSent = now]
    <3> DEFINE n == cache'["plain"]
    <3>1. /\ n.state = cache["plain"].state /\ n.startsAt = cache["plain"].startsAt
          /\ n.resolved = cache["plain"].resolved
          /\ n.labelled = cache["plain"].labelled /\ n.lastSent = now
      BY <2>2, SentAgain
    <3>2. Plain(cache["plain"]) /\ now \in Nat
      BY <2>2 DEF SInv, PlainSound, IInv, TypeOK
    <3> QED
      BY <1>1, <3>1, <3>2 DEF Plain, SentInTime
  <2> QED
    BY <2>1, <2>2, SendIs
<1>4. LabelledSound' /\ RowSound'
  BY <1>1, SendIs DEF SInv, LabelledSound, RowSound, Known
<1>5. BatchSound'
  BY <1>1 DEF BatchSound
<1> QED
  BY <1>2, <1>3, <1>4, <1>5 DEF SInv

(* A step after which no state is known. *)
LEMMA EmptySInv ==
    ASSUME SInv, UNCHANGED <<now, tick, rows>>, \A i \in Ids : cache'[i] = None,
           ~Begun'
    PROVE  SInv'
<1>1. Clock'
  BY DEF SInv, Clock, OnTick
<1>2. PlainSound' /\ LabelledSound' /\ RowSound' /\ BatchSound'
  BY DEF SInv, PlainSound, LabelledSound, RowSound, BatchSound, Known, Ids
<1> QED
  BY <1>1, <1>2 DEF SInv

LEMMA WarmSInv == IInv /\ SInv /\ Warm => SInv'
<1> SUFFICES ASSUME IInv, SInv, Warm PROVE SInv'
  OBVIOUS
<1>1. /\ pc' = "idle"
      /\ \A i \in Ids : cache'[i] = IF rows[i] = None THEN None ELSE Restored(i)
      /\ UNCHANGED <<now, tick, rule, batch, rows>>
  BY DEF Warm, Restart
<1>2. Clock'
  BY <1>1 DEF SInv, Clock, OnTick
<1>3. PlainSound'
  <2> SUFFICES ASSUME Known("plain")'
               PROVE  Plain(cache["plain"])' /\ SentInTime(cache["plain"])'
    BY <1>1 DEF PlainSound, Begun
  <2>1. cache'["plain"] = Restored("plain") /\ rows["plain"] # None
    BY <1>1 DEF Known, Ids
  <2>2. rows["plain"].startsAt <= tick
    BY <2>1 DEF SInv, RowSound
  <2> QED
    <3> DEFINE s == Restored("plain")
    <3>1. /\ s.startsAt = rows["plain"].startsAt /\ s.lastSent = None
          /\ ~s.labelled /\ ~s.resolved
      BY DEF Restored
    <3> HIDE DEF s
    <3> QED
      BY <1>1, <2>1, <2>2, <3>1 DEF Plain, SentInTime, s
<1>4. LabelledSound' /\ RowSound'
  <2> DEFINE s == Restored("labelled")
  <2>1. s.state = rows["labelled"].state /\ s.labelled /\ ~s.resolved
    BY DEF Restored
  <2>2. cache'["labelled"] \in {None, s} /\ (cache'["labelled"] # None => rows["labelled"] # None)
    BY <1>1 DEF Ids
  <2> HIDE DEF s
  <2> QED
    BY <1>1, <2>1, <2>2 DEF SInv, LabelledSound, RowSound, Known
<1>5. BatchSound'
  BY <1>1 DEF BatchSound, Begun
<1> QED
  BY <1>2, <1>3, <1>4, <1>5 DEF SInv

LEMMA NextSInv == IInv /\ SInv /\ [Next]_vars => SInv'
<1> SUFFICES ASSUME IInv, SInv, [Next]_vars PROVE SInv'
  OBVIOUS
<1>1. CASE UNCHANGED vars
  BY <1>1, ControlSInv DEF vars, Begun
<1>2. CASE DeleteAlertStatesFails
  BY <1>2, StatementFailsSInv DEF DeleteAlertStatesFails
<1>3. CASE SaveAlertStatesFails
  BY <1>3, StatementFailsSInv DEF SaveAlertStatesFails
<1>4. CASE DeleteAlertInstancesByRuleFails
  BY <1>4, StatementFailsSInv DEF DeleteAlertInstancesByRuleFails
<1>5. CASE \E r \in Rules : RemoveByRuleUID(r)
  <2>1. /\ UNCHANGED <<now, tick, rows>> /\ pc' \in {"idle", "deleteAll"}
        /\ \A i \in Ids : cache'[i] = None
    BY <1>5 DEF RemoveByRuleUID, timeVars
  <2> QED
    BY <2>1, EmptySInv DEF Begun
<1>6. CASE SendStoppedAlerts
  <2>1. /\ UNCHANGED <<now, tick, rows, cache>> /\ pc = "stop" /\ pc' = "idle"
    BY <1>6 DEF SendStoppedAlerts, timeVars
  <2>2. \A i \in Ids : cache'[i] = None
    BY <2>1 DEF IInv, Emptied, Known
  <2> QED
    BY <2>1, <2>2, EmptySInv DEF Begun
<1>7. CASE Crash
  <2>1. UNCHANGED <<now, tick, rows>> /\ pc' = "down" /\ \A i \in Ids : cache'[i] = None
    BY <1>7 DEF Crash
  <2> QED
    BY <2>1, EmptySInv DEF Begun
<1>8. CASE WarmFails
  <2>1. /\ UNCHANGED <<now, tick, rows, cache>> /\ pc = "down" /\ pc' = "idle"
    BY <1>8 DEF WarmFails, Restart
  <2>2. \A i \in Ids : cache'[i] = None
    BY <2>1 DEF IInv, Emptied, Known
  <2> QED
    BY <2>1, <2>2, EmptySInv DEF Begun
<1> QED
  BY <1>1, <1>2, <1>3, <1>4, <1>5, <1>6, <1>7, <1>8, PassSInv, ProcessSInv,
     DeleteAlertStatesSInv, SaveAlertStatesSInv, SendAlertsSInv, DeleteByRuleSInv,
     WarmSInv DEF Next

-----------------------------------------------------------------------------
(***************************************************************************)
(* Restarts.  While the condition goes on, the alert that Alertmanager has *)
(* is the one of the row, and of the state in the cache.                   *)
(***************************************************************************)
InEpisode ==
    /\ failures = 0
    /\ am["alert"] # None
    /\ breached # None
    /\ breached <= am["alert"].startsAt
    /\ now < am["alert"].endsAt

SameAlert(s) ==
    /\ s # None
    /\ s.state = "Alerting"
    /\ s.startsAt = am["alert"].startsAt

(* An alert that is not over did not start at a tick that is still to be   *)
(* evaluated.                                                              *)
ToldBefore ==
    (am["alert"] # None /\ now < am["alert"].endsAt) =>
        /\ am["alert"].startsAt <= tick
        /\ cycle = "due" => am["alert"].startsAt < tick

EInv ==
    /\ InEpisode => /\ SameAlert(rows["plain"])
                    /\ pc # "down" => SameAlert(cache["plain"])
    /\ pc \in {"deleteAll", "stop"} => breached = None
    /\ ToldBefore

LEMMA AlertTimes ==
    ASSUME TypeOK, NEW a \in Alerts, am[a] # None
    PROVE  am[a].startsAt \in Nat /\ am[a].endsAt \in Nat
  BY DEF TypeOK, Optional, Messages

(* What Alertmanager has of an alert is what it had, or what a transition  *)
(* says that is sent under its name.                                       *)
LEMMA ToldIs ==
    ASSUME NEW sent, NEW a \in Alerts
    PROVE  \/ /\ \A t \in sent : Alert(t) # a
              /\ Told(sent)[a] = am[a]
           \/ \E t \in sent : /\ Alert(t) = a
                              /\ Told(sent)[a] = [startsAt |-> t.s.startsAt,
                                                  endsAt |-> t.s.endsAt]
<1> DEFINE of == {t \in sent : Alert(t) = a}
           last == CHOOSE t \in of : (\E u \in of : u.missing) => t.missing
<1>1. Told(sent)[a] = IF of = {} THEN am[a]
                      ELSE [startsAt |-> last.s.startsAt, endsAt |-> last.s.endsAt]
  BY DEF Told
<1>2. of # {} => last \in of
  OBVIOUS
<1>3. \A t : t \in of <=> t \in sent /\ Alert(t) = a
  OBVIOUS
<1> HIDE DEF of, last
<1> QED
  BY <1>1, <1>2, <1>3

(* What is sent of a series that fires is the state that was evaluated.    *)
LEMMA SentIs ==
    ASSUME IInv, SInv, pc = "send", NEW t \in batch, NeedsSending(t.s)
    PROVE  \/ t.s.endsAt = tick
           \/ /\ t \in Evaluated
              /\ Fires(t.s)
              /\ ~t.s.resolved
              /\ Alert(t) = AlertOf(t.s)
              /\ t.s = cache["plain"] /\ t.s.lastEval = tick /\ Known("plain")
<1>1. InBatch(t)
  BY DEF SInv, BatchSound, Begun
<1>2. t.s \in States
  BY DEF IInv, TypeOK, Transitions
<1>3. CASE t.s.resolved
  BY <1>1, <1>3 DEF InBatch
<1>4. CASE ~t.s.resolved
  <2>1. Fires(t.s)
    BY <1>2, <1>4 DEF NeedsSending, Fires, States, EvalStates
  <2>2. ~t.missing
    BY <1>1, <2>1 DEF InBatch, Fires
  <2>3. t \in Evaluated
    BY <2>2 DEF Evaluated, Stale
  <2>4. t.s = cache["plain"] /\ t.s.lastEval = tick /\ Known("plain")
    BY <2>2 DEF IInv, Batched, Begun
  <2>5. Alert(t) = AlertOf(t.s)
    BY <1>4 DEF Alert, AlertOf
  <2> QED
    BY <1>4, <2>1, <2>3, <2>4, <2>5
<1> QED
  BY <1>3, <1>4

LEMMA PassEInv == IInv /\ SInv /\ EInv /\ Pass => EInv'
<1> SUFFICES ASSUME IInv, SInv, EInv, Pass PROVE EInv'
  OBVIOUS
<1>0. /\ now \in Nat /\ tick \in Nat /\ tick <= now
      /\ am["alert"] # None => am["alert"].startsAt \in Nat /\ am["alert"].endsAt \in Nat
  BY AlertTimes DEF IInv, TypeOK, InTime, Alerts
<1>1. /\ now' = now + 1
      /\ UNCHANGED <<pc, cache, rows, am, breached, failures>>
      /\ \/ UNCHANGED <<tick, cycle>>
         \/ tick' = now'
  BY DEF Pass, historyVars
<1>2. InEpisode' => InEpisode
  BY <1>0, <1>1 DEF InEpisode
<1>3. /\ InEpisode' => /\ SameAlert(rows["plain"])'
                       /\ pc' # "down" => SameAlert(cache["plain"])'
      /\ pc' \in {"deleteAll", "stop"} => breached' = None
  BY <1>1, <1>2 DEF EInv, SameAlert
<1>4. ToldBefore'
  BY <1>0, <1>1 DEF EInv, ToldBefore
<1> QED
  BY <1>3, <1>4 DEF EInv

LEMMA ProcessEInv ==
    ASSUME IInv, SInv, EInv, NEW res \in Results, ProcessEvalResults(res)
    PROVE  EInv'
<1> DEFINE stale == StaleIds(res)
           after == After(res)
           next == NextState(Current, res)
<1>0. /\ now \in Nat /\ tick \in Nat
      /\ am["alert"] # None => am["alert"].startsAt \in Nat /\ am["alert"].endsAt \in Nat
  BY AlertTimes DEF IInv, TypeOK, Alerts
<1>1. /\ pc = "idle" /\ cycle = "due" /\ pc' = "delete"
      /\ cache'["plain"] = IF "plain" \in stale THEN None ELSE after["plain"]
      /\ breached' = BreachedAfter(res, stale)
      /\ UNCHANGED <<now, tick, cycle, rule, rows, am, failures>>
  BY ProcessIs DEF timeVars, Ids
<1>2. ToldBefore'
  BY <1>1 DEF EInv, ToldBefore
<1>3. ASSUME InEpisode'
      PROVE  SameAlert(rows["plain"])' /\ SameAlert(cache["plain"])'
  <2>1. ~Denies(res) /\ "plain" \notin stale
    BY <1>1, <1>3 DEF InEpisode, BreachedAfter
  <2>2. breached' = breached
    <3>1. am["alert"].startsAt < tick
      BY <1>0, <1>1, <1>3 DEF InEpisode, EInv, ToldBefore
    <3>2. breached' # tick
      BY <1>0, <1>3, <1>1, <3>1 DEF InEpisode
    <3> QED
      BY <1>1, <2>1, <3>2 DEF BreachedAfter
  <2>3. SameAlert(rows["plain"]) /\ SameAlert(cache["plain"])
    BY <1>1, <1>3, <2>2 DEF InEpisode, EInv
  <2>4. CASE res = None
    BY <1>1, <2>1, <2>3, <2>4 DEF SameAlert, After
  <2>5. CASE res # None
    <3>1. /\ Current = cache["plain"] /\ Settings /\ Current \in States
      BY <2>3, CurrentType DEF SameAlert, Known
    <3>2. Current.labelled => Current.state = "Error" /\ rule.execErrState = "Error"
      BY CurrentSound DEF Plain
    <3>3. next.state = "Alerting" /\ next.startsAt = Current.startsAt
      BY <2>1, <2>3, <2>5, <3>1, <3>2, NextStateFollows DEF SameAlert
    <3>4. after["plain"] = next /\ next \in States
      BY <2>5, AfterType
    <3>5. next # None
      BY <3>4, StateManagerAssumption
    <3> HIDE DEF next, after, stale
    <3> QED
      BY <1>1, <2>1, <2>3, <3>1, <3>3, <3>4, <3>5 DEF SameAlert
  <2> QED
    BY <2>4, <2>5
<1> QED
  BY <1>1, <1>2, <1>3 DEF EInv

LEMMA DeleteAlertStatesEInv == IInv /\ SInv /\ EInv /\ DeleteAlertStates => EInv'
<1> SUFFICES ASSUME IInv, SInv, EInv, DeleteAlertStates PROVE EInv'
  OBVIOUS
<1>1. /\ pc = "delete" /\ pc' = "save"
      /\ UNCHANGED <<now, tick, cycle, cache, am, breached, failures>>
      /\ rows'["plain"] = IF \E t \in Stale : Key(t.s) = "plain" THEN None
                                                                 ELSE rows["plain"]
  BY DEF DeleteAlertStates, timeVars, historyVars, Ids
<1>2. ToldBefore'
  BY <1>1 DEF EInv, ToldBefore
<1>3. ASSUME InEpisode' PROVE SameAlert(rows["plain"])' /\ SameAlert(cache["plain"])'
  <2>1. SameAlert(rows["plain"]) /\ SameAlert(cache["plain"])
    BY <1>1, <1>3 DEF InEpisode, EInv
  <2>2. \A t \in Stale : Key(t.s) = "labelled"
    <3> SUFFICES ASSUME NEW t \in Stale PROVE Key(t.s) = "labelled"
      OBVIOUS
    <3>1. InBatch(t) /\ t.missing /\ t.id \in Ids
      BY <1>1 DEF Stale, SInv, BatchSound, Begun, IInv, TypeOK, Transitions
    <3>2. t.id = "labelled"
      BY <2>1, <3>1 DEF InBatch, SameAlert, Known, Ids
    <3> QED
      BY <3>1, <3>2 DEF InBatch, Key
  <2>3. rows'["plain"] = rows["plain"]
    BY <1>1, <2>2
  <2> QED
    BY <1>1, <2>1, <2>3 DEF SameAlert
<1> QED
  BY <1>1, <1>2, <1>3 DEF EInv

LEMMA SaveAlertStatesEInv == IInv /\ SInv /\ EInv /\ SaveAlertStates => EInv'
<1> SUFFICES ASSUME IInv, SInv, EInv, SaveAlertStates PROVE EInv'
  OBVIOUS
<1>1. /\ pc = "save" /\ pc' = "send"
      /\ UNCHANGED <<now, tick, cycle, cache, am, breached, failures>>
  BY DEF SaveAlertStates, timeVars, historyVars
<1>2. rows'["plain"] \in {rows["plain"], Row(cache["plain"])}
  <2>1. "plain" \in Ids
    BY DEF Ids
  <2>2. CASE Evaluated = {}
    BY <2>1, <2>2 DEF SaveAlertStates
  <2>3. CASE Evaluated # {}
    BY <1>1, <2>1, <2>3, SavedIs DEF SaveAlertStates
  <2> QED
    BY <2>2, <2>3
<1>3. ToldBefore'
  BY <1>1 DEF EInv, ToldBefore
<1>4. ASSUME InEpisode' PROVE SameAlert(rows["plain"])' /\ SameAlert(cache["plain"])'
  <2>1. SameAlert(rows["plain"]) /\ SameAlert(cache["plain"])
    BY <1>1, <1>4 DEF InEpisode, EInv
  <2>2. /\ Row(cache["plain"]) # None
        /\ Row(cache["plain"]).state = cache["plain"].state
        /\ Row(cache["plain"]).startsAt = cache["plain"].startsAt
    <3>1. cache["plain"] \in States
      BY <2>1 DEF SameAlert, IInv, TypeOK, Optional, Ids
    <3>2. Row(cache["plain"]) \in Rows
      BY <3>1, RowType
    <3> QED
      BY <3>2, StateManagerAssumption DEF Row
  <2> QED
    BY <1>1, <1>2, <2>1, <2>2 DEF SameAlert
<1> QED
  BY <1>1, <1>3, <1>4 DEF EInv

-----------------------------------------------------------------------------
LEMMA SendAlertsEInv == IInv /\ SInv /\ EInv /\ SendAlerts => EInv'
<1> SUFFICES ASSUME IInv, SInv, EInv, SendAlerts PROVE EInv'
  OBVIOUS
<1> DEFINE sent == {t \in batch : NeedsSending(t.s)}
<1>0. /\ now \in Nat /\ tick \in Nat /\ tick <= now /\ "alert" \in Alerts
  BY DEF IInv, TypeOK, InTime, Alerts
<1>1. /\ pc = "send" /\ pc' = "idle" /\ cycle' # "due"
      /\ UNCHANGED <<now, tick, rows, breached, failures>>
      /\ am' = Told(sent)
  BY DEF SendAlerts, historyVars
<1>2. Known("plain") =>
        /\ cache'["plain"] # None
        /\ cache'["plain"].state = cache["plain"].state
        /\ cache'["plain"].startsAt = cache["plain"].startsAt
  <2>1. Known("plain") => [cache["plain"] EXCEPT !.lastSent = now] # None
    BY SentAgain, StateManagerAssumption
  <2> QED
    BY <2>1, SendIs, SentAgain DEF Known
<1>3. CASE am'["alert"] = am["alert"]
  <2>1. ToldBefore'
    BY <1>1, <1>3 DEF EInv, ToldBefore
  <2>2. ASSUME InEpisode' PROVE SameAlert(rows["plain"])' /\ SameAlert(cache["plain"])'
    <3>1. SameAlert(rows["plain"]) /\ SameAlert(cache["plain"])
      BY <1>1, <1>3, <2>2 DEF InEpisode, EInv
    <3> QED
      BY <1>1, <1>2, <1>3, <3>1 DEF SameAlert, Known
  <2> QED
    BY <1>1, <2>1, <2>2 DEF EInv
<1>4. ASSUME NEW t \in sent, Alert(t) = "alert",
             am'["alert"] = [startsAt |-> t.s.startsAt, endsAt |-> t.s.endsAt]
      PROVE  EInv'
  <2>1. CASE t.s.endsAt = tick
    BY <1>0, <1>1, <1>4, <2>1 DEF EInv, InEpisode, ToldBefore
  <2>2. CASE /\ t \in Evaluated /\ Fires(t.s) /\ ~t.s.resolved
             /\ Alert(t) = AlertOf(t.s)
             /\ t.s = cache["plain"] /\ t.s.lastEval = tick /\ Known("plain")
    <3>1. cache["plain"].state = "Alerting"
      BY <1>4, <2>2 DEF Fires, AlertOf
    <3>2. Plain(cache["plain"])
      BY <2>2 DEF SInv, PlainSound
    <3>3. ToldBefore'
      BY <1>1, <1>4, <2>2, <3>2 DEF ToldBefore, Plain
    <3>4. ASSUME failures = 0 PROVE rows["plain"] = Row(cache["plain"])
      <4>1. Key(cache["plain"]) = "plain"
        BY <3>1, <3>2 DEF Key, Plain
      <4> QED
        BY <1>1, <2>2, <3>4, <4>1 DEF IInv, SavedBeforeSent, Known
    <3>5. /\ Row(cache["plain"]) # None
          /\ Row(cache["plain"]).state = cache["plain"].state
          /\ Row(cache["plain"]).startsAt = cache["plain"].startsAt
      <4>1. cache["plain"] \in States
        BY <2>2 DEF Known, IInv, TypeOK, Optional, Ids
      <4>2. Row(cache["plain"]) \in Rows
        BY <4>1, RowType
      <4> QED
        BY <4>2, StateManagerAssumption DEF Row
    <3>6. am'["alert"].startsAt = cache["plain"].startsAt
      BY <1>4, <2>2
    <3>7. ASSUME InEpisode' PROVE SameAlert(rows["plain"])' /\ SameAlert(cache["plain"])'
      BY <1>1, <1>2, <2>2, <3>1, <3>4, <3>5, <3>6, <3>7 DEF SameAlert, InEpisode
    <3> QED
      BY <1>1, <3>3, <3>7 DEF EInv
  <2> QED
    BY <1>1, <2>1, <2>2, SentIs
<1> HIDE DEF sent
<1> QED
  BY <1>0, <1>1, <1>3, <1>4, ToldIs

LEMMA SendStoppedEInv == IInv /\ EInv /\ SendStoppedAlerts => EInv'
<1> SUFFICES ASSUME IInv, EInv, SendStoppedAlerts PROVE EInv'
  OBVIOUS
<1> DEFINE firing == {u \in batch : u.previous \notin {"Normal", "Pending"}}
           sent == {[t EXCEPT !.s.endsAt = now] : t \in firing}
<1>1. /\ pc = "stop" /\ pc' = "idle"
      /\ am' = Told(sent)
      /\ UNCHANGED <<now, tick, cycle, breached>>
  BY DEF SendStoppedAlerts, timeVars, historyVars
<1>2. \A t \in sent : t.s.endsAt = now
  <2> SUFFICES ASSUME NEW t \in batch PROVE [t EXCEPT !.s.endsAt = now].s.endsAt = now
    OBVIOUS
  <2>1. t \in Transitions
    BY DEF IInv, TypeOK
  <2> QED
    BY <2>1 DEF Transitions, States
<1>3. breached' = None
  BY <1>1 DEF EInv
<1> HIDE DEF sent
<1>4. \/ am'["alert"] = am["alert"]
      \/ am'["alert"].endsAt = now
  <2>1. \/ Told(sent)["alert"] = am["alert"]
        \/ \E t \in sent : Told(sent)["alert"] = [startsAt |-> t.s.startsAt,
                                                  endsAt |-> t.s.endsAt]
    <3>1. "alert" \in Alerts
      BY DEF Alerts
    <3> QED
      BY <3>1, ToldIs
  <2>2. CASE Told(sent)["alert"] = am["alert"]
    BY <1>1, <2>2
  <2>3. ASSUME NEW t \in sent,
               Told(sent)["alert"] = [startsAt |-> t.s.startsAt, endsAt |-> t.s.endsAt]
        PROVE  am'["alert"].endsAt = now
    <3> DEFINE e == t.s.endsAt
    <3>1. e = now
      BY <1>2
    <3> HIDE DEF e
    <3>2. Told(sent)["alert"].endsAt = e
      BY <2>3 DEF e
    <3> QED
      BY <1>1, <3>1, <3>2
  <2> QED
    BY <2>1, <2>2, <2>3
<1>5. ToldBefore'
  BY <1>1, <1>4 DEF IInv, TypeOK, EInv, ToldBefore
<1> QED
  BY <1>1, <1>3, <1>5 DEF EInv, InEpisode

(* A step that forgets the condition, or that fails. *)
LEMMA NoEpisodeEInv ==
    ASSUME EInv, UNCHANGED <<now, tick, am>>, cycle' \in {cycle, "void"},
           failures' # 0 \/ breached' = None,
           pc' \in {"deleteAll", "stop"} => breached' = None
    PROVE  EInv'
<1>1. ~InEpisode'
  BY DEF InEpisode
<1>2. ToldBefore'
  BY DEF EInv, ToldBefore
<1> QED
  BY <1>1, <1>2 DEF EInv

LEMMA StatementFailsEInv ==
    ASSUME IInv, EInv, NEW from, NEW to, StatementFails(from, to),
           <<from, to>> \in {<<"delete", "save">>, <<"save", "send">>,
                             <<"deleteAll", "stop">>}
    PROVE  EInv'
<1>1. failures' # 0
  BY DEF StatementFails, IInv, TypeOK
<1>2. pc' \in {"deleteAll", "stop"} => breached' = None
  BY DEF StatementFails, EInv
<1> QED
  BY <1>1, <1>2, NoEpisodeEInv DEF StatementFails, timeVars

LEMMA CrashEInv == EInv /\ Crash => EInv'
<1> SUFFICES ASSUME EInv, Crash PROVE EInv'
  OBVIOUS
<1>1. /\ pc # "down" /\ pc' = "down" /\ cycle' \in {cycle, "void"}
      /\ UNCHANGED <<now, tick, rows, am, breached, failures>>
  BY DEF Crash
<1>2. ToldBefore'
  BY <1>1 DEF EInv, ToldBefore
<1>3. InEpisode' => SameAlert(rows["plain"])'
  BY <1>1 DEF EInv, InEpisode, SameAlert
<1> QED
  BY <1>1, <1>2, <1>3 DEF EInv

LEMMA WarmEInv == IInv /\ EInv /\ Warm => EInv'
<1> SUFFICES ASSUME IInv, EInv, Warm PROVE EInv'
  OBVIOUS
<1>1. /\ pc' = "idle" /\ cycle' \in {cycle, "void"}
      /\ UNCHANGED <<now, tick, rows, am, breached, failures>>
      /\ cache'["plain"] = IF rows["plain"] = None THEN None ELSE Restored("plain")
  BY DEF Warm, Restart, Ids
<1>2. ToldBefore'
  BY <1>1 DEF EInv, ToldBefore
<1>3. ASSUME InEpisode' PROVE SameAlert(rows["plain"])' /\ SameAlert(cache["plain"])'
  <2>1. SameAlert(rows["plain"])
    BY <1>1, <1>3 DEF EInv, InEpisode
  <2>2. Restored("plain") \in States
    BY <2>1, RestoredType DEF SameAlert, IInv, Ids
  <2>3. /\ Restored("plain").state = rows["plain"].state
        /\ Restored("plain").startsAt = rows["plain"].startsAt
    BY DEF Restored
  <2>4. Restored("plain") # None
    BY <2>2, StateManagerAssumption
  <2> QED
    BY <1>1, <2>1, <2>3, <2>4 DEF SameAlert
<1> QED
  BY <1>1, <1>2, <1>3 DEF EInv

LEMMA NextEInv == IInv /\ SInv /\ EInv /\ [Next]_vars => EInv'
<1> SUFFICES ASSUME IInv, SInv, EInv, [Next]_vars PROVE EInv'
  OBVIOUS
<1>1. CASE UNCHANGED vars
  <2>1. UNCHANGED <<now, tick, cycle, pc, cache, rows, am, breached, failures>>
    BY <1>1 DEF vars, timeVars, historyVars
  <2> QED
    BY <2>1 DEF EInv, InEpisode, SameAlert, ToldBefore
<1>2. CASE DeleteAlertStatesFails
  BY <1>2, StatementFailsEInv DEF DeleteAlertStatesFails
<1>3. CASE SaveAlertStatesFails
  BY <1>3, StatementFailsEInv DEF SaveAlertStatesFails
<1>4. CASE DeleteAlertInstancesByRuleFails
  BY <1>4, StatementFailsEInv DEF DeleteAlertInstancesByRuleFails
<1>5. CASE \E r \in Rules : RemoveByRuleUID(r)
  BY <1>5, NoEpisodeEInv DEF RemoveByRuleUID, timeVars
<1>6. CASE DeleteAlertInstancesByRule
  <2>1. /\ pc = "deleteAll" /\ UNCHANGED <<now, tick, cycle, am, breached>>
    BY <1>6 DEF DeleteAlertInstancesByRule, timeVars, historyVars
  <2> QED
    BY <2>1, NoEpisodeEInv DEF EInv
<1>7. CASE WarmFails
  <2>1. failures' # 0
    BY <1>7 DEF WarmFails, IInv, TypeOK
  <2> QED
    BY <1>7, <2>1, NoEpisodeEInv DEF WarmFails, Restart
<1> QED
  BY <1>1, <1>2, <1>3, <1>4, <1>5, <1>6, <1>7, PassEInv, ProcessEInv,
     DeleteAlertStatesEInv, SaveAlertStatesEInv, SendAlertsEInv, SendStoppedEInv,
     CrashEInv, WarmEInv DEF Next

(* A restart does not make a firing alert into another one, for every rule *)
(* and every interval, and wherever the process died, as long as the       *)
(* database executes its statements: while no result denies the condition, *)
(* the state that Warm reads back starts when the alert of Alertmanager    *)
(* does, and so does the one every later evaluation makes of it.           *)
THEOREM OneEpisode == Spec => []EpisodeSurvivesRestart
<1>1. Init => EInv
  BY StateManagerAssumption DEF Init, EInv, InEpisode, ToldBefore, Alerts
<1>2. IInv /\ EInv => EpisodeSurvivesRestart
  <2> SUFFICES ASSUME IInv, EInv, cache["plain"] # None, InEpisode
               PROVE  cache["plain"].startsAt = am["alert"].startsAt
    BY DEF EpisodeSurvivesRestart, InEpisode
  <2>1. pc # "down"
    BY DEF IInv, Emptied, Known, Ids
  <2> QED
    BY <2>1 DEF EInv, SameAlert
<1> QED
  BY <1>1, <1>2, InitIInv, NextIInv, InitSInv, NextSInv, NextEInv, PTL DEF Spec

-----------------------------------------------------------------------------
(***************************************************************************)
(* Resending.  An alert that was sent after the evaluation of SentTick is  *)
(* told to end four times the longer of interval and delay after it.       *)
(***************************************************************************)
DelayInProportion == ResendDelay <= Interval \/ 4 * Interval <= 3 * ResendDelay

SentTick(s) == am[AlertOf(s)].endsAt - 4 * Longest(Interval, ResendDelay)

(* How long ago the last evaluation was, when at most one was missed. *)
Since == IF cycle = "done" THEN 0 ELSE IF missed = 0 THEN Interval ELSE 2 * Interval

(* Of a state in the cache that fires: was this alert sent? *)
WasSent(s) == Fires(s) /\ s.lastSent # None /\ s.lastSent >= s.startsAt

(* It was sent before the next tick; the evaluations after that, but for   *)
(* one that is not sent yet, were in the ResendDelay.                      *)
Kept(s) ==
    /\ am[AlertOf(s)] # None
    /\ am[AlertOf(s)].startsAt = s.startsAt
    /\ OnTick(SentTick(s))
    /\ s.lastSent < SentTick(s) + Interval
    /\ OnTick(s.lastEval)
    /\ \/ Begun /\ s.lastEval = tick
       \/ s.lastEval <= s.lastSent
       \/ s.lastEval < s.lastSent + ResendDelay
    /\ missed <= 1 => /\ tick <= s.lastEval + Since
                      /\ tick + Interval <= am[AlertOf(s)].endsAt

KInv ==
    /\ cycle = "done" => missed = 0
    /\ (Known("plain") /\ WasSent(cache["plain"])) => Kept(cache["plain"])

LEMMA LongestIs ==
    /\ Longest(Interval, ResendDelay) \in Nat
    /\ Longest(Interval, ResendDelay) >= Interval
    /\ ResendDelay <= Interval => Longest(Interval, ResendDelay) = Interval
    /\ ResendDelay > Interval => Longest(Interval, ResendDelay) = ResendDelay
  BY StateManagerAssumption DEF Longest

(* The alert does not end before the tick after the next one.  The last    *)
(* evaluation was at v, and the alert was sent at l, after that of `at',   *)
(* and not again at v; when the delay is no longer than an interval, v is  *)
(* then the tick after `at' at the latest.                                 *)
LEMMA EndsLater ==
    ASSUME DelayInProportion, NEW at \in Int, NEW l \in Nat, NEW v \in Nat, NEW t \in Nat,
           OnTick(at), OnTick(v), l < at + Interval,
           v <= l \/ v < l + ResendDelay, t <= v + 2 * Interval
    PROVE  t + Interval <= at + 4 * Longest(Interval, ResendDelay)
<1>0. Interval \in Nat \ {0} /\ ResendDelay \in Nat
  BY StateManagerAssumption
<1>1. CASE ResendDelay <= Interval
  <2>1. v < at + 2 * Interval
    BY <1>0, <1>1
  <2>2. v <= at + Interval
    BY <2>1, Apart
  <2>3. Longest(Interval, ResendDelay) = Interval
    BY <1>1, LongestIs
  <2> QED
    BY <1>0, <2>2, <2>3
<1>2. CASE ResendDelay > Interval
  <2>1. v + 2 <= at + Interval + ResendDelay
    BY <1>0, <1>2
  <2>2. 4 * Interval <= 3 * ResendDelay
    BY <1>0, <1>2 DEF DelayInProportion
  <2>3. Longest(Interval, ResendDelay) = ResendDelay
    BY <1>2, LongestIs
  <2> QED
    BY <1>0, <2>1, <2>2, <2>3
<1> QED
  BY <1>0, <1>1, <1>2

LEMMA PlainType ==
    ASSUME IInv, Known("plain")
    PROVE  /\ cache["plain"] \in States
           /\ cache["plain"].lastEval \in Nat /\ cache["plain"].startsAt \in Nat
           /\ cache["plain"].lastSent \in Nat \cup {None}
           /\ AlertOf(cache["plain"]) \in Alerts
<1>1. cache["plain"] \in States
  BY DEF IInv, TypeOK, Optional, Known, Ids
<1> QED
  BY <1>1 DEF States, AlertOf, Alerts

LEMMA SinceType == Since \in Nat /\ Since <= 2 * Interval
  BY StateManagerAssumption DEF Since

(* A step that does not touch the states and what was told of them. *)
LEMMA ControlKInv ==
    ASSUME KInv, UNCHANGED <<timeVars, cache, am>>, Begun' = Begun
    PROVE  KInv'
  BY DEF KInv, Kept, WasSent, Fires, SentTick, Since, Known, timeVars, OnTick

LEMMA PassKInv == DelayInProportion /\ IInv /\ SInv /\ KInv /\ Pass => KInv'
<1> SUFFICES ASSUME DelayInProportion, IInv, SInv, KInv, Pass PROVE KInv'
  OBVIOUS
<1>0. /\ Interval \in Nat \ {0} /\ ResendDelay \in Nat /\ missed \in Nat
      /\ now \in Nat /\ tick \in Nat /\ tick <= now /\ now < tick + Interval
      /\ OnTick(tick)
  BY StateManagerAssumption DEF IInv, TypeOK, InTime, SInv, Clock
<1>1. /\ now' = now + 1
      /\ UNCHANGED <<pc, cache, am>>
      /\ IF OnTick(now')
         THEN /\ ~Begun /\ tick' = now' /\ cycle' = "due"
              /\ missed' = IF cycle = "done" THEN 0 ELSE missed + 1
         ELSE UNCHANGED <<tick, cycle, missed>>
  <2>1. now + 1 \in Int
    BY <1>0
  <2> QED
    BY <2>1, Multiple DEF Pass, Begun
<1>2. CASE ~OnTick(now')
  <2>1. UNCHANGED <<tick, cycle, missed, pc, cache, am>>
    BY <1>1, <1>2
  <2> QED
    BY <2>1 DEF KInv, Kept, WasSent, Fires, SentTick, Since, Known, Begun, OnTick
<1>3. CASE OnTick(now')
  <2>1. tick' = tick + Interval
    BY <1>0, <1>1, <1>3, NextTick
  <2>2. (cycle = "done" => missed = 0) /\ (cycle' = "done" => missed' = 0)
    BY <1>1, <1>3 DEF KInv
  <2> SUFFICES ASSUME Known("plain"), WasSent(cache["plain"]) PROVE Kept(cache["plain"])'
    BY <1>1, <2>2 DEF KInv, WasSent, Fires, Known
  <2> DEFINE s == cache["plain"]
             a == am[AlertOf(s)]
  <2>3. /\ s.lastEval \in Nat /\ s.lastSent \in Nat
        /\ a # None => a.endsAt \in Nat
    BY PlainType, AlertTimes DEF WasSent, IInv
  <2>4. /\ a # None /\ a.startsAt = s.startsAt
        /\ OnTick(SentTick(s)) /\ s.lastSent < SentTick(s) + Interval
        /\ OnTick(s.lastEval)
        /\ s.lastEval <= s.lastSent \/ s.lastEval < s.lastSent + ResendDelay
        /\ missed <= 1 => tick <= s.lastEval + Since
    BY <1>1, <1>3 DEF KInv, Kept
  <2>5. missed' <= 1 => tick' <= s.lastEval + Since'
    <3>1. CASE cycle = "done"
      BY <1>0, <1>1, <1>3, <2>1, <2>2, <2>3, <2>4, <3>1 DEF Since
    <3>2. CASE cycle # "done"
      BY <1>0, <1>1, <1>3, <2>1, <2>3, <2>4, <3>2 DEF Since
    <3> QED
      BY <3>1, <3>2
  <2>6. missed' <= 1 => tick' + Interval <= a.endsAt
    <3> SUFFICES ASSUME missed' <= 1 PROVE tick' + Interval <= a.endsAt
      OBVIOUS
    <3>1. SentTick(s) \in Int /\ a.endsAt = SentTick(s) + 4 * Longest(Interval, ResendDelay)
      BY <2>3, <2>4, LongestIs DEF SentTick
    <3>2. tick' <= s.lastEval + 2 * Interval /\ tick' \in Nat
      <4>1. Since' \in Nat /\ Since' <= 2 * Interval
        BY <1>0 DEF Since
      <4> QED
        BY <1>0, <2>1, <2>3, <2>5, <4>1
    <3>3. tick' + Interval <= SentTick(s) + 4 * Longest(Interval, ResendDelay)
      BY <2>3, <2>4, <3>1, <3>2, EndsLater
    <3> QED
      BY <3>1, <3>3
  <2>7. s' = s /\ a' = a /\ AlertOf(s)' = AlertOf(s) /\ SentTick(s)' = SentTick(s)
    BY <1>1 DEF AlertOf, SentTick
  <2> QED
    BY <2>4, <2>5, <2>6, <2>7 DEF Kept, OnTick
<1> QED
  BY <1>2, <1>3

-----------------------------------------------------------------------------
LEMMA ProcessKInv ==
    ASSUME IInv, SInv, KInv, NEW res \in Results, ProcessEvalResults(res)
    PROVE  KInv'
<1> DEFINE stale == StaleIds(res)
           after == After(res)
           next == NextState(Current, res)
<1>0. /\ Interval \in Nat \ {0} /\ tick \in Nat /\ OnTick(tick)
  BY StateManagerAssumption DEF IInv, TypeOK, SInv, Clock
<1>1. /\ pc = "idle" /\ cycle = "due" /\ pc' = "delete"
      /\ cache'["plain"] = IF "plain" \in stale THEN None ELSE after["plain"]
      /\ UNCHANGED <<now, tick, cycle, missed, am>>
  BY ProcessIs DEF timeVars, Ids
<1>2. Since' = Since
  BY <1>1 DEF Since
<1> SUFFICES ASSUME Known("plain")', WasSent(cache["plain"])'
             PROVE  Kept(cache["plain"])'
  BY <1>1 DEF KInv
<1> DEFINE s == cache["plain"]
           a == am[AlertOf(s)]
<1>3. cache'["plain"] = after["plain"]
  BY <1>1 DEF Known
<1>4. CASE res = None
  <2>1. cache'["plain"] = s /\ Known("plain")
    BY <1>3, <1>4 DEF After, Known
  <2>2. Kept(s)
    BY <1>1, <2>1 DEF KInv, WasSent, Fires
  <2>3. s.lastEval < tick /\ s.lastEval \in Nat
    BY <1>1, <2>1, PlainType DEF IInv, InTime, Begun, Ids
  <2>4. ~Begun
    BY <1>1 DEF Begun
  <2>5. AlertOf(s)' = AlertOf(s) /\ SentTick(s)' = SentTick(s)
    BY <1>1, <2>1 DEF AlertOf, SentTick
  <2> QED
    BY <1>1, <1>2, <2>1, <2>2, <2>4, <2>5 DEF Kept, OnTick
<1>5. CASE res # None
  <2>1. /\ after["plain"] = next /\ next \in States /\ next.lastEval = tick
    BY <1>5, AfterType
  <2>2. /\ Settings /\ Current \in States
        /\ Current.labelled => Current.state = "Error" /\ rule.execErrState = "Error"
        /\ SentInTime(Current)
    BY CurrentType, CurrentSound DEF Plain
  <2>3. Follows(Current, next)
    BY <1>5, <2>2, NextStateFollows
  <2> HIDE DEF next, after, stale
  <2>4. /\ Fires(next) /\ next.lastSent # None /\ next.lastSent >= next.startsAt
    BY <1>3, <2>1 DEF WasSent, Fires
  <2>5. /\ next.lastSent = Current.lastSent /\ Current.lastSent < tick
        /\ Current.lastSent \in Nat /\ next.startsAt \in Nat
    BY <1>1, <2>1, <2>2, <2>3, <2>4 DEF Follows, SentInTime, States
  <2>6. next.state = Current.state /\ next.startsAt = Current.startsAt
    BY <1>0, <2>3, <2>4, <2>5 DEF Follows
  <2>7. Known("plain") /\ Current = s
    <3>1. ~Known("plain") => Current.state = "Normal"
      BY CurrentType
    <3>2. Known("plain")
      BY <2>4, <2>6, <3>1 DEF Fires
    <3> QED
      BY <3>2, CurrentType
  <2>8. Kept(s)
    BY <2>4, <2>5, <2>6, <2>7 DEF KInv, WasSent, Fires
  <2>9. /\ AlertOf(s)' = AlertOf(s) /\ SentTick(s)' = SentTick(s)
        /\ cache'["plain"].startsAt = s.startsAt
        /\ cache'["plain"].lastSent = s.lastSent
        /\ cache'["plain"].lastEval = tick
    BY <1>1, <1>3, <2>1, <2>5, <2>6, <2>7 DEF AlertOf, SentTick
  <2>10. Begun'
    BY <1>1 DEF Begun
  <2>11. tick <= tick + Since
    BY <1>0, SinceType
  <2> HIDE DEF s
  <2>12. /\ am[AlertOf(s)] # None
         /\ am[AlertOf(s)].startsAt = s.startsAt
         /\ OnTick(SentTick(s))
         /\ s.lastSent < SentTick(s) + Interval
         /\ missed <= 1 => tick + Interval <= am[AlertOf(s)].endsAt
    BY <2>8 DEF Kept
  <2> QED
    BY <1>0, <1>1, <1>2, <2>9, <2>10, <2>11, <2>12 DEF Kept, OnTick, s
<1> QED
  BY <1>4, <1>5

(* While the series is known, its state is all that is sent. *)
LEMMA OnlyPlainSent ==
    ASSUME IInv, SInv, pc = "send", Known("plain"), NEW t \in batch, NeedsSending(t.s)
    PROVE  t \in Evaluated /\ t.s = cache["plain"] /\ t.s.lastEval = tick
<1>1. InBatch(t) /\ t.id \in Ids
  BY DEF SInv, BatchSound, Begun, IInv, TypeOK, Transitions
<1>2. ~t.missing
  <2> SUFFICES ASSUME t.missing PROVE FALSE
    OBVIOUS
  <2>1. t.id = "labelled"
    BY <1>1 DEF InBatch, Ids
  <2>2. ~t.s.resolved /\ t.s.state = "Normal"
    BY <1>1, <2>1 DEF InBatch
  <2> QED
    BY <2>2 DEF NeedsSending
<1> QED
  BY <1>2 DEF Evaluated, Stale, IInv, Batched, Begun

LEMMA SendAlertsKInv == DelayInProportion /\ IInv /\ SInv /\ KInv /\ SendAlerts => KInv'
<1> SUFFICES ASSUME DelayInProportion, IInv, SInv, KInv, SendAlerts PROVE KInv'
  OBVIOUS
<1> DEFINE sent == {t \in batch : NeedsSending(t.s)}
           s == cache["plain"]
           n == cache'["plain"]
           L == Longest(Interval, ResendDelay)
<1>0. /\ Interval \in Nat \ {0} /\ ResendDelay \in Nat /\ missed \in Nat
      /\ now \in Nat /\ tick \in Nat /\ tick <= now /\ now < tick + Interval
      /\ OnTick(tick) /\ L \in Nat /\ L >= Interval
  BY StateManagerAssumption, LongestIs DEF IInv, TypeOK, InTime, SInv, Clock
<1>1. /\ pc = "send" /\ pc' = "idle"
      /\ cycle' = IF Evaluated = {} THEN "void" ELSE "done"
      /\ missed' = IF Evaluated = {} THEN missed ELSE 0
      /\ UNCHANGED <<now, tick>>
      /\ am' = Told(sent)
  BY DEF SendAlerts
<1>2. cycle' = "done" => missed' = 0
  BY <1>1
<1> SUFFICES ASSUME Known("plain")', WasSent(cache["plain"])'
             PROVE  Kept(cache["plain"])'
  BY <1>2 DEF KInv
<1>3. Known("plain")
  BY SendIs DEF Known
<1>4. /\ s \in States /\ s.lastEval \in Nat /\ s.startsAt \in Nat
      /\ s.lastSent \in Nat \cup {None} /\ AlertOf(s) \in Alerts
  BY <1>3, PlainType
<1>5. n \in {s, [s EXCEPT !.lastSent = now]}
  BY SendIs
<1>6. /\ n.state = s.state /\ n.startsAt = s.startsAt /\ n.lastEval = s.lastEval
      /\ n.lastSent = s.lastSent \/ n.lastSent = now
  BY <1>3, <1>5, SentAgain
<1>7. Fires(s) /\ AlertOf(s)' = AlertOf(s)
  BY <1>6 DEF WasSent, Fires, AlertOf
<1>8. \A t \in sent : t \in Evaluated /\ t.s = s /\ t.s.lastEval = tick
  BY <1>1, <1>3, OnlyPlainSent
<1>9. \A t \in Evaluated : t \in batch /\ t.s = s /\ t.s.lastEval = tick /\ InBatch(t)
  BY <1>1 DEF SInv, BatchSound, IInv, Batched, Begun, Evaluated, Stale
<1>10. CASE Evaluated # {} /\ NeedsSending(s)
  <2>1. n.lastSent = now
    BY <1>3, <1>10, SendIs, SentAgain
  <2>2. s.endsAt = tick + 4 * L
    BY <1>7, <1>9, <1>10 DEF InBatch, Evaluated, Stale, NextEndsTime
  <2>3. \E t \in sent : Alert(t) = AlertOf(s)
    <3>1. PICK t \in Evaluated : TRUE
      BY <1>10
    <3>2. t \in batch /\ NeedsSending(t.s) /\ t.s = s
      BY <1>9, <1>10, <3>1
    <3>3. t.s.endsAt # tick
      BY <1>0, <2>2, <3>2
    <3>4. Alert(t) = AlertOf(t.s)
      BY <1>1, <3>2, <3>3, SentIs
    <3> QED
      BY <3>2, <3>4
  <2>4. am'[AlertOf(s)] = [startsAt |-> s.startsAt, endsAt |-> s.endsAt]
    <3> HIDE DEF sent, s
    <3>1. \E t \in sent : am'[AlertOf(s)] = [startsAt |-> t.s.startsAt,
                                             endsAt |-> t.s.endsAt]
      BY <1>1, <1>4, <2>3, ToldIs
    <3> QED
      BY <1>8, <3>1
  <2>5. /\ am'[AlertOf(s)].startsAt = s.startsAt
        /\ am'[AlertOf(s)].endsAt = tick + 4 * L
    BY <2>2, <2>4
  <2>6. am'[AlertOf(s)] # None
    <3>1. s.endsAt \in Nat
      BY <1>4 DEF States
    <3>2. am'[AlertOf(s)] \in Messages
      BY <1>4, <2>4, <3>1 DEF Messages
    <3> QED
      BY <3>2, StateManagerAssumption
  <2>7. SentTick(s)' = tick
    BY <1>0, <1>7, <2>5 DEF SentTick
  <2>8. s.lastEval = tick
    BY <1>9, <1>10
  <2>9. /\ Since' = 0 /\ tick + Interval <= tick + 4 * L
        /\ tick <= tick + 0
    BY <1>0, <1>1, <1>10 DEF Since
  <2> HIDE DEF s, n, L, sent
  <2>10. /\ am'[AlertOf(s)'] # None
         /\ am'[AlertOf(s)'].startsAt = n.startsAt
         /\ OnTick(tick)
         /\ n.lastSent < tick + Interval
         /\ n.lastEval = tick
         /\ n.lastEval <= n.lastSent
         /\ am'[AlertOf(s)'].endsAt = tick + 4 * L
    BY <1>0, <1>6, <1>7, <2>1, <2>5, <2>6, <2>8
  <2> QED
    BY <1>1, <2>7, <2>9, <2>10 DEF Kept, OnTick, n, s
<1>11. CASE Evaluated = {} \/ ~NeedsSending(s)
  <2>1. n = s
    BY <1>11, SendIs
  <2>2. sent = {}
    BY <1>8, <1>11
  <2>3. am'[AlertOf(s)] = am[AlertOf(s)]
    BY <1>1, <1>4, <2>2, ToldIs
  <2>4. SentTick(s)' = SentTick(s)
    BY <1>7, <2>3 DEF SentTick
  <2>5. Kept(s) /\ s.lastSent \in Nat
    BY <1>3, <1>4, <2>1 DEF KInv, WasSent, Fires
  <2>6. s.lastEval <= s.lastSent \/ s.lastEval < s.lastSent + ResendDelay
    <3>1. CASE Evaluated = {}
      <4>1. s.lastEval # tick
        BY <1>1, <1>3, <3>1 DEF SInv, PlainSound, Begun
      <4> QED
        BY <2>5, <4>1 DEF Kept
    <3>2. CASE ~NeedsSending(s)
      <4>1. ~(s.lastSent + ResendDelay <= s.lastEval)
        BY <1>7, <2>5, <3>2 DEF NeedsSending, Fires
      <4> QED
        BY <1>0, <1>4, <2>5, <4>1
    <3> QED
      BY <1>11, <3>1, <3>2
  <2>7. missed' <= 1 => /\ tick <= s.lastEval + Since'
                        /\ tick + Interval <= am[AlertOf(s)].endsAt
    <3>1. CASE Evaluated = {}
      <4>1. missed' = missed /\ cycle' = "void"
        BY <1>1, <3>1
      <4>2. Since <= Since' /\ Since \in Nat /\ Since' \in Nat
        BY <1>0, <4>1 DEF Since
      <4> QED
        BY <1>0, <1>4, <2>5, <4>1, <4>2 DEF Kept
    <3>2. CASE Evaluated # {}
      <4>1. s.lastEval = tick
        BY <1>9, <3>2
      <4>2. Since' = 0
        BY <1>1, <3>2 DEF Since
      <4>3. am[AlertOf(s)].endsAt \in Nat
        BY <1>4, <2>5, AlertTimes DEF Kept, IInv
      <4>4. /\ SentTick(s) \in Int /\ OnTick(SentTick(s))
            /\ s.lastSent < SentTick(s) + Interval
            /\ am[AlertOf(s)].endsAt = SentTick(s) + 4 * L
        BY <1>0, <2>5, <4>3 DEF Kept, SentTick
      <4>5. tick <= s.lastEval + 2 * Interval
        BY <1>0, <4>1
      <4>6. tick + Interval <= SentTick(s) + 4 * L
        BY <1>0, <1>4, <2>5, <2>6, <4>1, <4>4, <4>5, EndsLater
      <4> QED
        BY <1>0, <4>1, <4>2, <4>4, <4>6
    <3> QED
      BY <3>1, <3>2
  <2> HIDE DEF s, n, sent, L
  <2> QED
    BY <1>1, <1>7, <2>1, <2>3, <2>4, <2>5, <2>6, <2>7 DEF Kept, OnTick, n, s
<1> QED
  BY <1>10, <1>11

(* A step after which nothing that is known was sent. *)
LEMMA NotSentKInv ==
    ASSUME KInv, UNCHANGED missed, cycle' \in {cycle, "void"},
           cache'["plain"] # None => cache'["plain"].lastSent = None
    PROVE  KInv'
  BY DEF KInv, Known, WasSent

LEMMA NextKInv == DelayInProportion /\ IInv /\ SInv /\ KInv /\ [Next]_vars => KInv'
<1> SUFFICES ASSUME DelayInProportion, IInv, SInv, KInv, [Next]_vars PROVE KInv'
  OBVIOUS
<1>1. CASE UNCHANGED vars
  BY <1>1, ControlKInv DEF vars, Begun
<1>2. CASE DeleteAlertStates \/ DeleteAlertStatesFails \/ SaveAlertStates
           \/ SaveAlertStatesFails
  <2>1. UNCHANGED <<timeVars, cache, am>> /\ Begun' = Begun
    BY <1>2 DEF DeleteAlertStates, DeleteAlertStatesFails, SaveAlertStates,
                SaveAlertStatesFails, StatementFails, Begun
  <2> QED
    BY <2>1, ControlKInv
<1>3. CASE DeleteAlertInstancesByRule \/ DeleteAlertInstancesByRuleFails
  <2>1. UNCHANGED <<timeVars, cache, am>> /\ Begun' = Begun
    BY <1>3 DEF DeleteAlertInstancesByRule, DeleteAlertInstancesByRuleFails,
                StatementFails, Begun
  <2> QED
    BY <2>1, ControlKInv
<1>4. CASE \E r \in Rules : RemoveByRuleUID(r)
  BY <1>4, NotSentKInv DEF RemoveByRuleUID, timeVars, Ids
<1>5. CASE SendStoppedAlerts
  <2>1. cache'["plain"] = None /\ UNCHANGED <<cycle, missed>>
    BY <1>5 DEF SendStoppedAlerts, timeVars, IInv, Emptied, Known, Ids
  <2> QED
    BY <2>1, NotSentKInv
<1>6. CASE Crash
  BY <1>6, NotSentKInv DEF Crash, Ids
<1>7. CASE Warm
  <2>1. /\ cache'["plain"] = IF rows["plain"] = None THEN None ELSE Restored("plain")
        /\ missed' = missed /\ cycle' \in {cycle, "void"}
    BY <1>7 DEF Warm, Restart, Ids
  <2>2. Restored("plain").lastSent = None
    BY DEF Restored
  <2> QED
    BY <2>1, <2>2, NotSentKInv
<1>8. CASE WarmFails
  <2>1. cache'["plain"] = None /\ missed' = missed /\ cycle' \in {cycle, "void"}
    BY <1>8 DEF WarmFails, Restart, IInv, Emptied, Known, Ids
  <2> QED
    BY <2>1, NotSentKInv
<1> QED
  BY <1>1, <1>2, <1>3, <1>4, <1>5, <1>6, <1>7, <1>8, PassKInv, ProcessKInv,
     SendAlertsKInv DEF Next

(* Alertmanager does not see a firing alert end that it was told of, as    *)
(* long as no more than one tick in a row is missed, whatever the interval *)
(* and the delay, the rule and the time it takes to send: four times the   *)
(* longer of the two is enough.  The delay is no longer than an interval,  *)
(* or at least four thirds of one: that of the code is 30 s, and the       *)
(* intervals are multiples of 10 s.  It is false of 9 and 11.              *)
THEOREM KnownAsLongAsItFires ==
    ASSUME DelayInProportion
    PROVE  Spec => []KnownWhileFiring
<1>1. Init => KInv
  BY DEF Init, KInv, Known, Ids
<1>2. IInv /\ SInv /\ KInv => KnownWhileFiring
  <2> SUFFICES ASSUME IInv, SInv, KInv, missed <= 1,
                      Known("plain"), WasSent(cache["plain"])
               PROVE  /\ am[AlertOf(cache["plain"])] # None
                      /\ am[AlertOf(cache["plain"])].startsAt = cache["plain"].startsAt
                      /\ now < am[AlertOf(cache["plain"])].endsAt
    BY DEF KnownWhileFiring, Firing, Known, WasSent, Fires
  <2>1. Kept(cache["plain"])
    BY DEF KInv
  <2>2. /\ Interval \in Nat /\ tick \in Nat /\ now \in Nat /\ now < tick + Interval
        /\ am[AlertOf(cache["plain"])].endsAt \in Nat
    BY <2>1, PlainType, AlertTimes, StateManagerAssumption
       DEF IInv, TypeOK, SInv, Clock, Kept
  <2> QED
    BY <2>1, <2>2 DEF Kept
<1>3. IInv /\ SInv /\ KInv /\ [Next]_vars => KInv'
  BY NextKInv
<1> QED
  BY <1>1, <1>2, <1>3, InitIInv, NextIInv, InitSInv, NextSInv, PTL DEF Spec
=============================================================================
