---------------------------- MODULE StateManager ----------------------------
(***************************************************************************)
(* The states of one alert rule, pkg/services/ngalert/state, from the      *)
(* result of an evaluation to the message to Alertmanager.                 *)
(*                                                                         *)
(* The routine of the rule calls, one after the other, ProcessEvalResults, *)
(* which computes the next states in the cache and persists them           *)
(* synchronously, and FromStateTransitionToPostableAlerts, which sends     *)
(* what is due.  The process may die between any two of these steps and    *)
(* loses the cache; Warm reads it back from the table alert_instance.      *)
(* Alertmanager is not told that an alert goes on: an alert expires there  *)
(* at its EndsAt unless it is sent again.                                  *)
(*                                                                         *)
(* The rule has one series.  Its result carries no labels, as that of a    *)
(* classic condition, so that its evaluation errors have the same cache ID *)
(* as its values.  Time passes in units; ticks are multiples of Interval.  *)
(***************************************************************************)
EXTENDS Integers, FiniteSets

CONSTANTS
    Rules,        \* what the rule may say
    Interval,     \* IntervalSeconds of the rule
    ResendDelay,
    MaxTime,      \* bound: the time
    MaxMissed,    \* bound: ticks in a row with no alerts sent
    MaxFailures,  \* bound: failing database statements
    MaxCrashes,   \* bound: restarts of the process
    MaxResets,    \* bound: updates of the rule
    None          \* no state, no row, no alert, no time

(* The mappings of NoData and Error, the pending period, and whether an    *)
(* error of the rule is one of a query (expr.QueryError).                  *)
NoDataStates  == {"Alerting", "NoData", "OK", "KeepLast"}
ExecErrStates == {"Alerting", "Error", "OK", "KeepLast"}
AllRules == [for : Nat, noDataState : NoDataStates,
             execErrState : ExecErrStates, queryErrors : BOOLEAN]

EvalStates == {"Normal", "Pending", "Alerting", "NoData", "Error"}

(* What an evaluation says of the series; None if it does not mention it.  *)
Results == {"Normal", "Alerting", "NoData", "Error", None}

(* The labels ref_id and datasource_uid, added to the state by a query     *)
(* error, are not in its cache ID, but they are in the key of its row, and *)
(* in the cache ID Warm computes from that row.                            *)
Ids == {"plain", "labelled"}

(* A row of alert_instance, and the State in the cache.  LastSentAt is     *)
(* None before the first sending: the zero time is long ago.               *)
Rows == [state : EvalStates, startsAt : Nat, endsAt : Nat, lastEval : Nat]
States == [state : EvalStates, startsAt : Nat, endsAt : Nat, lastEval : Nat,
           lastSent : Nat \cup {None}, resolved : BOOLEAN, labelled : BOOLEAN]

(* StateTransition; `missing' stands for the reason MissingSeries. *)
Transitions == [id : Ids, s : States, previous : EvalStates, missing : BOOLEAN]

(* The names under which Alertmanager gets the alerts of the series. *)
Alerts == {"alert", "DatasourceNoData", "DatasourceError"}
Messages == [startsAt : Nat, endsAt : Nat]

ASSUME StateManagerAssumption ==
    /\ Rules \subseteq AllRules
    /\ Interval \in Nat \ {0}
    /\ ResendDelay \in Nat
    /\ MaxTime \in Nat
    /\ MaxMissed \in Nat
    /\ MaxFailures \in Nat
    /\ MaxCrashes \in Nat
    /\ MaxResets \in Nat
    /\ None \notin States \cup Rows \cup Messages \cup EvalStates \cup Nat

VARIABLES
    now,
    tick,         \* the last tick, scheduledAt of the evaluation
    cycle,        \* is its evaluation due, done (its alerts sent), or void?
    missed,       \* how many ticks in a row were not done
    rule,
    (* the routine of the rule *)
    pc,
    batch,        \* the transitions it works on
    cache,        \* the states by cache ID
    (* outside the process *)
    rows,         \* the rows of alert_instance
    am,           \* what Alertmanager was last told of each alert
    (* history *)
    breached,     \* the tick since which no result denied the condition
    lost,         \* did a crash lose an evaluation before it was persisted?
    relabelled,   \* did an error add labels to a state?
    failures, crashes, resets

timeVars    == <<now, tick, cycle, missed>>
historyVars == <<breached, lost, relabelled, failures, crashes, resets>>
vars == <<timeVars, rule, pc, batch, cache, rows, am, historyVars>>

Init ==
    /\ now = Interval
    /\ tick = Interval
    /\ cycle = "due"
    /\ missed = 0
    /\ rule \in Rules
    /\ pc = "idle"
    /\ batch = {}
    /\ cache = [i \in Ids |-> None]
    /\ rows = [i \in Ids |-> None]
    /\ am = [a \in Alerts |-> None]
    /\ breached = None
    /\ lost = FALSE
    /\ relabelled = FALSE
    /\ failures = 0
    /\ crashes = 0
    /\ resets = 0

-----------------------------------------------------------------------------
(* The next state of an evaluation at `tick'. *)

Longest(a, b) == IF a > b THEN a ELSE b

(* Mutant: the alert expires after three intervals. *)
NextEndsTimeEarly == tick + 3 * Longest(Interval, ResendDelay)

NextEndsTime == tick + 4 * Longest(Interval, ResendDelay)

(* SetNormal, SetPending, SetAlerting, SetNoData, SetError. *)
SetState(s, st, startsAt, endsAt) ==
    [s EXCEPT !.state = st, !.startsAt = startsAt, !.endsAt = endsAt]

Maintain(s) == [s EXCEPT !.endsAt = NextEndsTime]

(* Mutant: a state that does not fire is kept. *)
ResultNormalKeeps(s) ==
    IF s.state \in {"Normal", "Pending"} THEN s ELSE SetState(s, "Normal", tick, tick)

ResultNormal(s) ==
    IF s.state = "Normal" THEN s ELSE SetState(s, "Normal", tick, tick)

ResultAlerting(s) ==
    CASE s.state = "Alerting" -> Maintain(s)
      [] s.state = "Pending" ->
           IF tick - s.startsAt >= rule.for
           THEN SetState(s, "Alerting", tick, NextEndsTime)
           ELSE s
      [] OTHER ->
           SetState(s, IF rule.for > 0 THEN "Pending" ELSE "Alerting",
                    tick, NextEndsTime)

ResultKeepLast(s) ==
    CASE s.state = "Alerting" -> ResultAlerting(s)
      [] s.state = "Pending" ->
           IF tick - s.startsAt >= rule.for THEN ResultAlerting(s) ELSE s
      [] OTHER -> ResultNormal(s)

(* The labels of the query are added when the error is new. *)
ResultError(s) ==
    CASE rule.execErrState = "Alerting" -> ResultAlerting(s)
      [] rule.execErrState = "OK" -> ResultNormal(s)
      [] rule.execErrState = "KeepLast" -> ResultKeepLast(s)
      [] OTHER ->
           IF s.state = "Error" THEN Maintain(s)
           ELSE [SetState(s, "Error", tick, NextEndsTime)
                   EXCEPT !.labelled = s.labelled \/ rule.queryErrors]

ResultNoData(s) ==
    CASE rule.noDataState = "Alerting" -> ResultAlerting(s)
      [] rule.noDataState = "OK" -> ResultNormal(s)
      [] rule.noDataState = "KeepLast" -> ResultKeepLast(s)
      [] OTHER ->
           IF s.state = "NoData" THEN Maintain(s)
           ELSE SetState(s, "NoData", tick, NextEndsTime)

(* setNextState: clean up the labels, apply the result, set Resolved. *)
NextState(s, res) ==
    LET clean == [s EXCEPT !.lastEval = tick,
                           !.labelled = s.labelled /\ (s.state = "Error" =>
                                                          res = "Error")]
        next == CASE res = "Normal"   -> ResultNormal(clean)
                  [] res = "Alerting" -> ResultAlerting(clean)
                  [] res = "NoData"   -> ResultNoData(clean)
                  [] OTHER            -> ResultError(clean)
    IN  [next EXCEPT !.resolved =
            s.state = "Alerting" /\ next.state = "Normal"]

(* getOrCreate *)
Current ==
    IF cache["plain"] # None
    THEN cache["plain"]
    ELSE [state |-> "Normal", startsAt |-> tick, endsAt |-> tick,
          lastEval |-> tick, lastSent |-> None, resolved |-> FALSE,
          labelled |-> FALSE]

(* deleteStaleStatesFromCache: a state no evaluation mentioned for two     *)
(* intervals.  Resolved is set, but never cleared.                         *)
IsStale(s) == s.lastEval + 2 * Interval <= tick

Missing(s) ==
    [s EXCEPT !.state = "Normal", !.endsAt = tick, !.lastEval = tick,
              !.resolved = s.resolved \/ s.state = "Alerting"]

(* GetAlertInstanceKey, and the columns of a row. *)
Key(s) == IF s.labelled THEN "labelled" ELSE "plain"

(* Mutant: more is saved than the table has columns for. *)
RowWhole(s) == s

Row(s) == [state |-> s.state, startsAt |-> s.startsAt, endsAt |-> s.endsAt,
           lastEval |-> s.lastEval]

Stale == {t \in batch : t.missing}
Evaluated == batch \ Stale

-----------------------------------------------------------------------------
(* Whether a result says that the condition holds, and that it does not;   *)
(* one that is mapped to KeepLast says neither.                            *)
Confirms(res) ==
    \/ res = "Alerting"
    \/ res = "NoData" /\ rule.noDataState = "Alerting"
    \/ res = "Error" /\ rule.execErrState = "Alerting"

Denies(res) ==
    \/ res = "Normal"
    \/ res = "NoData" /\ rule.noDataState \in {"NoData", "OK"}
    \/ res = "Error" /\ rule.execErrState \in {"Error", "OK"}

BreachedAfter(res, stale) ==
    IF Denies(res) \/ "plain" \in stale THEN None
    ELSE IF Confirms(res) /\ breached = None THEN tick ELSE breached

(* Time passes.  The evaluation of a tick ends before the next one, or it  *)
(* does not take place.  All the time it takes is spent before the alerts  *)
(* are sent, as no step before reads the clock.                            *)
Pass ==
    /\ now < MaxTime
    /\ pc \in {"idle", "send", "down"}
    /\ now' = now + 1
    /\ IF now' % Interval = 0
       THEN /\ pc \in {"idle", "down"}
            /\ tick' = now'
            /\ cycle' = "due"
            /\ missed' = IF cycle = "done" THEN 0 ELSE missed + 1
            /\ missed' <= MaxMissed
       ELSE UNCHANGED <<tick, cycle, missed>>
    /\ UNCHANGED <<rule, pc, batch, cache, rows, am, historyVars>>

(* ProcessEvalResults: setNextStateForRule, deleteStaleStatesFromCache. *)
ProcessEvalResults(res) ==
    LET next == NextState(Current, res)
        after == IF res = None THEN cache
                               ELSE [cache EXCEPT !["plain"] = next]
        stale == {i \in Ids : after[i] # None /\ IsStale(after[i])}
    IN  /\ pc = "idle"
        /\ cycle = "due"
        /\ cache' = [i \in Ids |-> IF i \in stale THEN None ELSE after[i]]
        /\ batch' =
             (IF res = None THEN {}
              ELSE {[id |-> "plain", s |-> next,
                     previous |-> Current.state, missing |-> FALSE]})
             \cup {[id |-> i, s |-> Missing(after[i]),
                    previous |-> after[i].state, missing |-> TRUE] : i \in stale}
        /\ pc' = "delete"
        /\ breached' = BreachedAfter(res, stale)
        /\ relabelled' = (relabelled \/ (res # None /\ next.labelled))
        /\ UNCHANGED <<timeVars, rule, rows, am, lost, failures, crashes, resets>>

(* A statement fails: it is logged, and the routine goes on. *)
StatementFails(from, to) ==
    /\ pc = from
    /\ failures < MaxFailures
    /\ failures' = failures + 1
    /\ pc' = to
    /\ UNCHANGED <<timeVars, rule, batch, cache, rows, am, breached, lost,
                   relabelled, crashes, resets>>

(* SyncStatePersister.deleteAlertStates *)
DeleteAlertStates ==
    /\ pc = "delete"
    /\ rows' = [i \in Ids |->
                  IF i \in {Key(t.s) : t \in Stale} THEN None ELSE rows[i]]
    /\ pc' = "save"
    /\ UNCHANGED <<timeVars, rule, batch, cache, am, historyVars>>

DeleteAlertStatesFails ==
    Stale # {} /\ StatementFails("delete", "save")

(* Mutant: a state that goes on is not saved. *)
SaveAlertStatesChanged ==
    /\ pc = "save"
    /\ rows' = [i \in Ids |->
                  IF \E t \in Evaluated : Key(t.s) = i /\ t.previous # t.s.state
                  THEN Row((CHOOSE t \in Evaluated : Key(t.s) = i).s)
                  ELSE rows[i]]
    /\ pc' = "send"
    /\ UNCHANGED <<timeVars, rule, batch, cache, am, historyVars>>

(* SyncStatePersister.saveAlertStates *)
SaveAlertStates ==
    /\ pc = "save"
    /\ rows' = [i \in Ids |->
                  IF \E t \in Evaluated : Key(t.s) = i
                  THEN Row((CHOOSE t \in Evaluated : Key(t.s) = i).s)
                  ELSE rows[i]]
    /\ pc' = "send"
    /\ UNCHANGED <<timeVars, rule, batch, cache, am, historyVars>>

SaveAlertStatesFails ==
    Evaluated # {} /\ StatementFails("save", "send")

(* A firing state is sent when it is new or the last time is ResendDelay   *)
(* before the tick.                                                        *)
NeedsSending(s) ==
    CASE s.state = "Pending" -> FALSE
      [] s.state = "Normal"  -> s.resolved
      [] OTHER -> s.lastSent = None \/ s.lastSent + ResendDelay <= s.lastEval

(* StateToPostableAlert: the name of the alert. *)
Alert(t) ==
    LET st == IF t.s.resolved THEN t.previous ELSE t.s.state
    IN  CASE st = "NoData" -> "DatasourceNoData"
          [] st = "Error"  -> "DatasourceError"
          [] OTHER         -> "alert"

(* What Alertmanager knows after `sent', of which those that are missing   *)
(* come last.                                                              *)
Told(sent) ==
    [a \in Alerts |->
        LET of == {t \in sent : Alert(t) = a}
            last == CHOOSE t \in of : (\E u \in of : u.missing) => t.missing
        IN  IF of = {} THEN am[a]
            ELSE [startsAt |-> last.s.startsAt, endsAt |-> last.s.endsAt]]

(* FromStateTransitionToPostableAlerts and Send.  What went missing is not *)
(* put back into the cache.                                                *)
SendAlerts ==
    LET sent == {t \in batch : NeedsSending(t.s)}
        put == {t.id : t \in sent \cap Evaluated}
    IN  /\ pc = "send"
        /\ am' = Told(sent)
        /\ cache' = [i \in Ids |->
                       IF i \in put THEN [cache[i] EXCEPT !.lastSent = now]
                                    ELSE cache[i]]
        /\ cycle' = IF Evaluated = {} THEN "void" ELSE "done"
        /\ missed' = IF Evaluated = {} THEN missed ELSE 0
        /\ pc' = "idle"
        /\ batch' = {}
        /\ UNCHANGED <<now, tick, rule, rows, historyVars>>

-----------------------------------------------------------------------------
(* The rule is updated: resetState, that is DeleteStateByRuleUID and       *)
(* notify.                                                                 *)
Reset(s) ==
    [s EXCEPT !.state = "Normal",
              !.startsAt = IF s.state = "Normal" THEN s.startsAt ELSE now,
              !.endsAt = now, !.lastEval = now,
              !.resolved = s.state \in {"Alerting", "Error", "NoData"}]

RemoveByRuleUID(r) ==
    LET known == {i \in Ids : cache[i] # None}
    IN  /\ pc = "idle"
        /\ resets < MaxResets
        /\ resets' = resets + 1
        /\ rule' = r
        /\ cache' = [i \in Ids |-> None]
        /\ batch' = {[id |-> i, s |-> Reset(cache[i]),
                      previous |-> cache[i].state, missing |-> FALSE] : i \in known}
        /\ pc' = IF known = {} THEN "idle" ELSE "deleteAll"
        /\ breached' = None
        /\ UNCHANGED <<timeVars, rows, am, lost, relabelled,
                       failures, crashes>>

DeleteAlertInstancesByRule ==
    /\ pc = "deleteAll"
    /\ rows' = [i \in Ids |-> None]
    /\ pc' = "stop"
    /\ UNCHANGED <<timeVars, rule, batch, cache, am, historyVars>>

DeleteAlertInstancesByRuleFails == StatementFails("deleteAll", "stop")

(* FromAlertsStateToStoppedAlert and Send. *)
SendStoppedAlerts ==
    LET sent == {[t EXCEPT !.s.endsAt = now] :
                   t \in {u \in batch : u.previous \notin {"Normal", "Pending"}}}
    IN  /\ pc = "stop"
        /\ am' = Told(sent)
        /\ pc' = "idle"
        /\ batch' = {}
        /\ UNCHANGED <<timeVars, rule, cache, rows, historyVars>>

-----------------------------------------------------------------------------
(* The process dies, and its evaluation with it. *)
Crash ==
    /\ pc # "down"
    /\ crashes < MaxCrashes
    /\ crashes' = crashes + 1
    /\ pc' = "down"
    /\ batch' = {}
    /\ cache' = [i \in Ids |-> None]
    /\ cycle' = IF cycle = "due" THEN "void" ELSE cycle
    /\ lost' = (lost \/ pc \in {"delete", "save", "deleteAll"})
    /\ UNCHANGED <<now, tick, missed, rule, rows, am, breached, relabelled,
                   failures, resets>>

(* Mutant: a state starts when it was last evaluated. *)
RestoredLate(i) ==
    [state |-> rows[i].state, startsAt |-> rows[i].lastEval,
     endsAt |-> rows[i].endsAt, lastEval |-> rows[i].lastEval,
     lastSent |-> None, resolved |-> FALSE, labelled |-> i = "labelled"]

(* Warm: the state of a row.  Resolved and LastSentAt are not in it. *)
Restored(i) ==
    [state |-> rows[i].state, startsAt |-> rows[i].startsAt,
     endsAt |-> rows[i].endsAt, lastEval |-> rows[i].lastEval,
     lastSent |-> None, resolved |-> FALSE, labelled |-> i = "labelled"]

(* The next evaluation is that of the next tick. *)
Restart ==
    /\ pc = "down"
    /\ pc' = "idle"
    /\ cycle' = IF cycle = "due" /\ tick < now THEN "void" ELSE cycle
    /\ UNCHANGED <<now, tick, missed, rule, batch, rows, am, breached, lost,
                   relabelled, crashes, resets>>

Warm ==
    /\ Restart
    /\ cache' = [i \in Ids |-> IF rows[i] = None THEN None ELSE Restored(i)]
    /\ UNCHANGED failures

(* One of its queries fails: it is logged, and the cache is empty. *)
WarmFails ==
    /\ Restart
    /\ failures < MaxFailures
    /\ failures' = failures + 1
    /\ UNCHANGED cache

-----------------------------------------------------------------------------
Next ==
    \/ Pass
    \/ \E res \in Results : ProcessEvalResults(res)
    \/ DeleteAlertStates
    \/ DeleteAlertStatesFails
    \/ SaveAlertStates
    \/ SaveAlertStatesFails
    \/ SendAlerts
    \/ \E r \in Rules : RemoveByRuleUID(r)
    \/ DeleteAlertInstancesByRule
    \/ DeleteAlertInstancesByRuleFails
    \/ SendStoppedAlerts
    \/ Crash
    \/ Warm
    \/ WarmFails

Spec == Init /\ [][Next]_vars

-----------------------------------------------------------------------------
(* Properties *)

Optional(S) == S \cup {None}

TypeOK ==
    /\ now \in Nat /\ tick \in Nat /\ missed \in Nat
    /\ cycle \in {"due", "done", "void"}
    /\ rule \in AllRules
    /\ pc \in {"idle", "delete", "save", "send", "deleteAll", "stop", "down"}
    /\ batch \subseteq Transitions
    /\ cache \in [Ids -> Optional(States)]
    /\ rows \in [Ids -> Optional(Rows)]
    /\ am \in [Alerts -> Optional(Messages)]
    /\ breached \in Optional(Nat)
    /\ lost \in BOOLEAN /\ relabelled \in BOOLEAN
    /\ failures \in Nat /\ crashes \in Nat /\ resets \in Nat

Firing(s) == s # None /\ s.state \in {"Alerting", "NoData", "Error"}

AlertOf(s) == CASE s.state = "NoData" -> "DatasourceNoData"
                [] s.state = "Error"  -> "DatasourceError"
                [] OTHER              -> "alert"

(* As long as the series is evaluated, Alertmanager does not see a firing  *)
(* alert end that it was told of: it is sent again before it expires, with *)
(* its old StartsAt, however late in the interval each sending is, and     *)
(* though those in the ResendDelay are skipped and one tick may be missed. *)
KnownWhileFiring ==
    LET s == cache["plain"] IN
    (/\ missed <= 1
     /\ Firing(s)
     /\ s.lastSent # None
     /\ s.lastSent >= s.startsAt)
    => /\ am[AlertOf(s)] # None
       /\ am[AlertOf(s)].startsAt = s.startsAt
       /\ now < am[AlertOf(s)].endsAt

(* The series is Alerting only after the condition was observed for as     *)
(* long as the rule says, with no result that denied it in between, also   *)
(* one of before a restart.  It does not hold when the database refused a  *)
(* write or a crash came before it.                                        *)
PendingPeriodObserved ==
    LET s == cache["plain"] IN
    (s # None /\ failures = 0 /\ ~lost) =>
        (s.state = "Alerting" =>
            breached # None /\ s.startsAt - breached >= rule.for)

(* It holds unless an error adds labels to the state: it is then saved in  *)
(* another row, and the old one is left as it was.                         *)
ForRespected == relabelled \/ PendingPeriodObserved

(* A restart does not make a firing alert into another one: while the      *)
(* condition goes on, the alert Alertmanager has keeps its StartsAt.       *)
EpisodeSurvivesRestart ==
    LET s == cache["plain"]  a == am["alert"] IN
    (s # None /\ breached # None /\ failures = 0) =>
        ((s.state = "Alerting" /\ a # None) =>
            ((breached <= a.startsAt /\ now < a.endsAt) =>
                s.startsAt = a.startsAt))

(* What is sent is in the database first: the row of the state evaluated   *)
(* last is this state, though a stale state with the same key is removed   *)
(* in the same evaluation.                                                 *)
SavedBeforeSent ==
    LET s == cache["plain"] IN
    (s # None /\ pc \in {"send", "idle"} /\ failures = 0) =>
        (s.lastEval = tick => rows[Key(s)] = Row(s))

(* An alert that fired was sent to Alertmanager by the time it is over:    *)
(* the last that Alertmanager heard of it is that it fires.                *)
FiringIsSent ==
    \A t \in batch :
        (pc = "delete" /\ t.previous = "Alerting" /\ t.s.state # "Alerting") =>
            (/\ am["alert"] # None
             /\ am["alert"].startsAt < am["alert"].endsAt)
=============================================================================
