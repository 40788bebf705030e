----------------------------- MODULE Scheduler -----------------------------
(***************************************************************************)
(* The alert rule scheduler, pkg/services/ngalert/schedule.                *)
(*                                                                         *)
(* One goroutine, schedulePeriodic, takes ticks.  On each it refreshes its *)
(* copy of the rules from the database, starts a routine for every new     *)
(* rule, hands evaluations and updates to the routines and stops those of  *)
(* the rules that are gone.  It never waits for a routine: an evaluation   *)
(* is handed over by a timer goroutine (alertRuleInfo.eval), an update by  *)
(* a goroutine of its own (alertRuleInfo.update).  Both first drain the    *)
(* unbuffered channel of a concurrent sender and then block in a send.     *)
(* The users of the API write the database at any time.                    *)
(***************************************************************************)
EXTENDS Naturals, Sequences, FiniteSets

CONSTANTS
    Keys,         \* rule keys (org and UID)
    Contents,     \* what the fingerprint of a rule is computed from
    Paused,       \* the contents with IsPaused
    Frequency,    \* itemFrequency of a content, in ticks
    Offset,       \* jitterOffsetInTicks of a key and a content
    MaxAttempts,  \* schedule.maxAttempts
    Routines,     \* the identities of rule routines
    Cycle,        \* bound: ticks are counted modulo Cycle
    MaxWrites,    \* bound: writes to the rules in the database
    Recreate,     \* may the key of a deleted rule be used again?
    None          \* no rule, no routine, no key, no fingerprint

ASSUME SchedulerAssumption ==
    /\ Paused \subseteq Contents
    /\ Frequency \in [Contents -> Nat \ {0}]
    /\ Offset \in [Keys -> [Contents -> Nat]]
    /\ MaxAttempts \in Nat \ {0}
    /\ Cycle \in Nat \ {0}
    /\ \A c \in Contents : Cycle % Frequency[c] = 0
    /\ MaxWrites \in Nat \ {0}
    /\ Recreate \in BOOLEAN
    /\ None \notin Keys \cup Contents \cup Routines
    /\ "warm" \notin Contents \cup {None}

(* A row of alert_rule.  `rev' is not in the table: it counts the writes,  *)
(* so that two rows of one key can be told apart when their versions agree.*)
Rules == [version : Nat, content : Contents, rev : Nat]

Ticks == 0..(Cycle - 1)

(* What a timer goroutine or an update goroutine carries. *)
Evaluations == [routine : Routines, tick : Ticks, rule : Rules]
Updates     == [routine : Routines, rule : Rules]

VARIABLES
    (* the database *)
    db,          \* alert_rule by key
    writes,      \* how often it was written
    retired,     \* the keys that were deleted at least once
    states,      \* the alert states of a rule in the cache: the content they
                 \* were computed from, "warm" if they were read from the
                 \* database at startup, None if there are none
    (* schedulePeriodic and processTick *)
    pc,
    tick,
    fetched,     \* schedulableAlertRules.rules
    updated,     \* diff.updated
    pending,     \* the rules the loop over alertRules still has before it
    registered,  \* registeredDefinitions
    readyToRun,
    (* the registry and the routines *)
    registry,    \* alertRuleInfo by key
    owner,       \* the key a routine works for
    stopped,     \* its context was cancelled with errRuleDeleted
    rpc,         \* its control state
    fingerprint, \* currentFingerprint
    current,     \* history: the rule that fingerprint was computed from
    job,         \* the rule of the evaluation it received
    attempt,
    evalCh,      \* the senders blocked on its evalCh, in order
    updateCh,    \* the senders blocked on its updateCh, in order
    (* the goroutines that hand over *)
    timers,      \* evaluations whose time.AfterFunc is still to run
    draining,    \* evaluations past the first select of eval
    updates,     \* updates whose goroutine is still to run
    posting,     \* updates past the first select of update
    (* the process *)
    cancelled,   \* the context of Run
    panicked     \* a goroutine panicked, which ends the process

dbVars       == <<db, writes, retired>>
tickVars     == <<pc, tick, fetched, updated, pending, registered, readyToRun>>
routineVars  == <<owner, stopped, rpc, fingerprint, current, job, attempt>>
channelVars  == <<evalCh, updateCh>>
senderVars   == <<timers, draining, updates, posting>>
processVars  == <<cancelled, panicked>>
vars == <<dbVars, states, tickVars, registry, routineVars, channelVars,
          senderVars, processVars>>

TypeOK ==
    /\ db \in [Keys -> Rules \cup {None}]
    /\ writes \in 0..MaxWrites
    /\ retired \subseteq Keys
    /\ states \in [Keys -> Contents \cup {"warm", None}]
    /\ pc \in {"idle", "fetch", "dispatch", "delete", "waiting", "done"}
    /\ tick \in Ticks
    /\ fetched \in [Keys -> Rules \cup {None}]
    /\ updated \subseteq Keys
    /\ pending \subseteq Keys
    /\ registered \subseteq Keys
    /\ readyToRun \subseteq Evaluations
    /\ registry \in [Keys -> Routines \cup {None}]
    /\ owner \in [Routines -> Keys \cup {None}]
    /\ stopped \in [Routines -> BOOLEAN]
    /\ rpc \in [Routines -> {"unused", "select", "attempt",
                             "evaluating", "process", "backoff", "exited"}]
    /\ fingerprint \in [Routines -> Contents \cup {None}]
    /\ current \in [Routines -> Rules \cup {None}]
    /\ job \in [Routines -> Rules \cup {None}]
    /\ attempt \in [Routines -> 0..MaxAttempts]
    /\ evalCh \in [Routines -> Seq(Evaluations)]
    /\ updateCh \in [Routines -> Seq(Updates)]
    /\ timers \subseteq Evaluations
    /\ draining \subseteq Evaluations
    /\ updates \subseteq Updates
    /\ posting \subseteq Updates
    /\ cancelled \in BOOLEAN
    /\ panicked \in BOOLEAN

(* Rules may have been in the database before the process started, with    *)
(* states that Warm put into the cache.                                    *)
Init ==
    /\ db \in [Keys -> {None} \cup
                 [version : {1}, content : Contents, rev : {1}]]
    /\ writes = 1
    /\ retired = {}
    /\ states \in [Keys -> {"warm", None}]
    /\ \A k \in Keys : db[k] = None => states[k] = None
    /\ pc = "idle"
    /\ tick = 0
    /\ fetched = [k \in Keys |-> None]
    /\ updated = {} /\ pending = {} /\ registered = {} /\ readyToRun = {}
    /\ registry = [k \in Keys |-> None]
    /\ owner = [r \in Routines |-> None]
    /\ stopped = [r \in Routines |-> FALSE]
    /\ rpc = [r \in Routines |-> "unused"]
    /\ fingerprint = [r \in Routines |-> None]
    /\ current = [r \in Routines |-> None]
    /\ job = [r \in Routines |-> None]
    /\ attempt = [r \in Routines |-> 0]
    /\ evalCh = [r \in Routines |-> <<>>]
    /\ updateCh = [r \in Routines |-> <<>>]
    /\ timers = {} /\ draining = {} /\ updates = {} /\ posting = {}
    /\ cancelled = FALSE
    /\ panicked = FALSE

-----------------------------------------------------------------------------
(* Helpers *)

RulesIn(table) == {k \in Keys : table[k] # None}

(* The context of a routine is done: Run's was cancelled, or the rule was  *)
(* deleted.                                                                *)
CtxDone(r) == cancelled \/ stopped[r]

(* Mutant: the versions are not compared. *)
NeedsUpdateByKey == RulesIn(fetched) # RulesIn(db)

(* alertRulesRegistry.needsUpdate compares versions key by key. *)
NeedsUpdate ==
    \/ RulesIn(fetched) # RulesIn(db)
    \/ \E k \in RulesIn(db) \cap RulesIn(fetched) : fetched[k].version # db[k].version

(* alertRulesRegistry.getDiff: the rules known before with another version. *)
Diff(rules) ==
    {k \in RulesIn(rules) \cap RulesIn(fetched) :
        rules[k].version # fetched[k].version}

IsReadyToRun(k, rule, t) ==
    (t % Frequency[rule.content]) = Offset[k][rule.content]

(* The evaluations some goroutine still has to hand over. *)
InFlight ==
    timers \cup draining \cup readyToRun
        \cup UNION {{evalCh[r][i] : i \in DOMAIN evalCh[r]} : r \in Routines}

Running == ~panicked

-----------------------------------------------------------------------------
(* The API: DBstore.InsertAlertRules, UpdateAlertRules and                 *)
(* DeleteAlertRulesByUID.  A new row starts with version 1, whatever its   *)
(* key was used for before.                                                *)

WriteDb ==
    /\ Running
    /\ writes < MaxWrites
    /\ writes' = writes + 1
    /\ UNCHANGED <<states, tickVars, registry, routineVars, channelVars,
                   senderVars, processVars>>

InsertAlertRule(k) ==
    /\ WriteDb
    /\ db[k] = None
    /\ k \in retired => Recreate
    /\ \E c \in Contents :
         db' = [db EXCEPT ![k] = [version |-> 1, content |-> c, rev |-> writes']]
    /\ UNCHANGED retired

UpdateAlertRule(k) ==
    /\ WriteDb
    /\ db[k] # None
    /\ \E c \in Contents :
         db' = [db EXCEPT ![k] = [version |-> db[k].version + 1,
                                  content |-> c, rev |-> writes']]
    /\ UNCHANGED retired

DeleteAlertRule(k) ==
    /\ WriteDb
    /\ db[k] # None
    /\ db' = [db EXCEPT ![k] = None]
    /\ retired' = retired \cup {k}

-----------------------------------------------------------------------------
(* schedulePeriodic and processTick *)

UnchangedByTick ==
    UNCHANGED <<dbVars, states, routineVars, channelVars, processVars>>

(* processTick has its rules: the loop over them begins. *)
StartDispatch(rules) ==
    /\ pc' = "dispatch"
    /\ pending' = RulesIn(rules)
    /\ registered' = {k \in Keys : registry[k] # None}
    /\ readyToRun' = {}

(* case tick := <-t.C, and the first query of updateSchedulableAlertRules: *)
(* skipped when no rule is known, and it may fail.                         *)
Tick ==
    /\ Running
    /\ pc = "idle"
    /\ tick' = (tick + 1) % Cycle
    /\ \A e \in InFlight : e.tick # tick'       \* bound: Cycle
    /\ \/ /\ RulesIn(fetched) = {} \/ NeedsUpdate
          /\ pc' = "fetch"
          /\ UNCHANGED <<fetched, updated, pending, registered, readyToRun>>
       \/ /\ RulesIn(fetched) # {}
          /\ ~NeedsUpdate
          /\ updated' = {}
          /\ StartDispatch(fetched)
          /\ UNCHANGED fetched
    /\ UNCHANGED <<registry, senderVars>>
    /\ UnchangedByTick

TickKeysFail ==
    /\ Running
    /\ pc = "idle"
    /\ RulesIn(fetched) # {}
    /\ tick' = (tick + 1) % Cycle
    /\ \A e \in InFlight : e.tick # tick'       \* bound: Cycle
    /\ updated' = {}
    /\ StartDispatch(fetched)
    /\ UNCHANGED <<fetched, registry, senderVars>>
    /\ UnchangedByTick

(* GetAlertRulesForScheduling, then alertRulesRegistry.set. *)
FetchRules ==
    /\ Running
    /\ pc = "fetch"
    /\ fetched' = db
    /\ updated' = Diff(db)
    /\ StartDispatch(db)
    /\ UNCHANGED <<tick, registry, senderVars>>
    /\ UnchangedByTick

FetchRulesFails ==
    /\ Running
    /\ pc = "fetch"
    /\ updated' = {}
    /\ StartDispatch(fetched)
    /\ UNCHANGED <<tick, fetched, registry, senderVars>>
    /\ UnchangedByTick

(* The loop over alertRules for a rule with routine r: it is ready on this *)
(* tick, or its routine is told that it was updated, or neither.           *)
Dispatch(k, r) ==
    LET rule  == fetched[k]
        ready == IsReadyToRun(k, rule, tick)
    IN  /\ pending' = pending \ {k}
        /\ registered' = registered \ {k}
        /\ readyToRun' = readyToRun \cup
               (IF ready
                THEN {[routine |-> r, tick |-> tick, rule |-> rule]}
                ELSE {})
        /\ updates' = updates \cup
               (IF k \in updated /\ ~ready
                THEN {[routine |-> r, rule |-> rule]}
                ELSE {})
        /\ UNCHANGED <<pc, tick, fetched, updated, timers, draining, posting>>

DispatchKnown(k) ==
    /\ Running
    /\ pc = "dispatch"
    /\ k \in pending
    /\ registry[k] # None
    /\ Dispatch(k, registry[k])
    /\ UNCHANGED registry
    /\ UnchangedByTick

(* getOrCreateInfo finds nothing: a routine is started. *)
DispatchNew(k, r) ==
    /\ Running
    /\ pc = "dispatch"
    /\ k \in pending
    /\ registry[k] = None
    /\ rpc[r] = "unused"
    /\ registry' = [registry EXCEPT ![k] = r]
    /\ owner' = [owner EXCEPT ![r] = k]
    /\ rpc' = [rpc EXCEPT ![r] = "select"]
    /\ Dispatch(k, r)
    /\ UNCHANGED <<dbVars, states, stopped, fingerprint, current, job, attempt,
                   channelVars, processVars>>

(* Mutant: rules that are gone are not looked for. *)
SetTimersOnly ==
    /\ Running
    /\ pc = "dispatch"
    /\ pending = {}
    /\ timers' = timers \cup readyToRun
    /\ readyToRun' = {}
    /\ pc' = "idle"
    /\ UNCHANGED <<tick, fetched, updated, pending, registered, registry,
                   draining, updates, posting>>
    /\ UnchangedByTick

(* The end of the loop: the timers of the evaluations are set. *)
SetTimers ==
    /\ Running
    /\ pc = "dispatch"
    /\ pending = {}
    /\ timers' = timers \cup readyToRun
    /\ readyToRun' = {}
    /\ pc' = IF registered = {} THEN "idle" ELSE "delete"
    /\ UNCHANGED <<tick, fetched, updated, pending, registered, registry,
                   draining, updates, posting>>
    /\ UnchangedByTick

(* Mutant: the routine is not stopped. *)
DeleteRuleUnstopped(k) ==
    /\ Running
    /\ pc = "delete"
    /\ k \in registered
    /\ registered' = registered \ {k}
    /\ pc' = IF registered' = {} THEN "idle" ELSE "delete"
    /\ fetched' = [fetched EXCEPT ![k] = None]
    /\ registry' = [registry EXCEPT ![k] = None]
    /\ UNCHANGED <<dbVars, states, tick, updated, pending, readyToRun,
                   routineVars, channelVars, senderVars, processVars>>

(* deleteAlertRule: the rule leaves both registries and its routine's      *)
(* context is cancelled, which releases the senders blocked on it.         *)
DeleteRule(k) ==
    /\ Running
    /\ pc = "delete"
    /\ k \in registered
    /\ registered' = registered \ {k}
    /\ pc' = IF registered' = {} THEN "idle" ELSE "delete"
    /\ fetched' = [fetched EXCEPT ![k] = None]
    /\ registry' = [registry EXCEPT ![k] = None]
    /\ stopped' = [stopped EXCEPT ![registry[k]] = TRUE]
    /\ evalCh' = [evalCh EXCEPT ![registry[k]] = <<>>]
    /\ updateCh' = [updateCh EXCEPT ![registry[k]] = <<>>]
    /\ UNCHANGED <<dbVars, states, tick, updated, pending, readyToRun, owner,
                   rpc, fingerprint, current, job, attempt, senderVars,
                   processVars>>

(* The context of Run is cancelled, and with it that of every routine. *)
Shutdown ==
    /\ Running
    /\ ~cancelled
    /\ cancelled' = TRUE
    /\ evalCh' = [r \in Routines |-> <<>>]
    /\ updateCh' = [r \in Routines |-> <<>>]
    /\ UNCHANGED <<dbVars, states, tickVars, registry, routineVars, senderVars,
                   panicked>>

(* case <-ctx.Done() *)
SeeShutdown ==
    /\ Running
    /\ pc = "idle"
    /\ cancelled
    /\ pc' = "waiting"
    /\ UNCHANGED <<tick, fetched, updated, pending, registered, readyToRun,
                   registry, senderVars>>
    /\ UnchangedByTick

(* dispatcherGroup.Wait() *)
RoutinesJoined ==
    /\ Running
    /\ pc = "waiting"
    /\ \A r \in Routines : rpc[r] \in {"unused", "exited"}
    /\ pc' = "done"
    /\ UNCHANGED <<tick, fetched, updated, pending, registered, readyToRun,
                   registry, senderVars>>
    /\ UnchangedByTick

-----------------------------------------------------------------------------
(* alertRuleInfo.eval, in a timer goroutine *)

UnchangedBySender ==
    UNCHANGED <<dbVars, states, tickVars, registry, routineVars, processVars>>

(* Its first select takes what a concurrent sender blocks on, if any. *)
EvalDrain(e) ==
    /\ Running
    /\ e \in timers
    /\ timers' = timers \ {e}
    /\ draining' = draining \cup {e}
    /\ evalCh' = IF evalCh[e.routine] = <<>> THEN evalCh
                 ELSE [evalCh EXCEPT ![e.routine] = Tail(@)]
    /\ UNCHANGED <<updateCh, updates, posting>>
    /\ UnchangedBySender

(* Mutant: the send does not look at the context. *)
EvalSendStubborn(e) ==
    /\ Running
    /\ e \in draining
    /\ ~CtxDone(e.routine)
    /\ draining' = draining \ {e}
    /\ evalCh' = [evalCh EXCEPT ![e.routine] = Append(@, e)]
    /\ UNCHANGED <<updateCh, timers, updates, posting>>
    /\ UnchangedBySender

(* Its second select blocks in the send, or gives up. *)
EvalSend(e) ==
    /\ Running
    /\ e \in draining
    /\ draining' = draining \ {e}
    /\ evalCh' = IF CtxDone(e.routine) THEN evalCh
                 ELSE [evalCh EXCEPT ![e.routine] = Append(@, e)]
    /\ UNCHANGED <<updateCh, timers, updates, posting>>
    /\ UnchangedBySender

(* alertRuleInfo.update, in a goroutine of its own *)
UpdateDrain(u) ==
    /\ Running
    /\ u \in updates
    /\ updates' = updates \ {u}
    /\ posting' = IF CtxDone(u.routine) THEN posting ELSE posting \cup {u}
    /\ updateCh' = IF updateCh[u.routine] = <<>> THEN updateCh
                   ELSE [updateCh EXCEPT ![u.routine] = Tail(@)]
    /\ UNCHANGED <<evalCh, timers, draining>>
    /\ UnchangedBySender

UpdateSend(u) ==
    /\ Running
    /\ u \in posting
    /\ posting' = posting \ {u}
    /\ updateCh' = IF CtxDone(u.routine) THEN updateCh
                   ELSE [updateCh EXCEPT ![u.routine] = Append(@, u)]
    /\ UNCHANGED <<evalCh, timers, draining, updates>>
    /\ UnchangedBySender

-----------------------------------------------------------------------------
(* ruleRoutine *)

UnchangedByRoutine ==
    UNCHANGED <<dbVars, tickVars, registry, owner, stopped, senderVars, cancelled>>

(* The closure resetState: Manager.ResetStateByRuleUID dereferences what   *)
(* schedulableAlertRules.get returned, then empties the cache.             *)
ResetState(r) ==
    /\ panicked' = (fetched[owner[r]] = None)
    /\ states' = IF panicked' THEN states ELSE [states EXCEPT ![owner[r]] = None]

SetFingerprint(r, rule) ==
    /\ fingerprint' = [fingerprint EXCEPT ![r] = rule.content]
    /\ current' = [current EXCEPT ![r] = rule]

(* case ctx := <-updateCh, with the fingerprint it has already *)
ReceiveSameUpdate(r) ==
    /\ Running
    /\ rpc[r] = "select"
    /\ updateCh[r] # <<>>
    /\ Head(updateCh[r]).rule.content = fingerprint[r]
    /\ updateCh' = [updateCh EXCEPT ![r] = Tail(@)]
    /\ UNCHANGED <<states, rpc, fingerprint, current, job, attempt, evalCh, panicked>>
    /\ UnchangedByRoutine

(* case ctx := <-updateCh, with another fingerprint *)
ReceiveUpdate(r) ==
    /\ Running
    /\ rpc[r] = "select"
    /\ updateCh[r] # <<>>
    /\ Head(updateCh[r]).rule.content # fingerprint[r]
    /\ updateCh' = [updateCh EXCEPT ![r] = Tail(@)]
    /\ ResetState(r)
    /\ SetFingerprint(r, Head(updateCh[r]).rule)
    /\ UNCHANGED <<rpc, job, attempt, evalCh>>
    /\ UnchangedByRoutine

(* case ctx, ok := <-evalCh *)
ReceiveEval(r) ==
    /\ Running
    /\ rpc[r] = "select"
    /\ evalCh[r] # <<>>
    /\ evalCh' = [evalCh EXCEPT ![r] = Tail(@)]
    /\ job' = [job EXCEPT ![r] = Head(evalCh[r]).rule]
    /\ attempt' = [attempt EXCEPT ![r] = 1]
    /\ rpc' = [rpc EXCEPT ![r] = "attempt"]
    /\ UNCHANGED <<states, fingerprint, current, updateCh, panicked>>
    /\ UnchangedByRoutine

(* Back to the select of the routine. *)
FinishJob(r) ==
    /\ rpc' = [rpc EXCEPT ![r] = "select"]
    /\ job' = [job EXCEPT ![r] = None]
    /\ attempt' = [attempt EXCEPT ![r] = 0]

(* Mutant: a rule found paused at the start keeps the states it had. *)
NeedResetOnChange(r) ==
    fingerprint[r] # None /\ fingerprint[r] # job[r].content

NeedReset(r) ==
    \/ fingerprint[r] # None /\ fingerprint[r] # job[r].content
    \/ fingerprint[r] = None /\ job[r].content \in Paused

(* The top of the loop over attempts, up to the check of the context. *)
BeginAttempt(r) ==
    /\ Running
    /\ rpc[r] = "attempt"
    /\ IF NeedReset(r) THEN ResetState(r) ELSE UNCHANGED <<states, panicked>>
    /\ SetFingerprint(r, job[r])
    /\ IF job[r].content \in Paused \/ CtxDone(r)
       THEN FinishJob(r)
       ELSE /\ rpc' = [rpc EXCEPT ![r] = "evaluating"]
            /\ UNCHANGED <<job, attempt>>
    /\ UNCHANGED channelVars
    /\ UnchangedByRoutine

(* The evaluation returns and the context is found cancelled. *)
EvaluateCancelled(r) ==
    /\ Running
    /\ rpc[r] = "evaluating"
    /\ CtxDone(r)
    /\ FinishJob(r)
    /\ UNCHANGED <<states, fingerprint, current, channelVars, panicked>>
    /\ UnchangedByRoutine

(* It returns results, or an error that is not retried. *)
EvaluateReturns(r) ==
    /\ Running
    /\ rpc[r] = "evaluating"
    /\ ~CtxDone(r)
    /\ rpc' = [rpc EXCEPT ![r] = "process"]
    /\ UNCHANGED <<states, fingerprint, current, job, attempt, channelVars, panicked>>
    /\ UnchangedByRoutine

(* Mutant: the last attempt is retried, too. *)
EvaluateFailsAlways(r) ==
    /\ Running
    /\ rpc[r] = "evaluating"
    /\ ~CtxDone(r)
    /\ attempt[r] <= MaxAttempts
    /\ rpc' = [rpc EXCEPT ![r] = "backoff"]
    /\ UNCHANGED <<states, fingerprint, current, job, attempt, channelVars, panicked>>
    /\ UnchangedByRoutine

(* It returns an error that is. *)
EvaluateFails(r) ==
    /\ Running
    /\ rpc[r] = "evaluating"
    /\ ~CtxDone(r)
    /\ attempt[r] < MaxAttempts
    /\ rpc' = [rpc EXCEPT ![r] = "backoff"]
    /\ UNCHANGED <<states, fingerprint, current, job, attempt, channelVars, panicked>>
    /\ UnchangedByRoutine

(* case <-time.After(retryDelay) *)
Retry(r) ==
    /\ Running
    /\ rpc[r] = "backoff"
    /\ attempt' = [attempt EXCEPT ![r] = @ + 1]
    /\ rpc' = [rpc EXCEPT ![r] = "attempt"]
    /\ UNCHANGED <<states, fingerprint, current, job, channelVars, panicked>>
    /\ UnchangedByRoutine

(* case <-tracingCtx.Done() *)
BackoffCancelled(r) ==
    /\ Running
    /\ rpc[r] = "backoff"
    /\ CtxDone(r)
    /\ FinishJob(r)
    /\ UNCHANGED <<states, fingerprint, current, channelVars, panicked>>
    /\ UnchangedByRoutine

(* Manager.ProcessEvalResults and the send of the alerts.  The context is  *)
(* not looked at again.                                                    *)
ProcessResults(r) ==
    /\ Running
    /\ rpc[r] = "process"
    /\ states' = [states EXCEPT ![owner[r]] = job[r].content]
    /\ FinishJob(r)
    /\ UNCHANGED <<fingerprint, current, channelVars, panicked>>
    /\ UnchangedByRoutine

(* Mutants: no clean-up; only a deletion is noticed. *)
RoutineDoneNoCleanup(r) ==
    /\ Running
    /\ rpc[r] = "select"
    /\ CtxDone(r)
    /\ rpc' = [rpc EXCEPT ![r] = "exited"]
    /\ UNCHANGED <<states, fingerprint, current, job, attempt, channelVars, panicked>>
    /\ UnchangedByRoutine

RoutineDoneIfDeleted(r) ==
    /\ Running
    /\ rpc[r] = "select"
    /\ stopped[r]
    /\ rpc' = [rpc EXCEPT ![r] = "exited"]
    /\ states' = [states EXCEPT ![owner[r]] = None]
    /\ UNCHANGED <<fingerprint, current, job, attempt, channelVars, panicked>>
    /\ UnchangedByRoutine

(* case <-grafanaCtx.Done(): the states are deleted only if the rule was. *)
RoutineDone(r) ==
    /\ Running
    /\ rpc[r] = "select"
    /\ CtxDone(r)
    /\ rpc' = [rpc EXCEPT ![r] = "exited"]
    /\ states' = IF stopped[r] THEN [states EXCEPT ![owner[r]] = None] ELSE states
    /\ UNCHANGED <<fingerprint, current, job, attempt, channelVars, panicked>>
    /\ UnchangedByRoutine

-----------------------------------------------------------------------------
Api(k) == InsertAlertRule(k) \/ UpdateAlertRule(k) \/ DeleteAlertRule(k)

Scheduling ==
    \/ Tick \/ TickKeysFail \/ FetchRules \/ FetchRulesFails
    \/ \E k \in Keys : DispatchKnown(k) \/ DeleteRule(k)
    \/ \E k \in Keys, r \in Routines : DispatchNew(k, r)
    \/ SetTimers \/ Shutdown \/ SeeShutdown \/ RoutinesJoined

Handing ==
    \/ \E e \in timers : EvalDrain(e)
    \/ \E e \in draining : EvalSend(e)
    \/ \E u \in updates : UpdateDrain(u)
    \/ \E u \in posting : UpdateSend(u)

Routine(r) ==
    \/ ReceiveSameUpdate(r) \/ ReceiveUpdate(r) \/ ReceiveEval(r)
    \/ BeginAttempt(r)
    \/ EvaluateCancelled(r) \/ EvaluateReturns(r) \/ EvaluateFails(r)
    \/ Retry(r) \/ BackoffCancelled(r)
    \/ ProcessResults(r) \/ RoutineDone(r)

Next ==
    \/ \E k \in Keys : Api(k)
    \/ Scheduling
    \/ Handing
    \/ \E r \in Routines : Routine(r)

Spec == Init /\ [][Next]_vars

(* The Go runtime schedules every goroutine; a select picks at random      *)
(* among the ready cases, so none is passed over for ever; a query of the  *)
(* database does not fail for ever; an evaluation returns, because its     *)
(* context and the data source client have timeouts.  Nothing obliges the  *)
(* API to write or anybody to shut down.                                   *)
Fairness ==
    /\ SF_vars(Tick) /\ SF_vars(FetchRules)
    /\ WF_vars(SetTimers) /\ SF_vars(SeeShutdown) /\ WF_vars(RoutinesJoined)
    /\ \A k \in Keys :
         /\ WF_vars(DispatchKnown(k) \/ \E r \in Routines : DispatchNew(k, r))
         /\ WF_vars(DeleteRule(k))
    /\ \A r \in Routines :
         /\ SF_vars(ReceiveSameUpdate(r) \/ ReceiveUpdate(r))
         /\ SF_vars(ReceiveEval(r))
         /\ SF_vars(RoutineDone(r))
         /\ WF_vars(BeginAttempt(r))
         /\ WF_vars(EvaluateCancelled(r) \/ EvaluateReturns(r) \/ EvaluateFails(r))
         /\ WF_vars(Retry(r) \/ BackoffCancelled(r))
         /\ WF_vars(ProcessResults(r))
    /\ WF_vars(\E e \in timers : EvalDrain(e))
    /\ WF_vars(\E e \in draining : EvalSend(e))
    /\ WF_vars(\E u \in updates : UpdateDrain(u))
    /\ WF_vars(\E u \in posting : UpdateSend(u))

FairSpec == Spec /\ Fairness

-----------------------------------------------------------------------------
(* Safety *)

Ended == cancelled \/ panicked

Working(r) == rpc[r] \notin {"unused", "exited"}

(* Between the deletion of a rule and the end of its routine a second one  *)
(* may already work for the same key.                                      *)
StillEnding(k) == \E r \in Routines : owner[r] = k /\ stopped[r] /\ Working(r)

(* A key has at most one routine that is not stopped, and it is the one in *)
(* the registry: deleteAlertRule and getOrCreateInfo never leave a routine *)
(* running that nobody can stop any more.                                  *)
OneLiveRoutine ==
    /\ \A r \in Routines :
         owner[r] # None /\ ~stopped[r] => registry[owner[r]] = r
    /\ \A k \in Keys :
         registry[k] # None => owner[registry[k]] = k /\ ~stopped[registry[k]]

(* Between two ticks there is a routine for each rule fetched and for no   *)
(* other, whichever queries of processTick failed.                         *)
RegistryInSync ==
    pc \in {"idle", "waiting", "done"} => RulesIn(registry) = RulesIn(fetched)

(* The states of a rule never mix what two versions of it evaluated to:    *)
(* they come from the fingerprint the routine holds, a paused rule has     *)
(* none, and those from before the start are dropped when it is paused.    *)
(* It takes every reset in ruleRoutine, for any order of updates and       *)
(* evaluations, to make this so.  (A shutdown stops routines whose rule is *)
(* deleted in the same instant without cleaning up.)                       *)
StatesMatchFingerprint ==
    Ended \/ \A k \in Keys :
        LET r == registry[k] IN
        (r # None /\ ~StillEnding(k)) =>
            /\ states[k] \in Contents => states[k] = fingerprint[r]
            /\ fingerprint[r] \in Paused => states[k] = None

(* Alert states belong to a working routine: the one that stops a deleted  *)
(* rule takes them along, even if an evaluation was under way.  Only a     *)
(* shutdown leaves states behind, and a rule deleted before the first tick *)
(* saw it those that Warm had read.                                        *)
NoOrphanedStates ==
    \A k \in Keys : states[k] # None =>
        \/ cancelled
        \/ \E r \in Routines : owner[r] = k /\ Working(r)
        \/ states[k] = "warm" /\ \A r \in Routines : owner[r] # k

-----------------------------------------------------------------------------
(* Liveness *)

SendersOf(r) ==
    {e \in timers \cup draining : e.routine = r}
        \cup {u \in updates \cup posting : u.routine = r}

(* The states of a rule that stays deleted go away for good, unless it was *)
(* deleted before the scheduler ever saw it.                               *)
DeletedIsCleaned ==
    \A k \in Keys :
        <>[](db[k] = None) =>
            <>[](states[k] = None \/ Ended \/ \A r \in Routines : owner[r] # k)

(* A rule that stays paused has no states in the end, although older       *)
(* evaluations and updates may still reach its routine.  (If its key was   *)
(* deleted before, the rule may be taken for another; see FollowsDatabase.)*)
PausedIsCleaned ==
    \A k \in Keys :
        <>[](db[k] # None /\ db[k].content \in Paused /\ k \notin retired) =>
            <>[](states[k] = None \/ Ended)

(* A rule that stays as it is is evaluated again and again as it is, and   *)
(* in the end never as it was: slow evaluations do not starve it, and no   *)
(* update is lost on the way to the evaluation, though queries fail and    *)
(* messages come late.  This is said of rules whose key was never deleted: *)
(* needsUpdate takes a rule for the one that had its key and version       *)
(* before.                                                                 *)
FollowsDatabase ==
    \A k \in Keys, c \in Contents \ Paused :
        <>[](db[k] # None /\ db[k].content = c /\ k \notin retired) =>
            \/ <>Ended
            \/ /\ []<>(\E r \in Routines : owner[r] = k /\ rpc[r] = "evaluating")
               /\ <>[](\A r \in Routines :
                         owner[r] = k /\ rpc[r] = "evaluating" => job[r].content = c)

(* A shutdown waits for the routines and comes to an end. *)
ShutdownCompletes == cancelled ~> (pc = "done" \/ panicked)

(* No goroutine is left behind by a routine that was stopped: whoever was  *)
(* about to hand something to it gives up.                                 *)
SendersReleased ==
    \A r \in Routines : CtxDone(r) ~> (SendersOf(r) = {} \/ panicked)

-----------------------------------------------------------------------------
(* Statements of the source that the code does not keep *)

(* ResetStateByRuleUID: "rule must not be nil". *)
RuleIsNotNil == ~panicked

(* updateSchedulableAlertRules skips the second query because "No changes  *)
(* detected": the rules it has say what those in the database say.         *)
SkipMeansUnchanged ==
    [][(Tick /\ pc' = "dispatch") =>
         \A k \in RulesIn(db) : fetched[k].content = db[k].content]_vars
=============================================================================
