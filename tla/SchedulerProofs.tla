-------------------------- MODULE SchedulerProofs --------------------------
(***************************************************************************)
(* The scheduler for any rules, any number of routines and any number of   *)
(* attempts: its types, one live routine for each key, registries that     *)
(* agree between two ticks, and cached states that are those of the rule   *)
(* as its routine knows it.                                                *)
(***************************************************************************)
EXTENDS Scheduler, TLAPS

(* A routine has a key from its start on, and a rule while it evaluates.   *)
RoutineData(r) ==
    /\ rpc[r] = "unused" => owner[r] = None /\ ~stopped[r]
    /\ rpc[r] # "unused" => owner[r] \in Keys
    /\ rpc[r] \in {"attempt", "evaluating", "process", "backoff"} => job[r] \in Rules
    /\ rpc[r] = "backoff" => attempt[r] < MaxAttempts

(* What processTick still has to do: the rules in `pending' get a routine, *)
(* the routines in `registered' are of rules that may be gone, and all the *)
(* others have their routine, and no other routine exists.                 *)
InLoop ==
    /\ pending \subseteq RulesIn(fetched)
    /\ RulesIn(fetched) \ pending \subseteq RulesIn(registry)
    /\ RulesIn(registry) \subseteq RulesIn(fetched) \cup registered
    /\ registered \subseteq RulesIn(registry)
    /\ registered \cap RulesIn(fetched) \subseteq pending

InDeletion ==
    /\ RulesIn(registry) = RulesIn(fetched) \cup registered
    /\ registered \cap RulesIn(fetched) = {}

TickInSync ==
    /\ RegistryInSync
    /\ pc = "dispatch" => InLoop
    /\ pc = "delete" => InDeletion

IInv ==
    /\ TypeOK
    /\ \A r \in Routines : RoutineData(r)
    /\ TickInSync
    /\ OneLiveRoutine

-----------------------------------------------------------------------------
LEMMA InitIInv == Init => IInv
<1> SUFFICES ASSUME Init PROVE IInv
  OBVIOUS
<1> USE SchedulerAssumption DEF Init
<1>1. db \in [Keys -> Rules \cup {None}]
  BY DEF Rules
<1>2. TypeOK
  <2>1. 1 \in 0..MaxWrites /\ 0 \in Ticks /\ 0 \in 0..MaxAttempts
    BY DEF Ticks
  <2>2. states \in [Keys -> Contents \cup {"warm", None}]
    OBVIOUS
  <2>3. /\ evalCh \in [Routines -> Seq(Evaluations)]
        /\ updateCh \in [Routines -> Seq(Updates)]
    OBVIOUS
  <2> HIDE SchedulerAssumption
  <2> QED
    BY <1>1, <2>1, <2>2, <2>3 DEF TypeOK
<1>3. \A r \in Routines : RoutineData(r)
  BY DEF RoutineData
<1>4. TickInSync
  BY DEF TickInSync, RegistryInSync, RulesIn
<1>5. OneLiveRoutine
  BY DEF OneLiveRoutine
<1> QED
  BY <1>2, <1>3, <1>4, <1>5 DEF IInv

(* The users of the API touch only the database. *)
LEMMA ApiIInv ==
    ASSUME IInv, NEW k \in Keys, Api(k)
    PROVE  IInv'
<1> USE SchedulerAssumption DEF IInv
<1>1. WriteDb
  BY DEF Api, InsertAlertRule, UpdateAlertRule, DeleteAlertRule
<1> USE <1>1 DEF WriteDb, tickVars, routineVars, channelVars, senderVars, processVars
<1>2. /\ writes' \in 0..MaxWrites
      /\ writes' \in Nat
  BY DEF TypeOK
<1>3. db' \in [Keys -> Rules \cup {None}] /\ retired' \subseteq Keys
  <2>1. CASE InsertAlertRule(k)
    <3>1. PICK c \in Contents :
            db' = [db EXCEPT ![k] = [version |-> 1, content |-> c, rev |-> writes']]
      BY <2>1 DEF InsertAlertRule
    <3>2. [version |-> 1, content |-> c, rev |-> writes'] \in Rules
      BY <1>2 DEF Rules
    <3> QED
      BY <2>1, <3>1, <3>2 DEF InsertAlertRule, TypeOK
  <2>2. CASE UpdateAlertRule(k)
    <3>1. PICK c \in Contents :
            db' = [db EXCEPT ![k] = [version |-> db[k].version + 1,
                                     content |-> c, rev |-> writes']]
      BY <2>2 DEF UpdateAlertRule
    <3>2. db[k] \in Rules
      BY <2>2 DEF UpdateAlertRule, TypeOK
    <3>3. [version |-> db[k].version + 1, content |-> c, rev |-> writes'] \in Rules
      BY <1>2, <3>2 DEF Rules
    <3> QED
      BY <2>2, <3>1, <3>3 DEF UpdateAlertRule, TypeOK
  <2>3. CASE DeleteAlertRule(k)
    BY <2>3 DEF DeleteAlertRule, TypeOK
  <2> QED
    BY <2>1, <2>2, <2>3 DEF Api
<1>4. TypeOK'
  BY <1>2, <1>3 DEF TypeOK
<1>5. (\A r \in Routines : RoutineData(r))'
  BY DEF RoutineData
<1>6. TickInSync'
  BY DEF TickInSync, RegistryInSync, InLoop, InDeletion, RulesIn
<1>7. OneLiveRoutine'
  BY DEF OneLiveRoutine
<1> QED
  BY <1>4, <1>5, <1>6, <1>7

-----------------------------------------------------------------------------
(* The loop over the rules begins with nothing done. *)
LEMMA StartInLoop ==
    ASSUME NEW rules, fetched' = rules, StartDispatch(rules), UNCHANGED registry
    PROVE  TickInSync'
<1>1. InLoop'
  BY DEF StartDispatch, InLoop, RulesIn
<1> QED
  BY <1>1 DEF StartDispatch, TickInSync, RegistryInSync

LEMMA QueryIInv ==
    ASSUME IInv, Tick \/ TickKeysFail \/ FetchRules \/ FetchRulesFails
    PROVE  IInv'
<1> USE SchedulerAssumption DEF IInv
<1>1. UNCHANGED <<registry, senderVars>> /\ UnchangedByTick
  BY DEF Tick, TickKeysFail, FetchRules, FetchRulesFails
<1> USE <1>1 DEF UnchangedByTick, senderVars, routineVars, channelVars, dbVars, processVars
<1>2. (tick + 1) % Cycle \in Ticks
  BY DEF TypeOK, Ticks
<1>3. TypeOK' /\ TickInSync'
  <2>1. CASE Tick /\ pc' = "fetch"
    <3>1. UNCHANGED <<fetched, updated, pending, registered, readyToRun>>
      BY <2>1 DEF Tick, StartDispatch
    <3>2. tick' \in Ticks
      BY <1>2, <2>1 DEF Tick
    <3>3. TypeOK'
      BY <2>1, <3>1, <3>2 DEF TypeOK
    <3> QED
      BY <2>1, <3>3 DEF TickInSync, RegistryInSync
  <2>2. CASE ~(Tick /\ pc' = "fetch")
    <3>1. /\ fetched' \in [Keys -> Rules \cup {None}]
          /\ StartDispatch(fetched')
          /\ updated' \subseteq Keys
          /\ tick' \in Ticks
      <4>1. CASE Tick
        BY <1>2, <2>2, <4>1 DEF Tick, TypeOK
      <4>2. CASE TickKeysFail
        BY <1>2, <4>2 DEF TickKeysFail, TypeOK
      <4>3. CASE FetchRules
        BY <4>3 DEF FetchRules, TypeOK, Diff, RulesIn
      <4>4. CASE FetchRulesFails
        BY <4>4 DEF FetchRulesFails, TypeOK
      <4> QED
        BY <4>1, <4>2, <4>3, <4>4
    <3>2. TypeOK'
      BY <3>1 DEF TypeOK, StartDispatch, RulesIn
    <3>3. TickInSync'
      BY <3>1, StartInLoop
    <3> QED
      BY <3>2, <3>3
  <2> QED
    BY <2>1, <2>2
<1>4. (\A r \in Routines : RoutineData(r))'
  BY DEF RoutineData
<1>5. OneLiveRoutine'
  BY DEF OneLiveRoutine
<1> QED
  BY <1>3, <1>4, <1>5

(* Handing out one rule in the loop, to a routine that is registered by    *)
(* then. *)
LEMMA DispatchInLoop ==
    ASSUME IInv, pc = "dispatch", NEW k \in pending, NEW r \in Routines,
           Dispatch(k, r),
           registry' \in [Keys -> Routines \cup {None}], registry'[k] = r,
           \A q \in Keys : q # k => registry'[q] = registry[q]
    PROVE  /\ TickInSync'
           /\ readyToRun' \subseteq Evaluations
           /\ updates' \subseteq Updates
           /\ pending' \subseteq Keys /\ registered' \subseteq Keys
<1> USE SchedulerAssumption DEF IInv
<1>1. InLoop /\ k \in Keys /\ r # None
  BY DEF TickInSync, TypeOK
<1>2. fetched[k] \in Rules
  BY <1>1 DEF InLoop, RulesIn, TypeOK
<1>3. /\ UNCHANGED <<pc, fetched>>
      /\ pending' = pending \ {k}
      /\ registered' = registered \ {k}
  BY DEF Dispatch
<1>4. InLoop'
  BY <1>1, <1>3 DEF InLoop, RulesIn
<1>5. TickInSync'
  BY <1>3, <1>4 DEF TickInSync, RegistryInSync
<1>6. /\ [routine |-> r, tick |-> tick, rule |-> fetched[k]] \in Evaluations
      /\ [routine |-> r, rule |-> fetched[k]] \in Updates
  BY <1>2 DEF Evaluations, Updates, TypeOK
<1>7. readyToRun' \subseteq Evaluations /\ updates' \subseteq Updates
  BY <1>6 DEF Dispatch, TypeOK
<1> QED
  BY <1>3, <1>5, <1>7 DEF TypeOK

LEMMA DispatchKnownIInv ==
    ASSUME IInv, NEW k \in Keys, DispatchKnown(k)
    PROVE  IInv'
<1> USE SchedulerAssumption DEF IInv
<1> USE DEF DispatchKnown, UnchangedByTick, routineVars, channelVars, dbVars, processVars
<1>1. registry[k] \in Routines
  BY DEF TypeOK
<1>2. /\ TickInSync'
      /\ readyToRun' \subseteq Evaluations
      /\ updates' \subseteq Updates
      /\ pending' \subseteq Keys /\ registered' \subseteq Keys
  <2>1. registry' \in [Keys -> Routines \cup {None}]
    BY DEF TypeOK
  <2> QED
    BY <1>1, <2>1, DispatchInLoop
<1>3. TypeOK'
  BY <1>2 DEF Dispatch, TypeOK
<1>4. (\A r \in Routines : RoutineData(r))'
  BY DEF RoutineData
<1>5. OneLiveRoutine'
  BY DEF OneLiveRoutine
<1> QED
  BY <1>2, <1>3, <1>4, <1>5

(* The new routine takes a key that had none. *)
LEMMA DispatchNewIInv ==
    ASSUME IInv, NEW k \in Keys, NEW r \in Routines, DispatchNew(k, r)
    PROVE  IInv'
<1> USE SchedulerAssumption DEF IInv
<1> USE DEF DispatchNew, channelVars, dbVars, processVars
<1>1. /\ registry' \in [Keys -> Routines \cup {None}]
      /\ owner' \in [Routines -> Keys \cup {None}]
      /\ rpc' \in [Routines -> {"unused", "select", "attempt", "evaluating",
                                "process", "backoff", "exited"}]
  BY DEF TypeOK
<1>2. /\ TickInSync'
      /\ readyToRun' \subseteq Evaluations
      /\ updates' \subseteq Updates
      /\ pending' \subseteq Keys /\ registered' \subseteq Keys
  <2>1. registry'[k] = r /\ \A q \in Keys : q # k => registry'[q] = registry[q]
    BY DEF TypeOK
  <2> QED
    BY <1>1, <2>1, DispatchInLoop
<1>3. TypeOK'
  BY <1>1, <1>2 DEF Dispatch, TypeOK
<1>4. (\A q \in Routines : RoutineData(q))'
  BY DEF RoutineData, TypeOK
<1>5. OneLiveRoutine'
  <2>1. owner[r] = None /\ ~stopped[r]
    BY DEF RoutineData
  <2>2. \A q \in Keys : registry[q] # r
    BY <2>1 DEF OneLiveRoutine
  <2>3. ASSUME NEW q \in Routines, owner'[q] # None, ~stopped'[q]
        PROVE  registry'[owner'[q]] = q
    BY <2>3 DEF OneLiveRoutine, TypeOK
  <2>4. ASSUME NEW q \in Keys, registry'[q] # None
        PROVE  owner'[registry'[q]] = q /\ ~stopped'[registry'[q]]
    <3>1. CASE q = k
      BY <2>1, <3>1 DEF TypeOK
    <3>2. CASE q # k
      BY <2>2, <2>4, <3>2 DEF OneLiveRoutine, TypeOK
    <3> QED
      BY <3>1, <3>2
  <2> QED
    BY <2>3, <2>4 DEF OneLiveRoutine
<1> QED
  BY <1>2, <1>3, <1>4, <1>5

(* The loop ends: what is left in `registered' is exactly what has to go.  *)
LEMMA SetTimersIInv == IInv /\ SetTimers => IInv'
<1> SUFFICES ASSUME IInv, SetTimers PROVE IInv'
  OBVIOUS
<1> USE SchedulerAssumption DEF IInv
<1> USE DEF SetTimers, UnchangedByTick, routineVars, channelVars, dbVars, processVars
<1>1. TypeOK'
  BY DEF TypeOK
<1>2. TickInSync'
  <2>1. InDeletion
    BY DEF TickInSync, InLoop, InDeletion
  <2>2. CASE registered = {}
    BY <2>1, <2>2 DEF InDeletion, TickInSync, RegistryInSync, RulesIn
  <2>3. CASE registered # {}
    BY <2>1, <2>3 DEF InDeletion, TickInSync, RegistryInSync, RulesIn
  <2> QED
    BY <2>2, <2>3
<1>3. (\A r \in Routines : RoutineData(r))'
  BY DEF RoutineData
<1>4. OneLiveRoutine'
  BY DEF OneLiveRoutine
<1> QED
  BY <1>1, <1>2, <1>3, <1>4

LEMMA DeleteRuleIInv ==
    ASSUME IInv, NEW k \in Keys, DeleteRule(k)
    PROVE  IInv'
<1> USE SchedulerAssumption DEF IInv
<1> USE DEF DeleteRule, dbVars, senderVars, processVars
<1>1. InDeletion
  BY DEF TickInSync
<1>2. registry[k] \in Routines
  BY <1>1 DEF InDeletion, RulesIn, TypeOK
<1>3. TypeOK'
  <2>1. /\ fetched' \in [Keys -> Rules \cup {None}]
        /\ registry' \in [Keys -> Routines \cup {None}]
        /\ stopped' \in [Routines -> BOOLEAN]
        /\ registered' \subseteq Keys
    BY <1>2 DEF TypeOK
  <2>2. evalCh' \in [Routines -> Seq(Evaluations)]
    BY <1>2 DEF TypeOK
  <2>3. updateCh' \in [Routines -> Seq(Updates)]
    BY <1>2 DEF TypeOK
  <2> QED
    BY <2>1, <2>2, <2>3 DEF TypeOK
<1>4. TickInSync'
  <2>1. /\ RulesIn(registry)' = RulesIn(registry) \ {k}
        /\ RulesIn(fetched)' = RulesIn(fetched) \ {k}
    BY DEF RulesIn, TypeOK
  <2>2. k \in registered /\ registered' = registered \ {k}
    OBVIOUS
  <2>3. InDeletion'
    BY <1>1, <2>1, <2>2 DEF InDeletion
  <2>4. CASE registered' = {}
    BY <2>3, <2>4 DEF InDeletion, TickInSync, RegistryInSync
  <2>5. CASE registered' # {}
    BY <2>3, <2>5 DEF TickInSync, RegistryInSync
  <2> QED
    BY <2>4, <2>5
<1>5. (\A r \in Routines : RoutineData(r))'
  <2>1. owner[registry[k]] = k
    BY <1>2 DEF OneLiveRoutine
  <2>2. rpc[registry[k]] # "unused"
    BY <1>2, <2>1 DEF RoutineData
  <2> QED
    BY <1>2, <2>2 DEF RoutineData, TypeOK
<1>6. OneLiveRoutine'
  <2>1. ASSUME NEW r \in Routines, owner'[r] # None, ~stopped'[r]
        PROVE  registry'[owner'[r]] = r
    <3>1. r # registry[k] /\ ~stopped[r] /\ owner[r] \in Keys
      BY <1>2, <2>1 DEF TypeOK
    <3> QED
      BY <2>1, <3>1 DEF OneLiveRoutine, TypeOK
  <2>2. ASSUME NEW q \in Keys, registry'[q] # None
        PROVE  owner'[registry'[q]] = q /\ ~stopped'[registry'[q]]
    <3>1. q # k /\ registry'[q] = registry[q] /\ registry[q] \in Routines
      BY <2>2 DEF TypeOK
    <3>2. registry[q] # registry[k]
      BY <1>2, <3>1 DEF OneLiveRoutine
    <3> QED
      BY <1>2, <3>1, <3>2 DEF OneLiveRoutine, TypeOK
  <2> QED
    BY <2>1, <2>2 DEF OneLiveRoutine
<1> QED
  BY <1>3, <1>4, <1>5, <1>6

(* A shutdown empties the channels and moves schedulePeriodic along. *)
LEMMA ShutdownIInv ==
    IInv /\ (Shutdown \/ SeeShutdown \/ RoutinesJoined) => IInv'
<1> SUFFICES ASSUME IInv, Shutdown \/ SeeShutdown \/ RoutinesJoined PROVE IInv'
  OBVIOUS
<1> USE DEF IInv, UnchangedByTick, tickVars, routineVars, channelVars, senderVars,
            dbVars, processVars
<1>1. TypeOK'
  <2>1. CASE Shutdown
    <3>1. /\ evalCh' \in [Routines -> Seq(Evaluations)]
          /\ updateCh' \in [Routines -> Seq(Updates)]
      BY <2>1 DEF Shutdown
    <3> QED
      BY <2>1, <3>1 DEF Shutdown, TypeOK
  <2>2. CASE SeeShutdown \/ RoutinesJoined
    BY <2>2 DEF SeeShutdown, RoutinesJoined, TypeOK
  <2> QED
    BY <2>1, <2>2
<1>2. TickInSync'
  BY DEF Shutdown, SeeShutdown, RoutinesJoined, TickInSync, RegistryInSync, InLoop,
         InDeletion, RulesIn
<1>3. (\A r \in Routines : RoutineData(r))'
  BY DEF Shutdown, SeeShutdown, RoutinesJoined, RoutineData
<1>4. OneLiveRoutine'
  BY DEF Shutdown, SeeShutdown, RoutinesJoined, OneLiveRoutine
<1> QED
  BY <1>1, <1>2, <1>3, <1>4

-----------------------------------------------------------------------------
(* What neither schedulePeriodic nor a write to the database does leaves   *)
(* the registries and the owners of the routines alone. *)
LEMMA RegistriesKept ==
    ASSUME IInv, UNCHANGED <<tickVars, registry, owner, stopped>>
    PROVE  TickInSync' /\ OneLiveRoutine'
  BY DEF IInv, tickVars, TickInSync, RegistryInSync, InLoop, InDeletion, RulesIn,
         OneLiveRoutine

LEMMA TailOfSeq ==
    ASSUME NEW S, NEW s \in Seq(S), s # <<>>
    PROVE  Tail(s) \in Seq(S) /\ Head(s) \in S
  OBVIOUS

(* The goroutines that hand over move messages into the channels. *)
LEMMA HandingIInv == IInv /\ Handing => IInv'
<1> SUFFICES ASSUME IInv, Handing PROVE IInv'
  OBVIOUS
<1> USE DEF IInv, UnchangedBySender, tickVars, routineVars, channelVars, dbVars,
            processVars
<1>1. UnchangedBySender
  BY DEF Handing, EvalDrain, EvalSend, UpdateDrain, UpdateSend
<1>2. /\ timers' \subseteq Evaluations /\ draining' \subseteq Evaluations
      /\ updates' \subseteq Updates /\ posting' \subseteq Updates
      /\ evalCh' \in [Routines -> Seq(Evaluations)]
      /\ updateCh' \in [Routines -> Seq(Updates)]
  <2>1. ASSUME NEW e \in timers, EvalDrain(e)
        PROVE  <1>2!:
    <3>1. e \in Evaluations /\ e.routine \in Routines
      BY DEF TypeOK, Evaluations
    <3>2. evalCh' \in [Routines -> Seq(Evaluations)]
      BY <2>1, <3>1, TailOfSeq DEF EvalDrain, TypeOK
    <3> QED
      BY <2>1, <3>1, <3>2 DEF EvalDrain, TypeOK
  <2>2. ASSUME NEW e \in draining, EvalSend(e)
        PROVE  <1>2!:
    <3>1. e \in Evaluations /\ e.routine \in Routines
      BY DEF TypeOK, Evaluations
    <3>2. evalCh' \in [Routines -> Seq(Evaluations)]
      BY <2>2, <3>1 DEF EvalSend, TypeOK
    <3> QED
      BY <2>2, <3>1, <3>2 DEF EvalSend, TypeOK
  <2>3. ASSUME NEW u \in updates, UpdateDrain(u)
        PROVE  <1>2!:
    <3>1. u \in Updates /\ u.routine \in Routines
      BY DEF TypeOK, Updates
    <3>2. updateCh' \in [Routines -> Seq(Updates)]
      BY <2>3, <3>1, TailOfSeq DEF UpdateDrain, TypeOK
    <3> QED
      BY <2>3, <3>1, <3>2 DEF UpdateDrain, TypeOK
  <2>4. ASSUME NEW u \in posting, UpdateSend(u)
        PROVE  <1>2!:
    <3>1. u \in Updates /\ u.routine \in Routines
      BY DEF TypeOK, Updates
    <3>2. updateCh' \in [Routines -> Seq(Updates)]
      BY <2>4, <3>1 DEF UpdateSend, TypeOK
    <3> QED
      BY <2>4, <3>1, <3>2 DEF UpdateSend, TypeOK
  <2> QED
    BY <2>1, <2>2, <2>3, <2>4 DEF Handing
<1>3. TypeOK'
  BY <1>1, <1>2 DEF TypeOK
<1>4. (\A r \in Routines : RoutineData(r))'
  BY <1>1 DEF RoutineData
<1> QED
  BY <1>1, <1>3, <1>4, RegistriesKept

(* A routine changes its own variables, its channels and the states of its *)
(* key. *)
LEMMA RoutineIInv ==
    ASSUME IInv, NEW r \in Routines, Routine(r)
    PROVE  IInv'
<1> USE SchedulerAssumption DEF IInv, tickVars, senderVars, dbVars, channelVars
<1>1. UnchangedByRoutine
  BY DEF Routine, ReceiveSameUpdate, ReceiveUpdate, ReceiveEval, BeginAttempt,
         EvaluateCancelled, EvaluateReturns, EvaluateFails, Retry,
         BackoffCancelled, ProcessResults, RoutineDone
<1> USE <1>1 DEF UnchangedByRoutine
<1>2. TickInSync' /\ OneLiveRoutine'
  BY RegistriesKept
<1>3. rpc[r] # "unused" => owner[r] \in Keys
  BY DEF RoutineData
<1> DEFINE Types ==
      /\ states' \in [Keys -> Contents \cup {"warm", None}]
      /\ rpc' \in [Routines -> {"unused", "select", "attempt", "evaluating",
                                "process", "backoff", "exited"}]
      /\ fingerprint' \in [Routines -> Contents \cup {None}]
      /\ current' \in [Routines -> Rules \cup {None}]
      /\ job' \in [Routines -> Rules \cup {None}]
      /\ attempt' \in [Routines -> 0..MaxAttempts]
      /\ evalCh' \in [Routines -> Seq(Evaluations)]
      /\ updateCh' \in [Routines -> Seq(Updates)]
      /\ panicked' \in BOOLEAN
<1>4. ASSUME Types PROVE TypeOK'
  BY <1>4 DEF TypeOK
<1> DEFINE Data == \A q \in Routines : RoutineData(q)'
<1>5. ASSUME ResetState(r), rpc[r] # "unused"
      PROVE  states' \in [Keys -> Contents \cup {"warm", None}] /\ panicked' \in BOOLEAN
  BY <1>3, <1>5 DEF ResetState, TypeOK
<1>6. ASSUME NEW rule \in Rules, SetFingerprint(r, rule)
      PROVE  /\ fingerprint' \in [Routines -> Contents \cup {None}]
             /\ current' \in [Routines -> Rules \cup {None}]
  BY <1>6 DEF SetFingerprint, TypeOK, Rules
<1>f. ASSUME FinishJob(r)
      PROVE  /\ rpc' \in [Routines -> {"unused", "select", "attempt", "evaluating",
                                       "process", "backoff", "exited"}]
             /\ job' \in [Routines -> Rules \cup {None}]
             /\ attempt' \in [Routines -> 0..MaxAttempts]
  BY <1>f DEF FinishJob, TypeOK
<1>7. CASE ReceiveSameUpdate(r)
  <2> USE <1>7 DEF ReceiveSameUpdate
  <2>1. updateCh' \in [Routines -> Seq(Updates)]
    BY TailOfSeq DEF TypeOK
  <2>2. Types
    BY <2>1 DEF TypeOK
  <2>3. Data
    BY DEF RoutineData
  <2> QED
    BY <1>2, <1>4, <2>2, <2>3
<1>8. CASE ReceiveUpdate(r)
  <2> USE <1>8 DEF ReceiveUpdate
  <2>a. /\ Tail(updateCh[r]) \in Seq(Updates)
        /\ Head(updateCh[r]) \in Updates
    BY TailOfSeq DEF TypeOK
  <2>1. /\ updateCh' \in [Routines -> Seq(Updates)]
        /\ Head(updateCh[r]).rule \in Rules
    BY <2>a DEF TypeOK, Updates
  <2>2. Types
    BY <1>5, <1>6, <2>1 DEF TypeOK
  <2>3. Data
    BY DEF RoutineData
  <2> QED
    BY <1>2, <1>4, <2>2, <2>3
<1>9. CASE ReceiveEval(r)
  <2> USE <1>9 DEF ReceiveEval
  <2>a. /\ Tail(evalCh[r]) \in Seq(Evaluations)
        /\ Head(evalCh[r]) \in Evaluations
    BY TailOfSeq DEF TypeOK
  <2>1. /\ evalCh' \in [Routines -> Seq(Evaluations)]
        /\ Head(evalCh[r]).rule \in Rules
    BY <2>a DEF TypeOK, Evaluations
  <2>2. Types
    BY <2>1 DEF TypeOK
  <2>3. Data
    BY <2>1 DEF RoutineData, TypeOK
  <2> QED
    BY <1>2, <1>4, <2>2, <2>3
<1>10. CASE BeginAttempt(r)
  <2> USE <1>10 DEF BeginAttempt
  <2>1. job[r] \in Rules
    BY DEF RoutineData
  <2>2. states' \in [Keys -> Contents \cup {"warm", None}] /\ panicked' \in BOOLEAN
    BY <1>5 DEF TypeOK
  <2>3. /\ rpc' \in [Routines -> {"unused", "select", "attempt", "evaluating",
                                 "process", "backoff", "exited"}]
        /\ job' \in [Routines -> Rules \cup {None}]
        /\ attempt' \in [Routines -> 0..MaxAttempts]
    BY <1>f DEF TypeOK
  <2>t. Types
    BY <1>6, <2>1, <2>2, <2>3 DEF TypeOK
  <2>4. Data
    BY <2>1 DEF FinishJob, RoutineData, TypeOK
  <2> QED
    BY <1>2, <1>4, <2>t, <2>4
<1>11. CASE EvaluateCancelled(r) \/ BackoffCancelled(r)
  <2> USE <1>11 DEF EvaluateCancelled, BackoffCancelled
  <2>1. Types
    BY <1>f DEF TypeOK
  <2>2. Data
    BY DEF FinishJob, RoutineData, TypeOK
  <2> QED
    BY <1>2, <1>4, <2>1, <2>2
<1>12. CASE EvaluateReturns(r) \/ EvaluateFails(r)
  <2> USE <1>12 DEF EvaluateReturns, EvaluateFails
  <2>1. Types
    BY DEF TypeOK
  <2>2. Data
    BY DEF RoutineData, TypeOK
  <2> QED
    BY <1>2, <1>4, <2>1, <2>2
<1>13. CASE Retry(r)
  <2> USE <1>13 DEF Retry
  <2>1. attempt[r] + 1 \in 0..MaxAttempts
    BY DEF RoutineData, TypeOK
  <2>2. Types
    BY <2>1 DEF TypeOK
  <2>3. Data
    BY DEF RoutineData, TypeOK
  <2> QED
    BY <1>2, <1>4, <2>2, <2>3
<1>14. CASE ProcessResults(r)
  <2> USE <1>14 DEF ProcessResults, FinishJob
  <2>1. job[r].content \in Contents /\ owner[r] \in Keys
    BY <1>3 DEF RoutineData, Rules
  <2>2. Types
    BY <2>1 DEF TypeOK
  <2>3. Data
    BY DEF RoutineData, TypeOK
  <2> QED
    BY <1>2, <1>4, <2>2, <2>3
<1>15. CASE RoutineDone(r)
  <2> USE <1>15 DEF RoutineDone
  <2>1. Types
    BY <1>3 DEF TypeOK
  <2>2. Data
    BY DEF RoutineData, TypeOK
  <2> QED
    BY <1>2, <1>4, <2>1, <2>2
<1> QED
  BY <1>7, <1>8, <1>9, <1>10, <1>11, <1>12, <1>13, <1>14, <1>15 DEF Routine

-----------------------------------------------------------------------------
LEMMA NextIInv == IInv /\ [Next]_vars => IInv'
<1>1. IInv /\ UNCHANGED vars => IInv'
  BY DEF vars, dbVars, tickVars, routineVars, channelVars, senderVars, processVars,
         IInv, TypeOK, RoutineData, TickInSync, RegistryInSync, InLoop, InDeletion,
         RulesIn, OneLiveRoutine
<1>2. IInv /\ Scheduling => IInv'
  BY QueryIInv, DispatchKnownIInv, DispatchNewIInv, SetTimersIInv, DeleteRuleIInv,
     ShutdownIInv DEF Scheduling
<1> QED
  BY <1>1, <1>2, ApiIInv, HandingIInv, RoutineIInv DEF Next

LEMMA Invariance == Spec => []IInv
  BY InitIInv, NextIInv, PTL DEF Spec

(* Every variable of the scheduler keeps its type; no rule is retried more *)
(* than maxAttempts times. *)
THEOREM TypeCorrect == Spec => []TypeOK
<1>1. IInv => TypeOK
  BY DEF IInv
<1> QED
  BY <1>1, Invariance, PTL

(* A key has at most one routine that is not stopped, the registered one.  *)
THEOREM OneRoutine == Spec => []OneLiveRoutine
<1>1. IInv => OneLiveRoutine
  BY DEF IInv
<1> QED
  BY <1>1, Invariance, PTL

(* Between two ticks the rules fetched are the rules with a routine, for   *)
(* any number of rules starting and going away on one tick. *)
THEOREM RegistriesAgree == Spec => []RegistryInSync
<1>1. IInv => RegistryInSync
  BY DEF IInv, TickInSync
<1> QED
  BY <1>1, Invariance, PTL
-----------------------------------------------------------------------------
(* The states in the cache.  An evaluation that was begun is one of the    *)
(* fingerprint, and never of a paused rule.  The states of a key are those *)
(* of a working routine, and when a key gets its next routine, those that  *)
(* are left in the cache belong to one that will still take them away.     *)
JobIsCurrent(r) ==
    /\ rpc[r] = "unused" => fingerprint[r] = None
    /\ rpc[r] \in {"evaluating", "process", "backoff"} =>
         fingerprint[r] = job[r].content /\ job[r].content \notin Paused

StatesInv ==
    /\ \A r \in Routines : JobIsCurrent(r)
    /\ NoOrphanedStates
    /\ StatesMatchFingerprint

LEMMA InitStatesInv == Init => StatesInv
<1> SUFFICES ASSUME Init PROVE StatesInv
  OBVIOUS
<1> USE SchedulerAssumption DEF Init
<1>1. \A r \in Routines : JobIsCurrent(r)
  BY DEF JobIsCurrent
<1>2. NoOrphanedStates
  BY DEF NoOrphanedStates
<1>3. StatesMatchFingerprint
  BY DEF StatesMatchFingerprint
<1> QED
  BY <1>1, <1>2, <1>3 DEF StatesInv

(* The steps that neither touch the cache nor what the routines know.      *)
LEMMA StatesInvKept ==
    ASSUME StatesInv,
           UNCHANGED <<states, registry, owner, stopped, rpc, fingerprint, job>>,
           cancelled => cancelled', panicked => panicked'
    PROVE  StatesInv'
<1>1. (\A r \in Routines : JobIsCurrent(r))'
  BY DEF StatesInv, JobIsCurrent
<1>2. NoOrphanedStates'
  BY DEF StatesInv, NoOrphanedStates, Working
<1>3. StatesMatchFingerprint'
  BY DEF StatesInv, StatesMatchFingerprint, Ended, StillEnding, Working
<1> QED
  BY <1>1, <1>2, <1>3 DEF StatesInv

(* The new routine of a key knows no fingerprint, and finds no states but  *)
(* those of Warm, unless a routine of the key is still ending.             *)
LEMMA DispatchNewStatesInv ==
    ASSUME IInv, StatesInv, NEW k \in Keys, NEW r \in Routines, DispatchNew(k, r)
    PROVE  StatesInv'
<1> USE SchedulerAssumption DEF StatesInv, DispatchNew, processVars
<1>t. /\ TypeOK /\ OneLiveRoutine
      /\ owner[r] = None /\ ~stopped[r] /\ fingerprint[r] = None
  BY DEF IInv, RoutineData, JobIsCurrent
<1>1. (\A q \in Routines : JobIsCurrent(q))'
  BY <1>t DEF JobIsCurrent, TypeOK
<1>2. \A q \in Routines : q # r => owner'[q] = owner[q] /\ rpc'[q] = rpc[q]
  BY <1>t DEF TypeOK
<1>3. owner'[r] = k /\ Working(r)'
  BY <1>t DEF TypeOK, Working
<1>4. NoOrphanedStates'
  BY <1>t, <1>2, <1>3 DEF NoOrphanedStates, Working
<1>5. \A q \in Keys : StillEnding(q) => StillEnding(q)'
  BY <1>t, <1>2 DEF StillEnding, Working
<1>6. registry'[k] = r /\ \A q \in Keys : q # k => registry'[q] = registry[q]
  BY <1>t DEF TypeOK
<1>7. ASSUME ~cancelled, states[k] \in Contents PROVE StillEnding(k)
  <2>1. PICK q \in Routines : owner[q] = k /\ Working(q)
    BY <1>7 DEF NoOrphanedStates
  <2>2. stopped[q]
    <3>1. owner[q] # None /\ registry[owner[q]] # q
      BY <2>1
    <3> QED
      BY <1>t, <3>1 DEF OneLiveRoutine
  <2> QED
    BY <2>1, <2>2 DEF StillEnding
<1>8. StatesMatchFingerprint'
  <2> SUFFICES ASSUME ~Ended', NEW q \in Keys, registry'[q] # None, ~StillEnding(q)'
               PROVE  /\ states'[q] \in Contents => states'[q] = fingerprint'[registry'[q]]
                      /\ fingerprint'[registry'[q]] \in Paused => states'[q] = None
    BY DEF StatesMatchFingerprint
  <2>1. CASE q = k
    BY <1>t, <1>5, <1>6, <1>7, <2>1 DEF Ended
  <2>2. CASE q # k
    BY <1>5, <1>6, <2>2 DEF StatesMatchFingerprint, Ended
  <2> QED
    BY <2>1, <2>2
<1> QED
  BY <1>1, <1>4, <1>8

(* The routine of a deleted rule is stopped and works on. *)
LEMMA DeleteRuleStatesInv ==
    ASSUME IInv, StatesInv, NEW k \in Keys, DeleteRule(k)
    PROVE  StatesInv'
<1> USE DEF StatesInv, DeleteRule, processVars
<1>t. TypeOK
  BY DEF IInv
<1>1. (\A q \in Routines : JobIsCurrent(q))'
  BY DEF JobIsCurrent
<1>2. NoOrphanedStates'
  BY DEF NoOrphanedStates, Working
<1>3. \A q \in Keys : StillEnding(q) => StillEnding(q)'
  BY <1>t DEF StillEnding, Working, TypeOK
<1>4. StatesMatchFingerprint'
  BY <1>t, <1>3 DEF StatesMatchFingerprint, Ended, TypeOK
<1> QED
  BY <1>1, <1>2, <1>4

(* A routine changes the states of its own key only.  It is the registered *)
(* routine of the key, or it is still ending.                              *)
LEMMA RoutineStatesInv ==
    ASSUME IInv, StatesInv, NEW r \in Routines, Routine(r)
    PROVE  StatesInv'
<1> USE SchedulerAssumption DEF StatesInv
<1>u. UNCHANGED <<registry, owner, stopped, cancelled>> /\ ~panicked
  BY DEF Routine, ReceiveSameUpdate, ReceiveUpdate, ReceiveEval, BeginAttempt,
         EvaluateCancelled, EvaluateReturns, EvaluateFails, Retry,
         BackoffCancelled, ProcessResults, RoutineDone, UnchangedByRoutine, Running
<1>w. Working(r)
  BY DEF Routine, ReceiveSameUpdate, ReceiveUpdate, ReceiveEval, BeginAttempt,
         EvaluateCancelled, EvaluateReturns, EvaluateFails, Retry,
         BackoffCancelled, ProcessResults, RoutineDone, Working
<1>t. /\ TypeOK /\ OneLiveRoutine
      /\ owner[r] \in Keys
      /\ ~stopped[r] => registry[owner[r]] = r
  BY <1>w DEF IInv, RoutineData, OneLiveRoutine, Working
<1> DEFINE k == owner[r]
<1>j. rpc[r] \in {"attempt", "evaluating", "process", "backoff"} => job[r] \in Rules
  BY DEF IInv, RoutineData
(* the other routines keep what they have *)
<1>o. \A q \in Routines : q # r =>
        rpc'[q] = rpc[q] /\ job'[q] = job[q] /\ fingerprint'[q] = fingerprint[q]
  BY <1>t DEF Routine, ReceiveSameUpdate, ReceiveUpdate, ReceiveEval, BeginAttempt,
         EvaluateCancelled, EvaluateReturns, EvaluateFails, Retry,
         BackoffCancelled, ProcessResults, RoutineDone, FinishJob, SetFingerprint, TypeOK
<1>s. \A q \in Keys : q # k => states'[q] = states[q]
  BY <1>t DEF Routine, ReceiveSameUpdate, ReceiveUpdate, ReceiveEval, BeginAttempt,
         EvaluateCancelled, EvaluateReturns, EvaluateFails, Retry,
         BackoffCancelled, ProcessResults, RoutineDone, ResetState, TypeOK
<1> HIDE DEF k
<1>k. k \in Keys /\ k = owner[r]
  BY <1>t DEF k
(* what the step does to the states of its key *)
<1>1. \/ states'[k] = states[k] /\ fingerprint'[r] = fingerprint[r] /\ Working(r)'
      \/ states'[k] = states[k] /\ Working(r)'
           /\ fingerprint[r] = None /\ fingerprint'[r] \in Contents \ Paused
      \/ states'[k] = None
      \/ states'[k] = fingerprint'[r] /\ fingerprint'[r] \in Contents \ Paused /\ Working(r)'
      \/ panicked' /\ states'[k] = states[k] /\ Working(r)'
      \/ cancelled /\ states'[k] = states[k]
  <2> USE <1>t, <1>k, <1>j, <1>w DEF Working, TypeOK
  <2>1. CASE ReceiveSameUpdate(r)
    BY <2>1 DEF ReceiveSameUpdate
  <2>2. CASE ReceiveUpdate(r)
    BY <2>2 DEF ReceiveUpdate, ResetState
  <2>3. CASE ReceiveEval(r)
    BY <2>3 DEF ReceiveEval
  <2>4. CASE BeginAttempt(r)
    <3>1. job[r].content \in Contents /\ rpc'[r] \in {"select", "evaluating"}
          /\ fingerprint'[r] = job[r].content
      BY <2>4 DEF BeginAttempt, FinishJob, SetFingerprint, Rules
    <3>2. CASE NeedReset(r)
      BY <2>4, <3>1, <3>2 DEF BeginAttempt, ResetState
    <3>3. CASE ~NeedReset(r)
      BY <2>4, <3>1, <3>3 DEF BeginAttempt, NeedReset
    <3> QED
      BY <3>2, <3>3
  <2>5. CASE EvaluateCancelled(r) \/ BackoffCancelled(r)
    BY <2>5 DEF EvaluateCancelled, BackoffCancelled, FinishJob
  <2>6. CASE EvaluateReturns(r) \/ EvaluateFails(r) \/ Retry(r)
    BY <2>6 DEF EvaluateReturns, EvaluateFails, Retry
  <2>7. CASE ProcessResults(r)
    BY <2>7 DEF ProcessResults, FinishJob, JobIsCurrent, Rules
  <2>8. CASE RoutineDone(r)
    BY <2>8 DEF RoutineDone, CtxDone
  <2> QED
    BY <2>1, <2>2, <2>3, <2>4, <2>5, <2>6, <2>7, <2>8 DEF Routine
(* and it stops working only when it leaves nothing behind *)
<1>2. Working(r)' \/ states'[k] = None \/ cancelled
  BY <1>1
<1>3. JobIsCurrent(r)'
  <2> USE <1>t, <1>w, <1>j DEF JobIsCurrent, Working, TypeOK
  <2>1. CASE BeginAttempt(r)
    BY <2>1 DEF BeginAttempt, FinishJob, SetFingerprint, Rules
  <2>2. CASE ReceiveSameUpdate(r) \/ ReceiveUpdate(r) \/ ReceiveEval(r)
    BY <2>2 DEF ReceiveSameUpdate, ReceiveUpdate, ReceiveEval
  <2>3. CASE EvaluateCancelled(r) \/ BackoffCancelled(r) \/ ProcessResults(r)
    BY <2>3 DEF EvaluateCancelled, BackoffCancelled, ProcessResults, FinishJob
  <2>4. CASE EvaluateReturns(r) \/ EvaluateFails(r) \/ Retry(r) \/ RoutineDone(r)
    BY <2>4 DEF EvaluateReturns, EvaluateFails, Retry, RoutineDone
  <2> QED
    BY <2>1, <2>2, <2>3, <2>4 DEF Routine
<1>4. (\A q \in Routines : JobIsCurrent(q))'
  BY <1>3, <1>o DEF JobIsCurrent
<1>5. NoOrphanedStates'
  <2> SUFFICES ASSUME NEW q \in Keys, states'[q] # None, ~cancelled'
               PROVE  \/ \E p \in Routines : owner'[p] = q /\ Working(p)'
                      \/ states'[q] = "warm" /\ \A p \in Routines : owner'[p] # q
    BY DEF NoOrphanedStates
  <2>1. CASE q = k
    BY <1>2, <1>k, <1>u, <2>1
  <2>2. CASE q # k
    <3>1. states[q] # None /\ states'[q] = states[q] /\ ~cancelled
      BY <1>s, <1>u, <2>2
    <3>2. \A p \in Routines : owner[p] = q /\ Working(p) => Working(p)'
      BY <1>o, <1>k, <2>2 DEF Working
    <3> QED
      BY <1>u, <3>1, <3>2 DEF NoOrphanedStates
  <2> QED
    BY <2>1, <2>2
<1>6. StatesMatchFingerprint'
  <2> SUFFICES ASSUME ~Ended', NEW q \in Keys, registry'[q] # None, ~StillEnding(q)'
               PROVE  /\ states'[q] \in Contents => states'[q] = fingerprint'[registry'[q]]
                      /\ fingerprint'[registry'[q]] \in Paused => states'[q] = None
    BY DEF StatesMatchFingerprint
  <2>0. ~Ended /\ ~cancelled /\ ~panicked'
    BY <1>u DEF Ended
  <2>1. CASE q # k
    <3>1. registry[q] # r /\ registry[q] \in Routines
      BY <1>t, <1>u, <1>k, <2>1 DEF OneLiveRoutine, TypeOK
    <3>2. ~StillEnding(q)
      BY <1>o, <1>u, <1>k, <2>1 DEF StillEnding, Working
    <3> QED
      BY <1>o, <1>s, <1>u, <2>0, <2>1, <3>1, <3>2 DEF StatesMatchFingerprint
  <2>2. CASE q = k /\ states'[k] = None
    BY <2>2
  <2>3. CASE q = k /\ states'[k] # None
    <3>1. Working(r)' /\ ~stopped[r] /\ registry[k] = r
      BY <1>2, <1>t, <1>u, <1>k, <2>0, <2>3 DEF StillEnding
    <3>2. ~StillEnding(k)
      BY <1>o, <1>u, <2>3, <3>1 DEF StillEnding, Working
    <3>3. /\ states[k] \in Contents => states[k] = fingerprint[r]
          /\ fingerprint[r] \in Paused => states[k] = None
      BY <1>k, <1>u, <2>0, <2>3, <3>1, <3>2 DEF StatesMatchFingerprint
    <3> QED
      BY <1>1, <1>u, <2>0, <2>3, <3>1, <3>3
  <2> QED
    BY <2>1, <2>2, <2>3
<1> QED
  BY <1>4, <1>5, <1>6

LEMMA NextStatesInv == IInv /\ StatesInv /\ [Next]_vars => StatesInv'
<1> SUFFICES ASSUME IInv, StatesInv, [Next]_vars PROVE StatesInv'
  OBVIOUS
<1> USE DEF dbVars, tickVars, routineVars, channelVars, senderVars, processVars
<1>1. ASSUME NEW k \in Keys, Api(k) PROVE StatesInv'
  BY <1>1, StatesInvKept
     DEF Api, InsertAlertRule, UpdateAlertRule, DeleteAlertRule, WriteDb
<1>2. CASE Tick \/ TickKeysFail \/ FetchRules \/ FetchRulesFails
           \/ SetTimers \/ Shutdown \/ SeeShutdown \/ RoutinesJoined
  BY <1>2, StatesInvKept
     DEF Tick, TickKeysFail, FetchRules, FetchRulesFails, SetTimers, Shutdown,
         SeeShutdown, RoutinesJoined, UnchangedByTick
<1>3. ASSUME NEW k \in Keys, DispatchKnown(k) PROVE StatesInv'
  BY <1>3, StatesInvKept DEF DispatchKnown, UnchangedByTick
<1>4. CASE Handing
  BY <1>4, StatesInvKept
     DEF Handing, EvalDrain, EvalSend, UpdateDrain, UpdateSend, UnchangedBySender
<1>5. CASE UNCHANGED vars
  BY <1>5, StatesInvKept DEF vars
<1> QED
  BY <1>1, <1>2, <1>3, <1>4, <1>5, DispatchNewStatesInv, DeleteRuleStatesInv,
     RoutineStatesInv DEF Next, Scheduling

LEMMA StatesInvariance == Spec => []StatesInv
  BY InitStatesInv, NextStatesInv, Invariance, PTL DEF Spec

(* The cached states of a rule come from the fingerprint its routine holds *)
(* and a paused rule has none, in every order of updates, evaluations,     *)
(* deletions and re-creations: ruleRoutine resets often enough.            *)
THEOREM StatesOfOneVersion == Spec => []StatesMatchFingerprint
<1>1. StatesInv => StatesMatchFingerprint
  BY DEF StatesInv
<1> QED
  BY <1>1, StatesInvariance, PTL

(* The states of a deleted rule never outlive its last routine, except in  *)
(* a shutdown, or when the scheduler had never seen the rule.              *)
THEOREM StatesHaveRoutine == Spec => []NoOrphanedStates
<1>1. StatesInv => NoOrphanedStates
  BY DEF StatesInv
<1> QED
  BY <1>1, StatesInvariance, PTL
=============================================================================
