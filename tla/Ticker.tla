------------------------------- MODULE Ticker -------------------------------
(***************************************************************************)
(* The ticker of pkg/util/ticker and the goroutine that consumes it, the   *)
(* schedulePeriodic loop of the alerting scheduler.                        *)
(*                                                                         *)
(* Two goroutines meet on two unbuffered channels, C and stopCh.  The      *)
(* ticker reads the WALL clock to decide whether a mark is due and sleeps  *)
(* on the MONOTONIC clock, which no adjustment of the wall clock moves: a  *)
(* sleep may end any number of wall-clock instants later, or earlier.      *)
(***************************************************************************)
EXTENDS Naturals

CONSTANTS
    Times,           \* the instants of the wall clock
    Interval,        \* T.interval
    MaxAdjustments   \* bound: how often the wall clock is set by hand

ASSUME TickerAssumption ==
    /\ Times \subseteq Nat
    /\ Interval \in Nat \ {0}
    /\ MaxAdjustments \in Nat

VARIABLES
    now,          \* what clock.Now() returns
    reached,      \* history: the highest `now' so far
    adjustments,  \* how often the wall clock was set
    pc,           \* the ticker goroutine: "loop" (between two selects), "send"
                  \* (select on C and stopCh), "wait" (select on the timer and
                  \* stopCh) or "stopped"
    last,         \* T.last
    tick,         \* the tick the receiver took last
    rpc,          \* the receiver: "select", "processing", "waiting" for the
                  \* rule routines, "stopping" (the deferred Stop) or "done"
    cancelled     \* the context of Run

clockVars    == <<now, reached, adjustments>>
tickerVars   == <<pc, last>>
receiverVars == <<tick, rpc, cancelled>>
vars         == <<clockVars, tickerVars, receiverVars>>

TypeOK ==
    /\ now \in Times
    /\ reached \in Times
    /\ adjustments \in 0..MaxAdjustments
    /\ pc \in {"loop", "send", "wait", "stopped"}
    /\ last \in Nat
    /\ tick \in Nat
    /\ rpc \in {"select", "processing", "waiting", "stopping", "done"}
    /\ cancelled \in BOOLEAN

-----------------------------------------------------------------------------
(* Mutant: start one mark earlier. *)
StartTickOneBack(t) == t - (t % Interval) - Interval

(* getStartTick: the mark at or before the present. *)
StartTick(t) == t - (t % Interval)

(* The next tick the ticker will offer. *)
NextTick == last + Interval

Init ==
    /\ now \in Times
    /\ reached = now
    /\ adjustments = 0
    /\ pc = "loop"
    /\ last = StartTick(now)
    /\ tick = StartTick(now)
    /\ rpc = "select"
    /\ cancelled = FALSE

-----------------------------------------------------------------------------
(* The clocks *)

Later(t) == IF t > reached THEN t ELSE reached

(* Time passes. *)
TimePasses ==
    /\ now' \in Times
    /\ now' > now
    /\ reached' = Later(now')
    /\ UNCHANGED <<adjustments, tickerVars, receiverVars>>

(* The wall clock is set, forward or back. *)
AdjustClock ==
    /\ adjustments < MaxAdjustments
    /\ adjustments' = adjustments + 1
    /\ now' \in Times \ {now}
    /\ reached' = Later(now')
    /\ UNCHANGED <<tickerVars, receiverVars>>

-----------------------------------------------------------------------------
(* The ticker goroutine, T.run *)

(* Mutants: round the difference up; take a mark as due only once past. *)
LookAtClockEager ==
    /\ pc = "loop"
    /\ pc' = IF now + 1 >= NextTick THEN "send" ELSE "wait"
    /\ UNCHANGED <<clockVars, last, receiverVars>>

LookAtClockAfterMark ==
    /\ pc = "loop"
    /\ pc' = IF now > NextTick THEN "send" ELSE "wait"
    /\ UNCHANGED <<clockVars, last, receiverVars>>

(* The top of the loop: is the next mark due by the wall clock? *)
LookAtClock ==
    /\ pc = "loop"
    /\ pc' = IF now >= NextTick THEN "send" ELSE "wait"
    /\ UNCHANGED <<clockVars, last, receiverVars>>

(* Mutant: like time.Ticker, skip what the receiver was too slow for. *)
DeliverLatest ==
    /\ pc = "send"
    /\ rpc = "select"
    /\ tick' = IF StartTick(now) > NextTick THEN StartTick(now) ELSE NextTick
    /\ last' = tick'
    /\ pc' = "loop"
    /\ rpc' = "processing"
    /\ UNCHANGED <<clockVars, cancelled>>

(* case t.C <- next meets case tick := <-t.C. *)
Deliver ==
    /\ pc = "send"
    /\ rpc = "select"
    /\ tick' = NextTick
    /\ last' = NextTick
    /\ pc' = "loop"
    /\ rpc' = "processing"
    /\ UNCHANGED <<clockVars, cancelled>>

(* case <-t.clock.After(-diff): the loop looks at the clock again. *)
TimerFires ==
    /\ pc = "wait"
    /\ pc' = "loop"
    /\ UNCHANGED <<clockVars, last, receiverVars>>

-----------------------------------------------------------------------------
(* The receiver, schedulePeriodic inside Run *)

(* processTick returns, however long it took. *)
TickProcessed ==
    /\ rpc = "processing"
    /\ rpc' = "select"
    /\ UNCHANGED <<clockVars, tickerVars, tick, cancelled>>

(* Run's context is cancelled from outside. *)
CancelRun ==
    /\ ~cancelled
    /\ cancelled' = TRUE
    /\ UNCHANGED <<clockVars, tickerVars, tick, rpc>>

(* Mutant: the cancellation is seen only while a tick is on offer. *)
SeeCancelWithTick ==
    /\ rpc = "select"
    /\ cancelled
    /\ pc = "send"
    /\ rpc' = "waiting"
    /\ UNCHANGED <<clockVars, tickerVars, tick, cancelled>>

(* case <-ctx.Done(): wait for the rule routines. *)
SeeCancel ==
    /\ rpc = "select"
    /\ cancelled
    /\ rpc' = "waiting"
    /\ UNCHANGED <<clockVars, tickerVars, tick, cancelled>>

(* dispatcherGroup.Wait() returns; the deferred Stop comes next. *)
RoutinesDone ==
    /\ rpc = "waiting"
    /\ rpc' = "stopping"
    /\ UNCHANGED <<clockVars, tickerVars, tick, cancelled>>

(* T.Stop: a send on stopCh that does not block.  It meets the ticker only *)
(* when that is inside one of its two selects.                             *)
Stop ==
    /\ rpc = "stopping"
    /\ rpc' = "done"
    /\ pc' = IF pc \in {"send", "wait"} THEN "stopped" ELSE pc
    /\ UNCHANGED <<clockVars, last, tick, cancelled>>

-----------------------------------------------------------------------------
Next ==
    \/ TimePasses \/ AdjustClock
    \/ LookAtClock \/ Deliver \/ TimerFires
    \/ TickProcessed \/ CancelRun \/ SeeCancel \/ RoutinesDone \/ Stop

Spec == Init /\ [][Next]_vars

(* Both goroutines are scheduled by the Go runtime, processTick and the    *)
(* rule routines return, and a sleep ends.                                 *)
(* A select between a tick and ctx.Done picks at random among ready cases, *)
(* so neither case is passed over for ever (strong fairness of Deliver and *)
(* SeeCancel).  Nothing obliges anybody to cancel or to set the clock.     *)
Fairness ==
    /\ WF_vars(LookAtClock)
    /\ SF_vars(Deliver)
    /\ WF_vars(TimerFires)
    /\ WF_vars(TickProcessed)
    /\ SF_vars(SeeCancel)
    /\ WF_vars(RoutinesDone)
    /\ WF_vars(Stop)

FairSpec == Spec /\ Fairness

-----------------------------------------------------------------------------
(* Properties *)

(* The marks are the multiples of Interval. *)
OnMark(t) == \E n \in 0..t : t = n * Interval

(* The tick handed over is on an interval mark the wall clock has shown,   *)
(* even when the clock is set back while the ticker sleeps or is blocked   *)
(* on a slow receiver: no evaluation runs for a time still to come.        *)
TicksAreDue ==
    /\ OnMark(tick)
    /\ tick <= reached
    /\ pc = "send" => NextTick <= reached

(* The ticker is a tick source: consecutive marks, none dropped or         *)
(* repeated for a slow receiver, whatever the clock does meanwhile.        *)
Source == INSTANCE TickSource WITH closed <- rpc = "done"

ImplementsTickSource == Source!Spec

(* A slow receiver catches up: a mark the wall clock has shown is handed   *)
(* over in the end, unless Run is cancelled or the clock is set back.      *)
CatchesUp ==
    \A t \in Times :
        (now >= t /\ OnMark(t)) ~> (tick >= t \/ cancelled \/ now < t)

(* Run returns after a cancellation. *)
RunReturns == cancelled ~> (rpc = "done")

(* T.Stop: "Stop stops the ticker", and its default case means "already    *)
(* stopped": once Stop returns, the ticker goroutine has stopped.          *)
StopStops == rpc = "done" => pc = "stopped"
=============================================================================
