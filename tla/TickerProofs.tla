---------------------------- MODULE TickerProofs ----------------------------
(***************************************************************************)
(* The ticker's safety for every clock and every interval: its ticks are   *)
(* due, and it implements the abstract tick source.                        *)
(***************************************************************************)
EXTENDS Ticker, TLAPS

(* The receiver's last tick is the ticker's last mark, and a tick on offer *)
(* was due when the ticker looked.                                         *)
IInv ==
    /\ TypeOK
    /\ tick = last
    /\ now <= reached
    /\ TicksAreDue

-----------------------------------------------------------------------------
(* getStartTick returns a mark at most one interval in the past. *)
LEMMA StartTickIsMark ==
    ASSUME NEW t \in Nat
    PROVE  /\ StartTick(t) \in Nat
           /\ StartTick(t) <= t
           /\ t < StartTick(t) + Interval
           /\ OnMark(StartTick(t))
<1> DEFINE q == t \div Interval
<1>1. /\ q \in Nat
      /\ t % Interval \in Nat
      /\ t % Interval < Interval
      /\ t = Interval * q + (t % Interval)
  BY TickerAssumption
<1> HIDE DEF q
<1>2. StartTick(t) = q * Interval
  BY <1>1, TickerAssumption DEF StartTick
<1>3. StartTick(t) \in Nat /\ q <= StartTick(t)
  BY <1>1, <1>2, TickerAssumption
<1>4. OnMark(StartTick(t))
  BY <1>1, <1>2, <1>3 DEF OnMark
<1> QED
  BY <1>1, <1>2, <1>3, <1>4, TickerAssumption DEF StartTick

(* The mark after a mark is a mark. *)
LEMMA NextMarkIsMark ==
    ASSUME NEW t \in Nat, OnMark(t)
    PROVE  OnMark(t + Interval)
<1>1. PICK n \in 0..t : t = n * Interval
  BY DEF OnMark
<1>2. t + Interval = (n + 1) * Interval
  BY <1>1, TickerAssumption
<1>3. n + 1 \in 0..(t + Interval)
  BY <1>1, TickerAssumption
<1> QED
  BY <1>2, <1>3 DEF OnMark

-----------------------------------------------------------------------------
LEMMA InitIInv == Init => IInv
<1> SUFFICES ASSUME Init PROVE IInv
  OBVIOUS
<1>1. now \in Nat
  BY TickerAssumption DEF Init
<1>a. /\ StartTick(now) \in Nat
      /\ StartTick(now) <= now
      /\ OnMark(StartTick(now))
  BY <1>1, StartTickIsMark
<1>2. TypeOK
  <2>1. last \in Nat /\ tick \in Nat
    BY <1>a DEF Init
  <2>2. adjustments \in 0..MaxAdjustments
    BY TickerAssumption DEF Init
  <2> QED
    BY <2>1, <2>2 DEF Init, TypeOK
<1>3. TicksAreDue
  BY <1>a DEF Init, TicksAreDue
<1> QED
  BY <1>1, <1>2, <1>3 DEF Init, IInv

(* Every step preserves the invariant; only Deliver and the clock matter. *)
LEMMA NextIInv == IInv /\ [Next]_vars => IInv'
<1> SUFFICES ASSUME IInv, [Next]_vars PROVE IInv'
  OBVIOUS
<1> USE TickerAssumption DEF IInv, TypeOK, clockVars, tickerVars, receiverVars
<1>1. CASE TimePasses
  BY <1>1 DEF TimePasses, Later, TicksAreDue, NextTick
<1>2. CASE AdjustClock
  BY <1>2 DEF AdjustClock, Later, TicksAreDue, NextTick
<1>3. CASE LookAtClock
  BY <1>3 DEF LookAtClock, TicksAreDue, NextTick
<1>4. CASE Deliver
  <2>1. OnMark(tick')
    BY <1>4, NextMarkIsMark DEF Deliver, TicksAreDue, NextTick
  <2>2. TypeOK' /\ tick' = last' /\ now' <= reached'
    BY <1>4 DEF Deliver, NextTick
  <2> QED
    BY <1>4, <2>1, <2>2 DEF Deliver, TicksAreDue, NextTick
<1>5. CASE TimerFires
  BY <1>5 DEF TimerFires, TicksAreDue, NextTick
<1>6. CASE TickProcessed \/ CancelRun \/ SeeCancel \/ RoutinesDone
  BY <1>6 DEF TickProcessed, CancelRun, SeeCancel, RoutinesDone, TicksAreDue, NextTick
<1>7. CASE Stop
  BY <1>7 DEF Stop, TicksAreDue, NextTick
<1>8. CASE UNCHANGED vars
  BY <1>8 DEF vars, TicksAreDue, NextTick
<1> QED
  BY <1>1, <1>2, <1>3, <1>4, <1>5, <1>6, <1>7, <1>8 DEF Next

LEMMA AlwaysIInv == Spec => []IInv
BY InitIInv, NextIInv, PTL DEF Spec

(* Every variable keeps its type, for every clock and interval. *)
THEOREM TypeCorrect == Spec => []TypeOK
<1>1. IInv => TypeOK
  BY DEF IInv
<1> QED
  BY <1>1, AlwaysIInv, PTL

(* No tick is handed over for a mark the wall clock has not shown. *)
THEOREM TicksDue == Spec => []TicksAreDue
<1>1. IInv => TicksAreDue
  BY DEF IInv
<1> QED
  BY <1>1, AlwaysIInv, PTL

-----------------------------------------------------------------------------
(* The ticker's steps are steps of the tick source: it hands over the      *)
(* marks one by one, none dropped and none repeated.                       *)
THEOREM Refinement == Spec => ImplementsTickSource
<1>1. Init => Source!Init
  <2> SUFFICES ASSUME Init PROVE Source!Init
    OBVIOUS
  <2>1. now \in Nat
    BY TickerAssumption DEF Init
  <2>a. /\ StartTick(now) \in Nat /\ OnMark(StartTick(now))
        /\ StartTick(now) <= now /\ now < StartTick(now) + Interval
    BY <2>1, StartTickIsMark
  <2>2. /\ tick \in Nat /\ OnMark(tick)
        /\ tick <= reached /\ reached < tick + Interval
    BY <2>a DEF Init
  <2> QED
    BY <2>2 DEF Init, Source!Init, OnMark, Source!OnMark
<1>2. IInv /\ [Next]_vars => [Source!Next]_(Source!vars)
  <2> SUFFICES ASSUME IInv, [Next]_vars
               PROVE  Source!Next \/ UNCHANGED Source!vars
    OBVIOUS
  <2> USE TickerAssumption DEF IInv, TypeOK, clockVars, tickerVars, receiverVars, Source!vars
  <2>1. CASE TimePasses
    BY <2>1 DEF TimePasses, Later, Source!Next, Source!Reach
  <2>2. CASE AdjustClock
    BY <2>2 DEF AdjustClock, Later, Source!Next, Source!Reach
  <2>3. CASE LookAtClock
    BY <2>3 DEF LookAtClock
  <2>4. CASE Deliver
    BY <2>4 DEF Deliver, NextTick, TicksAreDue, Source!Next, Source!Emit
  <2>5. CASE TimerFires
    BY <2>5 DEF TimerFires
  <2>6. CASE TickProcessed \/ CancelRun \/ SeeCancel \/ RoutinesDone
    BY <2>6 DEF TickProcessed, CancelRun, SeeCancel, RoutinesDone
  <2>7. CASE Stop
    BY <2>7 DEF Stop, Source!Next, Source!Close
  <2>8. CASE UNCHANGED vars
    BY <2>8 DEF vars
  <2> QED
    BY <2>1, <2>2, <2>3, <2>4, <2>5, <2>6, <2>7, <2>8 DEF Next
<1> QED
  BY <1>1, <1>2, AlwaysIInv, PTL DEF Spec, ImplementsTickSource, Source!Spec
=============================================================================
