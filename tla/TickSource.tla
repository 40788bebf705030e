----------------------------- MODULE TickSource -----------------------------
(***************************************************************************)
(* What a ticker promises its receiver: the marks Interval apart, each one *)
(* exactly once and in order, none before the clock has reached it.  (That *)
(* none is withheld for ever is CatchesUp of Ticker.)                      *)
(*                                                                         *)
(*   reached  the highest time any reader of the clock has seen            *)
(*   tick     the mark handed over last                                    *)
(*   closed   nobody asks for ticks any more                               *)
(***************************************************************************)
EXTENDS Naturals

CONSTANTS
    Times,      \* the instants of the clock, natural numbers
    Interval    \* the distance of two marks, positive

VARIABLES reached, tick, closed

vars == <<reached, tick, closed>>

(* The marks are the multiples of Interval. *)
OnMark(t) == \E n \in 0..t : t = n * Interval

Init ==
    /\ reached \in Times
    /\ tick \in Nat
    /\ OnMark(tick)
    /\ tick <= reached
    /\ reached < tick + Interval
    /\ closed = FALSE

(* The clock gets further than it ever was. *)
Reach ==
    /\ reached' \in Times
    /\ reached' > reached
    /\ UNCHANGED <<tick, closed>>

(* The next mark is handed over, provided the clock got that far. *)
Emit ==
    /\ ~closed
    /\ tick + Interval <= reached
    /\ tick' = tick + Interval
    /\ UNCHANGED <<reached, closed>>

Close ==
    /\ closed' = TRUE
    /\ UNCHANGED <<reached, tick>>

Next == Reach \/ Emit \/ Close

Spec == Init /\ [][Next]_vars
=============================================================================
