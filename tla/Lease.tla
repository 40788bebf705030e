------------------------------- MODULE Lease -------------------------------
(***************************************************************************)
(* What a lock with leases promises: one owner at a time, who has the lock *)
(* until he gives it back or dies.  A lock that was given back may be      *)
(* taken; one whose owner died stays with him until its term is over by    *)
(* some clock, and may then be overtaken.                                  *)
(*                                                                         *)
(* The lock has the age of the stamp that its owner wrote, by clocks that  *)
(* are ahead of each other.  That no owner needs longer than the term is   *)
(* up to those who use the lock.                                           *)
(***************************************************************************)
EXTENDS Integers

CONSTANTS
    Servers,
    Term,     \* how long a lock lasts
    Ahead,    \* how far a clock may be ahead
    Behind,   \* how old the stamp of a lock that was just taken may be
    None      \* no owner, no lock

VARIABLES
    owner,
    age       \* of the lock, None if there is none; it stops at Term

vars == <<owner, age>>

Init ==
    /\ owner = None
    /\ age = None

Pass ==
    /\ age # None
    /\ age' = IF age < Term THEN age + 1 ELSE age
    /\ UNCHANGED owner

Own(p) ==
    /\ owner = None
    /\ owner' = p
    /\ age' \in (-Ahead)..Behind

Take(p) == age = None /\ Own(p)

Overtake(p) ==
    /\ age # None
    /\ age + Ahead >= Term
    /\ Own(p)

GiveBack(p) ==
    /\ owner = p
    /\ owner' = None
    /\ age' = None

Die(p) ==
    /\ owner = p
    /\ owner' = None
    /\ UNCHANGED age

Next ==
    \/ Pass
    \/ \E p \in Servers : Take(p) \/ Overtake(p) \/ GiveBack(p) \/ Die(p)

Spec == Init /\ [][Next]_vars

=============================================================================
