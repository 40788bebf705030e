---------------------------- MODULE MCScheduler ----------------------------
EXTENDS Scheduler, TLC

Freq == [c \in Contents |-> IF c = "b" THEN 2 ELSE 1]
NoJitter == [k \in Keys |-> [c \in Contents |-> 0]]
SymmetricRoutines == Permutations(Routines)
=============================================================================
