--------------------------- MODULE RequestService ---------------------------
(***************************************************************************)
(* What the request service of the front end promises those who fetch:     *)
(* a request is made once and waits; it starts at most once, after all     *)
(* that were made before it and are of its class, data or api, and never   *)
(* once it has ended; it ends at any time, waiting or running.             *)
(*                                                                         *)
(* The order across the classes is open: api requests overtake data        *)
(* requests.  So is the number that run: the limit of the worker is one    *)
(* of the moment in which it makes its list.                               *)
(***************************************************************************)
CONSTANTS
    Requests,
    DataRequests

VARIABLES
    unmade,     \* not requested yet
    waiting,    \* requested, not started
    running,    \* started, not ended
    before      \* the pairs of waiting requests, the older one first

vars == <<unmade, waiting, running, before>>

SameClass(q, r) == q \in DataRequests <=> r \in DataRequests

Init ==
    /\ unmade = Requests
    /\ waiting = {}
    /\ running = {}
    /\ before = {}

(* A request is made: it is the youngest that waits. *)
Make(r) ==
    /\ r \in unmade
    /\ unmade' = unmade \ {r}
    /\ waiting' = waiting \cup {r}
    /\ before' = before \cup (waiting \X {r})
    /\ UNCHANGED running

(* r does not wait any more. *)
Leave(r) ==
    /\ waiting' = waiting \ {r}
    /\ before' = {p \in before : r \notin {p[1], p[2]}}

(* The oldest of a class starts. *)
Begin(r) ==
    /\ r \in waiting
    /\ \A q \in waiting : SameClass(q, r) => <<q, r>> \notin before
    /\ Leave(r)
    /\ running' = running \cup {r}
    /\ UNCHANGED unmade

(* A request is answered, fails or is given up. *)
End(r) ==
    /\ r \in waiting \cup running
    /\ Leave(r)
    /\ running' = running \ {r}
    /\ UNCHANGED unmade

Next == \E r \in Requests : Make(r) \/ Begin(r) \/ End(r)

Spec == Init /\ [][Next]_vars

=============================================================================
