--------------------------- MODULE ReleasableLock ---------------------------
(***************************************************************************)
(* ServerLockService.LockExecuteAndRelease and its variant WithRetries,    *)
(* pkg/infra/serverlock: a server inserts a row for the action, executes   *)
(* the function and deletes the row.  A row older than maxInterval belongs *)
(* to a server taken for dead, and another server overtakes it.            *)
(*                                                                         *)
(* Times are ages: what matters of last_execution is how long ago it is.   *)
(* time.Now().Unix() loses up to a second and the clocks of the servers    *)
(* are up to Skew ahead of true time, so that a stamp just made is between *)
(* -Skew and Second - 1 old.  Ages stop at MaxInterval, where the lock has *)
(* timed out by every clock.                                               *)
(***************************************************************************)
EXTENDS Integers

CONSTANTS
    Servers,
    Retrying,     \* those that call LockExecuteAndReleaseWithRetries
    MaxInterval,  \* the parameter maxInterval, or LockTimeConfig.MaxInterval
    MaxRun,       \* what a server needs at most from reading the clock for
                  \* the row until the row is deleted again
    Second,       \* the units of time in a second
    Skew,         \* how far a clock may be ahead
    None          \* no row, no server

Ages == (-Skew)..MaxInterval

(* "The 'maxInterval' parameter should be so long that is impossible for 2 *)
(* processes to run at the same time."                                     *)
ASSUME ReleasableLockAssumption ==
    /\ Retrying \subseteq Servers
    /\ MaxInterval \in Nat
    /\ MaxRun \in Nat
    /\ Second \in Nat \ {0}
    /\ Skew \in Nat
    /\ MaxRun + Second + Skew <= MaxInterval
    /\ None \notin Servers \cup Ages

VARIABLES
    row,      \* the row of the action in server_lock: the age of
              \* last_execution, None if there is no row
    locked,   \* the server whose transaction holds the row FOR UPDATE
    pc,
    stamp,    \* the age of the time a server is about to write
    ran       \* the time since it read the clock for it

vars == <<row, locked, pc, stamp, ran>>

TypeOK ==
    /\ row \in Ages \cup {None}
    /\ locked \in Servers \cup {None}
    /\ locked # None => pc[locked] \in {"locked", "overtake"}
    /\ pc \in [Servers -> {"idle", "select", "locked", "overtake", "insert",
                           "execute", "release", "wait", "refused"}]
    /\ stamp \in [Servers -> Ages]
    /\ ran \in [Servers -> 0..MaxRun]

Init ==
    /\ row = None
    /\ locked = None
    /\ pc = [p \in Servers |-> "idle"]
    /\ stamp = [p \in Servers |-> 0]
    /\ ran = [p \in Servers |-> 0]

-----------------------------------------------------------------------------
Goto(p, label) == pc' = [pc EXCEPT ![p] = label]

Holds(p) == pc[p] \in {"execute", "release"}

(* A server that has a stamp and has not given up the lock. *)
Busy(p) == pc[p] \in {"overtake", "insert"} \/ Holds(p)

Older(age) == IF age < MaxInterval THEN age + 1 ELSE age

(* Mutants: locks do not time out; they do so a second early. *)
LockNeverTimesOut(t) == TRUE

LockTimesOutEarly(t) == t < MaxInterval - Second

(* isLockWithinInterval for a row of age t, seen by some clock. *)
LockWithinInterval(t) == t < MaxInterval

SeenAge(t) == t..(t + Skew)

(* Time passes, but the maxInterval is long enough for everybody. *)
Pass ==
    /\ \A p \in Servers : Busy(p) => ran[p] < MaxRun
    /\ row' = IF row = None THEN None ELSE Older(row)
    /\ stamp' = [p \in Servers |->
                   IF pc[p] \in {"overtake", "insert"} THEN Older(stamp[p]) ELSE stamp[p]]
    /\ ran' = [p \in Servers |-> IF Busy(p) THEN ran[p] + 1 ELSE ran[p]]
    /\ UNCHANGED <<locked, pc>>

(* time.Now().Unix(), which will be last_execution. *)
Stamp(p) ==
    /\ \E age \in (-Skew)..(Second - 1) : stamp' = [stamp EXCEPT ![p] = age]
    /\ ran' = [ran EXCEPT ![p] = 0]

(* The call returns, or the server restarts; what is left of its last lock *)
(* is of no interest. *)
Leave(p, label) ==
    /\ Goto(p, label)
    /\ stamp' = [stamp EXCEPT ![p] = 0]
    /\ ran' = [ran EXCEPT ![p] = 0]

-----------------------------------------------------------------------------
(* acquireForRelease, in one transaction *)

Call(p) ==
    /\ pc[p] \in {"idle", "refused"}
    /\ Goto(p, "select")
    /\ UNCHANGED <<row, locked, stamp, ran>>

(* SELECT * FROM server_lock WHERE operation_uid = ? FOR UPDATE, which     *)
(* waits for other transactions that hold the row.  (SQLite has no FOR     *)
(* UPDATE and lets one of two such transactions fail and start again.)     *)
SelectRow(p) ==
    /\ pc[p] = "select"
    /\ row # None
    /\ locked = None
    /\ locked' = p
    /\ Goto(p, "locked")
    /\ UNCHANGED <<row, stamp, ran>>

(* Mutants: the transaction stays open; the lock is released although it   *)
(* was not acquired. *)
LockExistsStaysOpen(p) ==
    /\ pc[p] = "locked"
    /\ \E age \in SeenAge(row) : LockWithinInterval(age)
    /\ Leave(p, IF p \in Retrying THEN "wait" ELSE "refused")
    /\ UNCHANGED <<row, locked>>

LockExistsReleased(p) ==
    /\ pc[p] = "locked"
    /\ \E age \in SeenAge(row) : LockWithinInterval(age)
    /\ locked' = None
    /\ Goto(p, "release")
    /\ UNCHANGED <<row, stamp, ran>>

(* return &ServerLockExistsError{}, which WithRetries waits for. *)
LockExists(p) ==
    /\ pc[p] = "locked"
    /\ \E age \in SeenAge(row) : LockWithinInterval(age)
    /\ locked' = None
    /\ Leave(p, IF p \in Retrying THEN "wait" ELSE "refused")
    /\ UNCHANGED row

(* The lock has timed out: the clock is read again for the UPDATE. *)
LockTimedOut(p) ==
    /\ pc[p] = "locked"
    /\ \E age \in SeenAge(row) : ~LockWithinInterval(age)
    /\ Stamp(p)
    /\ Goto(p, "overtake")
    /\ UNCHANGED <<row, locked>>

(* UPDATE server_lock SET last_execution = ?, and the commit. *)
Overtake(p) ==
    /\ pc[p] = "overtake"
    /\ row' = stamp[p]
    /\ locked' = None
    /\ Goto(p, "execute")
    /\ UNCHANGED <<stamp, ran>>

(* The SELECT finds no row, and locks none. *)
SelectNothing(p) ==
    /\ pc[p] = "select"
    /\ row = None
    /\ Stamp(p)
    /\ Goto(p, "insert")
    /\ UNCHANGED <<row, locked>>

(* createLock: the INSERT, and the commit.  The unique index rejects it    *)
(* when another server was faster, and that error is not a                 *)
(* ServerLockExistsError.                                                  *)
CreateLock(p) ==
    /\ pc[p] = "insert"
    /\ row = None
    /\ row' = stamp[p]
    /\ Goto(p, "execute")
    /\ UNCHANGED <<locked, stamp, ran>>

CreateLockRejected(p) ==
    /\ pc[p] = "insert"
    /\ row # None
    /\ Leave(p, "refused")
    /\ UNCHANGED <<row, locked>>

-----------------------------------------------------------------------------
(* time.Sleep(lockWait(...)), and the next attempt. *)
Retry(p) ==
    /\ pc[p] = "wait"
    /\ Goto(p, "select")
    /\ UNCHANGED <<row, locked, stamp, ran>>

(* One of retryOpts returns an error. *)
GiveUp(p) ==
    /\ pc[p] = "wait"
    /\ Goto(p, "idle")
    /\ UNCHANGED <<row, locked, stamp, ran>>

(* executeFunc returns. *)
ExecuteFunc(p) ==
    /\ pc[p] = "execute"
    /\ Goto(p, "release")
    /\ UNCHANGED <<row, locked, stamp, ran>>

(* releaseLock: DELETE FROM server_lock WHERE operation_uid = ?, whoever   *)
(* wrote the row.  It waits for a transaction that holds it.               *)
ReleaseLock(p) ==
    /\ pc[p] = "release"
    /\ locked = None
    /\ row' = None
    /\ Leave(p, "idle")
    /\ UNCHANGED locked

(* A statement fails, or the server restarts: an open transaction is       *)
(* rolled back, and a row that was committed stays.                        *)
Fail(p) ==
    /\ pc[p] \notin {"idle", "refused"}
    /\ locked' = IF locked = p THEN None ELSE locked
    /\ Leave(p, "idle")
    /\ UNCHANGED row

Acquiring(p) ==
    \/ LockExists(p) \/ LockTimedOut(p) \/ Overtake(p)
    \/ CreateLock(p) \/ CreateLockRejected(p)

LockExecuteAndRelease(p) ==
    \/ Call(p) \/ SelectRow(p) \/ SelectNothing(p)
    \/ Acquiring(p)
    \/ Retry(p) \/ GiveUp(p)
    \/ ExecuteFunc(p) \/ ReleaseLock(p) \/ Fail(p)

Next == Pass \/ \E p \in Servers : LockExecuteAndRelease(p)

Spec == Init /\ [][Next]_vars

(* Time passes, every call goes on, the database grants row locks in turn, *)
(* and the functions return.  Nobody is obliged to call or to fail.        *)
Fairness ==
    /\ WF_vars(Pass)
    /\ \A p \in Servers :
         /\ SF_vars(SelectRow(p) \/ SelectNothing(p))
         /\ WF_vars(Acquiring(p))
         /\ WF_vars(Retry(p))
         /\ WF_vars(ExecuteFunc(p))
         /\ SF_vars(ReleaseLock(p))

FairSpec == Spec /\ Fairness

-----------------------------------------------------------------------------
(* No two servers execute the function at the same time, though servers    *)
(* die with the lock and others overtake it.                               *)
MutualExclusion == \A p, q \in Servers : Holds(p) /\ Holds(q) => p = q

(* The row is there as long as somebody executes: nobody's lock is deleted *)
(* by another server, which would let in a third one.                      *)
LockIsKept == \A p \in Servers : Holds(p) => row # None

Owner == IF \E p \in Servers : Holds(p) THEN CHOOSE p \in Servers : Holds(p) ELSE None

Lock == INSTANCE Lease WITH
    Term <- MaxInterval,
    Ahead <- Skew,
    Behind <- Second - 1 + MaxRun,
    owner <- Owner,
    age <- row

(* The lock passes from one server to another only when it was given back, *)
(* or when its owner died and maxInterval is over: statements of others    *)
(* between its SELECT, its UPDATE or INSERT, and its DELETE neither take   *)
(* it from who has it nor give it to two.                                  *)
ImplementsLease == Lock!Spec

(* Whoever waits for the lock does not retry for ever while nobody         *)
(* executes: some server executes the function, though the owner of the    *)
(* lock has died with it, or the call ends without the lock (retryOpts     *)
(* stop it, its INSERT is refused, or it fails).  A retry alone, which     *)
(* leaves the server within the same call, does neither.                   *)
DeadLockIsOvertaken ==
    \A p \in Retrying :
        pc[p] = "wait" ~>
            \/ \E q \in Servers : pc[q] = "execute"
            \/ pc[p] \in {"idle", "refused"}

-----------------------------------------------------------------------------
(* LockExecuteAndReleaseWithRetries "waits for the lock to be released if  *)
(* it is already taken": it does not return because it is.                 *)
NeverRefused == \A p \in Retrying : pc[p] # "refused"
=============================================================================
