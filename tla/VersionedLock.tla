--------------------------- MODULE VersionedLock ---------------------------
(***************************************************************************)
(* ServerLockService.LockAndExecute, pkg/infra/serverlock: the servers of  *)
(* a cluster run a job about once every maxInterval.  The lock is a row of *)
(* server_lock with the time it was last granted and a version, and a      *)
(* server is granted it by the one UPDATE that still finds the version the *)
(* server has read.                                                        *)
(*                                                                         *)
(* Every server reads a clock of its own, ahead of true time by up to Skew,*)
(* and stores it in whole seconds.  Between any two statements it may be   *)
(* delayed, lose the database, or restart.                                 *)
(***************************************************************************)
EXTENDS Integers

CONSTANTS
    Servers,
    MaxInterval,  \* the parameter maxInterval, a whole number of seconds
    Second,       \* the units of time in a second
    Skew,         \* how far a clock may be ahead
    MaxTime,      \* bound: the time the run covers
    None          \* no row

(* A row of server_lock; `last' is last_execution, 0 for never. *)
Rows == [version : Nat, last : Nat]

ASSUME VersionedLockAssumption ==
    /\ Second \in Nat \ {0}
    /\ MaxInterval \in Nat
    /\ Skew \in Nat
    /\ MaxTime \in Nat
    /\ Second <= MaxTime
    /\ None \notin Rows

VARIABLES
    now,        \* true time
    row,        \* the row of the action in server_lock
    pc,
    local,      \* rowLock: the row a server works with
    stamp,      \* the argument of its UPDATE
    stampedAt,  \* history: when it read the clock for it
    grant       \* history: the last UPDATE that took effect: when, how long
                \* after its server read the clock for it, and its number

localVars == <<local, stamp, stampedAt>>
serverVars == <<pc, localVars>>
vars == <<now, row, serverVars, grant>>

TypeOK ==
    /\ now \in Second..MaxTime
    /\ row \in Rows \cup {None}
    /\ pc \in [Servers -> {"idle", "create", "check", "acquire", "update", "execute"}]
    /\ local \in [Servers -> Rows \cup {None}]
    /\ \A p \in Servers : pc[p] \notin {"idle", "create"} => local[p] # None
    /\ stamp \in [Servers -> Nat]
    /\ stampedAt \in [Servers -> Nat]
    /\ grant \in [at : Nat, late : Nat, number : Nat]

Init ==
    /\ now \in Second..MaxTime
    /\ row = None
    /\ pc = [p \in Servers |-> "idle"]
    /\ local = [p \in Servers |-> None]
    /\ stamp = [p \in Servers |-> 0]
    /\ stampedAt = [p \in Servers |-> 0]
    /\ grant = [at |-> 0, late |-> 0, number |-> 0]

-----------------------------------------------------------------------------
(* time.Now of some server, and the same as time.Unix stores it. *)
Clock == now..(now + Skew)

Unix(t) == (t \div Second) * Second

(* Mutant: the interval counts from the end of the second. *)
LockWithinIntervalEarly(r, t) == r.last # 0 /\ t - r.last < MaxInterval - Second

(* isLockWithinInterval, for the clock reading t. *)
LockWithinInterval(r, t) == r.last # 0 /\ t - r.last < MaxInterval

Goto(p, label) == pc' = [pc EXCEPT ![p] = label]

(* LockAndExecute returns, and its local variables are gone. *)
Return(p) ==
    /\ Goto(p, "idle")
    /\ local' = [local EXCEPT ![p] = None]
    /\ stamp' = [stamp EXCEPT ![p] = 0]
    /\ stampedAt' = [stampedAt EXCEPT ![p] = 0]

Pass ==
    /\ now < MaxTime
    /\ now' = now + 1
    /\ UNCHANGED <<row, serverVars, grant>>

(* Mutant: the caller gets no row when there is none. *)
GetRowOnly(p) ==
    /\ pc[p] = "idle"
    /\ Goto(p, "check")
    /\ local' = [local EXCEPT ![p] = row]
    /\ UNCHANGED <<now, row, stamp, stampedAt, grant>>

(* getOrCreate: the SELECT. *)
GetRow(p) ==
    /\ pc[p] = "idle"
    /\ Goto(p, IF row = None THEN "create" ELSE "check")
    /\ local' = [local EXCEPT ![p] = row]
    /\ UNCHANGED <<now, row, stamp, stampedAt, grant>>

(* Mutant: the INSERT replaces a row that another server made meanwhile. *)
CreateLockAnyway(p) ==
    /\ pc[p] = "create"
    /\ row' = [version |-> 0, last |-> 0]
    /\ local' = [local EXCEPT ![p] = row']
    /\ Goto(p, "check")
    /\ UNCHANGED <<now, stamp, stampedAt, grant>>

(* getOrCreate: the INSERT.  The unique index on operation_uid rejects it  *)
(* when another server was faster.                                         *)
CreateLock(p) ==
    /\ pc[p] = "create"
    /\ row = None
    /\ row' = [version |-> 0, last |-> 0]
    /\ local' = [local EXCEPT ![p] = row']
    /\ Goto(p, "check")
    /\ UNCHANGED <<now, stamp, stampedAt, grant>>

CreateLockRejected(p) ==
    /\ pc[p] = "create"
    /\ row # None
    /\ Return(p)
    /\ UNCHANGED <<now, row, grant>>

(* if sl.isLockWithinInterval(rowLock, maxInterval) { return nil } *)
CheckInterval(p) ==
    /\ pc[p] = "check"
    /\ \E t \in Clock :
         IF LockWithinInterval(local[p], t)
         THEN Return(p)
         ELSE Goto(p, "acquire") /\ UNCHANGED localVars
    /\ UNCHANGED <<now, row, grant>>

(* acquireLock: time.Now().Unix(), an argument of the UPDATE. *)
ReadClock(p) ==
    /\ pc[p] = "acquire"
    /\ \E t \in Clock : stamp' = [stamp EXCEPT ![p] = Unix(t)]
    /\ stampedAt' = [stampedAt EXCEPT ![p] = now]
    /\ Goto(p, "update")
    /\ UNCHANGED <<now, row, local, grant>>

(* The UPDATE takes effect. *)
Grant(p) ==
    /\ row' = [version |-> local[p].version + 1, last |-> stamp[p]]
    /\ grant' = [at |-> now, late |-> now - stampedAt[p], number |-> grant.number + 1]

(* Mutant: the version is not in the WHERE clause. *)
AcquireLockBlindly(p) ==
    /\ pc[p] = "update"
    /\ Grant(p)
    /\ Goto(p, "execute")
    /\ UNCHANGED <<now, localVars>>

(* acquireLock: UPDATE ... WHERE operation_uid = ? AND version = ? *)
AcquireLock(p) ==
    /\ pc[p] = "update"
    /\ row.version = local[p].version
    /\ Grant(p)
    /\ Goto(p, "execute")
    /\ UNCHANGED <<now, localVars>>

(* The UPDATE takes effect, but the server never learns of it. *)
AcquireLockUnknown(p) ==
    /\ pc[p] = "update"
    /\ row.version = local[p].version
    /\ Grant(p)
    /\ Return(p)
    /\ UNCHANGED now

(* acquireLock: affected is 0. *)
AcquireLockMissed(p) ==
    /\ pc[p] = "update"
    /\ row.version # local[p].version
    /\ Return(p)
    /\ UNCHANGED <<now, row, grant>>

(* executeFunc returns. *)
ExecuteFunc(p) ==
    /\ pc[p] = "execute"
    /\ Return(p)
    /\ UNCHANGED <<now, row, grant>>

(* A statement fails, or the server restarts. *)
Fail(p) ==
    /\ pc[p] # "idle"
    /\ Return(p)
    /\ UNCHANGED <<now, row, grant>>

LockAndExecute(p) ==
    \/ GetRow(p) \/ CreateLock(p) \/ CreateLockRejected(p)
    \/ CheckInterval(p) \/ ReadClock(p)
    \/ AcquireLock(p) \/ AcquireLockUnknown(p) \/ AcquireLockMissed(p)
    \/ ExecuteFunc(p) \/ Fail(p)

Next == Pass \/ \E p \in Servers : LockAndExecute(p)

Spec == Init /\ [][Next]_vars

-----------------------------------------------------------------------------
(* The version of the row counts the grants: no UPDATE is lost to another, *)
(* and the row is never set back.                                          *)
VersionCountsGrants ==
    IF row = None THEN grant.number = 0 ELSE row.version = grant.number

(* Between two UPDATEs that take effect there is maxInterval, less what    *)
(* the column does not hold: the part of a second, the skew of the clocks, *)
(* and the time by which the earlier UPDATE was late, which took effect    *)
(* that long after its time.Now() (nothing in the code bounds it).  All    *)
(* other delays, of either server, between reading the row, checking the   *)
(* interval, reading the clock and the UPDATE, do not bring two grants     *)
(* closer.                                                                 *)
GrantsAreSpaced ==
    [][(grant'.number # grant.number /\ grant.number # 0) =>
         grant'.at - grant.at > MaxInterval - Second - Skew - grant.late]_vars
=============================================================================
