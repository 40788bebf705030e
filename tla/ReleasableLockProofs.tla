------------------------ MODULE ReleasableLockProofs ------------------------
(***************************************************************************)
(* LockExecuteAndRelease for any number of servers, any times and any skew *)
(* of the clocks, as long as maxInterval is long enough: its types, mutual *)
(* exclusion, that nobody's lock is deleted by another server, and that it *)
(* implements Lease.                                                       *)
(***************************************************************************)
EXTENDS ReleasableLock, TLAPS

(* A server in its transaction has the row locked. *)
RowIsLocked(p) ==
    pc[p] \in {"locked", "overtake"} => locked = p /\ row # None

(* What a server is about to write, and what it has written, is older than *)
(* its run by less than a second.  While it runs, no clock sees the row    *)
(* timed out. *)
StampIsRecent(p) ==
    pc[p] \in {"overtake", "insert"} => stamp[p] < Second + ran[p]

RowIsRecent(p) == Holds(p) => row # None /\ row < Second + ran[p]

(* When a server overtakes a lock, nobody has it any more. *)
LockIsDead(p) == pc[p] = "overtake" => \A q \in Servers : ~Holds(q)

IInv ==
    /\ TypeOK
    /\ \A p \in Servers : RowIsLocked(p) /\ StampIsRecent(p) /\ RowIsRecent(p) /\ LockIsDead(p)
    /\ MutualExclusion

-----------------------------------------------------------------------------
LEMMA InitIInv == Init => IInv
  BY ReleasableLockAssumption
  DEF Init, IInv, TypeOK, Ages, RowIsLocked, StampIsRecent, RowIsRecent,
      LockIsDead, MutualExclusion, Holds

(* Time makes the row and the stamps older, and the runs as much longer. *)
LEMMA PassIInv == IInv /\ Pass => IInv'
<1> SUFFICES ASSUME IInv, Pass PROVE IInv'
  OBVIOUS
<1> USE ReleasableLockAssumption
<1>1. ASSUME NEW a \in Ages
      PROVE  Older(a) \in Ages /\ Older(a) <= a + 1 /\ Older(a) # None
  <2>1. Older(a) \in Ages /\ Older(a) <= a + 1
    BY DEF Older, Ages
  <2> QED
    BY <2>1
<1>2. TypeOK'
  <2>1. row' \in Ages \cup {None}
    BY <1>1 DEF Pass, IInv, TypeOK
  <2>2. stamp' \in [Servers -> Ages]
    BY <1>1 DEF Pass, IInv, TypeOK
  <2>3. ran' \in [Servers -> 0..MaxRun]
    BY DEF Pass, IInv, TypeOK
  <2> QED
    BY <2>1, <2>2, <2>3 DEF Pass, IInv, TypeOK
<1>3. ASSUME NEW p \in Servers PROVE RowIsLocked(p)'
  BY <1>1 DEF Pass, IInv, TypeOK, RowIsLocked
<1>4. ASSUME NEW p \in Servers PROVE StampIsRecent(p)'
  <2> SUFFICES ASSUME pc[p] \in {"overtake", "insert"}
               PROVE  stamp'[p] < Second + ran'[p]
    BY DEF Pass, StampIsRecent
  <2>1. stamp'[p] = Older(stamp[p]) /\ ran'[p] = ran[p] + 1
    BY DEF Pass, Busy
  <2>2. stamp[p] < Second + ran[p] /\ stamp[p] \in Ages /\ ran[p] \in Nat
    BY DEF IInv, TypeOK, StampIsRecent
  <2>3. Older(stamp[p]) <= stamp[p] + 1 /\ Older(stamp[p]) \in Ages
    BY <1>1, <2>2
  <2> QED
    BY <2>1, <2>2, <2>3 DEF Ages
<1>5. ASSUME NEW p \in Servers PROVE RowIsRecent(p)'
  <2> SUFFICES ASSUME Holds(p)
               PROVE  row' # None /\ row' < Second + ran'[p]
    BY DEF Pass, RowIsRecent, Holds
  <2>1. row # None /\ row < Second + ran[p] /\ row \in Ages /\ ran[p] \in Nat
    BY DEF IInv, TypeOK, RowIsRecent
  <2>2. row' = Older(row) /\ ran'[p] = ran[p] + 1
    BY <2>1 DEF Pass, Busy
  <2>3. Older(row) <= row + 1 /\ Older(row) \in Ages /\ Older(row) # None
    BY <1>1, <2>1
  <2> QED
    BY <2>1, <2>2, <2>3 DEF Ages
<1>6. ASSUME NEW p \in Servers PROVE LockIsDead(p)'
  BY DEF Pass, IInv, LockIsDead, Holds
<1>7. MutualExclusion'
  BY DEF Pass, IInv, MutualExclusion, Holds
<1> QED
  BY <1>2, <1>3, <1>4, <1>5, <1>6, <1>7 DEF IInv

(* A row that some clock sees timed out belongs to nobody who still runs. *)
LEMMA TimedOutIsDead ==
    ASSUME IInv, NEW age \in SeenAge(row), row # None, ~LockWithinInterval(age),
           NEW q \in Servers
    PROVE  ~Holds(q)
<1> SUFFICES ASSUME Holds(q) PROVE FALSE
  OBVIOUS
<1>1. row < Second + ran[q] /\ row \in Ages /\ ran[q] \in 0..MaxRun
  BY DEF IInv, TypeOK, RowIsRecent
<1> QED
  BY <1>1, ReleasableLockAssumption DEF SeenAge, LockWithinInterval, Ages

(* Every step of a server preserves the invariant. *)
LEMMA StepIInv ==
    ASSUME IInv, NEW p \in Servers, LockExecuteAndRelease(p)
    PROVE  IInv'
<1> USE ReleasableLockAssumption DEF Goto, Leave
<1> DEFINE Rest == /\ \A q \in Servers : RowIsLocked(q) /\ StampIsRecent(q)
                                          /\ RowIsRecent(q) /\ LockIsDead(q)
                   /\ MutualExclusion
<1>1. CASE Call(p) \/ Retry(p) \/ GiveUp(p) \/ ExecuteFunc(p)
  <2> USE <1>1 DEF Call, Retry, GiveUp, ExecuteFunc
  <2>1. TypeOK'
    BY DEF IInv, TypeOK
  <2>2. Rest'
    BY DEF IInv, TypeOK, RowIsLocked, StampIsRecent, RowIsRecent, LockIsDead,
           MutualExclusion, Holds
  <2> QED
    BY <2>1, <2>2 DEF IInv
<1>2. CASE SelectRow(p)
  <2> USE <1>2 DEF SelectRow
  <2>1. TypeOK'
    BY DEF IInv, TypeOK
  <2>2. Rest'
    BY DEF IInv, TypeOK, RowIsLocked, StampIsRecent, RowIsRecent, LockIsDead,
           MutualExclusion, Holds
  <2> QED
    BY <2>1, <2>2 DEF IInv
<1>3. CASE LockExists(p)
  <2> USE <1>3 DEF LockExists
  <2>1. TypeOK'
    BY DEF IInv, TypeOK, Ages
  <2>2. Rest'
    BY DEF IInv, TypeOK, RowIsLocked, StampIsRecent, RowIsRecent, LockIsDead,
           MutualExclusion, Holds
  <2> QED
    BY <2>1, <2>2 DEF IInv
<1>4. CASE LockTimedOut(p)
  <2> USE <1>4 DEF LockTimedOut
  <2>1. row # None
    BY DEF IInv, RowIsLocked
  <2>2. \A q \in Servers : ~Holds(q)
    BY <2>1, TimedOutIsDead
  <2>3. TypeOK'
    BY DEF IInv, TypeOK, Stamp, Ages
  <2>4. ASSUME NEW q \in Servers PROVE StampIsRecent(q)'
    BY DEF IInv, TypeOK, Stamp, StampIsRecent
  <2>5. ASSUME NEW q \in Servers
        PROVE  (RowIsLocked(q) /\ RowIsRecent(q) /\ LockIsDead(q))'
    BY <2>2 DEF IInv, TypeOK, RowIsLocked, RowIsRecent, LockIsDead, Holds
  <2>6. MutualExclusion'
    BY <2>2 DEF IInv, TypeOK, MutualExclusion, Holds
  <2> QED
    BY <2>3, <2>4, <2>5, <2>6 DEF IInv
<1>5. CASE Overtake(p)
  <2> USE <1>5 DEF Overtake
  <2>1. /\ stamp[p] \in Ages /\ stamp[p] < Second + ran[p]
        /\ \A q \in Servers : ~Holds(q)
        /\ locked = p
    BY DEF IInv, TypeOK, StampIsRecent, LockIsDead, RowIsLocked
  <2>2. TypeOK'
    BY <2>1 DEF IInv, TypeOK
  <2>3. ASSUME NEW q \in Servers
        PROVE  /\ (RowIsLocked(q) /\ StampIsRecent(q))'
               /\ (RowIsRecent(q) /\ LockIsDead(q))'
    BY <2>1 DEF IInv, TypeOK, RowIsLocked, StampIsRecent, RowIsRecent, LockIsDead, Holds
  <2>4. MutualExclusion'
    BY <2>1 DEF IInv, TypeOK, MutualExclusion, Holds
  <2> QED
    BY <2>2, <2>3, <2>4 DEF IInv
<1>6. CASE SelectNothing(p)
  <2> USE <1>6 DEF SelectNothing
  <2>1. TypeOK'
    BY DEF IInv, TypeOK, Stamp, Ages
  <2>2. ASSUME NEW q \in Servers PROVE StampIsRecent(q)'
    BY DEF IInv, TypeOK, Stamp, StampIsRecent
  <2>3. ASSUME NEW q \in Servers
        PROVE  (RowIsLocked(q) /\ RowIsRecent(q) /\ LockIsDead(q))'
    BY DEF IInv, TypeOK, RowIsLocked, RowIsRecent, LockIsDead, Holds
  <2>4. MutualExclusion'
    BY DEF IInv, TypeOK, MutualExclusion, Holds
  <2> QED
    BY <2>1, <2>2, <2>3, <2>4 DEF IInv
<1>7. CASE CreateLock(p)
  <2> USE <1>7 DEF CreateLock
  <2>1. /\ stamp[p] \in Ages /\ stamp[p] < Second + ran[p]
        /\ \A q \in Servers : ~Holds(q) /\ pc[q] \notin {"locked", "overtake"}
    BY DEF IInv, TypeOK, StampIsRecent, RowIsRecent, RowIsLocked
  <2>2. TypeOK'
    BY <2>1 DEF IInv, TypeOK
  <2>3. ASSUME NEW q \in Servers
        PROVE  /\ (RowIsLocked(q) /\ StampIsRecent(q))'
               /\ (RowIsRecent(q) /\ LockIsDead(q))'
    BY <2>1 DEF IInv, TypeOK, RowIsLocked, StampIsRecent, RowIsRecent, LockIsDead, Holds
  <2>4. MutualExclusion'
    BY <2>1 DEF IInv, TypeOK, MutualExclusion, Holds
  <2> QED
    BY <2>2, <2>3, <2>4 DEF IInv
<1>8. CASE CreateLockRejected(p) \/ Fail(p)
  <2> USE <1>8 DEF CreateLockRejected, Fail
  <2>1. TypeOK'
    BY DEF IInv, TypeOK, Ages
  <2>2. Rest'
    BY DEF IInv, TypeOK, RowIsLocked, StampIsRecent, RowIsRecent, LockIsDead,
           MutualExclusion, Holds
  <2> QED
    BY <2>1, <2>2 DEF IInv
<1>9. CASE ReleaseLock(p)
  <2> USE <1>9 DEF ReleaseLock
  <2>1. \A q \in Servers : q # p => ~Holds(q)
    BY DEF IInv, MutualExclusion, Holds
  <2>2. \A q \in Servers : pc[q] \notin {"locked", "overtake"}
    BY DEF IInv, RowIsLocked
  <2>3. TypeOK'
    BY DEF IInv, TypeOK, Ages
  <2>4. Rest'
    BY <2>1, <2>2 DEF IInv, TypeOK, RowIsLocked, StampIsRecent, RowIsRecent,
           LockIsDead, MutualExclusion, Holds
  <2> QED
    BY <2>3, <2>4 DEF IInv
<1> QED
  BY <1>1, <1>2, <1>3, <1>4, <1>5, <1>6, <1>7, <1>8, <1>9
  DEF LockExecuteAndRelease, Acquiring

LEMMA Invariance == Spec => []IInv
<1>1. IInv /\ [Next]_vars => IInv'
  <2>1. IInv /\ UNCHANGED vars => IInv'
    BY DEF vars, IInv, TypeOK, RowIsLocked, StampIsRecent, RowIsRecent,
           LockIsDead, MutualExclusion, Holds
  <2> QED
    BY <2>1, PassIInv, StepIInv DEF Next
<1> QED
  BY <1>1, InitIInv, PTL DEF Spec

-----------------------------------------------------------------------------
(* Every variable keeps its type, and the row is locked only by a server   *)
(* in its transaction. *)
THEOREM TypeCorrect == Spec => []TypeOK
<1>1. IInv => TypeOK
  BY DEF IInv
<1> QED
  BY <1>1, Invariance, PTL

(* No two servers execute the function at the same time. *)
THEOREM Exclusion == Spec => []MutualExclusion
<1>1. IInv => MutualExclusion
  BY DEF IInv
<1> QED
  BY <1>1, Invariance, PTL

(* A server that executes has its row, until it deletes it itself. *)
THEOREM LockKept == Spec => []LockIsKept
<1>1. IInv => LockIsKept
  BY DEF IInv, RowIsRecent, LockIsKept
<1> QED
  BY <1>1, Invariance, PTL

-----------------------------------------------------------------------------
(* The refinement of Lease.                                                *)

(* A server that overtakes found the lock to be over, and keeps it so.     *)
LeaseIsOver == \A p \in Servers : pc[p] = "overtake" => row # None /\ row + Skew >= MaxInterval

LEMMA OwnerIs ==
    /\ \A p \in Servers : MutualExclusion /\ Holds(p) => Owner = p
    /\ (\A p \in Servers : ~Holds(p)) => Owner = None
  BY DEF Owner, MutualExclusion

LEMMA OwnerOfNext ==
    /\ \A p \in Servers : MutualExclusion' /\ Holds(p)' => Owner' = p
    /\ (\A p \in Servers : ~Holds(p)') => Owner' = None
  BY DEF Owner, MutualExclusion

(* Who holds the lock is who did, unless a step changes it. *)
LEMMA SameOwner ==
    ASSUME \A p \in Servers : Holds(p)' <=> Holds(p)
    PROVE  Owner' = Owner
  BY DEF Owner

LEMMA OldEnough ==
    ASSUME NEW a \in Ages
    PROVE  Older(a) # None /\ (a + Skew >= MaxInterval => Older(a) + Skew >= MaxInterval)
<1>1. Older(a) \in Ages /\ Older(a) >= a
  BY ReleasableLockAssumption DEF Older, Ages
<1> QED
  BY <1>1, ReleasableLockAssumption DEF Ages

LEMMA PassLease == IInv /\ LeaseIsOver /\ Pass => LeaseIsOver' /\ [Lock!Next]_(Lock!vars)
<1> SUFFICES ASSUME IInv, LeaseIsOver, Pass PROVE LeaseIsOver' /\ [Lock!Next]_(Lock!vars)
  OBVIOUS
<1>1. UNCHANGED pc /\ row' = IF row = None THEN None ELSE Older(row)
  BY DEF Pass
<1>2. row # None => row \in Ages
  BY DEF IInv, TypeOK
<1>3. LeaseIsOver'
  BY <1>1, <1>2, OldEnough DEF LeaseIsOver
<1>4. Owner' = Owner
  BY <1>1, SameOwner DEF Holds
<1>5. CASE row = None
  BY <1>1, <1>3, <1>4, <1>5 DEF Lock!vars
<1>6. CASE row # None
  BY <1>1, <1>3, <1>4, <1>6 DEF Lock!Next, Lock!Pass, Older
<1> QED
  BY <1>3, <1>5, <1>6

(* What a server writes is at most as old as its run allows. *)
LEMMA StampIsFresh ==
    ASSUME IInv, NEW p \in Servers, pc[p] \in {"overtake", "insert"}
    PROVE  stamp[p] \in (-Skew)..(Second - 1 + MaxRun)
<1>1. stamp[p] \in Ages /\ ran[p] \in 0..MaxRun /\ stamp[p] < Second + ran[p]
  BY DEF IInv, TypeOK, StampIsRecent
<1> QED
  BY <1>1, ReleasableLockAssumption DEF Ages

LEMMA StepLease ==
    ASSUME IInv, IInv', LeaseIsOver, NEW p \in Servers, LockExecuteAndRelease(p)
    PROVE  LeaseIsOver' /\ [Lock!Next]_(Lock!vars)
<1> USE DEF Goto, Leave
<1> DEFINE Labels == {"idle", "select", "locked", "overtake", "insert",
                      "execute", "release", "wait", "refused"}
<1>m. MutualExclusion /\ MutualExclusion' /\ pc \in [Servers -> Labels]
  BY DEF IInv, TypeOK
<1>1. CASE \/ Call(p) \/ SelectRow(p) \/ SelectNothing(p) \/ LockExists(p)
           \/ CreateLockRejected(p) \/ Retry(p) \/ GiveUp(p) \/ ExecuteFunc(p)
  <2>1. /\ row' = row
        /\ \A q \in Servers : pc'[q] = "overtake" => pc[q] = "overtake"
        /\ \A q \in Servers : Holds(q)' <=> Holds(q)
    BY <1>1, <1>m DEF Call, SelectRow, SelectNothing, LockExists, CreateLockRejected, Retry,
                      GiveUp, ExecuteFunc, Holds
  <2>2. Owner' = Owner
    BY <2>1, SameOwner
  <2> QED
    BY <2>1, <2>2 DEF LeaseIsOver, Lock!vars
<1>2. CASE LockTimedOut(p)
  <2>1. /\ row' = row /\ pc[p] = "locked"
        /\ \A q \in Servers : pc'[q] = "overtake" => pc[q] = "overtake" \/ q = p
        /\ \A q \in Servers : Holds(q)' <=> Holds(q)
    BY <1>2, <1>m DEF LockTimedOut, Holds
  <2>2. row \in Ages /\ row # None
    BY <2>1 DEF IInv, TypeOK, RowIsLocked
  <2>3. row + Skew >= MaxInterval
    <3>1. PICK age \in SeenAge(row) : ~(age < MaxInterval)
      BY <1>2 DEF LockTimedOut, LockWithinInterval
    <3> QED
      BY <2>2, <3>1, ReleasableLockAssumption DEF SeenAge, Ages
  <2>4. Owner' = Owner
    BY <2>1, SameOwner
  <2> QED
    BY <2>1, <2>2, <2>3, <2>4 DEF LeaseIsOver, Lock!vars
<1>3. CASE Overtake(p)
  <2>1. /\ pc[p] = "overtake" /\ row' = stamp[p] /\ Holds(p)'
        /\ \A q \in Servers : q # p => pc'[q] = pc[q]
        /\ pc'[p] # "overtake"
    BY <1>3, <1>m DEF Overtake, Holds
  <2>2. \A q \in Servers : ~Holds(q)
    BY <2>1 DEF IInv, LockIsDead
  <2>3. Owner = None /\ Owner' = p
    BY <1>m, <2>1, <2>2, OwnerIs, OwnerOfNext
  <2>4. \A q \in Servers : pc'[q] # "overtake"
    BY <2>1 DEF IInv, RowIsLocked
  <2>5. stamp[p] \in (-Skew)..(Second - 1 + MaxRun)
    BY <2>1, StampIsFresh
  <2>6. row # None /\ row + Skew >= MaxInterval
    BY <2>1 DEF LeaseIsOver
  <2>7. Lock!Overtake(p)
    BY <2>1, <2>3, <2>5, <2>6 DEF Lock!Overtake, Lock!Own
  <2> QED
    BY <2>4, <2>7 DEF LeaseIsOver, Lock!Next
<1>4. CASE CreateLock(p)
  <2>1. /\ pc[p] = "insert" /\ row = None /\ row' = stamp[p] /\ Holds(p)'
        /\ \A q \in Servers : q # p => pc'[q] = pc[q]
        /\ pc'[p] # "overtake"
    BY <1>4, <1>m DEF CreateLock, Holds
  <2>2. \A q \in Servers : ~Holds(q) /\ pc[q] # "overtake"
    BY <2>1 DEF IInv, RowIsRecent, LeaseIsOver
  <2>3. Owner = None /\ Owner' = p
    BY <1>m, <2>1, <2>2, OwnerIs, OwnerOfNext
  <2>4. stamp[p] \in (-Skew)..(Second - 1 + MaxRun)
    BY <2>1, StampIsFresh
  <2>5. Lock!Take(p)
    BY <2>1, <2>3, <2>4 DEF Lock!Take, Lock!Own
  <2>6. \A q \in Servers : pc'[q] # "overtake"
    BY <2>1, <2>2
  <2> QED
    BY <2>5, <2>6 DEF LeaseIsOver, Lock!Next
<1>5. CASE ReleaseLock(p)
  <2>1. /\ pc[p] = "release" /\ locked = None /\ row' = None /\ Holds(p) /\ ~Holds(p)'
        /\ \A q \in Servers : q # p => pc'[q] = pc[q]
        /\ pc'[p] # "overtake"
    BY <1>5, <1>m DEF ReleaseLock, Holds
  <2>2. \A q \in Servers : pc[q] # "overtake"
    BY <2>1, ReleasableLockAssumption DEF IInv, RowIsLocked
  <2>3. \A q \in Servers : ~Holds(q)'
    BY <1>m, <2>1 DEF MutualExclusion, Holds
  <2>4. Owner = p /\ Owner' = None
    BY <1>m, <2>1, <2>3, OwnerIs, OwnerOfNext
  <2>5. Lock!GiveBack(p)
    BY <2>1, <2>4 DEF Lock!GiveBack
  <2>6. \A q \in Servers : pc'[q] # "overtake"
    BY <2>1, <2>2
  <2> QED
    BY <2>5, <2>6 DEF LeaseIsOver, Lock!Next
<1>6. CASE Fail(p)
  <2>1. /\ row' = row /\ ~Holds(p)' /\ pc'[p] # "overtake"
        /\ \A q \in Servers : q # p => pc'[q] = pc[q]
    BY <1>6, <1>m DEF Fail, Holds
  <2>2. LeaseIsOver'
    BY <2>1 DEF LeaseIsOver
  <2>3. CASE Holds(p)
    <3>1. \A q \in Servers : ~Holds(q)'
      BY <1>m, <2>1, <2>3 DEF MutualExclusion, Holds
    <3>2. Owner = p /\ Owner' = None
      BY <1>m, <2>3, <3>1, OwnerIs, OwnerOfNext
    <3>3. Lock!Die(p)
      BY <2>1, <3>2 DEF Lock!Die
    <3> QED
      BY <2>2, <3>3 DEF Lock!Next
  <2>4. CASE ~Holds(p)
    <3>1. \A q \in Servers : Holds(q)' <=> Holds(q)
      BY <2>1, <2>4 DEF Holds
    <3>2. Owner' = Owner
      BY <3>1, SameOwner
    <3> QED
      BY <2>1, <2>2, <3>2 DEF Lock!vars
  <2> QED
    BY <2>3, <2>4
<1> QED
  BY <1>1, <1>2, <1>3, <1>4, <1>5, <1>6 DEF LockExecuteAndRelease, Acquiring

(* The servers share a lock with leases: it goes from one to another only  *)
(* when it was given back or when its time is over by some clock, also     *)
(* the lock of a server that died, for any number of servers.              *)
THEOREM Refinement == Spec => ImplementsLease
<1>1. Init => LeaseIsOver /\ Lock!Init
  BY OwnerIs DEF Init, LeaseIsOver, Lock!Init, Holds
<1>2. IInv /\ IInv' /\ LeaseIsOver /\ [Next]_vars => LeaseIsOver' /\ [Lock!Next]_(Lock!vars)
  <2>1. LeaseIsOver /\ UNCHANGED vars => LeaseIsOver' /\ UNCHANGED Lock!vars
    <3> SUFFICES ASSUME LeaseIsOver, UNCHANGED vars PROVE LeaseIsOver' /\ UNCHANGED Lock!vars
      OBVIOUS
    <3>1. row' = row /\ pc' = pc
      BY DEF vars
    <3>2. Owner' = Owner
      BY <3>1, SameOwner DEF Holds
    <3> QED
      BY <3>1, <3>2 DEF LeaseIsOver, Lock!vars
  <2> QED
    BY <2>1, PassLease, StepLease DEF Next
<1> QED
  BY <1>1, <1>2, Invariance, PTL DEF Spec, ImplementsLease, Lock!Spec
=============================================================================
