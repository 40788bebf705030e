------------------------ MODULE VersionedLockProofs ------------------------
(***************************************************************************)
(* LockAndExecute for any number of servers, any interval and any skew of  *)
(* the clocks: its types, the count of its grants and their spacing.       *)
(***************************************************************************)
EXTENDS VersionedLock, TLAPS

(* The row holds the stamp of the last grant, which is less than a second  *)
(* older than the time at which its server read the clock. *)
RowOfGrant ==
    /\ VersionCountsGrants
    /\ row # None /\ grant.number # 0 =>
         row.last # 0 /\ row.last + Second > grant.at - grant.late

(* A server's copy of the row is the row, unless its version is older. *)
CopyOfRow(p) ==
    local[p] # None =>
        /\ row # None
        /\ local[p].version <= row.version
        /\ local[p].version = row.version => local[p] = row

(* What a server knows once it has passed the check of the interval, and   *)
(* once it has read the clock. *)
Expired(p, t) == local[p].last # 0 => t + Skew >= local[p].last + MaxInterval

AfterCheck(p) ==
    /\ pc[p] = "acquire" => Expired(p, now)
    /\ pc[p] = "update" =>
         /\ Expired(p, stampedAt[p])
         /\ stampedAt[p] \in Second..now
         /\ stamp[p] + Second > stampedAt[p]

IInv ==
    /\ TypeOK
    /\ RowOfGrant
    /\ \A p \in Servers : CopyOfRow(p) /\ AfterCheck(p)

-----------------------------------------------------------------------------
(* Storing whole seconds loses less than one. *)
LEMMA UnixLosesLessThanASecond ==
    ASSUME NEW t \in Nat
    PROVE  /\ Unix(t) \in Nat
           /\ Unix(t) + Second > t
<1> DEFINE q == t \div Second
<1>1. /\ q \in Nat
      /\ t % Second \in Nat
      /\ t % Second < Second
      /\ t = Second * q + (t % Second)
  BY VersionedLockAssumption
<1> HIDE DEF q
<1>2. Unix(t) = q * Second
  BY DEF Unix, q
<1> QED
  BY <1>1, <1>2, VersionedLockAssumption

LEMMA InitIInv == Init => IInv
  BY VersionedLockAssumption
  DEF Init, IInv, TypeOK, Rows, RowOfGrant, VersionCountsGrants, CopyOfRow, AfterCheck

(* A server that returns forgets what it knew. *)
LEMMA ReturnIInv ==
    ASSUME IInv, NEW p \in Servers, Return(p), UNCHANGED <<now, row, grant>>
    PROVE  IInv'
<1> USE DEF IInv, TypeOK, Return, Goto
<1>1. TypeOK'
  OBVIOUS
<1>2. RowOfGrant'
  BY DEF RowOfGrant, VersionCountsGrants
<1>3. ASSUME NEW q \in Servers PROVE (CopyOfRow(q) /\ AfterCheck(q))'
  BY DEF CopyOfRow, AfterCheck, Expired
<1> QED
  BY <1>1, <1>2, <1>3

(* The UPDATE: the row has the version that the server has read, so it is  *)
(* the row that the server has checked. *)
LEMMA GrantIInv ==
    ASSUME IInv, NEW p \in Servers, pc[p] = "update", Grant(p),
           row.version = local[p].version,
           \/ Goto(p, "execute") /\ UNCHANGED <<now, localVars>>
           \/ Return(p) /\ UNCHANGED now
    PROVE  /\ IInv'
           /\ grant.number # 0 => grant'.at - grant.at > MaxInterval - Second - Skew - grant.late
<1> USE VersionedLockAssumption DEF IInv, TypeOK, Rows, localVars
<1>1. /\ row \in Rows
      /\ local[p] = row
      /\ row.version = grant.number
  BY DEF CopyOfRow, RowOfGrant, VersionCountsGrants
<1>2. /\ Expired(p, stampedAt[p])
      /\ stampedAt[p] \in Second..now
      /\ stamp[p] + Second > stampedAt[p]
  BY DEF AfterCheck
<1>3. grant.number # 0 => grant'.at - grant.at > MaxInterval - Second - Skew - grant.late
  BY <1>1, <1>2 DEF Grant, Expired, RowOfGrant
<1>4. TypeOK'
  <2>1. grant' \in [at : Nat, late : Nat, number : Nat]
    BY <1>2 DEF Grant
  <2> QED
    BY <1>1, <2>1 DEF Grant, Goto, Return
<1>5. RowOfGrant'
  BY <1>1, <1>2, <1>4 DEF Grant, RowOfGrant, VersionCountsGrants
<1>6. ASSUME NEW q \in Servers PROVE CopyOfRow(q)'
  <2>1. local'[q] # None => local'[q] = local[q]
    BY DEF Return
  <2>2. local[q] # None => local[q].version < row'.version
    BY <1>1 DEF Grant, CopyOfRow
  <2>3. row' \in Rows
    BY <1>1 DEF Grant
  <2>4. local[q] # None => local[q] \in Rows
    OBVIOUS
  <2> QED
    BY <2>1, <2>2, <2>3, <2>4 DEF CopyOfRow
<1>7. ASSUME NEW q \in Servers PROVE AfterCheck(q)'
  <2>1. CASE q = p
    BY <2>1 DEF AfterCheck, Goto, Return
  <2>2. CASE q # p
    BY <2>2 DEF AfterCheck, Expired, Goto, Return
  <2> QED
    BY <2>1, <2>2
<1> QED
  BY <1>3, <1>4, <1>5, <1>6, <1>7

(* Every step preserves the invariant. *)
LEMMA NextIInv == IInv /\ [Next]_vars => IInv'
<1> SUFFICES ASSUME IInv, [Next]_vars PROVE IInv'
  OBVIOUS
<1> USE VersionedLockAssumption DEF serverVars, localVars
<1>1. CASE Pass
  BY <1>1 DEF Pass, IInv, TypeOK, Rows, RowOfGrant, VersionCountsGrants,
              CopyOfRow, AfterCheck, Expired
<1>2. ASSUME NEW p \in Servers, GetRow(p) PROVE IInv'
  <2> USE <1>2 DEF GetRow, Goto
  <2>1. TypeOK'
    BY DEF IInv, TypeOK
  <2>2. RowOfGrant'
    BY DEF IInv, RowOfGrant, VersionCountsGrants
  <2>3. ASSUME NEW q \in Servers PROVE (CopyOfRow(q) /\ AfterCheck(q))'
    BY DEF IInv, TypeOK, Rows, CopyOfRow, AfterCheck, Expired
  <2> QED
    BY <2>1, <2>2, <2>3 DEF IInv
<1>3. ASSUME NEW p \in Servers, CreateLock(p) PROVE IInv'
  <2> USE <1>3 DEF CreateLock, Goto
  <2>1. TypeOK'
    BY DEF IInv, TypeOK, Rows
  <2>2. RowOfGrant'
    BY <2>1 DEF IInv, TypeOK, Rows, RowOfGrant, VersionCountsGrants
  <2>3. ASSUME NEW q \in Servers PROVE (CopyOfRow(q) /\ AfterCheck(q))'
    BY <2>1 DEF IInv, TypeOK, Rows, CopyOfRow, AfterCheck, Expired
  <2> QED
    BY <2>1, <2>2, <2>3 DEF IInv
<1>4. ASSUME NEW p \in Servers, CheckInterval(p) PROVE IInv'
  <2>1. PICK t \in Clock : IF LockWithinInterval(local[p], t)
                           THEN Return(p)
                           ELSE Goto(p, "acquire") /\ UNCHANGED localVars
    BY <1>4 DEF CheckInterval
  <2>2. UNCHANGED <<now, row, grant>>
    BY <1>4 DEF CheckInterval
  <2>3. CASE LockWithinInterval(local[p], t)
    BY <2>1, <2>2, <2>3, ReturnIInv
  <2>4. CASE ~LockWithinInterval(local[p], t)
    <3> USE <1>4, <2>1, <2>2, <2>4 DEF CheckInterval, Goto
    <3>1. TypeOK'
      BY DEF IInv, TypeOK
    <3>2. RowOfGrant'
      BY DEF IInv, RowOfGrant, VersionCountsGrants
    <3>3. ASSUME NEW q \in Servers PROVE CopyOfRow(q)'
      BY DEF IInv, CopyOfRow
    <3>4. Expired(p, now)
      <4>1. local[p] \in Rows /\ now \in Nat
        BY DEF IInv, TypeOK
      <4> QED
        BY <4>1 DEF Clock, LockWithinInterval, Expired, Rows
    <3>5. ASSUME NEW q \in Servers PROVE AfterCheck(q)'
      BY <3>4 DEF IInv, TypeOK, AfterCheck, Expired
    <3> QED
      BY <3>1, <3>2, <3>3, <3>5 DEF IInv
  <2> QED
    BY <2>3, <2>4
<1>5. ASSUME NEW p \in Servers, ReadClock(p) PROVE IInv'
  <2>1. PICK t \in Clock : stamp' = [stamp EXCEPT ![p] = Unix(t)]
    BY <1>5 DEF ReadClock
  <2>2. t \in Nat /\ t >= now /\ now \in Nat /\ now >= Second
    BY DEF Clock, IInv, TypeOK
  <2>3. Unix(t) \in Nat /\ Unix(t) + Second > t
    BY <2>2, UnixLosesLessThanASecond
  <2> USE <1>5 DEF ReadClock, Goto
  <2>4. TypeOK'
    BY <2>1, <2>2, <2>3 DEF IInv, TypeOK
  <2>5. RowOfGrant'
    BY DEF IInv, RowOfGrant, VersionCountsGrants
  <2>6. ASSUME NEW q \in Servers PROVE (CopyOfRow(q) /\ AfterCheck(q))'
    BY <2>1, <2>2, <2>3 DEF IInv, TypeOK, CopyOfRow, AfterCheck, Expired
  <2> QED
    BY <2>4, <2>5, <2>6 DEF IInv
<1>6. ASSUME NEW p \in Servers, AcquireLock(p) PROVE IInv'
  BY <1>6, GrantIInv DEF AcquireLock
<1>7. ASSUME NEW p \in Servers, AcquireLockUnknown(p) PROVE IInv'
  BY <1>7, GrantIInv DEF AcquireLockUnknown
<1>8. ASSUME NEW p \in Servers,
             \/ CreateLockRejected(p) \/ AcquireLockMissed(p)
             \/ ExecuteFunc(p) \/ Fail(p)
      PROVE  IInv'
  BY <1>8, ReturnIInv DEF CreateLockRejected, AcquireLockMissed, ExecuteFunc, Fail
<1>9. CASE UNCHANGED vars
  BY <1>9 DEF vars, IInv, TypeOK, RowOfGrant, VersionCountsGrants,
              CopyOfRow, AfterCheck, Expired
<1> QED
  BY <1>1, <1>2, <1>3, <1>4, <1>5, <1>6, <1>7, <1>8, <1>9 DEF Next, LockAndExecute

LEMMA Invariance == Spec => []IInv
  BY InitIInv, NextIInv, PTL DEF Spec

-----------------------------------------------------------------------------
(* Every variable keeps its type, and a server that works on the lock has  *)
(* a row to work with. *)
THEOREM TypeCorrect == Spec => []TypeOK
<1>1. IInv => TypeOK
  BY DEF IInv
<1> QED
  BY <1>1, Invariance, PTL

(* No UPDATE of the row is lost and none is counted twice. *)
THEOREM GrantsCounted == Spec => []VersionCountsGrants
<1>1. IInv => VersionCountsGrants
  BY DEF IInv, RowOfGrant
<1> QED
  BY <1>1, Invariance, PTL

(* Two UPDATEs that grant the lock are never closer than maxInterval less  *)
(* a second, the skew of the clocks and the time that passed between the   *)
(* earlier one's time.Now() and its effect. *)
THEOREM GrantsSpaced == Spec => GrantsAreSpaced
<1> DEFINE Spaced ==
      (grant'.number # grant.number /\ grant.number # 0) =>
         grant'.at - grant.at > MaxInterval - Second - Skew - grant.late
<1>1. IInv /\ [Next]_vars => [Spaced]_vars
  <2> SUFFICES ASSUME IInv, Next, grant' # grant PROVE Spaced
    OBVIOUS
  <2>1. ASSUME NEW p \in Servers, AcquireLock(p) \/ AcquireLockUnknown(p)
        PROVE  Spaced
    BY <2>1, GrantIInv DEF AcquireLock, AcquireLockUnknown
  <2>2. \E p \in Servers : AcquireLock(p) \/ AcquireLockUnknown(p)
    BY DEF Next, LockAndExecute, Pass, GetRow, CreateLock, CreateLockRejected,
           CheckInterval, ReadClock, AcquireLockMissed, ExecuteFunc, Fail
  <2> QED
    BY <2>1, <2>2
<1>2. Spec => [][Spaced]_vars
  BY <1>1, Invariance, PTL DEF Spec
<1> QED
  BY <1>2 DEF GrantsAreSpaced
=============================================================================
