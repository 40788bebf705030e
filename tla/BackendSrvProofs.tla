-------------------------- MODULE BackendSrvProofs --------------------------
(***************************************************************************)
(* Proofs about BackendSrv, for every number of requests and slots, every  *)
(* choice of requestIds and data requests, and every number of requests    *)
(* made within a callback.                                                 *)
(*                                                                         *)
(* The stack of calls is what makes the service hard to follow, so most of *)
(* the invariants are about it: the worker is on it once, with at most the *)
(* request that it starts above it (WorkerInv); the last update that it    *)
(* has is that of the queue as it is (UpdateInv); above the listen of a    *)
(* request is a call that ends the response it replaces (SupersededInv);   *)
(* and while the worker hands out a list nothing on it ends (QueueInv).    *)
(* From the last, and from what the worker's lists keep of the order of    *)
(* the queue (ListOrder), the service implements RequestService.           *)
(* A step puts other calls where the top was, so each invariant has a      *)
(* lemma on what that does to it.                                          *)
(*                                                                         *)
(* The first part is about sequences.  What Only selects is computed by a  *)
(* recursive function; that it is what it should be needs induction, which *)
(* WFMin of WellFoundedInduction gives for sets.                           *)
(***************************************************************************)
EXTENDS BackendSrv, FiniteSetTheorems, SequenceTheorems, WellFoundedInduction, TLAPS

-----------------------------------------------------------------------------
(* Induction, and what Only selects.                                       *)

LessThan == {p \in Nat \X Nat : p[1] < p[2]}

LEMMA LessThanWellFounded == IsWellFoundedOn(LessThan, Nat)
<1>1. OpToRel(<, Nat) = LessThan
  BY DEF OpToRel, LessThan
<1> QED
  BY <1>1, NatLessThanWellFounded

(* A set that has 0, and with a number the next one, has them all. *)
LEMMA Induction ==
    ASSUME NEW P, 0 \in P, \A n \in Nat : n \in P => n + 1 \in P
    PROVE  \A n \in Nat : n \in P
<1> DEFINE T == {n \in Nat : n \notin P}
<1> SUFFICES ASSUME T # {} PROVE FALSE
  OBVIOUS
<1>1. PICK x \in T : \A y \in T : ~(<<y, x>> \in LessThan)
  BY LessThanWellFounded, WFMin
<1>2. \A y \in T : ~(y < x)
  BY <1>1 DEF LessThan
<1>3. x - 1 \in Nat /\ (x - 1) + 1 = x
  OBVIOUS
<1> QED
  BY <1>2, <1>3

(* The function that defines Only. *)
IsOnly(f, s, S, n) ==
    \A i \in 0..n :
        f[i] = IF i = 0 THEN <<>>
               ELSE IF s[i] \in S THEN Append(f[i - 1], s[i]) ELSE f[i - 1]

(* The recursion of Only, as far as it got, has a value.                   *)
LEMMA OnlyExists ==
    ASSUME NEW T, NEW s \in Seq(T), NEW S
    PROVE  \A n \in Nat : n <= Len(s) => \E f \in [0..n -> Seq(T)] : IsOnly(f, s, S, n)
<1> DEFINE P == {n \in Nat : n <= Len(s) => \E f \in [0..n -> Seq(T)] : IsOnly(f, s, S, n)}
<1>1. 0 \in P
  <2> DEFINE f == [i \in 0..0 |-> <<>>]
  <2>1. f \in [0..0 -> Seq(T)]
    OBVIOUS
  <2>2. IsOnly(f, s, S, 0)
    BY DEF IsOnly
  <2> HIDE DEF f
  <2> QED
    BY <2>1, <2>2
<1>2. ASSUME NEW n \in Nat, n \in P PROVE n + 1 \in P
  <2> SUFFICES ASSUME n + 1 <= Len(s)
               PROVE  \E f \in [0..(n + 1) -> Seq(T)] : IsOnly(f, s, S, n + 1)
    OBVIOUS
  <2>1. PICK f \in [0..n -> Seq(T)] : IsOnly(f, s, S, n)
    BY <1>2
  <2> DEFINE last == IF s[n + 1] \in S THEN Append(f[n], s[n + 1]) ELSE f[n]
             g == [i \in 0..(n + 1) |-> IF i = n + 1 THEN last ELSE f[i]]
  <2>2. last \in Seq(T)
    <3>1. s[n + 1] \in T /\ f[n] \in Seq(T)
      OBVIOUS
    <3> QED
      BY <3>1
  <2>3. g \in [0..(n + 1) -> Seq(T)]
    <3> HIDE DEF last
    <3> QED
      BY <2>2
  <2>4. IsOnly(g, s, S, n + 1)
    <3> SUFFICES ASSUME NEW i \in 0..(n + 1)
                 PROVE  g[i] = IF i = 0 THEN <<>>
                               ELSE IF s[i] \in S THEN Append(g[i - 1], s[i]) ELSE g[i - 1]
      BY DEF IsOnly
    <3>1. CASE i = n + 1
      <4>1. g[i] = last /\ g[i - 1] = f[n] /\ i # 0
        BY <3>1
      <4> QED
        BY <3>1, <4>1
    <3>2. CASE i # n + 1
      <4>1. i \in 0..n /\ g[i] = f[i]
        BY <3>2
      <4>2. i # 0 => g[i - 1] = f[i - 1]
        BY <4>1
      <4> HIDE DEF g
      <4> QED
        BY <2>1, <4>1, <4>2 DEF IsOnly
    <3> QED
      BY <3>1, <3>2
  <2> HIDE DEF g
  <2> QED
    BY <2>3, <2>4
<1> HIDE DEF P
<1>3. \A n \in Nat : n \in P
  BY <1>1, <1>2, Induction
<1> QED
  BY <1>3 DEF P

(* Only is its last value.                                                 *)
LEMMA OnlyIs ==
    ASSUME NEW T, NEW s \in Seq(T), NEW S
    PROVE  \E f \in [0..Len(s) -> Seq(T)] : IsOnly(f, s, S, Len(s)) /\ Only(s, S) = f[Len(s)]
<1> DEFINE D(f) == [i \in 0..Len(s) |->
                      IF i = 0 THEN <<>>
                      ELSE IF s[i] \in S THEN Append(f[i - 1], s[i]) ELSE f[i - 1]]
           only == CHOOSE f : f = D(f)
           n == Len(s)
<1>1. Only(s, S) = only[n] /\ n \in Nat
  BY DEF Only
<1>2. PICK f \in [0..n -> Seq(T)] : IsOnly(f, s, S, n)
  <2>1. \A k \in Nat : k <= Len(s) => \E f \in [0..k -> Seq(T)] : IsOnly(f, s, S, k)
    BY OnlyExists
  <2> HIDE DEF only, D
  <2> QED
    BY <1>1, <2>1
<1>3. f = D(f)
  BY <1>2 DEF IsOnly
<1>4. only = D(only)
  BY <1>3
<1> HIDE DEF only
<1>5. \A i \in 0..n : only[i] = D(only)[i]
  BY <1>4
<1>6. IsOnly(only, s, S, n)
  BY <1>5 DEF IsOnly
<1> DEFINE P == {i \in Nat : i \in 0..n => only[i] = f[i]}
<1>7. 0 \in P
  BY <1>1, <1>2, <1>6 DEF IsOnly
<1>8. ASSUME NEW i \in Nat, i \in P PROVE i + 1 \in P
  <2> SUFFICES ASSUME i + 1 \in 0..n PROVE only[i + 1] = f[i + 1]
    OBVIOUS
  <2>1. only[i] = f[i] /\ i + 1 # 0 /\ (i + 1) - 1 = i
    BY <1>1, <1>8
  <2> DEFINE j == i + 1
  <2>2. only[j] = IF s[j] \in S THEN Append(only[j - 1], s[j]) ELSE only[j - 1]
    BY <1>6, <2>1 DEF IsOnly
  <2>3. f[j] = IF s[j] \in S THEN Append(f[j - 1], s[j]) ELSE f[j - 1]
    BY <1>2, <2>1 DEF IsOnly
  <2> QED
    BY <2>1, <2>2, <2>3
<1> HIDE DEF P
<1>9. \A i \in Nat : i \in P
  BY <1>7, <1>8, Induction
<1>10. only[n] = f[n]
  BY <1>1, <1>9 DEF P
<1> QED
  BY <1>1, <1>2, <1>10

(* Only(s, S) has the elements of s in S, and none of them more often. *)
LEMMA OnlyFacts ==
    ASSUME NEW T, NEW s \in Seq(T), NEW S
    PROVE  /\ Only(s, S) \in Seq(T)
           /\ ToSet(Only(s, S)) = ToSet(s) \cap S
           /\ IsInjective(s) => IsInjective(Only(s, S))
<1> DEFINE n == Len(s)
<1>1. PICK f \in [0..n -> Seq(T)] : IsOnly(f, s, S, n) /\ Only(s, S) = f[n]
  BY OnlyIs
<1>n. n \in Nat /\ DOMAIN s = 1..n /\ \A i \in 1..n : s[i] \in T
  OBVIOUS
<1> DEFINE Good(i) == /\ ToSet(f[i]) = {s[j] : j \in 1..i} \cap S
                      /\ IsInjective(s) => IsInjective(f[i])
           P == {i \in Nat : i \in 0..n => Good(i)}
<1>2. 0 \in P
  <2>1. f[0] = <<>>
    BY <1>1, <1>n DEF IsOnly
  <2> QED
    BY <2>1 DEF ToSet, IsInjective
<1>3. ASSUME NEW i \in Nat, i \in P PROVE i + 1 \in P
  <2> SUFFICES ASSUME i + 1 \in 0..n PROVE Good(i + 1)
    OBVIOUS
  <2> DEFINE j == i + 1
  <2>0. i \in 0..n /\ j \in 1..n /\ j # 0 /\ j - 1 = i
    BY <1>n
  <2>1. Good(i)
    BY <1>3, <2>0
  <2>2. f[j] = IF s[j] \in S THEN Append(f[i], s[j]) ELSE f[i]
    BY <1>1, <2>0 DEF IsOnly
  <2>3. {s[k] : k \in 1..j} = {s[k] : k \in 1..i} \cup {s[j]}
    <3>1. 1..j = (1..i) \cup {j}
      BY <2>0
    <3> HIDE DEF j
    <3> QED
      BY <3>1
  <2>4. CASE s[j] \notin S
    BY <2>1, <2>2, <2>3, <2>4
  <2>5. CASE s[j] \in S
    <3> DEFINE g == f[i]
               m == Len(g)
               h == f[j]
    <3>1. g \in Seq(T) /\ s[j] \in T
      BY <1>n, <2>0
    <3>2. /\ m \in Nat /\ DOMAIN g = 1..m /\ DOMAIN h = 1..(m + 1)
          /\ h[m + 1] = s[j] /\ \A k \in 1..m : h[k] = g[k]
      <4>1. h = Append(g, s[j])
        BY <2>2, <2>5
      <4> HIDE DEF g, h
      <4> QED
        BY <3>1, <4>1
    <3>d. ToSet(g) = {s[k] : k \in 1..i} \cap S /\ (IsInjective(s) => IsInjective(g))
      BY <2>1
    <3> HIDE DEF g, h, m, Good
    <3>3. ToSet(h) = ToSet(g) \cup {s[j]}
      <4>1. DOMAIN h = DOMAIN g \cup {m + 1} /\ \A k \in DOMAIN g : h[k] = g[k]
        BY <3>2
      <4> QED
        BY <3>2, <4>1, Zenon DEF ToSet
    <3>4. ToSet(h) = {s[k] : k \in 1..j} \cap S
      BY <2>3, <2>5, <3>d, <3>3
    <3>5. ASSUME IsInjective(s) PROVE IsInjective(h)
      <4>1. s[j] \notin ToSet(g)
        <5> SUFFICES ASSUME NEW k \in 1..i, s[k] = s[j] PROVE FALSE
          BY <3>d
        <5>1. k \in 1..n /\ j \in 1..n /\ k # j
          BY <1>n, <2>0
        <5> QED
          BY <1>n, <3>5, <5>1 DEF IsInjective
      <4>2. \A k \in 1..m : g[k] # s[j]
        BY <3>2, <4>1 DEF ToSet
      <4>3. IsInjective(g)
        BY <3>5, <3>d
      <4> SUFFICES ASSUME NEW a \in DOMAIN h, NEW b \in DOMAIN h, h[a] = h[b] PROVE a = b
        BY DEF IsInjective
      <4>4. (a \in 1..m \/ a = m + 1) /\ (b \in 1..m \/ b = m + 1)
        BY <3>2
      <4> QED
        BY <3>2, <4>2, <4>3, <4>4 DEF IsInjective
    <3> QED
      BY <3>4, <3>5 DEF Good, h
  <2> QED
    BY <2>4, <2>5
<1> HIDE DEF P
<1>4. \A i \in Nat : i \in P
  BY <1>2, <1>3, Induction
<1>5. n \in Nat /\ n \in 0..n
  BY <1>n
<1>6. Good(n)
  BY <1>4, <1>5 DEF P
<1>7. ToSet(s) = {s[j] : j \in 1..n}
  BY <1>n DEF ToSet
<1> QED
  BY <1>1, <1>5, <1>6, <1>7

-----------------------------------------------------------------------------
(* Sequences.                                                              *)

(* What a sequence is.                                                     *)
LEMMA SeqFacts ==
    ASSUME NEW T, NEW s \in Seq(T)
    PROVE  /\ Len(s) \in Nat /\ DOMAIN s = 1..Len(s) /\ \A i \in 1..Len(s) : s[i] \in T
           /\ ToSet(s) \subseteq T
           /\ s = <<>> <=> ToSet(s) = {}
<1>1. Len(s) \in Nat /\ DOMAIN s = 1..Len(s) /\ \A i \in 1..Len(s) : s[i] \in T
  OBVIOUS
<1>2. s = <<>> <=> Len(s) = 0
  OBVIOUS
<1>3. Len(s) # 0 => 1 \in DOMAIN s
  BY <1>1
<1> QED
  BY <1>1, <1>2, <1>3 DEF ToSet

(* Where the elements of a concatenation come from. *)
LEMMA ConcatIndex ==
    ASSUME NEW T, NEW a \in Seq(T), NEW b \in Seq(T)
    PROVE  /\ a \o b \in Seq(T)
           /\ \A i \in DOMAIN (a \o b) :
                 \/ i \in DOMAIN a /\ (a \o b)[i] = a[i]
                 \/ \E j \in DOMAIN b : i = Len(a) + j /\ (a \o b)[i] = b[j]
           /\ \A i \in DOMAIN a : i \in DOMAIN (a \o b) /\ (a \o b)[i] = a[i]
           /\ \A j \in DOMAIN b : Len(a) + j \in DOMAIN (a \o b) /\ (a \o b)[Len(a) + j] = b[j]
           /\ Len(a) \in Nat /\ DOMAIN a = 1..Len(a) /\ DOMAIN b = 1..Len(b) /\ Len(b) \in Nat
<1> DEFINE c == a \o b
           m == Len(a)
           n == Len(b)
<1>1. /\ m \in Nat /\ n \in Nat /\ DOMAIN a = 1..m /\ DOMAIN b = 1..n
      /\ c \in Seq(T) /\ Len(c) = m + n
  OBVIOUS
<1>2. DOMAIN c = 1..(m + n)
  BY <1>1
<1>3. \A i \in 1..m : c[i] = a[i]
  BY <1>1
<1>4. \A i \in 1..n : c[m + i] = b[i]
  BY <1>1
<1> HIDE DEF c, m, n
<1>5. \A i \in DOMAIN c : \/ i \in DOMAIN a /\ c[i] = a[i]
                          \/ \E j \in DOMAIN b : i = m + j /\ c[i] = b[j]
  <2> SUFFICES ASSUME NEW i \in DOMAIN c, ~(i \in 1..m)
               PROVE  \E j \in DOMAIN b : i = m + j /\ c[i] = b[j]
    BY <1>1, <1>3
  <2>1. i - m \in 1..n /\ i = m + (i - m)
    BY <1>1, <1>2
  <2> QED
    BY <1>1, <1>4, <2>1
<1>6. \A j \in DOMAIN b : m + j \in DOMAIN c /\ c[m + j] = b[j]
  BY <1>1, <1>2, <1>4
<1>7. \A i \in DOMAIN a : i \in DOMAIN c /\ c[i] = a[i]
  BY <1>1, <1>2, <1>3
<1> QED
  BY <1>1, <1>5, <1>6, <1>7 DEF c, m, n

LEMMA ConcatToSet ==
    ASSUME NEW T, NEW a \in Seq(T), NEW b \in Seq(T)
    PROVE  ToSet(a \o b) = ToSet(a) \cup ToSet(b)
<1> DEFINE c == a \o b
<1>0. /\ \A i \in DOMAIN c : \/ i \in DOMAIN a /\ c[i] = a[i]
                             \/ \E j \in DOMAIN b : i = Len(a) + j /\ c[i] = b[j]
  BY ConcatIndex
<1>5. \A i \in DOMAIN a : i \in DOMAIN c /\ c[i] = a[i]
  BY ConcatIndex
<1>6. \A j \in DOMAIN b : Len(a) + j \in DOMAIN c /\ c[Len(a) + j] = b[j]
  BY ConcatIndex
<1>1. /\ \A i \in DOMAIN c : \/ i \in DOMAIN a /\ c[i] = a[i]
                             \/ \E j \in DOMAIN b : c[i] = b[j]
      /\ \A i \in DOMAIN a : i \in DOMAIN c /\ c[i] = a[i]
      /\ \A j \in DOMAIN b : \E i \in DOMAIN c : c[i] = b[j]
  <2> HIDE DEF c
  <2> QED
    BY <1>0, <1>5, <1>6
<1> HIDE DEF c
<1>2. ASSUME NEW x \in ToSet(c) PROVE x \in ToSet(a) \cup ToSet(b)
  <2>1. PICK i \in DOMAIN c : x = c[i]
    BY <1>2 DEF ToSet
  <2> QED
    BY <1>1, <2>1 DEF ToSet
<1>3. ASSUME NEW x \in ToSet(a) \cup ToSet(b) PROVE x \in ToSet(c)
  BY <1>1, <1>3 DEF ToSet
<1> QED
  BY <1>2, <1>3 DEF c

LEMMA ConcatInjective ==
    ASSUME NEW T, NEW a \in Seq(T), NEW b \in Seq(T),
           IsInjective(a), IsInjective(b), ToSet(a) \cap ToSet(b) = {}
    PROVE  IsInjective(a \o b)
<1> DEFINE c == a \o b
<1>1. /\ \A i \in DOMAIN c : \/ i \in DOMAIN a /\ c[i] = a[i]
                             \/ \E j \in DOMAIN b : i = Len(a) + j /\ c[i] = b[j]
  BY ConcatIndex
<1> HIDE DEF c
<1> SUFFICES ASSUME NEW i \in DOMAIN c, NEW j \in DOMAIN c, c[i] = c[j] PROVE i = j
  BY DEF IsInjective, c
<1>2. \A k \in DOMAIN a, l \in DOMAIN b : a[k] # b[l]
  BY DEF ToSet
<1> QED
  BY <1>1, <1>2 DEF IsInjective

LEMMA SingleFacts ==
    ASSUME NEW T, NEW x \in T
    PROVE  /\ <<x>> \in Seq(T) /\ Len(<<x>>) = 1 /\ DOMAIN <<x>> = {1} /\ <<x>>[1] = x
           /\ ToSet(<<x>>) = {x}
           /\ IsInjective(<<x>>)
<1>1. <<x>> \in Seq(T) /\ Len(<<x>>) = 1 /\ DOMAIN <<x>> = {1} /\ <<x>>[1] = x
  OBVIOUS
<1> QED
  BY <1>1 DEF ToSet, IsInjective

(* What Append does.                                                       *)
LEMMA AppendFacts ==
    ASSUME NEW T, NEW s \in Seq(T), NEW x \in T
    PROVE  /\ Append(s, x) \in Seq(T) /\ Append(s, x) # <<>>
           /\ Last(Append(s, x)) = x
           /\ ToSet(Append(s, x)) = ToSet(s) \cup {x}
           /\ IsInjective(s) /\ x \notin ToSet(s) => IsInjective(Append(s, x))
<1>1. Append(s, x) = s \o <<x>>
  OBVIOUS
<1>2. Append(s, x) \in Seq(T) /\ Append(s, x) # <<>> /\ Last(Append(s, x)) = x
  BY AppendProperties DEF Last
<1> DEFINE t == <<x>>
<1>3. t \in Seq(T) /\ ToSet(t) = {x} /\ IsInjective(t)
  BY SingleFacts
<1> HIDE DEF t
<1>4. ToSet(s \o t) = ToSet(s) \cup {x}
  BY <1>3, ConcatToSet
<1>5. ASSUME IsInjective(s), x \notin ToSet(s) PROVE IsInjective(s \o t)
  BY <1>3, <1>5, ConcatInjective
<1> QED
  BY <1>1, <1>2, <1>4, <1>5 DEF t

(* A sequence is its head and its tail.                                    *)
LEMMA TailFacts ==
    ASSUME NEW T, NEW s \in Seq(T), s # <<>>
    PROVE  /\ Tail(s) \in Seq(T) /\ Head(s) \in T /\ Head(s) = s[1] /\ 1 \in DOMAIN s
           /\ s = <<Head(s)>> \o Tail(s)
           /\ Len(Tail(s)) = Len(s) - 1
           /\ \A i \in DOMAIN Tail(s) : i + 1 \in DOMAIN s /\ Tail(s)[i] = s[i + 1]
           /\ \A i \in DOMAIN s : i # 1 => i - 1 \in DOMAIN Tail(s) /\ s[i] = Tail(s)[i - 1]
           /\ ToSet(s) = {Head(s)} \cup ToSet(Tail(s))
           /\ IsInjective(s) => IsInjective(Tail(s)) /\ Head(s) \notin ToSet(Tail(s))
<1> DEFINE t == Tail(s)
<1>1. /\ Len(s) \in Nat \ {0} /\ DOMAIN s = 1..Len(s)
      /\ t \in Seq(T) /\ Len(t) = Len(s) - 1 /\ DOMAIN t = 1..(Len(s) - 1)
      /\ Head(s) = s[1] /\ s[1] \in T
  OBVIOUS
<1>2. \A i \in 1..(Len(s) - 1) : t[i] = s[i + 1]
  OBVIOUS
<1>3. s = <<Head(s)>> \o t
  OBVIOUS
<1> HIDE DEF t
<1>4. \A i \in DOMAIN t : i + 1 \in DOMAIN s /\ t[i] = s[i + 1]
  BY <1>1, <1>2
<1>5. \A i \in DOMAIN s : i # 1 => i - 1 \in DOMAIN t /\ s[i] = t[i - 1]
  <2> SUFFICES ASSUME NEW i \in DOMAIN s, i # 1 PROVE i - 1 \in DOMAIN t /\ s[i] = t[i - 1]
    OBVIOUS
  <2>1. i - 1 \in 1..(Len(s) - 1) /\ (i - 1) + 1 = i
    BY <1>1
  <2> QED
    BY <1>1, <1>2, <2>1
<1>6. ToSet(s) = {Head(s)} \cup ToSet(t)
  <2> DEFINE h == <<Head(s)>>
  <2>1. h \in Seq(T) /\ ToSet(h) = {Head(s)}
    BY <1>1, SingleFacts
  <2>2. s = h \o t
    BY <1>3
  <2> HIDE DEF h
  <2> QED
    BY <1>1, <2>1, <2>2, ConcatToSet
<1>7. ASSUME IsInjective(s) PROVE IsInjective(t) /\ Head(s) \notin ToSet(t)
  <2>1. ASSUME NEW i \in DOMAIN t, NEW j \in DOMAIN t, t[i] = t[j] PROVE i = j
    <3>1. i + 1 = j + 1
      BY <1>4, <1>7, <2>1 DEF IsInjective
    <3> QED
      BY <1>1, <3>1
  <2>2. ASSUME NEW i \in DOMAIN t, t[i] = Head(s) PROVE FALSE
    <3>1. i + 1 = 1
      BY <1>1, <1>4, <1>7, <2>2 DEF IsInjective
    <3> QED
      BY <1>1, <3>1
  <2> QED
    BY <2>1, <2>2 DEF IsInjective, ToSet
<1>8. 1 \in DOMAIN s
  BY <1>1
<1> QED
  BY <1>1, <1>3, <1>4, <1>5, <1>6, <1>7, <1>8 DEF t

(* The beginning of a sequence. *)
LEMMA SubSeqFacts ==
    ASSUME NEW T, NEW s \in Seq(T), NEW n \in Nat, n <= Len(s)
    PROVE  /\ SubSeq(s, 1, n) \in Seq(T)
           /\ ToSet(SubSeq(s, 1, n)) \subseteq ToSet(s)
           /\ IsInjective(s) => IsInjective(SubSeq(s, 1, n))
           /\ SubSeq(s, 1, n) = <<>> <=> n = 0
<1> DEFINE u == SubSeq(s, 1, n)
<1>1. Len(s) \in Nat /\ DOMAIN s = 1..Len(s) /\ \A i \in 1..n : s[i] \in T
  OBVIOUS
<1>2. u \in Seq(T) /\ Len(u) = n /\ DOMAIN u = 1..n /\ \A i \in 1..n : u[i] = s[i]
  <2>1. 1 \in Int /\ n \in Int /\ \A i \in 1..n : s[i] \in T
    BY <1>1
  <2>2. /\ u \in Seq(T)
        /\ Len(u) = IF 1 <= n THEN n - 1 + 1 ELSE 0
        /\ \A i \in 1..(n - 1 + 1) : u[i] = s[1 + i - 1]
    BY <2>1, SubSeqProperties
  <2>3. Len(u) = n
    BY <2>2
  <2>4. \A i \in 1..n : 1 + i - 1 = i /\ n - 1 + 1 = n
    OBVIOUS
  <2> HIDE DEF u
  <2> QED
    BY <2>2, <2>3, <2>4
<1> HIDE DEF u
<1>3. DOMAIN u \subseteq DOMAIN s /\ \A i \in DOMAIN u : u[i] = s[i]
  BY <1>1, <1>2
<1>4. u = <<>> <=> n = 0
  BY <1>2
<1> QED
  BY <1>2, <1>3, <1>4 DEF ToSet, IsInjective, u

-----------------------------------------------------------------------------
(* The operators of the model.                                             *)

(* InOrder lists a set once.                                               *)
LEMMA InOrderFacts ==
    ASSUME NEW S \in SUBSET Requests
    PROVE  /\ InOrder(S) \in Seq(Requests)
           /\ ToSet(InOrder(S)) = S
           /\ IsInjective(InOrder(S))
<1> DEFINE s == [i \in 1..Cardinality(Requests) |-> i]
<1>1. Cardinality(Requests) \in Nat /\ Requests = 1..Cardinality(Requests)
  BY FS_CardinalityType, BackendSrvAssumption
<1>2. s \in Seq(Requests) /\ DOMAIN s = Requests /\ \A i \in Requests : s[i] = i
  BY <1>1
<1>3. InOrder(S) = Only(s, S)
  BY DEF InOrder
<1> HIDE DEF s
<1>4. IsInjective(s)
  BY <1>2 DEF IsInjective
<1>5. ToSet(s) = Requests
  BY <1>2 DEF ToSet
<1>6. /\ Only(s, S) \in Seq(Requests)
      /\ ToSet(Only(s, S)) = ToSet(s) \cap S
      /\ IsInjective(Only(s, S))
  BY <1>2, <1>4, OnlyFacts
<1> QED
  BY <1>3, <1>5, <1>6

(* Without takes one request out.                                          *)
LEMMA WithoutFacts ==
    ASSUME NEW s \in Seq(Requests), NEW r
    PROVE  /\ Without(s, r) \in Seq(Requests)
           /\ ToSet(Without(s, r)) = ToSet(s) \ {r}
           /\ IsInjective(s) => IsInjective(Without(s, r))
<1>1. /\ Without(s, r) \in Seq(Requests)
      /\ ToSet(Without(s, r)) = ToSet(s) \cap (Requests \ {r})
      /\ IsInjective(s) => IsInjective(Without(s, r))
  BY OnlyFacts DEF Without
<1>2. ToSet(s) \subseteq Requests
  BY SeqFacts
<1> QED
  BY <1>1, <1>2

(* The worker chooses among the pending, and only nothing where there is   *)
(* no room for it.                                                         *)
LEMMA ToFetchFacts ==
    ASSUME NEW entries \in Seq(Requests), NEW n \in Nat
    PROVE  LET l == ToFetch(entries, n) IN
           /\ l \in Seq(Requests)
           /\ ToSet(l) \subseteq ToSet(entries)
           /\ IsInjective(entries) => IsInjective(l)
           /\ l = <<>> /\ entries # <<>> => ToSet(entries) \subseteq DataRequests /\ n >= Limit
           /\ \A a : ToSet(entries) \ DataRequests = {a} => l # <<>> /\ Head(l) = a
<1> DEFINE api == Only(entries, Requests \ DataRequests)
           data == Only(entries, DataRequests)
           taken == n + Len(api)
           allowed == IF taken < Limit THEN Limit - taken ELSE 0
           k == IF allowed < Len(data) THEN allowed ELSE Len(data)
           some == SubSeq(data, 1, k)
           l == ToFetch(entries, n)
<1>1. l = api \o some
  BY DEF ToFetch
<1>2. ToSet(entries) \subseteq Requests
  BY SeqFacts
<1>3. /\ api \in Seq(Requests)
      /\ ToSet(api) = ToSet(entries) \cap (Requests \ DataRequests)
      /\ IsInjective(entries) => IsInjective(api)
  BY OnlyFacts
<1>4. /\ data \in Seq(Requests)
      /\ ToSet(data) = ToSet(entries) \cap DataRequests
      /\ IsInjective(entries) => IsInjective(data)
  BY OnlyFacts
<1> HIDE DEF api, data, l
<1>5. Len(api) \in Nat /\ Len(data) \in Nat /\ Limit \in Nat \ {0}
  BY <1>3, <1>4, BackendSrvAssumption
<1>6. allowed \in Nat /\ k \in Nat /\ k <= Len(data)
      /\ (k = 0 => Len(data) = 0 \/ taken >= Limit)
  BY <1>5
<1> HIDE DEF k
<1>7. /\ some \in Seq(Requests)
      /\ ToSet(some) \subseteq ToSet(data)
      /\ IsInjective(data) => IsInjective(some)
      /\ some = <<>> <=> k = 0
  BY <1>4, <1>6, SubSeqFacts
<1> HIDE DEF some
<1>8. l \in Seq(Requests) /\ ToSet(l) = ToSet(api) \cup ToSet(some)
  BY <1>1, <1>3, <1>7, ConcatToSet
<1>9. ASSUME IsInjective(entries) PROVE IsInjective(l)
  <2>1. ToSet(api) \cap ToSet(some) = {}
    BY <1>3, <1>4, <1>7
  <2> QED
    BY <1>1, <1>3, <1>4, <1>7, <1>9, <2>1, ConcatInjective
<1>10. ASSUME l = <<>>, entries # <<>>
       PROVE  ToSet(entries) \subseteq DataRequests /\ n >= Limit
  <2>1. api = <<>> /\ some = <<>>
    <3>0. Len(api \o some) = Len(api) + Len(some) /\ Len(some) \in Nat
      BY <1>3, <1>7
    <3>1. Len(api \o some) = 0
      BY <1>1, <1>10
    <3>2. Len(api) = 0 /\ Len(some) = 0
      BY <1>5, <3>0, <3>1
    <3> QED
      BY <1>3, <1>7, <3>2
  <2>2. ToSet(api) = {}
    BY <2>1, <1>3, SeqFacts
  <2>3. ToSet(entries) \subseteq DataRequests
    BY <1>2, <1>3, <2>2
  <2>4. ToSet(data) = ToSet(entries) /\ ToSet(entries) # {}
    BY <1>4, <1>10, <2>3, SeqFacts
  <2>5. data # <<>>
    BY <1>4, <2>4, SeqFacts
  <2>6. Len(data) # 0
    BY <1>4, <2>5
  <2>7. taken >= Limit /\ Len(api) = 0
    BY <1>6, <1>7, <2>1, <2>6
  <2> QED
    BY <2>3, <2>7
<1>11. ASSUME NEW a, ToSet(entries) \ DataRequests = {a}
       PROVE  l # <<>> /\ Head(l) = a
  <2>1. ToSet(api) = {a}
    BY <1>2, <1>3, <1>11
  <2>2. api # <<>>
    BY <1>3, <2>1, SeqFacts
  <2>3. Head(api) \in ToSet(api)
    <3>1. Head(api) = api[1] /\ 1 \in DOMAIN api
      BY <1>3, <2>2
    <3> QED
      BY <3>1 DEF ToSet
  <2>4. l # <<>> /\ Head(l) = Head(api)
    BY <1>1, <1>3, <1>7, <2>2
  <2> QED
    BY <2>1, <2>3, <2>4
<1> QED
  BY <1>3, <1>4, <1>7, <1>8, <1>9, <1>10, <1>11 DEF l

LEMMA CallEachFacts ==
    ASSUME NEW op \in {"add", "done", "error"}, NEW s \in Seq(Requests)
    PROVE  /\ CallEach(op, s) \in Seq(Calls)
           /\ DOMAIN CallEach(op, s) = DOMAIN s
           /\ \A i \in DOMAIN s : CallEach(op, s)[i] = Call(op, s[i])
           /\ \A r \in ToSet(s) : \E i \in DOMAIN s : CallEach(op, s)[i] = Call(op, r)
           /\ \A i \in DOMAIN s : CallEach(op, s)[i].op = op /\ CallEach(op, s)[i].id \in ToSet(s)
<1> DEFINE c == CallEach(op, s)
<1>1. Len(s) \in Nat /\ DOMAIN s = 1..Len(s) /\ \A i \in 1..Len(s) : s[i] \in Requests
  BY SeqFacts
<1>2. c = [i \in 1..Len(s) |-> Call(op, s[i])]
  BY <1>1 DEF CallEach
<1>3. \A r \in Requests : Call(op, r) \in Calls /\ Call(op, r).op = op /\ Call(op, r).id = r
  BY DEF Call, Calls
<1>4. c \in Seq(Calls)
  <2>1. c \in [1..Len(s) -> Calls]
    BY <1>1, <1>2, <1>3
  <2> HIDE DEF c
  <2> QED
    BY <1>1, <2>1
<1>5. DOMAIN c = DOMAIN s /\ \A i \in DOMAIN s : c[i] = Call(op, s[i])
  BY <1>1, <1>2
<1> HIDE DEF c
<1> QED
  BY <1>1, <1>3, <1>4, <1>5 DEF c, ToSet

-----------------------------------------------------------------------------
(* Type correctness.                                                       *)

LEMMA CallFacts ==
    /\ \A op \in {"add", "done", "error", "listen"}, r \in Requests :
          Call(op, r) \in Calls /\ Call(op, r).op = op /\ Call(op, r).id = r
    /\ Call("work", None) \in Calls /\ Call("work", None).op = "work"
    /\ \A call \in Calls : call.op # "work" => call.id \in Requests
    /\ \A call \in Calls : call = Call(call.op, call.id)
    /\ \A call \in Calls : call.op \in {"add", "done", "error", "listen", "work"}
  BY DEF Call, Calls

LEMMA TopFacts ==
    ASSUME TypeOK, calls # <<>>
    PROVE  /\ Head(calls) \in Calls /\ Tail(calls) \in Seq(Calls)
           /\ Head(calls).op # "work" => Head(calls).id \in Requests
<1>1. calls \in Seq(Calls)
  BY DEF TypeOK
<1>2. Head(calls) \in Calls /\ Tail(calls) \in Seq(Calls)
  BY <1>1
<1> QED
  BY <1>2, CallFacts

LEMMA CardinalityFacts ==
    ASSUME NEW S \in SUBSET Requests
    PROVE  Cardinality(S) \in 0..Cardinality(Requests) /\ Cardinality(S) \in Nat
<1>1. Cardinality(S) \in Nat /\ Cardinality(Requests) \in Nat
      /\ Cardinality(S) <= Cardinality(Requests)
  BY BackendSrvAssumption, FS_Subset, FS_CardinalityType
<1> QED
  BY <1>1

(* What Publish does to the worker and to the stack. *)
LEMMA PublishTypes ==
    ASSUME TypeOK, NEW entries \in Seq(Requests), NEW started \in SUBSET Requests,
           NEW rest \in Seq(Calls), Publish(entries, started, rest)
    PROVE  /\ snapshots' \in Seq(0..Cardinality(Requests))
           /\ working' \in BOOLEAN
           /\ list' \in Seq(Requests)
           /\ calls' \in Seq(Calls)
<1>1. Cardinality(started) \in 0..Cardinality(Requests) /\ Cardinality(started) \in Nat
  BY CardinalityFacts
<1>2. ToFetch(entries, Cardinality(started)) \in Seq(Requests)
  BY <1>1, ToFetchFacts
<1>3. <<Call("work", None)>> \o rest \in Seq(Calls)
  <2>1. <<Call("work", None)>> \in Seq(Calls)
    BY CallFacts
  <2> QED
    BY <2>1
<1>4. Append(snapshots, Cardinality(started)) \in Seq(0..Cardinality(Requests))
  BY <1>1 DEF TypeOK
<1> QED
  BY <1>2, <1>3, <1>4 DEF Publish, TypeOK, workerVars

LEMMA AddTypes ==
    ASSUME TypeOK, Add
    PROVE  TypeOK'
<1> DEFINE r == Head(calls).id
<1>1. r \in Requests /\ Tail(calls) \in Seq(Calls)
  BY TopFacts DEF Add, Top
<1>2. /\ fresh' = fresh \ {r} /\ subscribed' = subscribed \cup {r}
      /\ pending' = Append(pending, r)
      /\ Publish(pending', inProgress, Tail(calls))
      /\ UNCHANGED <<inProgress, connected, authVars>>
  BY DEF Add
<1>3. pending' \in Seq(Requests)
  BY <1>1, <1>2 DEF TypeOK
<1>4. /\ snapshots' \in Seq(0..Cardinality(Requests)) /\ working' \in BOOLEAN
      /\ list' \in Seq(Requests) /\ calls' \in Seq(Calls)
  BY <1>1, <1>2, <1>3, PublishTypes DEF TypeOK
<1> HIDE DEF r
<1>5. fresh' \subseteq Requests /\ subscribed' \subseteq Requests \ fresh'
      /\ ToSet(connected)' \subseteq subscribed'
  BY <1>1, <1>2 DEF TypeOK
<1> QED
  BY <1>2, <1>3, <1>4, <1>5 DEF TypeOK, authVars

(* What Done puts on the stack. *)
Ended(r) ==
    IF awaits[r] # None /\ Waiters(awaits[r]) = {r} /\ awaits[r] \in subscribed
    THEN <<Call("done", awaits[r])>> ELSE <<>>

LEMMA EndedFacts ==
    ASSUME TypeOK, NEW r \in Requests
    PROVE  /\ Ended(r) \in Seq(Calls)
           /\ \A i \in DOMAIN Ended(r) :
                 \E a \in AuthRequests : Ended(r)[i] = Call("done", a)
<1>1. CASE awaits[r] # None /\ Waiters(awaits[r]) = {r} /\ awaits[r] \in subscribed
  <2> DEFINE c == Call("done", awaits[r])
  <2>1. awaits[r] \in AuthRequests /\ awaits[r] \in Requests
    BY <1>1, BackendSrvAssumption DEF TypeOK
  <2>2. c \in Calls
    BY <2>1, CallFacts
  <2>3. Ended(r) = <<c>>
    BY <1>1 DEF Ended
  <2> HIDE DEF c
  <2>4. DOMAIN <<c>> = {1} /\ <<c>>[1] = c /\ <<c>> \in Seq(Calls)
    BY <2>2
  <2> QED
    BY <2>1, <2>3, <2>4 DEF c
<1>2. CASE ~(awaits[r] # None /\ Waiters(awaits[r]) = {r} /\ awaits[r] \in subscribed)
  BY <1>2 DEF Ended
<1> QED
  BY <1>1, <1>2

(* What Done does.                                                         *)
LEMMA DoneFacts ==
    ASSUME TypeOK, Done
    PROVE  LET r == Head(calls).id IN
           /\ calls # <<>> /\ Head(calls).op = "done" /\ Tail(calls) \in Seq(Calls)
           /\ r \in Requests /\ r \in subscribed
           /\ subscribed' = subscribed \ {r}
           /\ pending' = Without(pending, r)
           /\ inProgress' = inProgress \ {r}
           /\ connected' = Without(connected, r)
           /\ awaits' = [awaits EXCEPT ![r] = None]
           /\ rotation' = IF rotation = r THEN None ELSE rotation
           /\ Ended(r) \o Tail(calls) \in Seq(Calls)
           /\ Publish(pending', inProgress', Ended(r) \o Tail(calls))
           /\ UNCHANGED <<fresh, retried>>
<1> DEFINE r == Head(calls).id
<1>1. calls # <<>> /\ Head(calls).op = "done"
  BY DEF Done, Top
<1>2. r \in Requests /\ Tail(calls) \in Seq(Calls)
  BY <1>1, TopFacts
<1>3. Ended(r) \o Tail(calls) \in Seq(Calls)
  BY <1>2, EndedFacts
<1> QED
  BY <1>1, <1>2, <1>3 DEF Done, Ended

LEMMA DoneTypes ==
    ASSUME TypeOK, Done
    PROVE  TypeOK'
<1> DEFINE r == Head(calls).id
           rest == Ended(r) \o Tail(calls)
<1>1. /\ r \in Requests /\ rest \in Seq(Calls)
      /\ subscribed' = subscribed \ {r}
      /\ pending' = Without(pending, r)
      /\ inProgress' = inProgress \ {r}
      /\ connected' = Without(connected, r)
      /\ awaits' = [awaits EXCEPT ![r] = None]
      /\ rotation' = IF rotation = r THEN None ELSE rotation
      /\ Publish(pending', inProgress', rest)
      /\ UNCHANGED <<fresh, retried>>
  BY DoneFacts
<1> HIDE DEF r, rest
<1>2. pending' \in Seq(Requests) /\ connected' \in Seq(Requests)
      /\ ToSet(connected') = ToSet(connected) \ {r}
  BY <1>1, WithoutFacts DEF TypeOK
<1>3. inProgress' \in SUBSET Requests
  BY <1>1 DEF TypeOK
<1>4. /\ snapshots' \in Seq(0..Cardinality(Requests)) /\ working' \in BOOLEAN
      /\ list' \in Seq(Requests) /\ calls' \in Seq(Calls)
  BY <1>1, <1>2, <1>3, PublishTypes
<1>5. ToSet(connected') \subseteq subscribed' /\ subscribed' \subseteq Requests \ fresh'
      /\ fresh' \subseteq Requests /\ retried' \subseteq Requests
  BY <1>1, <1>2 DEF TypeOK
<1>6. awaits' \in [Requests -> AuthRequests \cup {None}] /\ rotation' \in AuthRequests \cup {None}
  BY <1>1 DEF TypeOK
<1> QED
  BY <1>2, <1>3, <1>4, <1>5, <1>6 DEF TypeOK

-----------------------------------------------------------------------------
(* What a step puts on the stack.                                          *)

WorkOps == {"work", "listen"}

NoWork(s) == \A i \in DOMAIN s : s[i].op \notin WorkOps

(* What a callback makes: requests that are new, and other calls y. *)
LEMMA ReissueFacts ==
    ASSUME TypeOK, NEW S \in Reissues, NEW y \in Seq(Calls), \A i \in DOMAIN y : y[i].op # "add"
    PROVE  LET x == CallEach("add", InOrder(S)) \o y IN
           /\ x \in Seq(Calls)
           /\ \A i \in DOMAIN x : \/ x[i].op = "add" /\ x[i].id \in Unmade
                                  \/ \E j \in DOMAIN y : x[i] = y[j]
           /\ \A j \in DOMAIN y : \E i \in DOMAIN x : x[i] = y[j]
           /\ \A i, j \in DOMAIN x : x[i].op = "add" /\ x[j].op = "add" /\ x[i].id = x[j].id => i = j
<1> DEFINE s == InOrder(S)
           a == CallEach("add", s)
           x == a \o y
<1>1. S \subseteq Unmade /\ S \subseteq Requests
  BY DEF Reissues, Unmade, TypeOK
<1>2. s \in Seq(Requests) /\ ToSet(s) = S /\ IsInjective(s)
  BY <1>1, InOrderFacts
<1> HIDE DEF s
<1>3. /\ a \in Seq(Calls) /\ DOMAIN a = DOMAIN s
      /\ \A i \in DOMAIN s : a[i] = Call("add", s[i])
      /\ \A i \in DOMAIN s : a[i].op = "add" /\ a[i].id \in S
  BY <1>2, CallEachFacts
<1> HIDE DEF a
<1>0. x \in Seq(Calls)
  BY <1>3, ConcatIndex
<1>6. \A i \in DOMAIN x : \/ i \in DOMAIN a /\ x[i] = a[i]
                          \/ \E j \in DOMAIN y : i = Len(a) + j /\ x[i] = y[j]
  BY <1>3, ConcatIndex
<1>7. \A j \in DOMAIN y : Len(a) + j \in DOMAIN x /\ x[Len(a) + j] = y[j]
  BY <1>3, ConcatIndex
<1> HIDE DEF x
<1>4. /\ x \in Seq(Calls)
      /\ \A i \in DOMAIN x : \/ i \in DOMAIN a /\ x[i] = a[i]
                             \/ \E j \in DOMAIN y : x[i] = y[j]
      /\ \A j \in DOMAIN y : \E i \in DOMAIN x : x[i] = y[j]
  BY <1>0, <1>6, <1>7
<1>5. \A i, j \in DOMAIN x : x[i].op = "add" /\ x[j].op = "add" /\ x[i].id = x[j].id => i = j
  <2> SUFFICES ASSUME NEW i \in DOMAIN x, NEW j \in DOMAIN x,
                      x[i].op = "add", x[j].op = "add", x[i].id = x[j].id
               PROVE  i = j
    OBVIOUS
  <2>1. i \in DOMAIN s /\ j \in DOMAIN s /\ x[i] = a[i] /\ x[j] = a[j]
    BY <1>3, <1>4
  <2>2. a[i].id = s[i] /\ a[j].id = s[j]
    BY <1>3, <2>1 DEF Call
  <2> QED
    BY <1>2, <2>1, <2>2 DEF IsInjective
<1> QED
  BY <1>1, <1>3, <1>4, <1>5 DEF x, a, s

(* What Error puts on the stack. *)
LEMMA ErrorFacts ==
    ASSUME TypeOK, Error
    PROVE  LET r == Head(calls).id IN
           /\ calls # <<>> /\ Head(calls).op = "error" /\ r \in Requests /\ r \in subscribed
           /\ Tail(calls) \in Seq(Calls)
           /\ \E x \in Seq(Calls) :
                 /\ calls' = x \o Tail(calls)
                 /\ NoWork(x)
                 /\ \E i \in DOMAIN x : x[i] = Call("done", r)
                 /\ \A i \in DOMAIN x : x[i].op = "add" => x[i].id \in Unmade
                 /\ \A i, j \in DOMAIN x :
                       x[i].op = "add" /\ x[j].op = "add" /\ x[i].id = x[j].id => i = j
                 /\ r \notin AuthRequests =>
                       \A i \in DOMAIN x :
                          /\ x[i].op # "error"
                          /\ x[i].op = "done" => x[i].id \in RequestsOf(consumerOf[r])
<1> DEFINE r == Head(calls).id
<1>1. calls # <<>> /\ Head(calls).op = "error" /\ r \in subscribed
  BY DEF Error, Top
<1>2. r \in Requests /\ Tail(calls) \in Seq(Calls)
  BY <1>1, TopFacts
<1> HIDE DEF r
<1>3. CASE r \in AuthRequests
  <2> DEFINE w == CallEach("error", InOrder(Waiters(r)))
             d == <<Call("done", r)>>
             x == w \o d
  <2>1. calls' = w \o d \o Tail(calls)
    BY <1>3 DEF Error, r
  <2>2. InOrder(Waiters(r)) \in Seq(Requests)
    BY InOrderFacts DEF Waiters, TypeOK
  <2>3. w \in Seq(Calls) /\ \A i \in DOMAIN w : w[i].op = "error"
    BY <2>2, CallEachFacts
  <2>4. d \in Seq(Calls) /\ DOMAIN d = {1} /\ d[1] = Call("done", r) /\ d[1].op = "done"
    BY <1>2, CallFacts
  <2> HIDE DEF w, d
  <2>5. /\ x \in Seq(Calls)
        /\ \A i \in DOMAIN x : x[i].op \in {"error", "done"}
        /\ \E i \in DOMAIN x : x[i] = Call("done", r)
    BY <2>3, <2>4, ConcatIndex
  <2>6. calls' = x \o Tail(calls)
    BY <1>2, <2>1, <2>3, <2>4, ConcatAssociative
  <2> HIDE DEF x
  <2>7. NoWork(x) /\ \A i \in DOMAIN x : x[i].op # "add"
    BY <2>5 DEF NoWork, WorkOps
  <2> QED
    BY <1>1, <1>2, <1>3, <2>5, <2>6, <2>7 DEF r
<1>4. CASE r \notin AuthRequests
  <2>1. PICK S \in Reissues :
           calls' = CallEach("add", InOrder(S))
                    \o CallEach("done", InOrder(RequestsOf(consumerOf[r]))) \o Tail(calls)
    BY <1>4 DEF Error, r
  <2> DEFINE a == CallEach("add", InOrder(S))
             y == CallEach("done", InOrder(RequestsOf(consumerOf[r])))
             x == a \o y
  <2>2. /\ InOrder(RequestsOf(consumerOf[r])) \in Seq(Requests)
        /\ ToSet(InOrder(RequestsOf(consumerOf[r]))) = RequestsOf(consumerOf[r])
    BY InOrderFacts DEF RequestsOf, TypeOK
  <2>3. /\ y \in Seq(Calls)
        /\ \A i \in DOMAIN y : y[i].op = "done" /\ y[i].id \in RequestsOf(consumerOf[r])
        /\ \E i \in DOMAIN y : y[i] = Call("done", r)
    <3>1. r \in RequestsOf(consumerOf[r])
      BY <1>1 DEF RequestsOf
    <3> QED
      BY <2>2, <3>1, CallEachFacts
  <2> HIDE DEF y
  <2>4. /\ x \in Seq(Calls)
        /\ \A i \in DOMAIN x : \/ x[i].op = "add" /\ x[i].id \in Unmade
                               \/ \E j \in DOMAIN y : x[i] = y[j]
        /\ \A j \in DOMAIN y : \E i \in DOMAIN x : x[i] = y[j]
        /\ \A i, j \in DOMAIN x : x[i].op = "add" /\ x[j].op = "add" /\ x[i].id = x[j].id => i = j
    BY <2>3, ReissueFacts
  <2>5. a \in Seq(Calls)
    <3>1. S \subseteq Requests
      BY DEF Reissues, Unmade, TypeOK
    <3> QED
      BY <3>1, InOrderFacts, CallEachFacts
  <2> HIDE DEF a
  <2>6. calls' = x \o Tail(calls)
    BY <1>2, <2>1, <2>3, <2>5, ConcatAssociative DEF a, y
  <2> HIDE DEF x
  <2>7. NoWork(x)
    BY <2>3, <2>4 DEF NoWork, WorkOps
  <2>8. \A i \in DOMAIN x : x[i].op = "add" => x[i].id \in Unmade
    BY <2>3, <2>4
  <2>9. \A i \in DOMAIN x : /\ x[i].op # "error"
                            /\ x[i].op = "done" => x[i].id \in RequestsOf(consumerOf[r])
    BY <2>3, <2>4
  <2>10. \E i \in DOMAIN x : x[i] = Call("done", r)
    BY <2>3, <2>4
  <2> QED
    BY <1>1, <1>2, <2>4, <2>6, <2>7, <2>8, <2>9, <2>10 DEF r
<1> QED
  BY <1>3, <1>4

Same(q, r) == requestIdOf[q] = requestIdOf[r] /\ requestIdOf[r] # None

(* What Start puts on the stack. *)
LEMMA StartFacts ==
    ASSUME TypeOK, Start
    PROVE  LET r == Head(list) IN
           /\ calls # <<>> /\ Head(calls).op = "work" /\ list # <<>>
           /\ r \in Requests /\ r \in ToSet(list)
           /\ pending' = Without(pending, r)
           /\ inProgress' = inProgress \cup {r}
           /\ inProgress' \in SUBSET Requests
           /\ snapshots' = IF pending' = <<>> THEN snapshots
                           ELSE Append(snapshots, Cardinality(inProgress'))
           /\ list' = Tail(list)
           /\ UNCHANGED <<fresh, subscribed, working, connected, authVars>>
           /\ \E e \in Seq(Calls) :
                 /\ calls' = e \o (<<Call("listen", r)>> \o calls)
                 /\ \A i \in DOMAIN e : e[i].op = "error" /\ e[i].id \in ToSet(connected)
                                        /\ Same(e[i].id, r)
                 /\ \A q \in ToSet(connected) :
                       Same(q, r) => \E i \in DOMAIN e : e[i] = Call("error", q)
<1> DEFINE r == Head(list)
           S == {q \in Requests : requestIdOf[r] # None /\ requestIdOf[q] = requestIdOf[r]}
           same == Only(connected, S)
           e == CallEach("error", same)
<1>1. /\ calls # <<>> /\ Head(calls).op = "work" /\ list # <<>>
      /\ pending' = Without(pending, r)
      /\ inProgress' = inProgress \cup {r}
      /\ snapshots' = IF pending' = <<>> THEN snapshots
                      ELSE Append(snapshots, Cardinality(inProgress'))
      /\ list' = Tail(list)
      /\ UNCHANGED <<fresh, subscribed, working, connected, authVars>>
      /\ calls' = e \o <<Call("listen", r)>> \o calls
  BY DEF Start, Top
<1>2. r \in Requests /\ r \in ToSet(list)
  <2>1. list \in Seq(Requests) /\ list # <<>>
    BY <1>1 DEF TypeOK
  <2>2. r = list[1] /\ 1 \in DOMAIN list /\ r \in Requests
    BY <2>1
  <2> QED
    BY <2>2 DEF ToSet
<1>3. inProgress' \in SUBSET Requests
  BY <1>1, <1>2 DEF TypeOK
<1> HIDE DEF r
<1>4. connected \in Seq(Requests) /\ calls \in Seq(Calls)
  BY DEF TypeOK
<1>5. same \in Seq(Requests) /\ ToSet(same) = ToSet(connected) \cap S
  BY <1>4, OnlyFacts
<1> HIDE DEF same
<1>6. /\ e \in Seq(Calls) /\ DOMAIN e = DOMAIN same
      /\ \A q \in ToSet(same) : \E i \in DOMAIN same : e[i] = Call("error", q)
      /\ \A i \in DOMAIN same : e[i].op = "error" /\ e[i].id \in ToSet(same)
  BY <1>5, CallEachFacts
<1> DEFINE l == <<Call("listen", r)>>
<1>7. l \in Seq(Calls)
  BY <1>2, CallFacts
<1>8. calls' = e \o l \o calls
  BY <1>1 DEF r
<1> HIDE DEF e, l
<1>9. calls' = e \o (l \o calls)
  BY <1>4, <1>6, <1>7, <1>8, ConcatAssociative
<1>10. ToSet(connected) \subseteq Requests
  BY <1>4, SeqFacts
<1>11. \A i \in DOMAIN e : e[i].op = "error" /\ e[i].id \in ToSet(connected) /\ Same(e[i].id, r)
  BY <1>5, <1>6 DEF Same
<1>12. \A q \in ToSet(connected) : Same(q, r) => \E i \in DOMAIN e : e[i] = Call("error", q)
  BY <1>5, <1>6, <1>10 DEF Same
<1> QED
  BY <1>1, <1>2, <1>3, <1>6, <1>9, <1>11, <1>12 DEF r, l

(* What an event of the browser puts on the empty stack. *)
LEMMA BrowserFacts ==
    ASSUME TypeOK, Browser
    PROVE  /\ calls = <<>> /\ calls' \in Seq(Calls) /\ NoWork(calls')
           /\ \A i \in DOMAIN calls' : calls'[i].op = "add" => calls'[i].id \in fresh
           /\ \A i, j \in DOMAIN calls' :
                 calls'[i].op = "add" /\ calls'[j].op = "add" /\ calls'[i].id = calls'[j].id => i = j
           /\ \A i \in DOMAIN calls' :
                 calls'[i].op = "add" /\ calls'[i].id \in AuthRequests =>
                     calls' = <<Call("add", calls'[i].id)>>
           /\ UNCHANGED <<fresh, subscribed, queueVars, workerVars, connected>>
           /\ awaits' \in [Requests -> AuthRequests \cup {None}]
           /\ retried' \subseteq Requests
           /\ rotation' \in AuthRequests \cup {None}
<1> DEFINE Stack ==
      /\ calls' \in Seq(Calls) /\ NoWork(calls')
      /\ \A i \in DOMAIN calls' : calls'[i].op = "add" => calls'[i].id \in fresh
      /\ \A i, j \in DOMAIN calls' :
            calls'[i].op = "add" /\ calls'[j].op = "add" /\ calls'[i].id = calls'[j].id => i = j
      /\ \A i \in DOMAIN calls' :
            calls'[i].op = "add" /\ calls'[i].id \in AuthRequests =>
                calls' = <<Call("add", calls'[i].id)>>
           Auth == /\ awaits' \in [Requests -> AuthRequests \cup {None}]
                   /\ retried' \subseteq Requests
                   /\ rotation' \in AuthRequests \cup {None}
           Same1 == UNCHANGED <<fresh, subscribed, queueVars, workerVars, connected>>
           Goal == calls = <<>> /\ Stack /\ Same1 /\ Auth
<1>a. UNCHANGED authVars => Auth
  BY DEF authVars, TypeOK
<1>1. ASSUME NEW op \in {"add", "done", "error"}, NEW r \in Requests, r \in fresh \/ op # "add",
             calls' = <<Call(op, r)>>
      PROVE  Stack
  <2>1. Call(op, r) \in Calls /\ Call(op, r).op = op /\ Call(op, r).id = r
    BY CallFacts
  <2>2. calls' \in Seq(Calls) /\ DOMAIN calls' = {1} /\ calls'[1] = Call(op, r)
    BY <1>1, <2>1
  <2>3. NoWork(calls')
    BY <2>1, <2>2 DEF NoWork, WorkOps
  <2>4. \A i \in DOMAIN calls' : calls'[i].op = "add" => calls'[i].id \in fresh
    BY <1>1, <2>1, <2>2
  <2>5. \A i, j \in DOMAIN calls' : i = j
    BY <2>2
  <2>6. \A i \in DOMAIN calls' : calls'[i].op = "add" => calls' = <<Call("add", calls'[i].id)>>
    BY <1>1, <2>1, <2>2
  <2> QED
    BY <2>2, <2>3, <2>4, <2>5, <2>6
<1>2. ASSUME NEW op \in {"done", "error"}, NEW s \in Seq(Requests), calls' = CallEach(op, s)
      PROVE  Stack
  <2>1. calls' \in Seq(Calls) /\ \A i \in DOMAIN calls' : calls'[i].op = op
    BY <1>2, CallEachFacts
  <2>2. \A i \in DOMAIN calls' : calls'[i].op \notin WorkOps \cup {"add"}
    BY <2>1 DEF WorkOps
  <2> QED
    BY <2>1, <2>2 DEF NoWork
<1> HIDE DEF Auth
<1>3. ASSUME NEW r \in Requests, Fetch(r) PROVE Goal
  <2>1. r \in fresh /\ calls' = <<Call("add", r)>> /\ calls = <<>>
    BY <1>3 DEF Fetch, Unmade, Idle
  <2>2. Stack
    BY <1>1, <2>1
  <2> HIDE DEF Stack
  <2> QED
    BY <1>3, <1>a, <2>1, <2>2 DEF Fetch
<1>4. ASSUME NEW r \in Requests, Succeed(r) PROVE Goal
  <2>1. PICK S \in Reissues : calls' = CallEach("add", InOrder(S)) \o <<Call("done", r)>>
    BY <1>4 DEF Succeed
  <2> DEFINE y == <<Call("done", r)>>
  <2>2. y \in Seq(Calls) /\ DOMAIN y = {1} /\ y[1].op = "done"
    BY CallFacts
  <2>3. \A i \in DOMAIN y : y[i].op = "done" /\ y[i].op # "add"
    BY <2>2
  <2> HIDE DEF y
  <2>4. calls' = CallEach("add", InOrder(S)) \o y
    BY <2>1 DEF y
  <2>5. /\ calls' \in Seq(Calls)
        /\ \A i \in DOMAIN calls' : \/ calls'[i].op = "add" /\ calls'[i].id \in Unmade
                                    \/ \E j \in DOMAIN y : calls'[i] = y[j]
        /\ \A i, j \in DOMAIN calls' :
              calls'[i].op = "add" /\ calls'[j].op = "add" /\ calls'[i].id = calls'[j].id => i = j
    BY <2>2, <2>3, <2>4, ReissueFacts
  <2>6. \A i \in DOMAIN calls' :
           /\ calls'[i].op \in {"add", "done"}
           /\ calls'[i].op = "add" => calls'[i].id \in fresh /\ calls'[i].id \notin AuthRequests
    BY <2>3, <2>5 DEF Unmade
  <2>7. Stack
    BY <2>5, <2>6 DEF NoWork, WorkOps
  <2> HIDE DEF Stack
  <2> QED
    BY <1>4, <1>a, <2>7 DEF Succeed, Idle
<1>5. ASSUME NEW r \in Requests, Fail(r) PROVE Goal
  <2>1. Stack
    BY <1>1, <1>5 DEF Fail
  <2> HIDE DEF Stack
  <2> QED
    BY <1>5, <1>a, <2>1 DEF Fail, Idle
<1>6. ASSUME NEW a \in Requests, Authorized(a) PROVE Goal
  <2>1. Stack
    BY <1>1, <1>6 DEF Authorized
  <2>2. Auth
    BY <1>6 DEF Authorized, TypeOK, Auth
  <2> HIDE DEF Stack
  <2> QED
    BY <1>6, <2>1, <2>2 DEF Authorized, Idle
<1>7. ASSUME NEW r \in Requests, NEW a \in AuthRequests, LoginPing(r, a) \/ RotateToken(r, a)
      PROVE  Goal
  <2>1. a \in Requests /\ a \in fresh /\ calls' = <<Call("add", a)>>
    BY <1>7, BackendSrvAssumption DEF LoginPing, RotateToken
  <2>2. Stack
    BY <1>1, <2>1
  <2>3. Auth
    BY <1>7 DEF LoginPing, RotateToken, Unauthorized, TypeOK, Auth
  <2> HIDE DEF Stack
  <2> QED
    BY <1>7, <2>2, <2>3 DEF LoginPing, RotateToken, Unauthorized, Idle
<1>8. ASSUME NEW r \in Requests, JoinRotation(r) PROVE Goal
  <2>1. calls' = <<>> /\ calls = <<>>
    BY <1>8 DEF JoinRotation, Unauthorized, Idle
  <2>2. DOMAIN calls' = {} /\ calls' \in Seq(Calls)
    BY <2>1
  <2>3. Stack
    BY <2>2 DEF NoWork
  <2>4. Auth
    BY <1>8 DEF JoinRotation, Unauthorized, TypeOK, Auth
  <2> HIDE DEF Stack
  <2> QED
    BY <1>8, <2>1, <2>3, <2>4 DEF JoinRotation, Unauthorized
<1>9. ASSUME NEW c \in Consumers, Unsubscribe(c) PROVE Goal
  <2>1. InOrder(RequestsOf(c)) \in Seq(Requests)
    BY InOrderFacts DEF RequestsOf, TypeOK
  <2>2. Stack
    BY <1>2, <1>9, <2>1 DEF Unsubscribe
  <2> HIDE DEF Stack
  <2> QED
    BY <1>9, <1>a, <2>2 DEF Unsubscribe, Idle
<1>10. ASSUME NEW r \in Requests, ResolveCancelerIfExists(requestIdOf[r]) PROVE Goal
  <2>1. Only(connected, {q \in Requests : requestIdOf[q] = requestIdOf[r]}) \in Seq(Requests)
    BY OnlyFacts DEF TypeOK
  <2>2. Stack
    BY <1>2, <1>10, <2>1 DEF ResolveCancelerIfExists
  <2> HIDE DEF Stack
  <2> QED
    BY <1>10, <1>a, <2>2 DEF ResolveCancelerIfExists, Idle
<1>11. ASSUME CancelAllInFlightRequests PROVE Goal
  <2>1. Stack
    BY <1>2, <1>11 DEF CancelAllInFlightRequests, TypeOK
  <2> HIDE DEF Stack
  <2> QED
    BY <1>11, <1>a, <2>1 DEF CancelAllInFlightRequests, Idle
<1>12. Goal
  <2> HIDE DEF Goal
  <2> QED
    BY <1>3, <1>4, <1>5, <1>6, <1>7, <1>8, <1>9, <1>10, <1>11 DEF Browser
<1> QED
  BY <1>12 DEF Auth

LEMMA StartTypes ==
    ASSUME TypeOK, Start
    PROVE  TypeOK'
<1> DEFINE r == Head(list)
<1>1. /\ r \in Requests
      /\ pending' = Without(pending, r)
      /\ inProgress' \in SUBSET Requests
      /\ snapshots' = IF pending' = <<>> THEN snapshots
                      ELSE Append(snapshots, Cardinality(inProgress'))
      /\ list # <<>> /\ list' = Tail(list)
      /\ UNCHANGED <<fresh, subscribed, working, connected, authVars>>
  BY StartFacts
<1> HIDE DEF r
<1>2. PICK e \in Seq(Calls) : calls' = e \o (<<Call("listen", Head(list))>> \o calls)
  BY StartFacts
<1>3. calls' \in Seq(Calls)
  <2> DEFINE l == <<Call("listen", Head(list))>>
  <2>1. l \in Seq(Calls)
    <3>1. Call("listen", Head(list)) \in Calls
      BY <1>1, CallFacts DEF r
    <3> QED
      BY <3>1
  <2>2. calls' = e \o (l \o calls)
    BY <1>2
  <2> HIDE DEF l
  <2>3. calls \in Seq(Calls)
    BY DEF TypeOK
  <2>4. l \o calls \in Seq(Calls)
    BY <2>1, <2>3
  <2> QED
    BY <2>2, <2>4
<1>4. pending' \in Seq(Requests)
  BY <1>1, WithoutFacts DEF TypeOK
<1>5. list' \in Seq(Requests)
  BY <1>1 DEF TypeOK
<1>6. snapshots' \in Seq(0..Cardinality(Requests))
  <2>1. Cardinality(inProgress') \in 0..Cardinality(Requests)
    BY <1>1, CardinalityFacts
  <2>2. snapshots \in Seq(0..Cardinality(Requests))
    BY DEF TypeOK
  <2>3. Append(snapshots, Cardinality(inProgress')) \in Seq(0..Cardinality(Requests))
    BY <2>1, <2>2, AppendFacts
  <2> QED
    BY <1>1, <2>2, <2>3
<1>7. ToSet(connected') = ToSet(connected)
  BY <1>1
<1> QED
  BY <1>1, <1>3, <1>4, <1>5, <1>6, <1>7 DEF TypeOK, authVars

LEMMA ListenTypes ==
    ASSUME TypeOK, Listen
    PROVE  TypeOK'
<1> DEFINE r == Head(calls).id
<1>1. r \in Requests /\ Tail(calls) \in Seq(Calls)
  BY TopFacts DEF Listen, Top
<1>2. /\ connected' = IF r \in subscribed THEN Append(connected, r) ELSE connected
      /\ calls' = Tail(calls)
      /\ UNCHANGED <<fresh, subscribed, queueVars, workerVars, authVars>>
  BY DEF Listen
<1> HIDE DEF r
<1>3. connected' \in Seq(Requests) /\ ToSet(connected') \subseteq subscribed
  <2>1. connected \in Seq(Requests) /\ ToSet(connected) \subseteq subscribed
    BY DEF TypeOK
  <2>2. Append(connected, r) \in Seq(Requests) /\ ToSet(Append(connected, r)) = ToSet(connected) \cup {r}
    BY <1>1, <2>1, AppendFacts
  <2> QED
    BY <1>2, <2>1, <2>2
<1> QED
  BY <1>1, <1>2, <1>3 DEF TypeOK, queueVars, workerVars, authVars

LEMMA NextTypes == TypeOK /\ [Next]_vars => TypeOK'
<1> SUFFICES ASSUME TypeOK, [Next]_vars PROVE TypeOK'
  OBVIOUS
<1>0. ToSet(connected)' = ToSet(connected')
  OBVIOUS
<1>a. ASSUME calls' \in Seq(Calls), UNCHANGED <<fresh, subscribed, queueVars, workerVars, connected, authVars>>
      PROVE  TypeOK'
  BY <1>a DEF TypeOK, queueVars, workerVars, authVars
<1>1. CASE Add
  BY <1>1, AddTypes
<1>2. CASE Done
  BY <1>2, DoneTypes
<1>3. CASE Error
  <2>1. PICK x \in Seq(Calls) : calls' = x \o Tail(calls)
    BY <1>3, ErrorFacts
  <2>2. Tail(calls) \in Seq(Calls)
    BY <1>3, ErrorFacts
  <2>3. calls' \in Seq(Calls)
    BY <2>1, <2>2
  <2> QED
    BY <1>3, <1>a, <2>3 DEF Error
<1>4. CASE Closed
  <2>1. calls' \in Seq(Calls)
    BY <1>4, TopFacts DEF Closed
  <2> QED
    BY <1>4, <1>a, <2>1 DEF Closed
<1>5. CASE Start
  BY <1>5, StartTypes
<1>6. CASE Listen
  BY <1>6, ListenTypes
<1>7. CASE NextUpdate
  <2>1. snapshots \in Seq(0..Cardinality(Requests)) /\ snapshots # <<>>
    BY <1>7 DEF NextUpdate, TypeOK
  <2>2. Head(snapshots) \in Nat /\ Tail(snapshots) \in Seq(0..Cardinality(Requests))
    <3> DEFINE N == 0..Cardinality(Requests)
    <3>1. \A n \in N : n \in Nat
      OBVIOUS
    <3> HIDE DEF N
    <3>2. snapshots \in Seq(N) /\ snapshots # <<>>
      BY <2>1 DEF N
    <3>3. Head(snapshots) \in N /\ Tail(snapshots) \in Seq(N)
      BY <3>2, TailFacts
    <3> QED
      BY <3>1, <3>3 DEF N
  <2>3. ToFetch(pending, Head(snapshots)) \in Seq(Requests)
    BY <2>2, ToFetchFacts DEF TypeOK
  <2> QED
    BY <1>7, <2>2, <2>3 DEF NextUpdate, TypeOK, queueVars, authVars
<1>8. CASE Rest
  <2>1. Tail(calls) \in Seq(Calls)
    BY <1>8, TopFacts DEF Rest, Top
  <2> QED
    BY <1>8, <2>1 DEF Rest, TypeOK, queueVars, authVars
<1>9. CASE Browser
  <2>1. /\ calls' \in Seq(Calls)
        /\ UNCHANGED <<fresh, subscribed, queueVars, workerVars, connected>>
        /\ awaits' \in [Requests -> AuthRequests \cup {None}]
        /\ retried' \subseteq Requests
        /\ rotation' \in AuthRequests \cup {None}
    BY <1>9, BrowserFacts
  <2> QED
    BY <2>1 DEF TypeOK, queueVars, workerVars
<1>10. CASE UNCHANGED vars
  BY <1>a, <1>10 DEF vars, TypeOK
<1> QED
  BY <1>1, <1>2, <1>3, <1>4, <1>5, <1>6, <1>7, <1>8, <1>9, <1>10 DEF Next, Run

LEMMA InitTypes == Init => TypeOK
<1> SUFFICES ASSUME Init PROVE TypeOK
  OBVIOUS
<1>1. ToSet(connected) = {}
  BY DEF Init, ToSet
<1>2. \A T : <<>> \in Seq(T)
  OBVIOUS
<1>3. awaits \in [Requests -> AuthRequests \cup {None}]
  BY DEF Init
<1> QED
  BY <1>1, <1>2, <1>3 DEF Init, TypeOK

(* The type invariant, and that a response is subscribed to for a          *)
(* subscriber only.                                                        *)
THEOREM TypeCorrect == Spec => []TypeOK
  BY InitTypes, NextTypes, PTL DEF Spec

-----------------------------------------------------------------------------
(* The worker and its place on the stack.                                  *)

HasWork(s) == \E i \in DOMAIN s : s[i].op = "work"

Ordered(s) ==
    \A i, j \in DOMAIN s :
        i < j /\ s[i].op \in WorkOps /\ s[j].op \in WorkOps =>
            s[i].op = "listen" /\ s[j].op = "work"

(* A worker that has a list is on the stack once, with the request that it *)
(* starts above it; a worker that has none has nothing to do.              *)
WorkerInv ==
    /\ Ordered(calls)
    /\ working => HasWork(calls)
    /\ ~working => NoWork(calls) /\ snapshots = <<>> /\ list = <<>>

(* The stack without its top, and with x instead. *)
LEMMA StackFacts ==
    ASSUME NEW s \in Seq(Calls), s # <<>>, NEW x \in Seq(Calls)
    PROVE  LET u == x \o Tail(s) IN
           /\ u \in Seq(Calls)
           /\ \A i \in DOMAIN u :
                 \/ i \in DOMAIN x /\ u[i] = x[i]
                 \/ \E j \in DOMAIN s : j > 1 /\ i = Len(x) + (j - 1) /\ u[i] = s[j]
           /\ \A i \in DOMAIN x : i \in DOMAIN u /\ u[i] = x[i] /\ i <= Len(x)
           /\ \A j \in DOMAIN s :
                 j > 1 => Len(x) + (j - 1) \in DOMAIN u /\ u[Len(x) + (j - 1)] = s[j]
           /\ Len(x) \in Nat /\ DOMAIN s \subseteq Nat /\ DOMAIN x \subseteq Nat /\ 1 \in DOMAIN s /\ Head(s) = s[1]
           /\ DOMAIN u \subseteq Nat
<1> DEFINE t == Tail(s)
           u == x \o t
<1>1. /\ t \in Seq(Calls) /\ Head(s) = s[1] /\ 1 \in DOMAIN s
      /\ \A i \in DOMAIN t : i + 1 \in DOMAIN s /\ t[i] = s[i + 1]
      /\ \A i \in DOMAIN s : i # 1 => i - 1 \in DOMAIN t /\ s[i] = t[i - 1]
  BY TailFacts
<1> HIDE DEF t
<1>2. /\ Len(s) \in Nat /\ DOMAIN s = 1..Len(s) /\ Len(t) \in Nat /\ DOMAIN t = 1..Len(t)
      /\ Len(x) \in Nat /\ DOMAIN x = 1..Len(x)
  BY <1>1, SeqFacts
<1>3. u \in Seq(Calls)
  BY <1>1, ConcatIndex
<1>4. \A i \in DOMAIN u : \/ i \in DOMAIN x /\ u[i] = x[i]
                          \/ \E j \in DOMAIN t : i = Len(x) + j /\ u[i] = t[j]
  BY <1>1, ConcatIndex
<1>5. \A i \in DOMAIN x : i \in DOMAIN u /\ u[i] = x[i]
  BY <1>1, ConcatIndex
<1>6. \A j \in DOMAIN t : Len(x) + j \in DOMAIN u /\ u[Len(x) + j] = t[j]
  BY <1>1, ConcatIndex
<1> HIDE DEF u
<1>7. DOMAIN u \subseteq Nat
  BY <1>3, SeqFacts
<1>8. \A i \in DOMAIN u :
         \/ i \in DOMAIN x /\ u[i] = x[i]
         \/ \E j \in DOMAIN s : j > 1 /\ i = Len(x) + (j - 1) /\ u[i] = s[j]
  <2> SUFFICES ASSUME NEW i \in DOMAIN u, NEW k \in DOMAIN t, i = Len(x) + k, u[i] = t[k]
               PROVE  \E j \in DOMAIN s : j > 1 /\ i = Len(x) + (j - 1) /\ u[i] = s[j]
    BY <1>4
  <2>1. k + 1 \in DOMAIN s /\ t[k] = s[k + 1] /\ k + 1 > 1 /\ (k + 1) - 1 = k
    BY <1>1, <1>2
  <2> QED
    BY <2>1
<1>9. \A j \in DOMAIN s :
         j > 1 => Len(x) + (j - 1) \in DOMAIN u /\ u[Len(x) + (j - 1)] = s[j]
  <2> SUFFICES ASSUME NEW j \in DOMAIN s, j > 1
               PROVE  Len(x) + (j - 1) \in DOMAIN u /\ u[Len(x) + (j - 1)] = s[j]
    OBVIOUS
  <2>1. j - 1 \in DOMAIN t /\ s[j] = t[j - 1]
    BY <1>1, <1>2
  <2> QED
    BY <1>6, <2>1
<1> QED
  BY <1>1, <1>2, <1>3, <1>5, <1>7, <1>8, <1>9 DEF u, t

(* Other calls, without a worker, where the top was.                       *)
LEMMA ReplaceTop ==
    ASSUME NEW s \in Seq(Calls), s # <<>>, Ordered(s), NEW x \in Seq(Calls), NoWork(x)
    PROVE  LET u == x \o Tail(s) IN
           /\ Ordered(u)
           /\ HasWork(s) /\ Head(s).op # "work" => HasWork(u)
           /\ NoWork(s) \/ Head(s).op = "work" => NoWork(u)
<1> DEFINE u == x \o Tail(s)
<1>1. /\ \A i \in DOMAIN u :
            \/ i \in DOMAIN x /\ u[i] = x[i]
            \/ \E j \in DOMAIN s : j > 1 /\ i = Len(x) + (j - 1) /\ u[i] = s[j]
      /\ \A j \in DOMAIN s :
            j > 1 => Len(x) + (j - 1) \in DOMAIN u /\ u[Len(x) + (j - 1)] = s[j]
      /\ Len(x) \in Nat /\ DOMAIN s \subseteq Nat /\ 1 \in DOMAIN s /\ Head(s) = s[1]
  BY StackFacts
<1>2. DOMAIN s = 1..Len(s) /\ Len(s) \in Nat
  BY SeqFacts
<1> HIDE DEF u
<1>3. \A i \in DOMAIN u : u[i].op \in WorkOps =>
         \E j \in DOMAIN s : j > 1 /\ i = Len(x) + (j - 1) /\ u[i] = s[j]
  BY <1>1 DEF NoWork
<1>4. Ordered(u)
  <2> SUFFICES ASSUME NEW i \in DOMAIN u, NEW j \in DOMAIN u, i < j,
                      u[i].op \in WorkOps, u[j].op \in WorkOps
               PROVE  u[i].op = "listen" /\ u[j].op = "work"
    BY DEF Ordered
  <2>1. PICK k \in DOMAIN s : i = Len(x) + (k - 1) /\ u[i] = s[k]
    BY <1>3
  <2>2. PICK l \in DOMAIN s : j = Len(x) + (l - 1) /\ u[j] = s[l]
    BY <1>3
  <2>3. k < l
    BY <1>1, <2>1, <2>2
  <2> QED
    BY <2>1, <2>2, <2>3 DEF Ordered
<1>5. ASSUME HasWork(s), Head(s).op # "work" PROVE HasWork(u)
  <2>1. PICK j \in DOMAIN s : s[j].op = "work"
    BY <1>5 DEF HasWork
  <2>2. j > 1
    BY <1>1, <1>2, <1>5, <2>1
  <2> QED
    BY <1>1, <2>1, <2>2 DEF HasWork
<1>6. ASSUME NoWork(s) \/ Head(s).op = "work" PROVE NoWork(u)
  <2> SUFFICES ASSUME NEW i \in DOMAIN u, u[i].op \in WorkOps PROVE FALSE
    BY DEF NoWork
  <2>1. PICK j \in DOMAIN s : j > 1 /\ u[i] = s[j]
    BY <1>3
  <2>2. s[j].op \in WorkOps /\ 1 < j
    BY <1>1, <2>1
  <2>3. s[1].op = "work"
    BY <1>1, <1>6, <2>2 DEF NoWork
  <2> QED
    BY <1>1, <2>2, <2>3 DEF Ordered, WorkOps
<1> QED
  BY <1>4, <1>5, <1>6 DEF u

(* Without a worker on the stack it may be put on top. *)
LEMMA PutWork ==
    ASSUME NEW s \in Seq(Calls), NoWork(s)
    PROVE  /\ <<Call("work", None)>> \o s \in Seq(Calls)
           /\ Ordered(<<Call("work", None)>> \o s) /\ HasWork(<<Call("work", None)>> \o s)
<1> DEFINE w == <<Call("work", None)>>
           u == w \o s
<1>1. w \in Seq(Calls) /\ DOMAIN w = {1} /\ w[1].op = "work"
  BY CallFacts
<1> HIDE DEF w
<1>0. u \in Seq(Calls)
  BY <1>1, ConcatIndex
<1>2. \A i \in DOMAIN u : \/ i \in DOMAIN w /\ u[i] = w[i]
                          \/ \E j \in DOMAIN s : i = Len(w) + j /\ u[i] = s[j]
  BY <1>1, ConcatIndex
<1>3. \A i \in DOMAIN w : i \in DOMAIN u /\ u[i] = w[i]
  BY <1>1, ConcatIndex
<1> HIDE DEF u
<1>4. HasWork(u)
  BY <1>1, <1>3 DEF HasWork
<1>5. \A i \in DOMAIN u : u[i].op \in WorkOps => i = 1
  BY <1>1, <1>2 DEF NoWork
<1>6. Ordered(u)
  BY <1>5 DEF Ordered
<1> QED
  BY <1>0, <1>4, <1>6 DEF u, w

-----------------------------------------------------------------------------
(* The worker keeps its place.                                             *)

(* The stack without its top. *)
LEMMA DropTop ==
    ASSUME NEW s \in Seq(Calls), s # <<>>
    PROVE  <<>> \in Seq(Calls) /\ Tail(s) = <<>> \o Tail(s) /\ NoWork(<<>>)
<1>1. Tail(s) \in Seq(Calls) /\ <<>> \in Seq(Calls)
  OBVIOUS
<1>2. Tail(s) = <<>> \o Tail(s)
  BY <1>1
<1> QED
  BY <1>1, <1>2 DEF NoWork

(* The stack that Start leaves: e, a listen, and what it was. *)
LEMMA PutListen ==
    ASSUME NEW s \in Seq(Calls), NEW e \in Seq(Calls), NEW r \in Requests
    PROVE  LET u == e \o (<<Call("listen", r)>> \o s)
               m == Len(e) + 1
           IN  /\ u \in Seq(Calls) /\ m \in Nat /\ DOMAIN e = 1..Len(e) /\ Len(e) \in Nat
               /\ DOMAIN s = 1..Len(s) /\ Len(s) \in Nat
               /\ \A i \in DOMAIN u : \/ i \in DOMAIN e /\ u[i] = e[i]
                                      \/ i = m /\ u[i] = Call("listen", r)
                                      \/ \E j \in DOMAIN s : i = m + j /\ u[i] = s[j]
               /\ \A i \in DOMAIN e : i \in DOMAIN u /\ u[i] = e[i]
               /\ m \in DOMAIN u /\ u[m] = Call("listen", r)
               /\ \A j \in DOMAIN s : m + j \in DOMAIN u /\ u[m + j] = s[j]
<1> DEFINE c == Call("listen", r)
           l == <<c>>
           t == l \o s
           u == e \o t
           k == Len(e)
           m == Len(e) + 1
<1>1. c \in Calls
  BY CallFacts
<1> HIDE DEF c
<1>2. l \in Seq(Calls) /\ Len(l) = 1 /\ DOMAIN l = {1} /\ l[1] = c
  BY <1>1
<1> HIDE DEF l
<1>20. l \in Seq(Calls)
  BY <1>2
<1>3. t \in Seq(Calls)
  BY <1>20, ConcatIndex
<1>4. \A i \in DOMAIN t : \/ i \in DOMAIN l /\ t[i] = l[i]
                          \/ \E j \in DOMAIN s : i = Len(l) + j /\ t[i] = s[j]
  BY <1>20, ConcatIndex
<1>5. \A i \in DOMAIN l : i \in DOMAIN t /\ t[i] = l[i]
  BY <1>20, ConcatIndex
<1>6. \A j \in DOMAIN s : Len(l) + j \in DOMAIN t /\ t[Len(l) + j] = s[j]
  BY <1>20, ConcatIndex
<1> HIDE DEF t
<1>7. /\ \A i \in DOMAIN t : \/ i = 1 /\ t[i] = c
                             \/ \E j \in DOMAIN s : i = 1 + j /\ t[i] = s[j]
      /\ 1 \in DOMAIN t /\ t[1] = c
      /\ \A j \in DOMAIN s : 1 + j \in DOMAIN t /\ t[1 + j] = s[j]
  BY <1>2, <1>4, <1>5, <1>6
<1>8. u \in Seq(Calls)
  BY <1>3, ConcatIndex
<1>9. \A i \in DOMAIN u : \/ i \in DOMAIN e /\ u[i] = e[i]
                          \/ \E j \in DOMAIN t : i = Len(e) + j /\ u[i] = t[j]
  BY <1>3, ConcatIndex
<1>10. \A i \in DOMAIN e : i \in DOMAIN u /\ u[i] = e[i]
  BY <1>3, ConcatIndex
<1>11. \A j \in DOMAIN t : Len(e) + j \in DOMAIN u /\ u[Len(e) + j] = t[j]
  BY <1>3, ConcatIndex
<1>12. /\ Len(e) \in Nat /\ DOMAIN e = 1..Len(e)
       /\ Len(s) \in Nat /\ DOMAIN s = 1..Len(s)
  BY SeqFacts
<1> HIDE DEF u
<1>13. \A i \in DOMAIN u : \/ i \in DOMAIN e /\ u[i] = e[i]
                           \/ i = m /\ u[i] = c
                           \/ \E j \in DOMAIN s : i = m + j /\ u[i] = s[j]
  <2> SUFFICES ASSUME NEW i \in DOMAIN u, NEW k1 \in DOMAIN t, i = Len(e) + k1, u[i] = t[k1]
               PROVE  \/ i = m /\ u[i] = c
                      \/ \E j \in DOMAIN s : i = m + j /\ u[i] = s[j]
    BY <1>9
  <2>1. CASE k1 = 1 /\ t[k1] = c
    BY <2>1
  <2>2. ASSUME NEW j \in DOMAIN s, k1 = 1 + j, t[k1] = s[j]
        PROVE  \E j1 \in DOMAIN s : i = m + j1 /\ u[i] = s[j1]
    <3>1. i = m + j /\ u[i] = s[j]
      BY <1>12, <2>2
    <3> QED
      BY <3>1
  <2> QED
    BY <1>7, <2>1, <2>2
<1>14. m \in DOMAIN u /\ u[m] = c
  BY <1>7, <1>11
<1>15. \A j \in DOMAIN s : m + j \in DOMAIN u /\ u[m + j] = s[j]
  <2> SUFFICES ASSUME NEW j \in DOMAIN s PROVE m + j \in DOMAIN u /\ u[m + j] = s[j]
    OBVIOUS
  <2>1. Len(e) + (1 + j) \in DOMAIN u /\ u[Len(e) + (1 + j)] = s[j]
    BY <1>7, <1>11
  <2>2. Len(e) + (1 + j) = m + j
    BY <1>12
  <2> QED
    BY <2>1, <2>2
<1>16. m \in Nat
  BY <1>12
<1> QED
  BY <1>8, <1>10, <1>12, <1>13, <1>14, <1>15, <1>16 DEF u, t, l, c

(* The worker starts a request: it keeps its place.                        *)
LEMMA PutListenWork ==
    ASSUME NEW s \in Seq(Calls), s # <<>>, Ordered(s), Head(s).op = "work",
           NEW e \in Seq(Calls), NoWork(e), NEW r \in Requests
    PROVE  LET u == e \o (<<Call("listen", r)>> \o s) IN
           Ordered(u) /\ HasWork(u) /\ u \in Seq(Calls)
<1> DEFINE u == e \o (<<Call("listen", r)>> \o s)
           m == Len(e) + 1
           c == Call("listen", r)
<1>1. /\ u \in Seq(Calls) /\ m \in Nat
      /\ DOMAIN s = 1..Len(s) /\ Len(s) \in Nat
      /\ \A i \in DOMAIN u : \/ i \in DOMAIN e /\ u[i] = e[i]
                             \/ i = m /\ u[i] = c
                             \/ \E j \in DOMAIN s : i = m + j /\ u[i] = s[j]
      /\ \A j \in DOMAIN s : m + j \in DOMAIN u /\ u[m + j] = s[j]
  BY PutListen
<1>2. c.op = "listen"
  BY CallFacts
<1>3. 1 \in DOMAIN s /\ s[1].op = "work"
  BY TailFacts
<1> HIDE DEF u, m, c
<1>4. \A j \in DOMAIN s : s[j].op \in WorkOps => j = 1
  <2> SUFFICES ASSUME NEW j \in DOMAIN s, s[j].op \in WorkOps, j # 1 PROVE FALSE
    OBVIOUS
  <2>1. 1 < j
    BY <1>1
  <2> QED
    BY <1>3, <2>1 DEF Ordered, WorkOps
<1>5. \A i \in DOMAIN u : u[i].op \in WorkOps =>
         \/ i = m /\ u[i].op = "listen"
         \/ i = m + 1 /\ u[i].op = "work"
  BY <1>1, <1>2, <1>3, <1>4 DEF NoWork
<1>6. Ordered(u)
  BY <1>1, <1>5 DEF Ordered
<1>7. HasWork(u)
  BY <1>1, <1>3 DEF HasWork
<1> QED
  BY <1>1, <1>6, <1>7 DEF u

(* Publish starts the worker only when there is none.                      *)
LEMMA PublishWorker ==
    ASSUME TypeOK, WorkerInv, NEW entries, NEW started, NEW rest \in Seq(Calls),
           Ordered(rest), HasWork(calls) => HasWork(rest), NoWork(calls) => NoWork(rest),
           Publish(entries, started, rest)
    PROVE  WorkerInv'
<1> DEFINE u == <<Call("work", None)>> \o rest
<1>1. CASE working
  <2>1. calls' = rest /\ working' = working
    BY <1>1 DEF Publish, workerVars
  <2> QED
    BY <1>1, <2>1 DEF WorkerInv
<1>2. CASE ~working
  <2>1. NoWork(rest)
    BY <1>2 DEF WorkerInv
  <2>2. Ordered(u) /\ HasWork(u)
    BY <2>1, PutWork
  <2> HIDE DEF u
  <2>3. CASE calls' = rest /\ UNCHANGED workerVars
    BY <1>2, <2>1, <2>3 DEF WorkerInv, workerVars
  <2>4. CASE working' = TRUE /\ calls' = u
    BY <2>2, <2>4 DEF WorkerInv
  <2> QED
    BY <1>2, <2>3, <2>4 DEF Publish, u
<1> QED
  BY <1>1, <1>2 DEF TypeOK

LEMMA InitWorker == Init => WorkerInv
<1> SUFFICES ASSUME Init PROVE WorkerInv
  OBVIOUS
<1>1. calls = <<>> /\ ~working /\ snapshots = <<>> /\ list = <<>>
  BY DEF Init
<1>2. DOMAIN calls = {}
  BY <1>1
<1> QED
  BY <1>1, <1>2 DEF WorkerInv, Ordered, NoWork

LEMMA NextWorker == TypeOK /\ WorkerInv /\ [Next]_vars => WorkerInv'
<1> SUFFICES ASSUME TypeOK, WorkerInv, [Next]_vars PROVE WorkerInv'
  OBVIOUS
<1>t. calls \in Seq(Calls)
  BY DEF TypeOK
<1>a. ASSUME NEW x \in Seq(Calls), calls # <<>>, NoWork(x), Head(calls).op # "work"
      PROVE  /\ Ordered(x \o Tail(calls))
             /\ HasWork(calls) => HasWork(x \o Tail(calls))
             /\ NoWork(calls) => NoWork(x \o Tail(calls))
  BY <1>t, <1>a, ReplaceTop DEF WorkerInv
<1>b. ASSUME NEW x \in Seq(Calls), calls # <<>>, NoWork(x), Head(calls).op # "work",
             calls' = x \o Tail(calls), UNCHANGED workerVars
      PROVE  WorkerInv'
  BY <1>a, <1>b DEF WorkerInv, workerVars
<1>1. CASE Add
  <2>1. /\ calls # <<>> /\ Head(calls).op = "add"
        /\ Publish(pending', inProgress, Tail(calls))
    BY <1>1 DEF Add, Top
  <2>2. <<>> \in Seq(Calls) /\ Tail(calls) = <<>> \o Tail(calls) /\ NoWork(<<>>)
    BY <1>t, <2>1, DropTop
  <2>3. /\ Ordered(Tail(calls))
        /\ HasWork(calls) => HasWork(Tail(calls))
        /\ NoWork(calls) => NoWork(Tail(calls))
    BY <1>a, <2>1, <2>2
  <2>4. Tail(calls) \in Seq(Calls)
    BY <2>1, TopFacts
  <2> QED
    BY <2>1, <2>3, <2>4, PublishWorker
<1>2. CASE Done
  <2> DEFINE r == Head(calls).id
  <2>1. /\ calls # <<>> /\ Head(calls).op = "done" /\ r \in Requests
        /\ Ended(r) \o Tail(calls) \in Seq(Calls)
        /\ Publish(pending', inProgress', Ended(r) \o Tail(calls))
    BY <1>2, DoneFacts
  <2> HIDE DEF r
  <2>2. Ended(r) \in Seq(Calls) /\ \A i \in DOMAIN Ended(r) : Ended(r)[i].op = "done"
    BY <2>1, EndedFacts DEF Call
  <2>3. NoWork(Ended(r))
    BY <2>2 DEF NoWork, WorkOps
  <2>4. /\ Ordered(Ended(r) \o Tail(calls))
        /\ HasWork(calls) => HasWork(Ended(r) \o Tail(calls))
        /\ NoWork(calls) => NoWork(Ended(r) \o Tail(calls))
    BY <1>a, <2>1, <2>2, <2>3
  <2> QED
    BY <2>1, <2>4, PublishWorker
<1>3. CASE Error
  <2>1. PICK x \in Seq(Calls) : calls' = x \o Tail(calls) /\ NoWork(x)
    BY <1>3, ErrorFacts
  <2>2. calls # <<>> /\ Head(calls).op = "error" /\ UNCHANGED workerVars
    BY <1>3 DEF Error, Top
  <2> QED
    BY <1>b, <2>1, <2>2
<1>4. CASE Closed \/ Listen
  <2>1. calls # <<>> /\ Head(calls).op # "work" /\ calls' = Tail(calls) /\ UNCHANGED workerVars
    BY <1>4 DEF Closed, Listen, Top
  <2>2. <<>> \in Seq(Calls) /\ Tail(calls) = <<>> \o Tail(calls) /\ NoWork(<<>>)
    BY <1>t, <2>1, DropTop
  <2> QED
    BY <1>b, <2>1, <2>2
<1>5. CASE Start
  <2> DEFINE r == Head(list)
  <2>1. calls # <<>> /\ Head(calls).op = "work" /\ r \in Requests /\ working' = working
    BY <1>5, StartFacts
  <2>2. PICK e \in Seq(Calls) : /\ calls' = e \o (<<Call("listen", r)>> \o calls)
                                /\ \A i \in DOMAIN e : e[i].op = "error"
    BY <1>5, StartFacts
  <2> HIDE DEF r
  <2>3. NoWork(e)
    BY <2>2 DEF NoWork, WorkOps
  <2>4. Ordered(calls') /\ HasWork(calls')
    BY <1>t, <2>1, <2>2, <2>3, PutListenWork DEF WorkerInv
  <2>5. working
    <3>1. 1 \in DOMAIN calls /\ calls[1].op = "work"
      BY <1>t, <2>1, TailFacts
    <3> QED
      BY <3>1 DEF WorkerInv, NoWork, WorkOps
  <2> QED
    BY <2>1, <2>4, <2>5 DEF WorkerInv
<1>6. CASE NextUpdate
  <2>1. calls # <<>> /\ Head(calls).op = "work" /\ UNCHANGED <<working, calls>>
    BY <1>6 DEF NextUpdate, Top
  <2>2. working
    <3>1. 1 \in DOMAIN calls /\ calls[1].op = "work"
      BY <1>t, <2>1, TailFacts
    <3> QED
      BY <3>1 DEF WorkerInv, NoWork, WorkOps
  <2> QED
    BY <2>1, <2>2 DEF WorkerInv
<1>7. CASE Rest
  <2>1. /\ calls # <<>> /\ Head(calls).op = "work" /\ calls' = Tail(calls)
        /\ working' = FALSE /\ list' = <<>> /\ snapshots' = <<>>
    BY <1>7 DEF Rest, Top
  <2>2. <<>> \in Seq(Calls) /\ Tail(calls) = <<>> \o Tail(calls) /\ NoWork(<<>>)
    BY <1>t, <2>1, DropTop
  <2>3. Ordered(Tail(calls)) /\ NoWork(Tail(calls))
    BY <1>t, <2>1, <2>2, ReplaceTop DEF WorkerInv
  <2> QED
    BY <2>1, <2>3 DEF WorkerInv
<1>8. CASE Browser
  <2>1. calls = <<>> /\ calls' \in Seq(Calls) /\ NoWork(calls') /\ UNCHANGED workerVars
    BY <1>8, BrowserFacts
  <2>2. ~working
    BY <2>1 DEF WorkerInv, HasWork
  <2>3. Ordered(calls')
    BY <2>1 DEF Ordered, NoWork
  <2> QED
    BY <2>1, <2>2, <2>3 DEF WorkerInv, workerVars
<1>9. CASE UNCHANGED vars
  BY <1>9 DEF vars, workerVars, WorkerInv
<1> QED
  BY <1>1, <1>2, <1>3, <1>4, <1>5, <1>6, <1>7, <1>8, <1>9 DEF Next, Run

-----------------------------------------------------------------------------
(* Updates.                                                                *)

(* No update of the queue is lost: a worker at rest has nothing to start,  *)
(* and the last update that a busy one has, in hand or waiting, is that of *)
(* the queue as it is.                                                     *)
UpdateInv ==
    /\ ~working => \/ pending = <<>>
                   \/ /\ ToSet(pending) \subseteq DataRequests
                      /\ Cardinality(inProgress) >= Limit
    /\ working /\ pending # <<>> =>
          IF snapshots = <<>> THEN list = ToFetch(pending, Cardinality(inProgress))
          ELSE Last(snapshots) = Cardinality(inProgress)

(* After Publish the last update is that of the queue.                     *)
LEMMA PublishUpdate ==
    ASSUME TypeOK, WorkerInv, NEW rest,
           pending' \in Seq(Requests), inProgress' \in SUBSET Requests,
           Publish(pending', inProgress', rest)
    PROVE  UpdateInv'
<1>1. CASE pending' = <<>>
  BY <1>1 DEF UpdateInv
<1>2. CASE pending' # <<>> /\ working
  <2>1. snapshots' = Append(snapshots, Cardinality(inProgress')) /\ working'
    BY <1>2 DEF Publish
  <2>2. snapshots \in Seq(0..Cardinality(Requests))
    BY DEF TypeOK
  <2>3. Cardinality(inProgress') \in 0..Cardinality(Requests)
    BY CardinalityFacts
  <2>4. snapshots' # <<>> /\ Last(snapshots') = Cardinality(inProgress')
    <3> DEFINE n == Cardinality(inProgress')
               N == 0..Cardinality(Requests)
    <3>1. snapshots \in Seq(N) /\ n \in N /\ snapshots' = Append(snapshots, n)
      BY <2>1, <2>2, <2>3
    <3> HIDE DEF n, N
    <3>2. Append(snapshots, n) # <<>> /\ Last(Append(snapshots, n)) = n
      BY <3>1, AppendFacts
    <3> QED
      BY <3>1, <3>2 DEF n
  <2> QED
    BY <2>1, <2>4 DEF UpdateInv
<1>3. CASE pending' # <<>> /\ ~working
  <2>1. /\ working' /\ list' = ToFetch(pending', Cardinality(inProgress'))
        /\ snapshots' = <<>>
    BY <1>3 DEF Publish, WorkerInv
  <2> QED
    BY <2>1 DEF UpdateInv
<1> QED
  BY <1>1, <1>2, <1>3

(* Who finds the worker on top finds it working.                           *)
LEMMA AtWork ==
    ASSUME TypeOK, WorkerInv, calls # <<>>, Head(calls).op = "work"
    PROVE  working
<1>1. 1 \in DOMAIN calls /\ calls[1].op = "work"
  BY TailFacts DEF TypeOK
<1> QED
  BY <1>1 DEF WorkerInv, NoWork, WorkOps

LEMMA InitUpdate == Init => UpdateInv
  BY DEF Init, UpdateInv

LEMMA NextUpdates == TypeOK /\ TypeOK' /\ WorkerInv /\ UpdateInv /\ [Next]_vars => UpdateInv'
<1> SUFFICES ASSUME TypeOK, TypeOK', WorkerInv, UpdateInv, [Next]_vars PROVE UpdateInv'
  OBVIOUS
<1>p. pending' \in Seq(Requests) /\ inProgress' \in SUBSET Requests
  BY DEF TypeOK
<1>a. ASSUME UNCHANGED <<queueVars, workerVars>> PROVE UpdateInv'
  BY <1>a DEF UpdateInv, queueVars, workerVars
<1>1. CASE Add
  <2>1. Publish(pending', inProgress', Tail(calls))
    BY <1>1 DEF Add
  <2> QED
    BY <1>p, <2>1, PublishUpdate
<1>2. CASE Done
  <2> DEFINE rest == Ended(Head(calls).id) \o Tail(calls)
  <2>1. Publish(pending', inProgress', rest)
    BY <1>2, DoneFacts
  <2> HIDE DEF rest
  <2> QED
    BY <1>p, <2>1, PublishUpdate
<1>3. CASE Error \/ Closed \/ Listen
  BY <1>3, <1>a DEF Error, Closed, Listen
<1>4. CASE Start
  <2>1. /\ snapshots' = IF pending' = <<>> THEN snapshots
                        ELSE Append(snapshots, Cardinality(inProgress'))
        /\ calls # <<>> /\ Head(calls).op = "work" /\ working' = working
    BY <1>4, StartFacts
  <2>2. working'
    BY <2>1, AtWork
  <2>3. CASE pending' = <<>>
    BY <2>2, <2>3 DEF UpdateInv
  <2>4. CASE pending' # <<>>
    <3>1. Cardinality(inProgress') \in 0..Cardinality(Requests)
      BY <1>p, CardinalityFacts
    <3>2. snapshots \in Seq(0..Cardinality(Requests))
      BY DEF TypeOK
    <3>3. snapshots' # <<>> /\ Last(snapshots') = Cardinality(inProgress')
      BY <2>1, <2>4, <3>1, <3>2, AppendFacts
    <3> QED
      BY <2>2, <3>3 DEF UpdateInv
  <2> QED
    BY <2>3, <2>4
<1>5. CASE NextUpdate
  <2>1. /\ calls # <<>> /\ Head(calls).op = "work" /\ snapshots # <<>>
        /\ snapshots' = Tail(snapshots) /\ list' = ToFetch(pending, Head(snapshots))
        /\ UNCHANGED <<queueVars, working>>
    BY <1>5 DEF NextUpdate, Top
  <2>2. working
    BY <2>1, AtWork
  <2>3. pending # <<>> => Last(snapshots) = Cardinality(inProgress)
    BY <2>1, <2>2 DEF UpdateInv
  <2>4. Len(snapshots) \in Nat \ {0}
    BY <2>1 DEF TypeOK
  <2>5. CASE Len(snapshots) = 1
    <3>1. Tail(snapshots) = <<>> /\ Head(snapshots) = Last(snapshots)
      <4> DEFINE N == 0..Cardinality(Requests)
                 t == Tail(snapshots)
      <4>1. snapshots \in Seq(N)
        BY DEF TypeOK
      <4> HIDE DEF N
      <4>2. t \in Seq(N) /\ Head(snapshots) = snapshots[1] /\ Len(t) = Len(snapshots) - 1
        BY <2>1, <4>1, TailFacts
      <4> HIDE DEF t
      <4>3. t = <<>>
        BY <2>5, <4>2
      <4> QED
        BY <2>5, <4>2, <4>3 DEF Last, t
    <3> QED
      BY <2>1, <2>2, <2>3, <3>1 DEF UpdateInv, queueVars
  <2>6. CASE Len(snapshots) > 1
    <3>1. Tail(snapshots) # <<>> /\ Last(Tail(snapshots)) = Last(snapshots)
      <4> DEFINE t == Tail(snapshots)
      <4>1. /\ Len(t) = Len(snapshots) - 1
            /\ \A i \in DOMAIN t : t[i] = snapshots[i + 1]
            /\ t \in Seq(0..Cardinality(Requests))
        BY <2>1, TailFacts DEF TypeOK
      <4> HIDE DEF t
      <4>2. DOMAIN t = 1..Len(t) /\ Len(t) \in Nat /\ Len(t) # 0
        BY <2>4, <2>6, <4>1, SeqFacts
      <4>3. t[Len(t)] = snapshots[Len(t) + 1] /\ Len(t) + 1 = Len(snapshots)
        BY <2>4, <4>1, <4>2
      <4>4. t # <<>>
        BY <4>2
      <4> QED
        BY <4>3, <4>4 DEF t, Last
    <3> QED
      BY <2>1, <2>2, <2>3, <3>1 DEF UpdateInv, queueVars
  <2>7. Len(snapshots) = 1 \/ Len(snapshots) > 1
    <3> DEFINE n == Len(snapshots)
    <3>1. n \in Nat /\ n # 0
      BY <2>4
    <3> HIDE DEF n
    <3>2. n = 1 \/ n > 1
      BY <3>1
    <3> QED
      BY <3>2 DEF n
  <2> QED
    BY <2>5, <2>6, <2>7
<1>6. CASE Rest
  <2>1. /\ calls # <<>> /\ Head(calls).op = "work" /\ list = <<>> /\ snapshots = <<>>
        /\ working' = FALSE /\ UNCHANGED queueVars
    BY <1>6 DEF Rest, Top
  <2>2. working
    BY <2>1, AtWork
  <2>3. pending # <<>> => ToFetch(pending, Cardinality(inProgress)) = <<>>
    BY <2>1, <2>2 DEF UpdateInv
  <2>4. pending \in Seq(Requests) /\ Cardinality(inProgress) \in Nat
    BY CardinalityFacts DEF TypeOK
  <2>5. pending # <<>> => ToSet(pending) \subseteq DataRequests /\ Cardinality(inProgress) >= Limit
    BY <2>3, <2>4, ToFetchFacts
  <2> QED
    BY <2>1, <2>5 DEF UpdateInv, queueVars
<1>7. CASE Browser
  <2>1. UNCHANGED <<queueVars, workerVars>>
    BY <1>7, BrowserFacts
  <2> QED
    BY <1>a, <2>1
<1>8. CASE UNCHANGED vars
  BY <1>8, <1>a DEF vars
<1> QED
  BY <1>1, <1>2, <1>3, <1>4, <1>5, <1>6, <1>7, <1>8 DEF Next, Run

(* When the stack is empty, an api request never waits, and a data request *)
(* only while Limit requests run: no update that the queue publishes while *)
(* the worker is busy is lost.                                             *)
THEOREM NothingWaitsInVain == Spec => []WorkConserving
<1>1. Init => TypeOK /\ WorkerInv /\ UpdateInv
  BY InitTypes, InitWorker, InitUpdate
<1>2. TypeOK /\ WorkerInv /\ UpdateInv /\ [Next]_vars => (TypeOK /\ WorkerInv /\ UpdateInv)'
  BY NextTypes, NextWorker, NextUpdates
<1>3. WorkerInv /\ UpdateInv => WorkConserving
  BY DEF WorkerInv, UpdateInv, WorkConserving, Idle, HasWork
<1> QED
  BY <1>1, <1>2, <1>3, PTL DEF Spec

-----------------------------------------------------------------------------
(* Superseded responses.                                                   *)

Ends(q) == {Call("error", q), Call("done", q)}

(* A response that has the requestId of a request about to be listened to  *)
(* is cancelled first: the call that ends it is above the listen.          *)
Superseded(s, C) ==
    \A i \in DOMAIN s : s[i].op = "listen" =>
        \A q \in C : Same(q, s[i].id) =>
            q = s[i].id \/ \E j \in DOMAIN s : j < i /\ s[j] \in Ends(q)

SupersededInv == OnePerRequestId /\ Superseded(calls, ToSet(connected))

(* Nobody is about to be listened to.                                      *)
LEMMA NoListen ==
    ASSUME NEW s, NEW C, \A i \in DOMAIN s : s[i].op # "listen"
    PROVE  Superseded(s, C)
  BY DEF Superseded

(* Other calls where the top was, and D of the responses left.             *)
LEMMA ReplaceSuperseded ==
    ASSUME NEW s \in Seq(Calls), s # <<>>, NEW x \in Seq(Calls), NoWork(x),
           NEW C, NEW D \in SUBSET C, Superseded(s, C),
           \A q \in D : requestIdOf[q] # None /\ Head(s) \in Ends(q) =>
               \E j \in DOMAIN x : x[j] \in Ends(q)
    PROVE  Superseded(x \o Tail(s), D)
<1> DEFINE u == x \o Tail(s)
           m == Len(x)
<1>1. /\ \A i \in DOMAIN u :
            \/ i \in DOMAIN x /\ u[i] = x[i]
            \/ \E j \in DOMAIN s : j > 1 /\ i = m + (j - 1) /\ u[i] = s[j]
      /\ \A i \in DOMAIN x : i \in DOMAIN u /\ u[i] = x[i] /\ i <= m
      /\ \A j \in DOMAIN s :
            j > 1 => m + (j - 1) \in DOMAIN u /\ u[m + (j - 1)] = s[j]
      /\ m \in Nat /\ DOMAIN s \subseteq Nat /\ DOMAIN x \subseteq Nat /\ 1 \in DOMAIN s /\ Head(s) = s[1]
  BY StackFacts
<1>2. DOMAIN s = 1..Len(s) /\ Len(s) \in Nat
  BY SeqFacts
<1> HIDE DEF u, m
<1> SUFFICES ASSUME NEW i \in DOMAIN u, u[i].op = "listen",
                    NEW q \in D, Same(q, u[i].id), q # u[i].id
             PROVE  \E j \in DOMAIN u : j < i /\ u[j] \in Ends(q)
  BY DEF Superseded, u
<1>3. PICK k \in DOMAIN s : k > 1 /\ i = m + (k - 1) /\ u[i] = s[k]
  BY <1>1 DEF NoWork, WorkOps
<1>4. PICK j \in DOMAIN s : j < k /\ s[j] \in Ends(q)
  BY <1>3 DEF Superseded
<1>5. CASE j = 1
  <2>1. requestIdOf[q] # None
    BY DEF Same
  <2>2. PICK l \in DOMAIN x : x[l] \in Ends(q)
    BY <1>1, <1>4, <1>5, <2>1
  <2>3. l \in DOMAIN u /\ u[l] = x[l] /\ l < i
    BY <1>1, <1>3
  <2> QED
    BY <2>2, <2>3
<1>6. CASE j # 1
  <2>1. j > 1
    BY <1>2, <1>6
  <2>2. m + (j - 1) \in DOMAIN u /\ u[m + (j - 1)] = s[j]
    BY <1>1, <2>1
  <2>3. m + (j - 1) < i
    BY <1>1, <1>3, <1>4
  <2> QED
    BY <1>4, <2>2, <2>3
<1> QED
  BY <1>5, <1>6

(* The worker that Publish may put on top listens to nobody yet.           *)
LEMMA PublishSuperseded ==
    ASSUME WorkerInv, NEW C, NEW entries, NEW started, NEW rest \in Seq(Calls),
           NoWork(calls) => NoWork(rest), Superseded(rest, C),
           Publish(entries, started, rest)
    PROVE  Superseded(calls', C)
<1>1. CASE calls' = rest
  BY <1>1
<1>2. CASE ~working /\ calls' = <<Call("work", None)>> \o rest
  <2>1. NoWork(rest)
    BY <1>2 DEF WorkerInv
  <2> DEFINE c == Call("work", None)
             w == <<c>>
             u == w \o rest
  <2>2. c \in Calls /\ c.op = "work"
    BY CallFacts
  <2>3. calls' = u
    BY <1>2
  <2> HIDE DEF c
  <2>4. w \in Seq(Calls) /\ DOMAIN w = {1} /\ w[1].op = "work"
    BY <2>2
  <2> HIDE DEF w
  <2>5. \A i \in DOMAIN u : \/ i \in DOMAIN w /\ u[i] = w[i]
                            \/ \E j \in DOMAIN rest : i = Len(w) + j /\ u[i] = rest[j]
    BY <2>4, ConcatIndex
  <2> HIDE DEF u
  <2>6. \A i \in DOMAIN u : u[i].op # "listen"
    BY <2>1, <2>4, <2>5 DEF NoWork, WorkOps
  <2> QED
    BY <2>3, <2>6, NoListen
<1> QED
  BY <1>1, <1>2 DEF Publish

LEMMA InitSuperseded == Init => SupersededInv
<1> SUFFICES ASSUME Init PROVE SupersededInv
  OBVIOUS
<1>1. connected = <<>> /\ calls = <<>>
  BY DEF Init
<1>2. ToSet(connected) = {} /\ DOMAIN calls = {}
  BY <1>1 DEF ToSet
<1> QED
  BY <1>2 DEF SupersededInv, OnePerRequestId, Superseded

LEMMA NextSuperseded ==
    TypeOK /\ TypeOK' /\ WorkerInv /\ WorkerInv' /\ SupersededInv /\ [Next]_vars => SupersededInv'
<1> SUFFICES ASSUME TypeOK, TypeOK', WorkerInv, WorkerInv', SupersededInv, [Next]_vars
             PROVE  SupersededInv'
  OBVIOUS
<1> DEFINE C == ToSet(connected)
           D == ToSet(connected')
<1>t. calls \in Seq(Calls) /\ connected \in Seq(Requests) /\ C \subseteq Requests /\ C \subseteq subscribed
  BY SeqFacts DEF TypeOK
<1>o. D \subseteq C => OnePerRequestId'
  BY DEF SupersededInv, OnePerRequestId
<1>q. D \subseteq C /\ Superseded(calls', D) => SupersededInv'
  BY <1>o DEF SupersededInv
<1>w. ASSUME calls # <<>>, Head(calls).op \in WorkOps
      PROVE  \A i \in DOMAIN calls : i # 1 => calls[i].op # "listen"
  <2>1. 1 \in DOMAIN calls /\ Head(calls) = calls[1] /\ DOMAIN calls = 1..Len(calls) /\ Len(calls) \in Nat
    BY <1>t, <1>w, TailFacts, SeqFacts
  <2> SUFFICES ASSUME NEW i \in DOMAIN calls, i # 1, calls[i].op = "listen" PROVE FALSE
    OBVIOUS
  <2>2. 1 < i
    BY <2>1
  <2> QED
    BY <1>w, <2>1, <2>2 DEF WorkerInv, Ordered, WorkOps
<1>x. ASSUME NEW x \in Seq(Calls), calls # <<>>, NoWork(x), D \subseteq C,
             \A q \in D : requestIdOf[q] # None /\ Head(calls) \in Ends(q) =>
                \E j \in DOMAIN x : x[j] \in Ends(q)
      PROVE  Superseded(x \o Tail(calls), D)
  <2>1. Superseded(calls, C)
    BY DEF SupersededInv
  <2> HIDE DEF C, D
  <2> QED
    BY <1>t, <1>x, <2>1, ReplaceSuperseded
<1> HIDE DEF C, D
<1>1. CASE Add
  <2>1. /\ calls # <<>> /\ Head(calls).op = "add"
        /\ Publish(pending', inProgress, Tail(calls)) /\ connected' = connected
    BY <1>1 DEF Add, Top
  <2>2. <<>> \in Seq(Calls) /\ Tail(calls) = <<>> \o Tail(calls) /\ NoWork(<<>>)
    BY <1>t, <2>1, DropTop
  <2>3. D = C /\ \A q \in D : Head(calls) \notin Ends(q)
    BY <2>1 DEF C, D, Ends, Call
  <2>4. Superseded(Tail(calls), D)
    BY <1>x, <2>1, <2>2, <2>3
  <2>5. Tail(calls) \in Seq(Calls)
    BY <2>1, TopFacts
  <2>6. NoWork(calls) => NoWork(Tail(calls))
    BY <1>t, <2>1, <2>2, ReplaceTop DEF WorkerInv
  <2>7. Superseded(calls', D)
    BY <2>1, <2>4, <2>5, <2>6, PublishSuperseded
  <2> QED
    BY <1>q, <2>3, <2>7
<1>2. CASE Done
  <2> DEFINE r == Head(calls).id
             x == Ended(r)
  <2>1. /\ calls # <<>> /\ Head(calls).op = "done" /\ r \in Requests
        /\ connected' = Without(connected, r)
        /\ x \o Tail(calls) \in Seq(Calls)
        /\ Publish(pending', inProgress', x \o Tail(calls))
    BY <1>2, DoneFacts
  <2>0. \A q \in Requests : Head(calls) \in Ends(q) => q = r
    BY <2>1 DEF Ends, Call
  <2> HIDE DEF r
  <2>2. x \in Seq(Calls) /\ \A i \in DOMAIN x : x[i].op = "done"
    BY <2>1, EndedFacts DEF Call
  <2> HIDE DEF x
  <2>3. NoWork(x)
    BY <2>2 DEF NoWork, WorkOps
  <2>4. D = C \ {r}
    BY <1>t, <2>1, WithoutFacts DEF C, D
  <2>5. \A q \in D : Head(calls) \notin Ends(q)
    BY <1>t, <2>0, <2>4
  <2>6. Superseded(x \o Tail(calls), D)
    BY <1>x, <2>1, <2>2, <2>3, <2>4, <2>5
  <2>7. NoWork(calls) => NoWork(x \o Tail(calls))
    BY <1>t, <2>1, <2>2, <2>3, ReplaceTop DEF WorkerInv
  <2>8. Superseded(calls', D)
    BY <2>1, <2>6, <2>7, PublishSuperseded
  <2> QED
    BY <1>q, <2>4, <2>8
<1>3. CASE Error
  <2> DEFINE r == Head(calls).id
  <2>1. PICK x \in Seq(Calls) : /\ calls' = x \o Tail(calls) /\ NoWork(x)
                                /\ \E i \in DOMAIN x : x[i] = Call("done", r)
    BY <1>3, ErrorFacts
  <2>2. calls # <<>> /\ Head(calls).op = "error" /\ connected' = connected
    BY <1>3 DEF Error, Top
  <2>3. \A q \in D : Head(calls) \in Ends(q) => q = r
    BY <2>2 DEF Ends, Call
  <2>4. \A q \in D : Head(calls) \in Ends(q) => \E i \in DOMAIN x : x[i] \in Ends(q)
    BY <2>1, <2>3 DEF Ends
  <2>5. D = C
    BY <2>2 DEF C, D
  <2>6. Superseded(calls', D)
    BY <1>x, <2>1, <2>2, <2>4, <2>5
  <2> QED
    BY <1>q, <2>5, <2>6
<1>4. CASE Closed
  <2>1. /\ calls # <<>> /\ Head(calls).op \in {"done", "error"} /\ calls' = Tail(calls)
        /\ Head(calls).id \notin subscribed /\ connected' = connected
    BY <1>4 DEF Closed
  <2>2. <<>> \in Seq(Calls) /\ Tail(calls) = <<>> \o Tail(calls) /\ NoWork(<<>>)
    BY <1>t, <2>1, DropTop
  <2>3. D = C
    BY <2>1 DEF C, D
  <2>4. \A q \in D : Head(calls) \notin Ends(q)
    <3>1. \A q : Head(calls) \in Ends(q) => q = Head(calls).id
      BY DEF Ends, Call
    <3> QED
      BY <1>t, <2>1, <2>3, <3>1
  <2>5. Superseded(calls', D)
    BY <1>x, <2>1, <2>2, <2>3, <2>4
  <2> QED
    BY <1>q, <2>3, <2>5
<1>5. CASE Listen
  <2> DEFINE r == Head(calls).id
  <2>1. /\ calls # <<>> /\ Head(calls).op = "listen" /\ calls' = Tail(calls)
        /\ connected' = IF r \in subscribed THEN Append(connected, r) ELSE connected
    BY <1>5 DEF Listen, Top
  <2>2. r \in Requests
    BY <2>1, TopFacts
  <2>3. 1 \in DOMAIN calls /\ calls[1] = Head(calls) /\ DOMAIN calls \subseteq Nat
        /\ \A i \in DOMAIN calls : ~(i < 1)
    <3>1. DOMAIN calls = 1..Len(calls) /\ Len(calls) \in Nat
      BY <1>t, SeqFacts
    <3> QED
      BY <1>t, <2>1, <3>1, TailFacts
  <2>4. \A q \in C : Same(q, r) => q = r
    BY <2>1, <2>3 DEF SupersededInv, Superseded, C
  <2>5. D \subseteq C \cup {r}
    BY <1>t, <2>1, <2>2, AppendFacts DEF C, D
  <2>6. OnePerRequestId'
    <3> SUFFICES ASSUME NEW p \in D, NEW q \in D, requestIdOf[p] = requestIdOf[q], requestIdOf[q] # None
                 PROVE  p = q
      BY DEF OnePerRequestId, D
    <3>1. CASE p \in C /\ q \in C
      BY <3>1 DEF SupersededInv, OnePerRequestId, C
    <3>2. CASE p = r \/ q = r
      BY <2>4, <2>5, <3>2 DEF Same
    <3> QED
      BY <2>5, <3>1, <3>2
  <2>7. \A i \in DOMAIN calls' : calls'[i].op # "listen"
    <3>1. \A i \in DOMAIN Tail(calls) : /\ i + 1 \in DOMAIN calls /\ Tail(calls)[i] = calls[i + 1]
      BY <1>t, <2>1, TailFacts
    <3>2. \A i \in DOMAIN Tail(calls) : i \in Nat /\ i # 0
      <4>1. Tail(calls) \in Seq(Calls)
        BY <1>t, <2>1, TailFacts
      <4> DEFINE u == Tail(calls)
      <4> HIDE DEF u
      <4>2. DOMAIN u = 1..Len(u) /\ Len(u) \in Nat
        BY <4>1, SeqFacts DEF u
      <4> QED
        BY <4>2 DEF u
    <3>3. \A i \in DOMAIN Tail(calls) : i + 1 # 1
      BY <3>2
    <3> QED
      BY <1>w, <2>1, <3>1, <3>3 DEF WorkOps
  <2>8. Superseded(calls', D)
    BY <2>7, NoListen
  <2> QED
    BY <2>6, <2>8 DEF SupersededInv, D
<1>6. CASE Start
  <2> DEFINE r == Head(list)
  <2>1. calls # <<>> /\ Head(calls).op = "work" /\ r \in Requests /\ connected' = connected
    BY <1>6, StartFacts
  <2>2. PICK e \in Seq(Calls) :
           /\ calls' = e \o (<<Call("listen", r)>> \o calls)
           /\ \A i \in DOMAIN e : e[i].op = "error"
           /\ \A q \in ToSet(connected) : Same(q, r) => \E i \in DOMAIN e : e[i] = Call("error", q)
    BY <1>6, StartFacts
  <2> HIDE DEF r
  <2> DEFINE u == e \o (<<Call("listen", r)>> \o calls)
             m == Len(e) + 1
             c == Call("listen", r)
  <2>3. /\ DOMAIN e = 1..Len(e) /\ Len(e) \in Nat /\ m \in Nat
        /\ \A i \in DOMAIN u : \/ i \in DOMAIN e /\ u[i] = e[i]
                               \/ i = m /\ u[i] = c
                               \/ \E j \in DOMAIN calls : i = m + j /\ u[i] = calls[j]
        /\ \A i \in DOMAIN e : i \in DOMAIN u /\ u[i] = e[i]
    BY <1>t, <2>1, PutListen
  <2>4. c.id = r /\ c.op = "listen" /\ calls' = u /\ m = Len(e) + 1
    BY <2>1, <2>2, CallFacts
  <2>5. \A i \in DOMAIN calls : calls[i].op # "listen"
    <3>1. 1 \in DOMAIN calls /\ calls[1].op = "work"
      BY <1>t, <2>1, TailFacts
    <3> QED
      BY <1>w, <2>1, <3>1 DEF WorkOps
  <2> HIDE DEF u, m, c
  <2>6. \A i \in DOMAIN u : u[i].op = "listen" => i = m /\ u[i].id = r
    BY <2>2, <2>3, <2>4, <2>5
  <2>7. \A q \in C : Same(q, r) => \E j \in DOMAIN u : j < m /\ u[j] \in Ends(q)
    <3> SUFFICES ASSUME NEW q \in C, Same(q, r)
                 PROVE  \E j \in DOMAIN u : j < m /\ u[j] \in Ends(q)
      OBVIOUS
    <3>1. PICK i \in DOMAIN e : e[i] = Call("error", q)
      BY <2>2 DEF C
    <3>2. i \in DOMAIN u /\ u[i] = e[i] /\ i < m
      BY <2>3, <2>4
    <3> QED
      BY <3>1, <3>2 DEF Ends
  <2>8. D = C
    BY <2>1 DEF C, D
  <2>9. Superseded(calls', D)
    BY <2>4, <2>6, <2>7, <2>8 DEF Superseded
  <2> QED
    BY <1>q, <2>8, <2>9
<1>7. CASE NextUpdate \/ UNCHANGED vars
  <2>1. connected' = connected /\ calls' = calls
    BY <1>7 DEF NextUpdate, vars
  <2> QED
    BY <2>1 DEF SupersededInv, OnePerRequestId
<1>8. CASE Rest \/ Browser
  <2>1. connected' = connected /\ NoWork(calls')
    <3>1. CASE Rest
      BY <3>1 DEF Rest, WorkerInv
    <3>2. CASE Browser
      BY <3>2, BrowserFacts
    <3> QED
      BY <1>8, <3>1, <3>2
  <2>2. D = C
    BY <2>1 DEF C, D
  <2>3. Superseded(calls', D)
    BY <2>1, NoListen DEF NoWork, WorkOps
  <2> QED
    BY <1>q, <2>2, <2>3
<1> QED
  BY <1>1, <1>2, <1>3, <1>4, <1>5, <1>6, <1>7, <1>8 DEF Next, Run

(* Of the requests with one requestId, one at most has its response        *)
(* pending, whatever is cancelled, unsubscribed from or made anew by the   *)
(* calls that a starting request causes before it is listened to.          *)
THEOREM OneResponse == Spec => []OnePerRequestId
<1>1. Init => TypeOK /\ WorkerInv /\ SupersededInv
  BY InitTypes, InitWorker, InitSuperseded
<1>2. TypeOK /\ WorkerInv /\ SupersededInv /\ [Next]_vars => (TypeOK /\ WorkerInv /\ SupersededInv)'
  BY NextTypes, NextWorker, NextSuperseded
<1>3. SupersededInv => OnePerRequestId
  BY DEF SupersededInv
<1> QED
  BY <1>1, <1>2, <1>3, PTL DEF Spec

-----------------------------------------------------------------------------
(* Slots.                                                                  *)

(* Each request has its own subscriber. *)
OwnSubscriber == \A q, r \in Requests : consumerOf[q] = consumerOf[r] => q = r

(* Who is about to be listened to is not in S. *)
Listens(s, S) == \A i \in DOMAIN s : s[i].op = "listen" => s[i].id \notin S

(* While the worker hands out the list L, no request of L ends, and no     *)
(* auth check fails.                                                       *)
Spared(s, L) ==
    \A i, j \in DOMAIN s :
        i < j /\ s[j].op = "work" =>
            /\ s[i].op \in {"done", "error"} => s[i].id \notin L
            /\ s[i].op = "error" => s[i].id \notin AuthRequests

(* The requests of the stack are made once, an auth check from an empty    *)
(* stack.                                                                  *)
NewAdds(s, F) ==
    /\ \A i \in DOMAIN s : s[i].op = "add" => s[i].id \in F
    /\ \A i, j \in DOMAIN s : s[i].op = "add" /\ s[j].op = "add" /\ s[i].id = s[j].id => i = j
    /\ \A i \in DOMAIN s :
          s[i].op = "add" /\ s[i].id \in AuthRequests => s = <<Call("add", s[i].id)>>

PlainAdds(s, F) ==
    /\ \A i \in DOMAIN s : s[i].op = "add" => s[i].id \in F \ AuthRequests
    /\ \A i, j \in DOMAIN s : s[i].op = "add" /\ s[j].op = "add" /\ s[i].id = s[j].id => i = j

LEMMA PlainIsNew == \A s, F : PlainAdds(s, F) => NewAdds(s, F)
  BY DEF PlainAdds, NewAdds

LEMMA PlainConcat ==
    ASSUME NEW a \in Seq(Calls), NEW b \in Seq(Calls), NEW F, PlainAdds(a, F), PlainAdds(b, F),
           \A i \in DOMAIN a, j \in DOMAIN b : a[i].op = "add" /\ b[j].op = "add" => a[i].id # b[j].id
    PROVE  PlainAdds(a \o b, F)
<1> DEFINE c == a \o b
<1>1. \A i \in DOMAIN c : \/ i \in DOMAIN a /\ c[i] = a[i]
                          \/ \E j \in DOMAIN b : i = Len(a) + j /\ c[i] = b[j]
  BY ConcatIndex
<1> HIDE DEF c
<1>2. \A i \in DOMAIN c : c[i].op = "add" => c[i].id \in F \ AuthRequests
  BY <1>1 DEF PlainAdds
<1>3. ASSUME NEW i \in DOMAIN c, NEW j \in DOMAIN c,
             c[i].op = "add", c[j].op = "add", c[i].id = c[j].id
      PROVE  i = j
  <2>1. CASE i \in DOMAIN a /\ j \in DOMAIN a /\ c[i] = a[i] /\ c[j] = a[j]
    BY <1>3, <2>1 DEF PlainAdds
  <2>2. ASSUME NEW k \in DOMAIN b, NEW l \in DOMAIN b,
               i = Len(a) + k, j = Len(a) + l, c[i] = b[k], c[j] = b[l]
        PROVE  i = j
    <3>1. k = l
      BY <1>3, <2>2 DEF PlainAdds
    <3> QED
      BY <2>2, <3>1
  <2> QED
    BY <1>1, <1>3, <2>1, <2>2
<1> QED
  BY <1>2, <1>3 DEF PlainAdds, c

(* What is left of the requests on the stack when the top is done.         *)
LEMMA NewAddsTail ==
    ASSUME NEW s \in Seq(Calls), s # <<>>, NEW F, NewAdds(s, F)
    PROVE  /\ PlainAdds(Tail(s), F)
           /\ Head(s).op = "add" => PlainAdds(Tail(s), F \ {Head(s).id})
           /\ Head(s).op = "add" => Head(s).id \in F
           /\ Head(s).op = "add" /\ Head(s).id \in AuthRequests => Tail(s) = <<>> /\ NoWork(s)
           /\ Head(s).op # "add" => PlainAdds(s, F)
<1> DEFINE t == Tail(s)
<1>1. /\ t \in Seq(Calls) /\ Head(s) \in Calls /\ Head(s) = s[1] /\ 1 \in DOMAIN s
      /\ \A i \in DOMAIN t : i + 1 \in DOMAIN s /\ t[i] = s[i + 1]
  BY TailFacts
<1> HIDE DEF t
<1>2. DOMAIN t = 1..Len(t) /\ Len(t) \in Nat
  BY <1>1, SeqFacts
<1>3. \A i \in DOMAIN t : i + 1 # 1 /\ i \in Nat
  BY <1>2
<1>4. \A c : s = <<c>> => DOMAIN s = {1} /\ s[1] = c /\ t = <<>>
  BY DEF t
<1>5. \A i \in DOMAIN s : s[i].op = "add" /\ s[i].id \in AuthRequests => i = 1
  BY <1>4 DEF NewAdds
<1>6. \A i \in DOMAIN t : t[i].op = "add" =>
         t[i].id \in F \ AuthRequests /\ (Head(s).op = "add" => t[i].id # Head(s).id)
  BY <1>1, <1>3, <1>5 DEF NewAdds
<1>7. \A i, j \in DOMAIN t : t[i].op = "add" /\ t[j].op = "add" /\ t[i].id = t[j].id => i = j
  <2> SUFFICES ASSUME NEW i \in DOMAIN t, NEW j \in DOMAIN t,
                      t[i].op = "add", t[j].op = "add", t[i].id = t[j].id
               PROVE  i = j
    OBVIOUS
  <2>1. i + 1 = j + 1
    BY <1>1 DEF NewAdds
  <2> QED
    BY <1>3, <2>1
<1>8. PlainAdds(t, F) /\ (Head(s).op = "add" => PlainAdds(t, F \ {Head(s).id}))
  BY <1>6, <1>7 DEF PlainAdds
<1>9. Head(s).op = "add" => Head(s).id \in F
  BY <1>1 DEF NewAdds
<1>10. ASSUME Head(s).op = "add", Head(s).id \in AuthRequests
       PROVE  t = <<>> /\ NoWork(s)
  <2>1. s = <<Call("add", Head(s).id)>>
    BY <1>1, <1>10 DEF NewAdds
  <2>2. t = <<>> /\ DOMAIN s = {1}
    BY <1>4, <2>1
  <2> QED
    BY <1>1, <1>10, <2>2 DEF NoWork, WorkOps
<1>11. ASSUME Head(s).op # "add" PROVE PlainAdds(s, F)
  <2>1. \A i \in DOMAIN s : s[i].op = "add" => s[i].id \in F \ AuthRequests
    BY <1>1, <1>5, <1>11 DEF NewAdds
  <2> QED
    BY <2>1 DEF NewAdds, PlainAdds
<1> QED
  BY <1>8, <1>9, <1>10, <1>11 DEF t

(* Other calls where the top was, once more: who is listened to,           *)
LEMMA ReplaceListens ==
    ASSUME NEW s \in Seq(Calls), s # <<>>, NEW x \in Seq(Calls), NoWork(x),
           NEW S, NEW S2, Listens(s, S), \A i \in DOMAIN s : s[i].id \in S2 => s[i].id \in S
    PROVE  Listens(x \o Tail(s), S2)
<1> DEFINE u == x \o Tail(s)
<1>1. /\ \A i \in DOMAIN u :
            \/ i \in DOMAIN x /\ u[i] = x[i]
            \/ \E j \in DOMAIN s : j > 1 /\ i = Len(x) + (j - 1) /\ u[i] = s[j]
  BY StackFacts
<1> HIDE DEF u
<1> QED
  BY <1>1 DEF Listens, NoWork, WorkOps, u

(* and who ends above the worker.                                          *)
LEMMA ReplaceSpared ==
    ASSUME NEW s \in Seq(Calls), s # <<>>, NEW x \in Seq(Calls), NoWork(x),
           NEW L, Spared(s, L),
           \A j \in DOMAIN s : j > 1 /\ s[j].op = "work" =>
               \A i \in DOMAIN x :
                   /\ x[i].op \in {"done", "error"} => x[i].id \notin L
                   /\ x[i].op = "error" => x[i].id \notin AuthRequests
    PROVE  Spared(x \o Tail(s), L)
<1> DEFINE u == x \o Tail(s)
           m == Len(x)
<1>1. /\ \A i \in DOMAIN u :
            \/ i \in DOMAIN x /\ u[i] = x[i]
            \/ \E j \in DOMAIN s : j > 1 /\ i = m + (j - 1) /\ u[i] = s[j]
      /\ m \in Nat /\ DOMAIN s \subseteq Nat
  BY StackFacts
<1> HIDE DEF u, m
<1> SUFFICES ASSUME NEW i \in DOMAIN u, NEW j \in DOMAIN u, i < j, u[j].op = "work"
             PROVE  /\ u[i].op \in {"done", "error"} => u[i].id \notin L
                    /\ u[i].op = "error" => u[i].id \notin AuthRequests
  BY DEF Spared, u
<1>2. PICK l \in DOMAIN s : l > 1 /\ j = m + (l - 1) /\ u[j] = s[l]
  BY <1>1 DEF NoWork, WorkOps
<1>3. CASE i \in DOMAIN x /\ u[i] = x[i]
  BY <1>2, <1>3
<1>4. ASSUME NEW k \in DOMAIN s, k > 1, i = m + (k - 1), u[i] = s[k]
      PROVE  /\ u[i].op \in {"done", "error"} => u[i].id \notin L
             /\ u[i].op = "error" => u[i].id \notin AuthRequests
  <2>1. k < l
    BY <1>1, <1>2, <1>4
  <2> QED
    BY <1>2, <1>4, <2>1 DEF Spared
<1> QED
  BY <1>1, <1>3, <1>4

LEMMA NoWorkCalls ==
    ASSUME NEW s, NoWork(s), NEW S, NEW L
    PROVE  Listens(s, S) /\ Spared(s, L)
  BY DEF NoWork, WorkOps, Listens, Spared

(* With the worker on top nobody is above it. *)
LEMMA WorkOnTop ==
    ASSUME NEW s \in Seq(Calls), s # <<>>, Head(s).op = "work", Ordered(s), NEW L, NEW S
    PROVE  Spared(s, L) /\ Listens(s, S)
<1>1. DOMAIN s = 1..Len(s) /\ Len(s) \in Nat /\ 1 \in DOMAIN s /\ s[1].op = "work"
  BY TailFacts, SeqFacts
<1>2. \A j \in DOMAIN s : s[j].op \in WorkOps => j = 1
  <2> SUFFICES ASSUME NEW j \in DOMAIN s, s[j].op \in WorkOps, j # 1 PROVE FALSE
    OBVIOUS
  <2>1. 1 < j
    BY <1>1
  <2> QED
    BY <1>1, <2>1 DEF Ordered, WorkOps
<1>3. Spared(s, L)
  <2> SUFFICES ASSUME NEW i \in DOMAIN s, NEW j \in DOMAIN s, i < j, s[j].op = "work" PROVE FALSE
    BY DEF Spared
  <2>1. j = 1
    BY <1>2 DEF WorkOps
  <2> QED
    BY <1>1, <2>1
<1>4. Listens(s, S)
  BY <1>1, <1>2 DEF Listens, WorkOps
<1> QED
  BY <1>3, <1>4

(* The worker, put on top of a stack without one. *)
LEMMA PutWorkCalls ==
    ASSUME NEW s \in Seq(Calls), NoWork(s), NEW F, PlainAdds(s, F), NEW L, NEW S
    PROVE  LET u == <<Call("work", None)>> \o s IN
           Spared(u, L) /\ Listens(u, S) /\ NewAdds(u, F)
<1> DEFINE c == Call("work", None)
           w == <<c>>
           u == w \o s
<1>1. c \in Calls /\ c.op = "work"
  BY CallFacts
<1> HIDE DEF c
<1>2. w \in Seq(Calls) /\ DOMAIN w = {1} /\ w[1] = c /\ w # <<>>
  BY <1>1
<1>3. Ordered(u) /\ u \in Seq(Calls)
  BY PutWork DEF c
<1>4. u # <<>> /\ Head(u) = c
  BY <1>1
<1> HIDE DEF w
<1>5. PlainAdds(w, F) /\ \A i \in DOMAIN w : w[i].op # "add"
  BY <1>1, <1>2 DEF PlainAdds
<1>6. PlainAdds(u, F)
  BY <1>2, <1>5, PlainConcat
<1> HIDE DEF u
<1>7. Spared(u, L) /\ Listens(u, S)
  BY <1>1, <1>3, <1>4, WorkOnTop
<1> QED
  BY <1>6, <1>7, PlainIsNew DEF u, w, c

(* The entries of the queue, the worker's list and the responses. *)
EntriesInv ==
    /\ ToSet(pending) \cup inProgress = subscribed
    /\ ToSet(pending) \cap inProgress = {}
    /\ IsInjective(pending)
    /\ ToSet(connected) \subseteq inProgress

ListInv == IsInjective(list) /\ ToSet(list) \subseteq ToSet(pending)

CallsInv ==
    /\ Listens(calls, fresh \cup ToSet(pending))
    /\ Spared(calls, ToSet(list))
    /\ NewAdds(calls, fresh)

(* An auth check that is pending is the next that the worker starts. *)
AuthFirst ==
    \A a \in AuthRequests \cap ToSet(pending) :
        calls = <<Call("work", None)>> /\ list # <<>> /\ Head(list) = a

QueueInv == EntriesInv /\ ListInv /\ CallsInv /\ AuthFirst

(* The list that Publish may make, and the worker it may put on top.       *)
LEMMA PublishQueue ==
    ASSUME TypeOK, WorkerInv, ListInv, NEW rest \in Seq(Calls), NoWork(calls) => NoWork(rest),
           pending' \in Seq(Requests), inProgress' \in SUBSET Requests, IsInjective(pending'),
           Publish(pending', inProgress', rest),
           working => ToSet(list) \subseteq ToSet(pending'),
           Listens(rest, fresh' \cup ToSet(pending')),
           Spared(rest, ToSet(list)), PlainAdds(rest, fresh')
    PROVE  ListInv' /\ CallsInv'
<1>1. ToSet(<<>>) = {}
  BY DEF ToSet
<1>2. CASE calls' = rest /\ list' = list
  <2>1. ToSet(list) \subseteq ToSet(pending')
    BY <1>1 DEF WorkerInv
  <2>2. NewAdds(rest, fresh')
    BY PlainIsNew
  <2> QED
    BY <1>2, <2>1, <2>2 DEF ListInv, CallsInv
<1>3. CASE /\ ~working
           /\ list' = ToFetch(pending', Cardinality(inProgress'))
           /\ calls' = <<Call("work", None)>> \o rest
  <2>1. NoWork(rest)
    BY <1>3 DEF WorkerInv
  <2>2. CallsInv'
    BY <1>3, <2>1, PutWorkCalls DEF CallsInv
  <2>3. Cardinality(inProgress') \in Nat
    BY CardinalityFacts
  <2>4. ListInv'
    BY <1>3, <2>3, ToFetchFacts DEF ListInv
  <2> QED
    BY <2>2, <2>4
<1> QED
  BY <1>2, <1>3 DEF Publish, workerVars

LEMMA AddQueue ==
    ASSUME TypeOK, TypeOK', WorkerInv, UpdateInv, QueueInv, Add
    PROVE  QueueInv'
<1> DEFINE r == Head(calls).id
<1>1. /\ calls # <<>> /\ Head(calls).op = "add"
      /\ fresh' = fresh \ {r} /\ subscribed' = subscribed \cup {r}
      /\ pending' = Append(pending, r)
      /\ Publish(pending', inProgress, Tail(calls))
      /\ UNCHANGED <<inProgress, connected>>
  BY DEF Add, Top
<1>2. r \in Requests /\ Tail(calls) \in Seq(Calls)
  BY <1>1, TopFacts
<1>t. /\ calls \in Seq(Calls) /\ pending \in Seq(Requests) /\ inProgress \subseteq Requests
      /\ pending' \in Seq(Requests) /\ subscribed \subseteq Requests \ fresh
  BY DEF TypeOK
<1>3. /\ PlainAdds(Tail(calls), fresh')
      /\ r \in fresh
      /\ r \in AuthRequests => Tail(calls) = <<>> /\ NoWork(calls)
  BY <1>1, <1>t, NewAddsTail DEF QueueInv, CallsInv
<1> HIDE DEF r
<1>4. r \notin ToSet(pending) /\ r \notin inProgress
  BY <1>3, <1>t DEF QueueInv, EntriesInv
<1>5. pending' # <<>> /\ ToSet(pending') = ToSet(pending) \cup {r} /\ IsInjective(pending')
  BY <1>1, <1>2, <1>4, <1>t, AppendFacts DEF QueueInv, EntriesInv
<1>6. EntriesInv'
  BY <1>1, <1>4, <1>5 DEF QueueInv, EntriesInv
<1>7. <<>> \in Seq(Calls) /\ Tail(calls) = <<>> \o Tail(calls) /\ NoWork(<<>>) /\ DOMAIN <<>> = {}
  BY <1>t, <1>1, DropTop
<1>8. NoWork(calls) => NoWork(Tail(calls))
  BY <1>1, <1>7, <1>t, ReplaceTop DEF WorkerInv
<1>9. Listens(Tail(calls), fresh \cup ToSet(pending))
  BY <1>1, <1>7, <1>t, ReplaceListens DEF QueueInv, CallsInv
<1>10. Listens(Tail(calls), fresh' \cup ToSet(pending'))
  BY <1>1, <1>3, <1>5, <1>9 DEF Listens
<1>11. Spared(Tail(calls), ToSet(list))
  BY <1>1, <1>7, <1>t, ReplaceSpared DEF QueueInv, CallsInv
<1>12. ListInv' /\ CallsInv'
  BY <1>1, <1>2, <1>3, <1>5, <1>8, <1>10, <1>11, <1>t, PublishQueue DEF QueueInv, ListInv
<1>13. AuthFirst'
  <2> SUFFICES ASSUME NEW a \in AuthRequests, a \in ToSet(pending')
               PROVE  (calls = <<Call("work", None)>> /\ list # <<>> /\ Head(list) = a)'
    BY DEF AuthFirst
  <2>1. a \notin ToSet(pending)
    <3>1. Call("work", None).op = "work"
      BY CallFacts
    <3>2. Head(<<Call("work", None)>>) = Call("work", None)
      OBVIOUS
    <3>3. calls # <<Call("work", None)>>
      BY <1>1, <3>1, <3>2
    <3> QED
      BY <3>3 DEF QueueInv, AuthFirst
  <2>2. a = r
    BY <1>5, <2>1
  <2>3. Tail(calls) = <<>> /\ ~working
    BY <1>3, <2>2 DEF WorkerInv, NoWork, HasWork, WorkOps
  <2>4. /\ list' = ToFetch(pending', Cardinality(inProgress))
        /\ calls' = <<Call("work", None)>> \o <<>>
    BY <1>1, <1>5, <2>3 DEF Publish
  <2>5. calls' = <<Call("work", None)>>
    BY <2>4
  <2>6. ToSet(pending) \subseteq DataRequests
    <3>1. ToSet(<<>>) = {}
      BY DEF ToSet
    <3> QED
      BY <2>3, <3>1 DEF UpdateInv
  <2>7. ToSet(pending') \ DataRequests = {a}
    BY <1>5, <2>2, <2>6, BackendSrvAssumption
  <2>8. Cardinality(inProgress) \in Nat
    BY <1>t, CardinalityFacts
  <2>9. list' # <<>> /\ Head(list') = a
    BY <1>t, <2>4, <2>7, <2>8, ToFetchFacts
  <2> QED
    BY <2>5, <2>9
<1> QED
  BY <1>6, <1>12, <1>13 DEF QueueInv

(* While something else than the worker is on top no auth check waits. *)
LEMMA NoAuthWaits ==
    ASSUME AuthFirst, calls # <<>> => Head(calls).op # "work"
    PROVE  \A a \in AuthRequests : a \notin ToSet(pending)
<1>1. Call("work", None).op = "work"
  BY CallFacts
<1>2. Head(<<Call("work", None)>>) = Call("work", None) /\ <<Call("work", None)>> # <<>>
  OBVIOUS
<1>3. calls # <<Call("work", None)>>
  BY <1>1, <1>2
<1> QED
  BY <1>3 DEF AuthFirst

LEMMA DoneQueue ==
    ASSUME TypeOK, TypeOK', WorkerInv, QueueInv, Done
    PROVE  QueueInv'
<1> DEFINE r == Head(calls).id
           x == Ended(r)
<1>1. /\ calls # <<>> /\ Head(calls).op = "done" /\ r \in Requests
      /\ subscribed' = subscribed \ {r}
      /\ pending' = Without(pending, r)
      /\ inProgress' = inProgress \ {r}
      /\ connected' = Without(connected, r)
      /\ x \o Tail(calls) \in Seq(Calls)
      /\ Publish(pending', inProgress', x \o Tail(calls))
      /\ fresh' = fresh
  BY DoneFacts
<1>2. x \in Seq(Calls) /\ \A i \in DOMAIN x : x[i].op = "done" /\ x[i].id \in AuthRequests
  BY <1>1, EndedFacts DEF Call
<1>h. Head(calls).id = r
  OBVIOUS
<1> HIDE DEF r, x
<1>t. /\ calls \in Seq(Calls) /\ pending \in Seq(Requests) /\ connected \in Seq(Requests)
      /\ pending' \in Seq(Requests) /\ inProgress' \in SUBSET Requests
  BY DEF TypeOK
<1>3. ToSet(pending') = ToSet(pending) \ {r} /\ IsInjective(pending')
  BY <1>1, <1>t, WithoutFacts DEF QueueInv, EntriesInv
<1>4. ToSet(connected') = ToSet(connected) \ {r}
  BY <1>1, <1>t, WithoutFacts
<1>5. EntriesInv'
  BY <1>1, <1>3, <1>4 DEF QueueInv, EntriesInv
<1>6. \A a \in AuthRequests : a \notin ToSet(pending)
  BY <1>1, NoAuthWaits DEF QueueInv
<1>7. AuthFirst'
  BY <1>3, <1>6 DEF AuthFirst
<1>8. NoWork(x)
  BY <1>2 DEF NoWork, WorkOps
<1>9. NoWork(calls) => NoWork(x \o Tail(calls))
  BY <1>t, <1>1, <1>2, <1>8, ReplaceTop DEF WorkerInv
<1>10. Listens(x \o Tail(calls), fresh' \cup ToSet(pending'))
  <2> DEFINE S == fresh \cup ToSet(pending)
             S2 == fresh' \cup ToSet(pending')
  <2>1. \A q : q \in S2 => q \in S
    BY <1>1, <1>3
  <2>2. Listens(calls, S)
    BY DEF QueueInv, CallsInv
  <2> HIDE DEF S, S2
  <2>3. Listens(x \o Tail(calls), S2)
    BY <1>t, <1>1, <1>2, <1>8, <2>1, <2>2, ReplaceListens
  <2> QED
    BY <2>3 DEF S2
<1>11. Spared(x \o Tail(calls), ToSet(list))
  <2> DEFINE L == ToSet(list)
  <2>1. \A i \in DOMAIN x : x[i].id \notin L /\ x[i].op # "error"
    BY <1>2, <1>6 DEF QueueInv, ListInv
  <2>2. Spared(calls, L)
    BY DEF QueueInv, CallsInv
  <2> HIDE DEF L
  <2>3. Spared(x \o Tail(calls), L)
    BY <1>t, <1>1, <1>2, <1>8, <2>1, <2>2, ReplaceSpared
  <2> QED
    BY <2>3 DEF L
<1>12. PlainAdds(x \o Tail(calls), fresh')
  <2>1. PlainAdds(Tail(calls), fresh') /\ Tail(calls) \in Seq(Calls)
    BY <1>t, <1>1, NewAddsTail, TailFacts DEF QueueInv, CallsInv
  <2>2. PlainAdds(x, fresh')
    BY <1>2 DEF PlainAdds
  <2> QED
    BY <1>2, <2>1, <2>2, PlainConcat
<1>13. working => ToSet(list) \subseteq ToSet(pending')
  <2> SUFFICES ASSUME working PROVE r \notin ToSet(list)
    BY <1>3 DEF QueueInv, ListInv
  <2>1. PICK j \in DOMAIN calls : calls[j].op = "work"
    BY DEF WorkerInv, HasWork
  <2>2. DOMAIN calls = 1..Len(calls) /\ Len(calls) \in Nat /\ 1 \in DOMAIN calls /\ calls[1] = Head(calls)
    BY <1>t, <1>1, SeqFacts, TailFacts
  <2>3. j # 1
    BY <1>1, <2>1, <2>2
  <2>4. 1 < j
    BY <2>2, <2>3
  <2>5. calls[1].id = r /\ calls[1].op = "done"
    BY <1>1, <1>h, <2>2
  <2> QED
    BY <2>1, <2>2, <2>4, <2>5 DEF QueueInv, CallsInv, Spared
<1>14. ListInv' /\ CallsInv'
  <2>1. ListInv
    BY DEF QueueInv
  <2> DEFINE rest == x \o Tail(calls)
  <2> HIDE DEF rest
  <2>2. /\ rest \in Seq(Calls) /\ (NoWork(calls) => NoWork(rest))
        /\ Publish(pending', inProgress', rest) /\ Listens(rest, fresh' \cup ToSet(pending'))
        /\ Spared(rest, ToSet(list)) /\ PlainAdds(rest, fresh')
    BY <1>1, <1>9, <1>10, <1>11, <1>12 DEF rest
  <2> QED
    BY <1>t, <1>3, <1>13, <2>1, <2>2, PublishQueue
<1> QED
  BY <1>5, <1>7, <1>14 DEF QueueInv

(* The calls of a step that leaves the queue and the worker alone. *)
LEMMA CallsQueue ==
    ASSUME QueueInv, UNCHANGED <<fresh, subscribed, queueVars, list, connected>>,
           CallsInv', \A a \in AuthRequests : a \notin ToSet(pending)
    PROVE  QueueInv'
<1>1. EntriesInv' /\ ListInv'
  BY DEF QueueInv, EntriesInv, ListInv, queueVars
<1>2. AuthFirst'
  BY DEF AuthFirst, queueVars
<1> QED
  BY <1>1, <1>2 DEF QueueInv

LEMMA ErrorQueue ==
    ASSUME OwnSubscriber, TypeOK, TypeOK', QueueInv, Error
    PROVE  QueueInv'
<1> DEFINE r == Head(calls).id
<1>1. /\ calls # <<>> /\ Head(calls).op = "error" /\ r \in Requests
      /\ Tail(calls) \in Seq(Calls)
  BY ErrorFacts
<1>2. PICK x \in Seq(Calls) :
         /\ calls' = x \o Tail(calls)
         /\ NoWork(x)
         /\ \A i \in DOMAIN x : x[i].op = "add" => x[i].id \in Unmade
         /\ \A i, j \in DOMAIN x :
               x[i].op = "add" /\ x[j].op = "add" /\ x[i].id = x[j].id => i = j
         /\ r \notin AuthRequests =>
               \A i \in DOMAIN x :
                  /\ x[i].op # "error"
                  /\ x[i].op = "done" => x[i].id \in RequestsOf(consumerOf[r])
  BY ErrorFacts
<1>3. UNCHANGED <<fresh, subscribed, queueVars, list, connected>>
  BY DEF Error, workerVars
<1>h. Head(calls).id = r
  OBVIOUS
<1> HIDE DEF r
<1>t. calls \in Seq(Calls)
  BY DEF TypeOK
<1>4. \A a \in AuthRequests : a \notin ToSet(pending)
  BY <1>1, NoAuthWaits DEF QueueInv
<1>5. Listens(calls', fresh \cup ToSet(pending))
  BY <1>t, <1>1, <1>2, ReplaceListens DEF QueueInv, CallsInv
<1>6. Spared(calls', ToSet(list))
  <2> DEFINE L == ToSet(list)
  <2>1. Spared(calls, L)
    BY DEF QueueInv, CallsInv
  <2> HIDE DEF L
  <2>2. ASSUME NEW j \in DOMAIN calls, j > 1, calls[j].op = "work", NEW i \in DOMAIN x
        PROVE  /\ x[i].op \in {"done", "error"} => x[i].id \notin L
               /\ x[i].op = "error" => x[i].id \notin AuthRequests
    <3>1. 1 \in DOMAIN calls /\ calls[1] = Head(calls) /\ 1 < j
      BY <1>t, <1>1, <2>2, TailFacts, SeqFacts
    <3>2. r \notin L /\ r \notin AuthRequests
      BY <1>1, <1>h, <2>1, <2>2, <3>1 DEF Spared
    <3>3. x[i].op # "error" /\ (x[i].op = "done" => x[i].id \in RequestsOf(consumerOf[r]))
      BY <1>2, <3>2
    <3>4. \A q \in RequestsOf(consumerOf[r]) : q = r
      BY <1>1 DEF RequestsOf, OwnSubscriber, TypeOK
    <3> QED
      BY <3>2, <3>3, <3>4
  <2>3. Spared(x \o Tail(calls), L)
    BY <1>t, <1>1, <1>2, <2>1, <2>2, ReplaceSpared
  <2> QED
    BY <1>2, <2>3 DEF L
<1>7. NewAdds(calls', fresh)
  <2>1. PlainAdds(Tail(calls), fresh)
    BY <1>t, <1>1, NewAddsTail DEF QueueInv, CallsInv
  <2>2. PlainAdds(x, fresh)
    BY <1>2 DEF PlainAdds, Unmade
  <2>3. ASSUME NEW i \in DOMAIN x, NEW j \in DOMAIN Tail(calls),
               x[i].op = "add", Tail(calls)[j].op = "add"
        PROVE  x[i].id # Tail(calls)[j].id
    <3>1. j + 1 \in DOMAIN calls /\ Tail(calls)[j] = calls[j + 1]
      BY <1>t, <1>1, TailFacts
    <3>2. calls[j + 1] \in Calls /\ calls[j + 1] \in ToSet(calls)
      BY <1>t, <3>1 DEF ToSet
    <3>3. calls[j + 1] = Call("add", calls[j + 1].id)
      BY <2>3, <3>1, <3>2, CallFacts
    <3>4. Call("add", x[i].id) \notin ToSet(calls)
      BY <1>2, <2>3 DEF Unmade
    <3> QED
      BY <3>1, <3>2, <3>3, <3>4
  <2> DEFINE t == Tail(calls)
  <2>4. t \in Seq(Calls)
    BY <1>1
  <2>5. calls' = x \o t
    BY <1>2
  <2>6. PlainAdds(t, fresh) /\ \A i \in DOMAIN x, j \in DOMAIN t :
                                   x[i].op = "add" /\ t[j].op = "add" => x[i].id # t[j].id
    BY <2>1, <2>3
  <2> HIDE DEF t
  <2>7. PlainAdds(x \o t, fresh)
    BY <2>2, <2>4, <2>6, PlainConcat
  <2> QED
    BY <2>5, <2>7, PlainIsNew
<1>8. CallsInv'
  BY <1>3, <1>5, <1>6, <1>7 DEF CallsInv, queueVars
<1> QED
  BY <1>3, <1>4, <1>8, CallsQueue

LEMMA ClosedQueue ==
    ASSUME TypeOK, QueueInv, Closed
    PROVE  QueueInv'
<1>1. /\ calls # <<>> /\ Head(calls).op \in {"done", "error"} /\ calls' = Tail(calls)
      /\ UNCHANGED <<fresh, subscribed, queueVars, list, connected>>
  BY DEF Closed, workerVars
<1>t. calls \in Seq(Calls)
  BY DEF TypeOK
<1>2. \A a \in AuthRequests : a \notin ToSet(pending)
  BY <1>1, NoAuthWaits DEF QueueInv
<1>3. <<>> \in Seq(Calls) /\ Tail(calls) = <<>> \o Tail(calls) /\ NoWork(<<>>) /\ DOMAIN <<>> = {}
  BY <1>t, <1>1, DropTop
<1>4. Listens(Tail(calls), fresh \cup ToSet(pending))
  BY <1>1, <1>3, <1>t, ReplaceListens DEF QueueInv, CallsInv
<1>5. Spared(Tail(calls), ToSet(list))
  BY <1>1, <1>3, <1>t, ReplaceSpared DEF QueueInv, CallsInv
<1>6. NewAdds(Tail(calls), fresh)
  BY <1>1, <1>t, NewAddsTail, PlainIsNew DEF QueueInv, CallsInv
<1>7. CallsInv'
  BY <1>1, <1>4, <1>5, <1>6 DEF CallsInv, queueVars
<1> QED
  BY <1>1, <1>2, <1>7, CallsQueue

LEMMA ListenQueue ==
    ASSUME TypeOK, QueueInv, Listen
    PROVE  QueueInv'
<1> DEFINE r == Head(calls).id
<1>1. /\ calls # <<>> /\ Head(calls).op = "listen" /\ calls' = Tail(calls)
      /\ connected' = IF r \in subscribed THEN Append(connected, r) ELSE connected
      /\ UNCHANGED <<fresh, subscribed, queueVars, list>>
  BY DEF Listen, Top, workerVars
<1>t. calls \in Seq(Calls) /\ connected \in Seq(Requests)
  BY DEF TypeOK
<1>2. r \in Requests
  BY <1>1, TopFacts
<1>3. r \notin fresh \cup ToSet(pending)
  <2>1. 1 \in DOMAIN calls /\ calls[1] = Head(calls)
    BY <1>t, <1>1, TailFacts
  <2> QED
    BY <1>1, <2>1 DEF QueueInv, CallsInv, Listens
<1> HIDE DEF r
<1>4. ToSet(connected') \subseteq inProgress
  <2>1. ToSet(Append(connected, r)) = ToSet(connected) \cup {r}
    BY <1>t, <1>2, AppendFacts
  <2> QED
    BY <1>1, <1>3, <2>1 DEF QueueInv, EntriesInv
<1>5. \A a \in AuthRequests : a \notin ToSet(pending)
  BY <1>1, NoAuthWaits DEF QueueInv
<1>6. <<>> \in Seq(Calls) /\ Tail(calls) = <<>> \o Tail(calls) /\ NoWork(<<>>) /\ DOMAIN <<>> = {}
  BY <1>t, <1>1, DropTop
<1>7. Listens(Tail(calls), fresh \cup ToSet(pending))
  BY <1>1, <1>6, <1>t, ReplaceListens DEF QueueInv, CallsInv
<1>8. Spared(Tail(calls), ToSet(list))
  BY <1>1, <1>6, <1>t, ReplaceSpared DEF QueueInv, CallsInv
<1>9. NewAdds(Tail(calls), fresh)
  BY <1>1, <1>t, NewAddsTail, PlainIsNew DEF QueueInv, CallsInv
<1>10. CallsInv'
  BY <1>1, <1>7, <1>8, <1>9 DEF CallsInv, queueVars
<1>11. EntriesInv' /\ ListInv'
  BY <1>1, <1>4 DEF QueueInv, EntriesInv, ListInv, queueVars
<1>12. AuthFirst'
  BY <1>1, <1>5 DEF AuthFirst, queueVars
<1> QED
  BY <1>10, <1>11, <1>12 DEF QueueInv

LEMMA StartQueue ==
    ASSUME TypeOK, TypeOK', WorkerInv, QueueInv, Start
    PROVE  QueueInv'
<1> DEFINE r == Head(list)
<1>1. /\ calls # <<>> /\ Head(calls).op = "work" /\ list # <<>>
      /\ r \in Requests /\ r \in ToSet(list)
      /\ pending' = Without(pending, r)
      /\ inProgress' = inProgress \cup {r}
      /\ list' = Tail(list)
      /\ UNCHANGED <<fresh, subscribed, connected>>
  BY StartFacts
<1>2. PICK e \in Seq(Calls) :
         /\ calls' = e \o (<<Call("listen", r)>> \o calls)
         /\ \A i \in DOMAIN e : e[i].op = "error" /\ e[i].id \in ToSet(connected)
                                /\ Same(e[i].id, r)
  BY StartFacts
<1>t. /\ calls \in Seq(Calls) /\ pending \in Seq(Requests) /\ list \in Seq(Requests)
      /\ subscribed \subseteq Requests \ fresh
  BY DEF TypeOK
<1>3. ToSet(list) = {r} \cup ToSet(list') /\ IsInjective(list') /\ r \notin ToSet(list')
  BY <1>t, <1>1, TailFacts DEF QueueInv, ListInv
<1>h. Head(list) = r
  OBVIOUS
<1> HIDE DEF r
<1>4. ToSet(pending') = ToSet(pending) \ {r} /\ IsInjective(pending')
  BY <1>1, <1>t, WithoutFacts DEF QueueInv, EntriesInv
<1>5. r \in ToSet(pending) /\ r \notin fresh
  BY <1>1, <1>t DEF QueueInv, EntriesInv, ListInv
<1>6. EntriesInv' /\ ListInv'
  BY <1>1, <1>3, <1>4, <1>5 DEF QueueInv, EntriesInv, ListInv
<1>7. AuthFirst'
  BY <1>4, <1>h DEF QueueInv, AuthFirst
<1> DEFINE u == e \o (<<Call("listen", r)>> \o calls)
           m == Len(e) + 1
           c == Call("listen", r)
<1>8. /\ u \in Seq(Calls) /\ DOMAIN u \subseteq Nat
      /\ m \in Nat
      /\ \A i \in DOMAIN u : \/ i \in DOMAIN e /\ u[i] = e[i]
                             \/ i = m /\ u[i] = c
                             \/ \E j \in DOMAIN calls : i = m + j /\ u[i] = calls[j]
  <2>1. u \in Seq(Calls) /\ m \in Nat
        /\ \A i \in DOMAIN u : \/ i \in DOMAIN e /\ u[i] = e[i]
                               \/ i = m /\ u[i] = c
                               \/ \E j \in DOMAIN calls : i = m + j /\ u[i] = calls[j]
    BY <1>t, <1>1, PutListen
  <2> HIDE DEF u, m, c
  <2>2. DOMAIN u \subseteq Nat
    BY <2>1, SeqFacts
  <2> QED
    BY <2>1, <2>2
<1>9. c.id = r /\ c.op = "listen" /\ calls' = u
  BY <1>1, <1>2, CallFacts
<1>10. DOMAIN calls \subseteq Nat
  BY <1>t, SeqFacts
<1> HIDE DEF u, m, c
<1>11. Listens(u, fresh \cup ToSet(pending'))
  <2> SUFFICES ASSUME NEW i \in DOMAIN u, u[i].op = "listen"
               PROVE  u[i].id \notin fresh \cup ToSet(pending')
    BY DEF Listens
  <2>1. CASE u[i] = c
    BY <1>4, <1>5, <1>9, <2>1
  <2>2. ASSUME NEW j \in DOMAIN calls, u[i] = calls[j]
        PROVE  u[i].id \notin fresh \cup ToSet(pending')
    BY <1>4, <2>2 DEF QueueInv, CallsInv, Listens
  <2> QED
    BY <1>2, <1>8, <2>1, <2>2
<1>12. Spared(u, ToSet(list'))
  <2> SUFFICES ASSUME NEW i \in DOMAIN u, NEW j \in DOMAIN u, i < j, u[j].op = "work"
               PROVE  /\ u[i].op \in {"done", "error"} => u[i].id \notin ToSet(list')
                      /\ u[i].op = "error" => u[i].id \notin AuthRequests
    BY DEF Spared
  <2>1. PICK l \in DOMAIN calls : j = m + l /\ u[j] = calls[l]
    BY <1>2, <1>8, <1>9
  <2>2. ASSUME NEW k \in DOMAIN e, u[i] = e[k]
        PROVE  u[i].id \notin ToSet(list') /\ u[i].id \notin AuthRequests
    <3>1. u[i].id \in ToSet(connected) /\ Same(u[i].id, r)
      BY <1>2, <2>2
    <3>2. u[i].id \notin ToSet(pending)
      BY <3>1 DEF QueueInv, EntriesInv
    <3>3. u[i].id \notin AuthRequests
      BY <3>1, BackendSrvAssumption DEF Same
    <3> QED
      BY <1>3, <3>2, <3>3 DEF QueueInv, ListInv
  <2>3. CASE u[i] = c
    BY <1>9, <2>3
  <2>4. ASSUME NEW k \in DOMAIN calls, i = m + k, u[i] = calls[k]
        PROVE  /\ u[i].op \in {"done", "error"} => u[i].id \notin ToSet(list')
               /\ u[i].op = "error" => u[i].id \notin AuthRequests
    <3>1. k < l
      BY <1>8, <1>10, <2>1, <2>4
    <3> QED
      BY <1>3, <2>1, <2>4, <3>1 DEF QueueInv, CallsInv, Spared
  <2> QED
    BY <1>8, <2>2, <2>3, <2>4
<1>13. NewAdds(u, fresh)
  <2>1. PlainAdds(calls, fresh)
    BY <1>t, <1>1, NewAddsTail DEF QueueInv, CallsInv
  <2>2. \A i \in DOMAIN u : u[i].op = "add" =>
           \E j \in DOMAIN calls : i = m + j /\ u[i] = calls[j]
    BY <1>2, <1>8, <1>9
  <2>3. \A i \in DOMAIN u : u[i].op = "add" => u[i].id \in fresh \ AuthRequests
    BY <2>1, <2>2 DEF PlainAdds
  <2>4. ASSUME NEW i \in DOMAIN u, NEW j \in DOMAIN u,
               u[i].op = "add", u[j].op = "add", u[i].id = u[j].id
        PROVE  i = j
    <3>1. PICK k \in DOMAIN calls : i = m + k /\ u[i] = calls[k]
      BY <2>2, <2>4
    <3>2. PICK l \in DOMAIN calls : j = m + l /\ u[j] = calls[l]
      BY <2>2, <2>4
    <3>3. k = l
      BY <2>1, <2>4, <3>1, <3>2 DEF PlainAdds
    <3> QED
      BY <3>1, <3>2, <3>3
  <2>5. PlainAdds(u, fresh)
    BY <2>3, <2>4 DEF PlainAdds
  <2> QED
    BY <2>5, PlainIsNew
<1>14. CallsInv'
  BY <1>1, <1>9, <1>11, <1>12, <1>13 DEF CallsInv
<1> QED
  BY <1>6, <1>7, <1>14 DEF QueueInv

LEMMA NextUpdateQueue ==
    ASSUME TypeOK, WorkerInv, QueueInv, NextUpdate
    PROVE  QueueInv'
<1>1. /\ calls # <<>> /\ Head(calls).op = "work" /\ list = <<>> /\ snapshots # <<>>
      /\ list' = ToFetch(pending, Head(snapshots))
      /\ UNCHANGED <<fresh, subscribed, queueVars, connected, calls>>
  BY DEF NextUpdate, Top
<1>2. pending \in Seq(Requests) /\ calls \in Seq(Calls)
  BY DEF TypeOK
<1>3. Head(snapshots) \in Nat
  <2> DEFINE N == 0..Cardinality(Requests)
  <2>1. snapshots \in Seq(N) /\ \A n \in N : n \in Nat
    BY DEF TypeOK
  <2> HIDE DEF N
  <2>2. Head(snapshots) \in N
    BY <1>1, <2>1, TailFacts
  <2> QED
    BY <2>1, <2>2
<1>4. ListInv'
  BY <1>1, <1>2, <1>3, ToFetchFacts DEF QueueInv, EntriesInv, ListInv, queueVars
<1>5. CallsInv'
  <2>1. Spared(calls, ToSet(list'))
    BY <1>1, <1>2, WorkOnTop DEF WorkerInv
  <2> QED
    BY <1>1, <2>1 DEF QueueInv, CallsInv, queueVars
<1>6. EntriesInv'
  BY <1>1 DEF QueueInv, EntriesInv, queueVars
<1>7. AuthFirst'
  BY <1>1 DEF QueueInv, AuthFirst, queueVars
<1> QED
  BY <1>4, <1>5, <1>6, <1>7 DEF QueueInv

LEMMA RestQueue ==
    ASSUME TypeOK, WorkerInv', QueueInv, Rest
    PROVE  QueueInv'
<1>1. /\ calls # <<>> /\ Head(calls).op = "work" /\ list = <<>> /\ calls' = Tail(calls)
      /\ working' = FALSE
      /\ UNCHANGED <<fresh, subscribed, queueVars, list, connected>>
  BY DEF Rest, Top
<1>2. \A a \in AuthRequests : a \notin ToSet(pending)
  BY <1>1 DEF QueueInv, AuthFirst
<1>3. NoWork(calls')
  BY <1>1 DEF WorkerInv
<1>4. NewAdds(calls', fresh)
  BY <1>1, NewAddsTail, PlainIsNew DEF QueueInv, CallsInv, TypeOK
<1>5. CallsInv'
  BY <1>1, <1>3, <1>4, NoWorkCalls DEF CallsInv
<1> QED
  BY <1>1, <1>2, <1>5, CallsQueue

LEMMA BrowserQueue ==
    ASSUME TypeOK, QueueInv, Browser
    PROVE  QueueInv'
<1>1. /\ calls = <<>> /\ NoWork(calls')
      /\ UNCHANGED <<fresh, subscribed, queueVars, list, connected>>
  BY BrowserFacts DEF workerVars
<1>2. NewAdds(calls', fresh)
  BY BrowserFacts DEF NewAdds
<1>3. \A a \in AuthRequests : a \notin ToSet(pending)
  BY <1>1, NoAuthWaits DEF QueueInv
<1>4. CallsInv'
  BY <1>1, <1>2, NoWorkCalls DEF CallsInv
<1> QED
  BY <1>1, <1>3, <1>4, CallsQueue

LEMMA InitQueue == Init => QueueInv
<1> SUFFICES ASSUME Init PROVE QueueInv
  OBVIOUS
<1>1. /\ fresh = Requests /\ subscribed = {} /\ pending = <<>> /\ inProgress = {}
      /\ list = <<>> /\ connected = <<>> /\ calls = <<>>
  BY DEF Init
<1>2. ToSet(<<>>) = {} /\ IsInjective(<<>>) /\ DOMAIN <<>> = {}
  BY DEF ToSet, IsInjective
<1>3. EntriesInv /\ ListInv
  BY <1>1, <1>2 DEF EntriesInv, ListInv
<1>4. CallsInv
  BY <1>1, <1>2 DEF CallsInv, Listens, Spared, NewAdds
<1>5. AuthFirst
  BY <1>1, <1>2 DEF AuthFirst
<1> QED
  BY <1>3, <1>4, <1>5 DEF QueueInv

LEMMA NextQueue ==
    ASSUME OwnSubscriber
    PROVE  TypeOK /\ TypeOK' /\ WorkerInv /\ WorkerInv' /\ UpdateInv /\ QueueInv
           /\ [Next]_vars => QueueInv'
<1> SUFFICES ASSUME TypeOK, TypeOK', WorkerInv, WorkerInv', UpdateInv, QueueInv, [Next]_vars
             PROVE  QueueInv'
  OBVIOUS
<1>1. CASE UNCHANGED vars
  <2>1. /\ EntriesInv' <=> EntriesInv
        /\ ListInv' <=> ListInv
        /\ CallsInv' <=> CallsInv
        /\ AuthFirst' <=> AuthFirst
    BY <1>1 DEF vars, queueVars, workerVars, EntriesInv, ListInv, CallsInv, AuthFirst
  <2> QED
    BY <2>1 DEF QueueInv
<1> QED
  BY <1>1, AddQueue, DoneQueue, ErrorQueue, ClosedQueue, StartQueue, ListenQueue,
     NextUpdateQueue, RestQueue, BrowserQueue DEF Next, Run

(* When every request has its own subscriber, the entries of the queue are *)
(* the requests with an open subscriber whenever the stack is empty: no    *)
(* order of cancelling, unsubscribing, starting and making requests within *)
(* a callback loses a slot.                                                *)
THEOREM SlotsReturned ==
    ASSUME OwnSubscriber
    PROVE  Spec => []SlotsAreReturned
<1>1. Init => TypeOK /\ WorkerInv /\ UpdateInv /\ QueueInv
  BY InitTypes, InitWorker, InitUpdate, InitQueue
<1>2. TypeOK /\ WorkerInv /\ UpdateInv /\ QueueInv /\ [Next]_vars
      => (TypeOK /\ WorkerInv /\ UpdateInv /\ QueueInv)'
  BY NextTypes, NextWorker, NextUpdates, NextQueue
<1>3. QueueInv => SlotsAreReturned
  BY DEF QueueInv, EntriesInv, SlotsAreReturned
<1> QED
  BY <1>1, <1>2, <1>3, PTL DEF Spec

-----------------------------------------------------------------------------
(* The order in which requests start.                                      *)

(* The pairs of a sequence. *)
LEMMA PrecedesIs ==
    ASSUME NEW s
    PROVE  /\ \A q, r : <<q, r>> \in Precedes(s)
                        <=> \E i, j \in DOMAIN s : i < j /\ q = s[i] /\ r = s[j]
           /\ \A p \in Precedes(s) :
                 p = <<p[1], p[2]>> /\ p[1] \in ToSet(s) /\ p[2] \in ToSet(s)
  BY DEF Precedes, ToSet

LEMMA SamePairs ==
    ASSUME NEW A, NEW B,
           \A p \in A : p = <<p[1], p[2]>>, \A p \in B : p = <<p[1], p[2]>>,
           \A q, r : <<q, r>> \in A <=> <<q, r>> \in B
    PROVE  A = B
<1>1. \A p \in A : p \in B
  <2> SUFFICES ASSUME NEW p \in A PROVE p \in B
    OBVIOUS
  <2>1. p = <<p[1], p[2]>>
    OBVIOUS
  <2>2. <<p[1], p[2]>> \in A
    BY <2>1, Zenon
  <2> QED
    BY <2>1, <2>2, Zenon
<1>2. \A p \in B : p \in A
  <2> SUFFICES ASSUME NEW p \in B PROVE p \in A
    OBVIOUS
  <2>1. p = <<p[1], p[2]>>
    OBVIOUS
  <2>2. <<p[1], p[2]>> \in B
    BY <2>1, Zenon
  <2> QED
    BY <2>1, <2>2, Zenon
<1> QED
  BY <1>1, <1>2

(* What is appended comes after all others. *)
LEMMA PrecedesAppend ==
    ASSUME NEW T, NEW s \in Seq(T), NEW x \in T
    PROVE  Precedes(Append(s, x)) = Precedes(s) \cup (ToSet(s) \X {x})
<1> DEFINE t == Append(s, x)
           n == Len(s)
           A == Precedes(s) \cup (ToSet(s) \X {x})
<1>1. /\ n \in Nat /\ DOMAIN s = 1..n /\ DOMAIN t = 1..(n + 1)
      /\ t[n + 1] = x
  OBVIOUS
<1>2. \A k \in 1..n : t[k] = s[k]
  OBVIOUS
<1> HIDE DEF t, n
<1>3. ASSUME NEW q, NEW r PROVE <<q, r>> \in Precedes(t) <=> <<q, r>> \in A
  <2>1. ASSUME NEW i \in DOMAIN t, NEW j \in DOMAIN t, i < j, q = t[i], r = t[j]
        PROVE  <<q, r>> \in A
    <3>1. i \in 1..n
      BY <1>1, <2>1
    <3>2. CASE j = n + 1
      <4>1. q \in ToSet(s) /\ r = x
        BY <1>1, <1>2, <2>1, <3>1, <3>2 DEF ToSet
      <4> QED
        BY <4>1
    <3>3. CASE j \in 1..n
      <4>1. <<q, r>> \in Precedes(s)
        BY <1>1, <1>2, <2>1, <3>1, <3>3, PrecedesIs
      <4> QED
        BY <4>1
    <3> QED
      BY <1>1, <3>2, <3>3
  <2>2. ASSUME NEW i \in DOMAIN s, NEW j \in DOMAIN s, i < j, q = s[i], r = s[j]
        PROVE  \E k, l \in DOMAIN t : k < l /\ q = t[k] /\ r = t[l]
    <3>1. i \in DOMAIN t /\ j \in DOMAIN t /\ q = t[i] /\ r = t[j]
      BY <1>1, <1>2, <2>2
    <3> QED
      BY <2>2, <3>1
  <2>3. ASSUME q \in ToSet(s), r = x
        PROVE  \E k, l \in DOMAIN t : k < l /\ q = t[k] /\ r = t[l]
    <3>1. PICK i \in 1..n : q = s[i]
      BY <1>1, <2>3 DEF ToSet
    <3>2. i \in DOMAIN t /\ n + 1 \in DOMAIN t /\ i < n + 1 /\ q = t[i] /\ r = t[n + 1]
      BY <1>1, <1>2, <2>3, <3>1
    <3> QED
      BY <3>2
  <2>4. <<q, r>> \in Precedes(t) => <<q, r>> \in A
    BY <2>1, PrecedesIs
  <2>5. <<q, r>> \in Precedes(s) => <<q, r>> \in Precedes(t)
    BY <2>2, PrecedesIs
  <2>6. q \in ToSet(s) /\ r = x => <<q, r>> \in Precedes(t)
    BY <2>3, PrecedesIs
  <2> QED
    BY <2>4, <2>5, <2>6
<1>4. \A p \in A : p = <<p[1], p[2]>>
  BY PrecedesIs
<1>5. \A p \in Precedes(t) : p = <<p[1], p[2]>>
  BY PrecedesIs
<1> HIDE DEF A
<1>6. Precedes(t) = A
  BY <1>3, <1>4, <1>5, SamePairs
<1> QED
  BY <1>6 DEF t, A

(* Only keeps the order. *)
LEMMA PrecedesOnly ==
    ASSUME NEW T, NEW s \in Seq(T), NEW S
    PROVE  Precedes(Only(s, S)) = {p \in Precedes(s) : p[1] \in S /\ p[2] \in S}
<1> DEFINE n == Len(s)
<1>1. PICK f \in [0..n -> Seq(T)] : IsOnly(f, s, S, n) /\ Only(s, S) = f[n]
  BY OnlyIs
<1>n. n \in Nat /\ DOMAIN s = 1..n /\ \A i \in 1..n : s[i] \in T
  OBVIOUS
<1> DEFINE Upto(i, q, r) == \E a, b \in 1..i : a < b /\ q = s[a] /\ r = s[b]
           Good(i) == /\ \A q : q \in ToSet(f[i]) <=> q \in S /\ \E a \in 1..i : q = s[a]
                      /\ \A q, r : <<q, r>> \in Precedes(f[i])
                                   <=> q \in S /\ r \in S /\ Upto(i, q, r)
           P == {i \in Nat : i \in 0..n => Good(i)}
<1>2. 0 \in P
  <2>1. f[0] = <<>>
    BY <1>1, <1>n DEF IsOnly
  <2>2. ToSet(f[0]) = {} /\ DOMAIN f[0] = {}
    BY <2>1 DEF ToSet
  <2>3. \A q, r : <<q, r>> \notin Precedes(f[0])
    BY <2>2, PrecedesIs
  <2> QED
    BY <2>2, <2>3
<1>3. ASSUME NEW i \in Nat, i \in P PROVE i + 1 \in P
  <2> SUFFICES ASSUME i + 1 \in 0..n PROVE Good(i + 1)
    OBVIOUS
  <2> DEFINE j == i + 1
             g == f[i]
             h == f[j]
  <2>0. i \in 0..n /\ j \in 1..n /\ j # 0 /\ j - 1 = i /\ j \notin 1..i /\ \A a \in 1..i : a < j
    BY <1>n
  <2>1. Good(i)
    BY <1>3, <2>0
  <2>2. h = IF s[j] \in S THEN Append(g, s[j]) ELSE g
    BY <1>1, <2>0 DEF IsOnly
  <2>3. 1..j = (1..i) \cup {j} /\ \A a, b \in 1..j : a < b => a \in 1..i
    BY <2>0
  <2>4. g \in Seq(T) /\ s[j] \in T
    BY <1>n, <2>0
  <2>5. /\ \A q : q \in ToSet(g) <=> q \in S /\ \E a \in 1..i : q = s[a]
        /\ \A q, r : <<q, r>> \in Precedes(g) <=> q \in S /\ r \in S /\ Upto(i, q, r)
    BY <2>1
  <2>6. \A q, r : Upto(j, q, r) <=> Upto(i, q, r) \/ (r = s[j] /\ \E a \in 1..i : q = s[a])
    <3> SUFFICES ASSUME NEW q, NEW r
                 PROVE  Upto(j, q, r) <=> Upto(i, q, r) \/ (r = s[j] /\ \E a \in 1..i : q = s[a])
      OBVIOUS
    <3> HIDE DEF j
    <3>1. ASSUME NEW a \in 1..j, NEW b \in 1..j, a < b, q = s[a], r = s[b]
          PROVE  Upto(i, q, r) \/ (r = s[j] /\ \E c \in 1..i : q = s[c])
      BY <2>3, <3>1
    <3>2. Upto(i, q, r) => Upto(j, q, r)
      BY <2>3
    <3>3. (r = s[j] /\ \E a \in 1..i : q = s[a]) => Upto(j, q, r)
      BY <2>0, <2>3
    <3> QED
      BY <3>1, <3>2, <3>3
  <2> HIDE DEF g, h, j, Good, Upto
  <2>7. CASE s[j] \notin S
    <3>1. h = g
      BY <2>2, <2>7
    <3>2. \A q : q \in ToSet(h) <=> q \in S /\ \E a \in 1..j : q = s[a]
      BY <2>3, <2>5, <2>7, <3>1
    <3>3. \A q, r : <<q, r>> \in Precedes(h) <=> q \in S /\ r \in S /\ Upto(j, q, r)
      BY <2>5, <2>6, <2>7, <3>1
    <3> QED
      BY <3>2, <3>3 DEF Good, h, j
  <2>8. CASE s[j] \in S
    <3>1. h = Append(g, s[j])
      BY <2>2, <2>8
    <3>2. ToSet(h) = ToSet(g) \cup {s[j]}
      BY <2>4, <3>1, AppendFacts
    <3>3. Precedes(h) = Precedes(g) \cup (ToSet(g) \X {s[j]})
      BY <2>4, <3>1, PrecedesAppend
    <3>4. \A q : q \in ToSet(h) <=> q \in S /\ \E a \in 1..j : q = s[a]
      BY <2>3, <2>5, <2>8, <3>2
    <3>5. \A q, r : <<q, r>> \in Precedes(h) <=> <<q, r>> \in Precedes(g) \/ (q \in ToSet(g) /\ r = s[j])
      BY <3>3
    <3>6. \A q, r : <<q, r>> \in Precedes(h) <=> q \in S /\ r \in S /\ Upto(j, q, r)
      <4> SUFFICES ASSUME NEW q, NEW r
                   PROVE  <<q, r>> \in Precedes(h) <=> q \in S /\ r \in S /\ Upto(j, q, r)
        OBVIOUS
      <4>1. <<q, r>> \in Precedes(h) <=> <<q, r>> \in Precedes(g) \/ (q \in ToSet(g) /\ r = s[j])
        BY <3>5
      <4>2. <<q, r>> \in Precedes(g) <=> q \in S /\ r \in S /\ Upto(i, q, r)
        BY <2>5
      <4>3. q \in ToSet(g) <=> q \in S /\ \E a \in 1..i : q = s[a]
        BY <2>5
      <4>4. Upto(j, q, r) <=> Upto(i, q, r) \/ (r = s[j] /\ \E a \in 1..i : q = s[a])
        BY <2>6
      <4> QED
        BY <2>8, <4>1, <4>2, <4>3, <4>4
    <3> QED
      BY <3>4, <3>6 DEF Good, h, j
  <2> QED
    BY <2>7, <2>8 DEF j
<1> HIDE DEF P
<1>4. \A i \in Nat : i \in P
  BY <1>2, <1>3, Induction
<1>5. n \in Nat /\ n \in 0..n
  BY <1>n
<1>6. Good(n)
  BY <1>4, <1>5 DEF P
<1> DEFINE A == {p \in Precedes(s) : p[1] \in S /\ p[2] \in S}
<1>7. ASSUME NEW q, NEW r PROVE <<q, r>> \in Precedes(f[n]) <=> <<q, r>> \in A
  <2>1. <<q, r>> \in Precedes(s) <=> Upto(n, q, r)
    <3>1. <<q, r>> \in Precedes(s) <=> \E i, j \in DOMAIN s : i < j /\ q = s[i] /\ r = s[j]
      BY PrecedesIs
    <3>2. DOMAIN s = 1..n
      BY <1>n
    <3> HIDE DEF n
    <3> QED
      BY <3>1, <3>2
  <2>2. <<q, r>> \in A <=> <<q, r>> \in Precedes(s) /\ q \in S /\ r \in S
    OBVIOUS
  <2>3. <<q, r>> \in Precedes(f[n]) <=> q \in S /\ r \in S /\ Upto(n, q, r)
    BY <1>6
  <2> QED
    BY <2>1, <2>2, <2>3
<1>8. \A p \in Precedes(f[n]) : p = <<p[1], p[2]>>
  BY PrecedesIs
<1>9. \A p \in A : p = <<p[1], p[2]>>
  BY PrecedesIs
<1> HIDE DEF A, n
<1>10. Precedes(f[n]) = A
  BY <1>7, <1>8, <1>9, SamePairs
<1> QED
  BY <1>1, <1>10 DEF A

(* The first of a sequence, and what comes after it. *)
LEMMA PrecedesTail ==
    ASSUME NEW T, NEW s \in Seq(T), s # <<>>, IsInjective(s)
    PROVE  /\ \A q : <<q, Head(s)>> \notin Precedes(s)
           /\ \A q, r : <<q, r>> \in Precedes(s) /\ q # Head(s) => <<q, r>> \in Precedes(Tail(s))
<1> DEFINE t == Tail(s)
<1>1. /\ Head(s) = s[1] /\ 1 \in DOMAIN s
      /\ \A i \in DOMAIN s : i # 1 => i - 1 \in DOMAIN t /\ s[i] = t[i - 1]
  BY TailFacts
<1>2. DOMAIN s \subseteq Nat /\ \A i \in DOMAIN s : 1 <= i
  OBVIOUS
<1> HIDE DEF t
<1>3. ASSUME NEW q PROVE <<q, Head(s)>> \notin Precedes(s)
  <2> SUFFICES ASSUME NEW i \in DOMAIN s, NEW j \in DOMAIN s, i < j, Head(s) = s[j] PROVE FALSE
    BY PrecedesIs
  <2>1. j = 1
    BY <1>1 DEF IsInjective
  <2> QED
    BY <1>2, <2>1
<1>4. ASSUME NEW q, NEW r, <<q, r>> \in Precedes(s), q # Head(s) PROVE <<q, r>> \in Precedes(t)
  <2>1. PICK i \in DOMAIN s, j \in DOMAIN s : i < j /\ q = s[i] /\ r = s[j]
    BY <1>4, PrecedesIs
  <2>2. i # 1 /\ j # 1
    BY <1>1, <1>2, <1>4, <2>1
  <2>3. /\ i - 1 \in DOMAIN t /\ j - 1 \in DOMAIN t /\ q = t[i - 1] /\ r = t[j - 1]
        /\ i - 1 < j - 1
    BY <1>1, <1>2, <2>1, <2>2
  <2> QED
    BY <2>3, PrecedesIs
<1> QED
  BY <1>3, <1>4 DEF t

(* What comes before one of the beginning is in the beginning. *)
LEMMA PrecedesBeginning ==
    ASSUME NEW T, NEW s \in Seq(T), NEW n \in Nat, n <= Len(s), IsInjective(s)
    PROVE  \A q, r : <<q, r>> \in Precedes(s) /\ r \in ToSet(SubSeq(s, 1, n))
                     => <<q, r>> \in Precedes(SubSeq(s, 1, n))
<1> DEFINE u == SubSeq(s, 1, n)
<1>1. DOMAIN s = 1..Len(s) /\ Len(s) \in Nat
  OBVIOUS
<1>2. DOMAIN u = 1..n
  OBVIOUS
<1>3. \A i \in 1..n : u[i] = s[i]
  OBVIOUS
<1> HIDE DEF u
<1> SUFFICES ASSUME NEW q, NEW r, <<q, r>> \in Precedes(s), r \in ToSet(u)
             PROVE  <<q, r>> \in Precedes(u)
  BY DEF u
<1>4. PICK i \in DOMAIN s, j \in DOMAIN s : i < j /\ q = s[i] /\ r = s[j]
  BY PrecedesIs
<1>5. PICK k \in DOMAIN u : r = u[k]
  BY DEF ToSet
<1>6. k \in DOMAIN s /\ s[k] = s[j]
  BY <1>1, <1>2, <1>3, <1>4, <1>5
<1>7. j = k
  BY <1>4, <1>6 DEF IsInjective
<1>8. i \in DOMAIN u /\ j \in DOMAIN u /\ q = u[i] /\ r = u[j]
  BY <1>1, <1>2, <1>3, <1>4, <1>5, <1>7
<1> QED
  BY <1>4, <1>8, PrecedesIs

LEMMA PrecedesConcat ==
    ASSUME NEW T, NEW a \in Seq(T), NEW b \in Seq(T)
    PROVE  Precedes(a) \cup Precedes(b) \subseteq Precedes(a \o b)
<1> DEFINE c == a \o b
<1>1. /\ \A i \in DOMAIN a : i \in DOMAIN c /\ c[i] = a[i]
      /\ \A j \in DOMAIN b : Len(a) + j \in DOMAIN c /\ c[Len(a) + j] = b[j]
      /\ Len(a) \in Nat /\ DOMAIN b = 1..Len(b)
  BY ConcatIndex
<1> HIDE DEF c
<1>2. ASSUME NEW q, NEW r, <<q, r>> \in Precedes(a) PROVE <<q, r>> \in Precedes(c)
  BY <1>1, <1>2, PrecedesIs
<1>3. ASSUME NEW q, NEW r, <<q, r>> \in Precedes(b) PROVE <<q, r>> \in Precedes(c)
  <2>1. PICK i \in DOMAIN b, j \in DOMAIN b : i < j /\ q = b[i] /\ r = b[j]
    BY <1>3, PrecedesIs
  <2>2. /\ Len(a) + i \in DOMAIN c /\ Len(a) + j \in DOMAIN c /\ Len(a) + i < Len(a) + j
        /\ q = c[Len(a) + i] /\ r = c[Len(a) + j]
    BY <1>1, <2>1
  <2> QED
    BY <2>2, PrecedesIs
<1>4. \A p \in Precedes(a) \cup Precedes(b) : p = <<p[1], p[2]>>
  BY PrecedesIs
<1>5. ASSUME NEW p \in Precedes(a) \cup Precedes(b) PROVE p \in Precedes(c)
  <2> DEFINE q == p[1]
             r == p[2]
  <2>1. p = <<q, r>>
    BY <1>4
  <2> HIDE DEF q, r
  <2> QED
    BY <1>2, <1>3, <2>1
<1> QED
  BY <1>5 DEF c

(* The worker keeps the order within a class, and leaves out none that     *)
(* comes before one that it chose.                                         *)
LEMMA ToFetchOrder ==
    ASSUME NEW entries \in Seq(Requests), IsInjective(entries), NEW n \in Nat,
           NEW q, NEW r, <<q, r>> \in Precedes(entries), Service!SameClass(q, r),
           r \in ToSet(ToFetch(entries, n))
    PROVE  <<q, r>> \in Precedes(ToFetch(entries, n))
<1> DEFINE api == Only(entries, Requests \ DataRequests)
           data == Only(entries, DataRequests)
           taken == n + Len(api)
           allowed == IF taken < Limit THEN Limit - taken ELSE 0
           k == IF allowed < Len(data) THEN allowed ELSE Len(data)
           some == SubSeq(data, 1, k)
           l == ToFetch(entries, n)
<1>1. l = api \o some
  BY DEF ToFetch
<1>2. q \in Requests /\ r \in Requests
  BY PrecedesIs, SeqFacts
<1>3. /\ api \in Seq(Requests)
      /\ ToSet(api) = ToSet(entries) \cap (Requests \ DataRequests)
      /\ q \notin DataRequests /\ r \notin DataRequests => <<q, r>> \in Precedes(api)
  <2>1. Precedes(api) = {p \in Precedes(entries) : p[1] \in Requests \ DataRequests
                                                   /\ p[2] \in Requests \ DataRequests}
    BY PrecedesOnly
  <2>2. /\ api \in Seq(Requests)
        /\ ToSet(api) = ToSet(entries) \cap (Requests \ DataRequests)
    BY OnlyFacts
  <2> HIDE DEF api
  <2> QED
    BY <1>2, <2>1, <2>2
<1>4. /\ data \in Seq(Requests) /\ IsInjective(data)
      /\ ToSet(data) = ToSet(entries) \cap DataRequests
      /\ q \in DataRequests /\ r \in DataRequests => <<q, r>> \in Precedes(data)
  <2>1. Precedes(data) = {p \in Precedes(entries) : p[1] \in DataRequests /\ p[2] \in DataRequests}
    BY PrecedesOnly
  <2>2. /\ data \in Seq(Requests) /\ IsInjective(data)
        /\ ToSet(data) = ToSet(entries) \cap DataRequests
    BY OnlyFacts
  <2> HIDE DEF data
  <2> QED
    BY <2>1, <2>2
<1> HIDE DEF api, data, l
<1>5. Len(api) \in Nat /\ Len(data) \in Nat /\ Limit \in Nat \ {0}
  BY <1>3, <1>4, BackendSrvAssumption
<1>6. k \in Nat /\ k <= Len(data)
  BY <1>5
<1> HIDE DEF k
<1>7. /\ some \in Seq(Requests) /\ ToSet(some) \subseteq ToSet(data)
      /\ <<q, r>> \in Precedes(data) /\ r \in ToSet(some) => <<q, r>> \in Precedes(some)
  BY <1>4, <1>6, SubSeqFacts, PrecedesBeginning
<1> HIDE DEF some
<1>8. ToSet(l) = ToSet(api) \cup ToSet(some) /\ Precedes(api) \cup Precedes(some) \subseteq Precedes(l)
  BY <1>1, <1>3, <1>7, ConcatToSet, PrecedesConcat
<1>9. r \in ToSet(api) \cup ToSet(some)
  BY <1>8 DEF l
<1>10. CASE r \in DataRequests
  BY <1>3, <1>4, <1>7, <1>8, <1>9, <1>10 DEF Service!SameClass, l
<1>11. CASE r \notin DataRequests
  BY <1>3, <1>8, <1>11 DEF Service!SameClass, l
<1> QED
  BY <1>10, <1>11

-----------------------------------------------------------------------------
(* Who was made before a request of the worker's list, and is of its       *)
(* class, is before it in the list.                                        *)
ListOrder ==
    \A q, r : /\ <<q, r>> \in Precedes(pending)
              /\ Service!SameClass(q, r)
              /\ r \in ToSet(list)
              => <<q, r>> \in Precedes(list)

LEMMA PublishOrder ==
    ASSUME ListOrder, NEW rest,
           pending' \in Seq(Requests), inProgress' \in SUBSET Requests, IsInjective(pending'),
           Publish(pending', inProgress', rest),
           \A q, r : <<q, r>> \in Precedes(pending') /\ r \in ToSet(list)
                     => <<q, r>> \in Precedes(pending)
    PROVE  ListOrder'
<1>1. CASE list' = list
  BY <1>1 DEF ListOrder
<1>2. CASE list' = ToFetch(pending', Cardinality(inProgress'))
  <2>1. Cardinality(inProgress') \in Nat
    BY CardinalityFacts
  <2> QED
    BY <1>2, <2>1, ToFetchOrder DEF ListOrder
<1> QED
  BY <1>1, <1>2 DEF Publish, workerVars

(* A step of the service. *)
LEMMA LeavePairs ==
    ASSUME NEW s \in Seq(Requests), NEW r
    PROVE  Precedes(Without(s, r)) = {p \in Precedes(s) : r \notin {p[1], p[2]}}
<1>1. Precedes(Without(s, r)) = {p \in Precedes(s) : p[1] \in Requests \ {r} /\ p[2] \in Requests \ {r}}
  BY PrecedesOnly DEF Without
<1>2. \A p \in Precedes(s) : p[1] \in Requests /\ p[2] \in Requests
  BY PrecedesIs, SeqFacts
<1> QED
  BY <1>1, <1>2

LEMMA AddService ==
    ASSUME TypeOK, QueueInv, ListOrder, pending' \in Seq(Requests), IsInjective(pending'), Add
    PROVE  ListOrder' /\ Service!Next
<1> DEFINE r == Head(calls).id
<1>1. /\ calls # <<>> /\ Head(calls).op = "add"
      /\ fresh' = fresh \ {r}
      /\ pending' = Append(pending, r)
      /\ Publish(pending', inProgress, Tail(calls))
      /\ UNCHANGED inProgress
  BY DEF Add, Top
<1>2. r \in Requests
  BY <1>1, TopFacts
<1>t. /\ calls \in Seq(Calls) /\ pending \in Seq(Requests) /\ inProgress \subseteq Requests
      /\ subscribed \subseteq Requests \ fresh
  BY DEF TypeOK
<1>3. r \in fresh
  BY <1>1, <1>t, NewAddsTail DEF QueueInv, CallsInv
<1> HIDE DEF r
<1>4. r \notin ToSet(list)
  BY <1>3, <1>t DEF QueueInv, EntriesInv, ListInv
<1>5. /\ ToSet(pending') = ToSet(pending) \cup {r}
      /\ Precedes(pending') = Precedes(pending) \cup (ToSet(pending) \X {r})
  BY <1>1, <1>2, <1>t, AppendFacts, PrecedesAppend
<1>6. \A q, x : <<q, x>> \in Precedes(pending') /\ x \in ToSet(list) => <<q, x>> \in Precedes(pending)
  BY <1>4, <1>5
<1>7. ListOrder'
  BY <1>1, <1>6, <1>t, PublishOrder
<1>8. Service!Make(r)
  BY <1>1, <1>3, <1>5 DEF Service!Make
<1> QED
  BY <1>2, <1>7, <1>8 DEF Service!Next

LEMMA DoneService ==
    ASSUME TypeOK, TypeOK', QueueInv, ListOrder, IsInjective(pending'), Done
    PROVE  ListOrder' /\ Service!Next
<1> DEFINE r == Head(calls).id
           rest == Ended(r) \o Tail(calls)
<1>1. /\ r \in Requests /\ r \in subscribed
      /\ pending' = Without(pending, r)
      /\ inProgress' = inProgress \ {r}
      /\ Publish(pending', inProgress', rest)
      /\ fresh' = fresh
  BY DoneFacts DEF Done
<1> HIDE DEF r, rest
<1>t. /\ pending \in Seq(Requests) /\ pending' \in Seq(Requests) /\ inProgress' \in SUBSET Requests
  BY DEF TypeOK
<1>2. /\ ToSet(pending') = ToSet(pending) \ {r}
      /\ Precedes(pending') = {p \in Precedes(pending) : r \notin {p[1], p[2]}}
  BY <1>1, <1>t, WithoutFacts, LeavePairs
<1>3. ListOrder'
  BY <1>1, <1>2, <1>t, PublishOrder
<1>4. r \in ToSet(pending) \cup inProgress
  BY <1>1 DEF QueueInv, EntriesInv
<1>5. Service!End(r)
  BY <1>1, <1>2, <1>4 DEF Service!End, Service!Leave
<1> QED
  BY <1>1, <1>3, <1>5 DEF Service!Next

LEMMA StartService ==
    ASSUME TypeOK, QueueInv, ListOrder, Start
    PROVE  ListOrder' /\ Service!Next
<1> DEFINE r == Head(list)
<1>1. /\ list # <<>>
      /\ r \in Requests /\ r \in ToSet(list)
      /\ pending' = Without(pending, r)
      /\ inProgress' = inProgress \cup {r}
      /\ list' = Tail(list)
      /\ UNCHANGED fresh
  BY StartFacts
<1>t. pending \in Seq(Requests) /\ list \in Seq(Requests) /\ IsInjective(list)
      /\ ToSet(list) \subseteq ToSet(pending)
  BY DEF TypeOK, QueueInv, ListInv
<1>2. /\ ToSet(pending') = ToSet(pending) \ {r}
      /\ Precedes(pending') = {p \in Precedes(pending) : r \notin {p[1], p[2]}}
  BY <1>1, <1>t, WithoutFacts, LeavePairs
<1>3. /\ \A q : <<q, r>> \notin Precedes(list)
      /\ \A q, x : <<q, x>> \in Precedes(list) /\ q # r => <<q, x>> \in Precedes(list')
      /\ ToSet(list') \subseteq ToSet(list)
  <2>1. ToSet(list) = {r} \cup ToSet(Tail(list))
    BY <1>1, <1>t, TailFacts
  <2>2. /\ \A q : <<q, r>> \notin Precedes(list)
        /\ \A q, x : <<q, x>> \in Precedes(list) /\ q # r => <<q, x>> \in Precedes(Tail(list))
    BY <1>1, <1>t, PrecedesTail
  <2> HIDE DEF r
  <2> QED
    BY <1>1, <2>1, <2>2
<1> HIDE DEF r
<1>4. ListOrder'
  <2> SUFFICES ASSUME NEW q, NEW x, <<q, x>> \in Precedes(pending'), Service!SameClass(q, x),
                      x \in ToSet(list')
               PROVE  <<q, x>> \in Precedes(list')
    BY DEF ListOrder
  <2>1. <<q, x>> \in Precedes(pending) /\ q # r
    BY <1>2
  <2>2. x \in ToSet(list)
    BY <1>3
  <2> QED
    BY <1>3, <2>1, <2>2 DEF ListOrder
<1>5. \A q \in ToSet(pending) : Service!SameClass(q, r) => <<q, r>> \notin Precedes(pending)
  BY <1>1, <1>3 DEF ListOrder
<1>6. Service!Begin(r)
  BY <1>1, <1>2, <1>5, <1>t DEF Service!Begin, Service!Leave
<1> QED
  BY <1>1, <1>4, <1>6 DEF Service!Next

LEMMA NextUpdateService ==
    ASSUME TypeOK, TypeOK', QueueInv, UpdateInv, NextUpdate
    PROVE  ListOrder' /\ UNCHANGED Service!vars
<1>1. /\ list' = ToFetch(pending, Head(snapshots)) /\ snapshots # <<>>
      /\ UNCHANGED <<fresh, pending, inProgress>>
  BY DEF NextUpdate, queueVars
<1>2. Head(snapshots) \in 0..Cardinality(Requests) /\ Cardinality(Requests) \in Nat
  BY <1>1, FS_CardinalityType, BackendSrvAssumption DEF TypeOK
<1>3. Head(snapshots) \in Nat
  BY <1>2
<1>4. pending \in Seq(Requests) /\ IsInjective(pending)
  BY DEF TypeOK, QueueInv, EntriesInv
<1>5. ListOrder'
  BY <1>1, <1>3, <1>4, ToFetchOrder DEF ListOrder
<1> QED
  BY <1>1, <1>5 DEF Service!vars

(* Everything else leaves the queue alone. *)
LEMMA ElseService ==
    ASSUME TypeOK, ListOrder, UNCHANGED vars \/ Error \/ Closed \/ Listen \/ Rest \/ Browser
    PROVE  ListOrder' /\ UNCHANGED Service!vars
<1>1. UNCHANGED <<fresh, pending, inProgress, list>>
  BY BrowserFacts DEF vars, queueVars, workerVars, Error, Closed, Listen, Rest
<1> QED
  BY <1>1 DEF ListOrder, Service!vars

LEMMA InitService == Init => ListOrder /\ Service!Init
<1> SUFFICES ASSUME Init PROVE ListOrder /\ Service!Init
  OBVIOUS
<1>1. fresh = Requests /\ pending = <<>> /\ inProgress = {} /\ list = <<>>
  BY DEF Init
<1>2. ToSet(<<>>) = {} /\ DOMAIN <<>> = {}
  BY DEF ToSet
<1>3. Precedes(<<>>) = {}
  BY <1>2 DEF Precedes
<1> QED
  BY <1>1, <1>2, <1>3 DEF ListOrder, Service!Init

LEMMA NextService ==
    TypeOK /\ TypeOK' /\ UpdateInv /\ QueueInv /\ QueueInv' /\ ListOrder /\ [Next]_vars
    => ListOrder' /\ [Service!Next]_(Service!vars)
<1> SUFFICES ASSUME TypeOK, TypeOK', UpdateInv, QueueInv, QueueInv', ListOrder, [Next]_vars
             PROVE  ListOrder' /\ [Service!Next]_(Service!vars)
  OBVIOUS
<1>1. pending' \in Seq(Requests) /\ IsInjective(pending')
  BY DEF TypeOK, QueueInv, EntriesInv
<1>2. CASE Add
  BY <1>1, <1>2, AddService
<1>3. CASE Done
  BY <1>1, <1>3, DoneService
<1>4. CASE Start
  BY <1>4, StartService
<1>5. CASE NextUpdate
  BY <1>5, NextUpdateService
<1>6. CASE UNCHANGED vars \/ Error \/ Closed \/ Listen \/ Rest \/ Browser
  BY <1>6, ElseService
<1> QED
  BY <1>2, <1>3, <1>4, <1>5, <1>6 DEF Next, Run

(* When every request has its own subscriber, the service keeps what       *)
(* RequestService promises, whatever the calls within a call do and        *)
(* however old the updates are of which the worker makes its lists: each   *)
(* request starts once, in its turn, and not after it ended.               *)
THEOREM Refinement ==
    ASSUME OwnSubscriber
    PROVE  Spec => ImplementsRequestService
<1>1. Init => TypeOK /\ WorkerInv /\ UpdateInv /\ QueueInv /\ ListOrder /\ Service!Init
  BY InitTypes, InitWorker, InitUpdate, InitQueue, InitService
<1>2. TypeOK /\ WorkerInv /\ UpdateInv /\ QueueInv /\ ListOrder /\ [Next]_vars
      => (TypeOK /\ WorkerInv /\ UpdateInv /\ QueueInv /\ ListOrder)'
         /\ [Service!Next]_(Service!vars)
  BY NextTypes, NextWorker, NextUpdates, NextQueue, NextService
<1> QED
  BY <1>1, <1>2, PTL DEF Spec, ImplementsRequestService, Service!Spec

=============================================================================
