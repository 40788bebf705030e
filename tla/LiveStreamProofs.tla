-------------------------- MODULE LiveStreamProofs --------------------------
(***************************************************************************)
(* Proofs about LiveStream, for every number of panels, listeners and      *)
(* channels and every length of the frames.                                *)
(*                                                                         *)
(* What a panel shows is what it got when it subscribed and everything     *)
(* that came since, joined and cut to length; the stream cuts what it      *)
(* keeps on its own.  The first part is about sequences: joining and       *)
(* cutting them in whatever order gives the same last rows, as long as no  *)
(* packet is longer than what is kept (ShortPackets).  It needs            *)
(* induction over the number of messages that wait, because FlattenSeq     *)
(* joins them one by one.  The second part follows a panel with its stream *)
(* (PanelInv) through each message, the third through each action, and the *)
(* last one is about the channels.                                         *)
(***************************************************************************)
EXTENDS LiveStream, SequenceTheorems, WellFoundedInduction, TLAPS

-----------------------------------------------------------------------------
(* Induction, and the sequences that FlattenSeq joins.                     *)

LessThan == {p \in Nat \X Nat : p[1] < p[2]}

LEMMA LessThanWellFounded == IsWellFoundedOn(LessThan, Nat)
<1>1. OpToRel(<, Nat) = LessThan
  BY DEF OpToRel, LessThan
<1> QED
  BY <1>1, NatLessThanWellFounded

(* A set that has 0, and with a number the next one, has them all. *)
LEMMA Induction ==
    ASSUME NEW P, 0 \in P, \A n \in Nat : n \in P => n + 1 \in P
    PROVE  \A n \in Nat : n \in P
<1> DEFINE T == {n \in Nat : n \notin P}
<1> SUFFICES ASSUME T # {} PROVE FALSE
  OBVIOUS
<1>1. PICK x \in T : \A y \in T : ~(<<y, x>> \in LessThan)
  BY LessThanWellFounded, WFMin
<1>2. \A y \in T : ~(y < x)
  BY <1>1 DEF LessThan
<1>3. x - 1 \in Nat /\ (x - 1) + 1 = x
  OBVIOUS
<1> QED
  BY <1>2, <1>3

(* The partial concatenations that define FlattenSeq. *)
IsFlatten(f, seqs, n) ==
    \A i \in 1..n : f[i] = IF i = 1 THEN seqs[i] ELSE f[i - 1] \o seqs[i]

LEMMA FlattenExists ==
    ASSUME NEW S, NEW seqs \in Seq(Seq(S))
    PROVE  \A n \in Nat : n <= Len(seqs) =>
              \E f \in [1..n -> Seq(S)] : IsFlatten(f, seqs, n)
<1> DEFINE P == {n \in Nat : n <= Len(seqs) =>
                    \E f \in [1..n -> Seq(S)] : IsFlatten(f, seqs, n)}
<1>1. 0 \in P
  <2>1. [i \in 1..0 |-> <<>>] \in [1..0 -> Seq(S)]
    OBVIOUS
  <2>2. IsFlatten([i \in 1..0 |-> <<>>], seqs, 0)
    BY DEF IsFlatten
  <2> QED
    BY <2>1, <2>2
<1>2. ASSUME NEW n \in Nat, n \in P PROVE n + 1 \in P
  <2> SUFFICES ASSUME n + 1 <= Len(seqs)
               PROVE  \E f \in [1..(n + 1) -> Seq(S)] : IsFlatten(f, seqs, n + 1)
    OBVIOUS
  <2>1. PICK f \in [1..n -> Seq(S)] : IsFlatten(f, seqs, n)
    BY <1>2
  <2> DEFINE last == IF n = 0 THEN seqs[1] ELSE f[n] \o seqs[n + 1]
             g == [i \in 1..(n + 1) |-> IF i = n + 1 THEN last ELSE f[i]]
  <2>2. last \in Seq(S)
    <3>1. seqs[n + 1] \in Seq(S)
      OBVIOUS
    <3>2. CASE n = 0
      BY <3>1, <3>2
    <3>3. CASE n # 0
      <4>1. f[n] \in Seq(S)
        BY <3>3
      <4> QED
        BY <3>1, <3>3, <4>1
    <3> QED
      BY <3>2, <3>3
  <2> HIDE DEF last
  <2>3. g \in [1..(n + 1) -> Seq(S)]
    BY <2>2
  <2>4. IsFlatten(g, seqs, n + 1)
    <3> SUFFICES ASSUME NEW i \in 1..(n + 1)
                 PROVE  g[i] = IF i = 1 THEN seqs[i] ELSE g[i - 1] \o seqs[i]
      BY DEF IsFlatten
    <3>1. CASE i = n + 1
      <4>1. CASE n = 0
        BY <3>1, <4>1 DEF last
      <4>2. CASE n # 0
        <5>1. g[i] = last /\ g[i - 1] = f[n] /\ i # 1 /\ i - 1 = n
          BY <3>1, <4>2
        <5> QED
          BY <3>1, <4>2, <5>1 DEF last
      <4> QED
        BY <4>1, <4>2
    <3>2. CASE i # n + 1
      <4>1. i \in 1..n /\ g[i] = f[i]
        BY <3>2
      <4>2. i # 1 => g[i - 1] = f[i - 1]
        BY <4>1
      <4> QED
        BY <2>1, <4>1, <4>2 DEF IsFlatten
    <3> QED
      BY <3>1, <3>2
  <2> QED
    BY <2>3, <2>4
<1> HIDE DEF P
<1>3. \A n \in Nat : n \in P
  BY <1>1, <1>2, Induction
<1> QED
  BY <1>3 DEF P

(* There is only one, so that CHOOSE can but find it. *)
LEMMA FlattenUnique ==
    ASSUME NEW seqs, NEW f, NEW g, NEW m \in Nat,
           IsFlatten(f, seqs, m), IsFlatten(g, seqs, m)
    PROVE  \A n \in 1..m : f[n] = g[n]
<1> DEFINE P == {n \in Nat : n \in 1..m => f[n] = g[n]}
<1>1. 0 \in P
  OBVIOUS
<1>2. ASSUME NEW n \in Nat, n \in P PROVE n + 1 \in P
  <2> SUFFICES ASSUME n + 1 \in 1..m PROVE f[n + 1] = g[n + 1]
    OBVIOUS
  <2>1. CASE n = 0
    BY <2>1 DEF IsFlatten
  <2>2. CASE n # 0
    <3>1. f[n] = g[n] /\ (n + 1) - 1 = n /\ n + 1 # 1
      BY <1>2, <2>2
    <3>2. f[n + 1] = f[(n + 1) - 1] \o seqs[n + 1] /\ g[n + 1] = g[(n + 1) - 1] \o seqs[n + 1]
      BY <3>1 DEF IsFlatten
    <3> QED
      BY <3>1, <3>2
  <2> QED
    BY <2>1, <2>2
<1> HIDE DEF P
<1>3. \A n \in Nat : n \in P
  BY <1>1, <1>2, Induction
<1> QED
  BY <1>3 DEF P

LEMMA FlattenIs ==
    ASSUME NEW S, NEW seqs \in Seq(Seq(S)), seqs # <<>>
    PROVE  \E f \in [1..Len(seqs) -> Seq(S)] :
              /\ IsFlatten(f, seqs, Len(seqs))
              /\ FlattenSeq(seqs) = f[Len(seqs)]
<1> DEFINE n == Len(seqs)
           D(f) == [i \in 1..n |-> IF i = 1 THEN seqs[i] ELSE f[i - 1] \o seqs[i]]
           flatten == CHOOSE f : f = D(f)
<1>n. n \in Nat \ {0}
  OBVIOUS
<1>1. FlattenSeq(seqs) = flatten[n]
  BY <1>n DEF FlattenSeq
<1>2. PICK f \in [1..n -> Seq(S)] : IsFlatten(f, seqs, n)
  BY <1>n, FlattenExists
<1>3. f = D(f)
  BY <1>2 DEF IsFlatten
<1>4. flatten = D(flatten)
  BY <1>3
<1> HIDE DEF flatten
<1>5. IsFlatten(flatten, seqs, n)
  BY <1>4 DEF IsFlatten
<1>6. n \in 1..n /\ \A i \in 1..n : flatten[i] = f[i]
  BY <1>2, <1>5, <1>n, FlattenUnique
<1> QED
  BY <1>1, <1>2, <1>6

LEMMA FlattenEmpty == FlattenSeq(<<>>) = <<>>
  BY DEF FlattenSeq

LEMMA FlattenType ==
    ASSUME NEW S, NEW seqs \in Seq(Seq(S))
    PROVE  FlattenSeq(seqs) \in Seq(S)
<1>1. CASE seqs = <<>>
  <2>1. FlattenSeq(seqs) = <<>>
    BY <1>1, FlattenEmpty
  <2> QED
    BY <2>1
<1>2. CASE seqs # <<>>
  <2>1. PICK f \in [1..Len(seqs) -> Seq(S)] : FlattenSeq(seqs) = f[Len(seqs)]
    BY <1>2, FlattenIs
  <2>2. Len(seqs) \in 1..Len(seqs)
    BY <1>2
  <2> QED
    BY <2>1, <2>2
<1> QED
  BY <1>1, <1>2

(* What comes last is joined last. *)
LEMMA FlattenAppend ==
    ASSUME NEW S, NEW seqs \in Seq(Seq(S)), NEW s \in Seq(S)
    PROVE  FlattenSeq(Append(seqs, s)) = FlattenSeq(seqs) \o s
<1> DEFINE t == Append(seqs, s)
           n == Len(seqs)
<1>1. /\ t \in Seq(Seq(S)) /\ t # <<>> /\ Len(t) = n + 1 /\ n \in Nat
      /\ t[n + 1] = s /\ \A i \in 1..n : t[i] = seqs[i]
  BY AppendProperties
<1> HIDE DEF t
<1>2. PICK g \in [1..(n + 1) -> Seq(S)] :
         IsFlatten(g, t, n + 1) /\ FlattenSeq(t) = g[n + 1]
  BY <1>1, FlattenIs
<1>3. CASE seqs = <<>>
  <2>1. g[n + 1] = s
    BY <1>1, <1>2, <1>3 DEF IsFlatten
  <2> QED
    BY <1>2, <1>3, <2>1, FlattenEmpty DEF t
<1>4. CASE seqs # <<>>
  <2>1. PICK f \in [1..n -> Seq(S)] :
           IsFlatten(f, seqs, n) /\ FlattenSeq(seqs) = f[n]
    BY <1>4, FlattenIs
  <2>2. IsFlatten(g, seqs, n)
    <3>1. \A i \in 1..n : i \in 1..(n + 1) /\ t[i] = seqs[i]
      BY <1>1
    <3> QED
      BY <1>2, <3>1 DEF IsFlatten
  <2>3. g[n] = f[n] /\ n # 0
    BY <1>1, <1>4, <2>1, <2>2, FlattenUnique
  <2>4. g[n + 1] = g[(n + 1) - 1] \o t[n + 1] /\ (n + 1) - 1 = n
    <3>1. n + 1 \in 1..(n + 1) /\ n + 1 # 1 /\ (n + 1) - 1 = n
      BY <1>1, <2>3
    <3> HIDE DEF n
    <3> QED
      BY <1>2, <3>1 DEF IsFlatten
  <2> QED
    BY <1>1, <1>2, <2>1, <2>3, <2>4 DEF t
<1> QED
  BY <1>3, <1>4

-----------------------------------------------------------------------------
(* The last rows.                                                          *)

(* The last n rows of s are rows of s, and at most n. *)
LEMMA LastRowsFacts ==
    ASSUME NEW S, NEW n \in Nat, NEW s \in Seq(S)
    PROVE  /\ LastRows(n, s) \in Seq(S)
           /\ Len(LastRows(n, s)) = IF Len(s) <= n THEN Len(s) ELSE n
           /\ \A i \in 1..Len(LastRows(n, s)) :
                 LastRows(n, s)[i] = s[Len(s) - Len(LastRows(n, s)) + i]
<1>1. Len(s) \in Nat /\ \A i \in 1..Len(s) : s[i] \in S
  OBVIOUS
<1>2. CASE Len(s) <= n
  BY <1>1, <1>2 DEF LastRows
<1>3. CASE ~(Len(s) <= n)
  <2> DEFINE m == Len(s) - n + 1
  <2>1. m \in Int /\ Len(s) \in Int /\ \A i \in m..Len(s) : s[i] \in S
    BY <1>1, <1>3
  <2>2. LastRows(n, s) = SubSeq(s, m, Len(s))
    BY <1>3 DEF LastRows
  <2>3. /\ SubSeq(s, m, Len(s)) \in Seq(S)
        /\ Len(SubSeq(s, m, Len(s))) = IF m <= Len(s) THEN Len(s) - m + 1 ELSE 0
        /\ \A i \in 1..(Len(s) - m + 1) : SubSeq(s, m, Len(s))[i] = s[m + i - 1]
    BY <2>1, SubSeqProperties
  <2>4. Len(SubSeq(s, m, Len(s))) = n
    BY <1>1, <1>3, <2>3
  <2>5. Len(s) - m + 1 = n
    BY <1>1
  <2>6. ASSUME NEW i \in 1..n
        PROVE  SubSeq(s, m, Len(s))[i] = s[Len(s) - n + i]
    <3>1. m + i - 1 = Len(s) - n + i
      BY <1>1
    <3> QED
      BY <2>3, <2>5, <3>1
  <2> HIDE DEF m
  <2> QED
    BY <1>3, <2>2, <2>3, <2>4, <2>6
<1> QED
  BY <1>2, <1>3

(* To cut them to more rows before changes nothing. *)
LEMMA LastRowsTwice ==
    ASSUME NEW S, NEW n \in Nat, NEW m \in Nat, NEW s \in Seq(S), n <= m
    PROVE  LastRows(n, LastRows(m, s)) = LastRows(n, s)
<1> DEFINE t == LastRows(m, s)
           u == LastRows(n, t)
           v == LastRows(n, s)
<1>0. Len(s) \in Nat
  OBVIOUS
<1>1. /\ t \in Seq(S) /\ Len(t) = IF Len(s) <= m THEN Len(s) ELSE m
      /\ \A i \in 1..Len(t) : t[i] = s[Len(s) - Len(t) + i]
  BY LastRowsFacts
<1>2. /\ v \in Seq(S) /\ Len(v) = IF Len(s) <= n THEN Len(s) ELSE n
      /\ \A i \in 1..Len(v) : v[i] = s[Len(s) - Len(v) + i]
  BY LastRowsFacts
<1> HIDE DEF t
<1>3. /\ u \in Seq(S) /\ Len(u) = IF Len(t) <= n THEN Len(t) ELSE n
      /\ \A i \in 1..Len(u) : u[i] = t[Len(t) - Len(u) + i]
  BY <1>1, LastRowsFacts
<1> HIDE DEF u, v
<1>4. Len(u) = Len(v)
  BY <1>0, <1>1, <1>2, <1>3
<1>5. ASSUME NEW i \in 1..Len(u) PROVE u[i] = v[i]
  <2>1. Len(t) \in Nat /\ Len(u) \in Nat /\ Len(u) <= Len(t) /\ Len(t) <= Len(s)
    <3>1. Len(u) = IF Len(t) <= n THEN Len(t) ELSE n
      BY <1>3
    <3>2. Len(t) = IF Len(s) <= m THEN Len(s) ELSE m
      BY <1>1
    <3> QED
      BY <1>0, <3>1, <3>2
  <2>2. /\ Len(t) - Len(u) + i \in 1..Len(t)
        /\ Len(s) - Len(t) + (Len(t) - Len(u) + i) = Len(s) - Len(u) + i
    BY <1>0, <2>1
  <2> QED
    BY <1>1, <1>2, <1>3, <1>4, <2>2
<1>6. u = v
  BY <1>2, <1>3, <1>4, <1>5, SeqEqual
<1> QED
  BY <1>6 DEF t, u, v

(* What is cut off before others are joined would be cut off afterwards. *)
LEMMA LastRowsConcat ==
    ASSUME NEW S, NEW n \in Nat, NEW m \in Nat, NEW a \in Seq(S), NEW b \in Seq(S), n <= m
    PROVE  LastRows(n, LastRows(m, a) \o b) = LastRows(n, a \o b)
<1> DEFINE t == LastRows(m, a)
           tb == t \o b
           ab == a \o b
           u == LastRows(n, tb)
           v == LastRows(n, ab)
<1>0. Len(a) \in Nat /\ Len(b) \in Nat
  OBVIOUS
<1>1. /\ t \in Seq(S) /\ Len(t) = IF Len(a) <= m THEN Len(a) ELSE m
      /\ \A i \in 1..Len(t) : t[i] = a[Len(a) - Len(t) + i]
  BY LastRowsFacts
<1>2. /\ ab \in Seq(S) /\ Len(ab) = Len(a) + Len(b)
      /\ \A i \in 1..(Len(a) + Len(b)) :
            ab[i] = IF i <= Len(a) THEN a[i] ELSE b[i - Len(a)]
  BY ConcatProperties
<1> HIDE DEF t
<1>3. /\ tb \in Seq(S) /\ Len(tb) = Len(t) + Len(b)
      /\ \A i \in 1..(Len(t) + Len(b)) :
            tb[i] = IF i <= Len(t) THEN t[i] ELSE b[i - Len(t)]
  BY <1>1, ConcatProperties
<1> HIDE DEF tb, ab
<1>4. /\ u \in Seq(S) /\ Len(u) = IF Len(tb) <= n THEN Len(tb) ELSE n
      /\ \A i \in 1..Len(u) : u[i] = tb[Len(tb) - Len(u) + i]
  <2>1. tb \in Seq(S)
    BY <1>3
  <2> QED
    BY <2>1, LastRowsFacts
<1>5. /\ v \in Seq(S) /\ Len(v) = IF Len(ab) <= n THEN Len(ab) ELSE n
      /\ \A i \in 1..Len(v) : v[i] = ab[Len(ab) - Len(v) + i]
  <2>1. ab \in Seq(S)
    BY <1>2
  <2> QED
    BY <2>1, LastRowsFacts
<1> HIDE DEF u, v
<1>6. Len(u) = Len(v)
  BY <1>0, <1>1, <1>2, <1>3, <1>4, <1>5
<1>7. ASSUME NEW i \in 1..Len(u) PROVE u[i] = v[i]
  <2> DEFINE j == Len(tb) - Len(u) + i
             k == Len(ab) - Len(u) + i
  <2>1. /\ j \in 1..(Len(t) + Len(b)) /\ k \in 1..(Len(a) + Len(b))
        /\ u[i] = tb[j] /\ v[i] = ab[k]
        /\ k - Len(a) = j - Len(t)
    <3>1. /\ Len(tb) = Len(t) + Len(b) /\ Len(ab) = Len(a) + Len(b)
          /\ Len(u) <= Len(tb) /\ Len(u) <= Len(ab)
          /\ Len(t) \in Nat /\ Len(u) \in Nat
      <4>1. Len(t) = IF Len(a) <= m THEN Len(a) ELSE m
        BY <1>1
      <4>2. Len(tb) = Len(t) + Len(b) /\ Len(ab) = Len(a) + Len(b)
        BY <1>2, <1>3
      <4>3. /\ Len(u) = IF Len(tb) <= n THEN Len(tb) ELSE n
            /\ Len(v) = IF Len(ab) <= n THEN Len(ab) ELSE n
        BY <1>4, <1>5
      <4> QED
        BY <1>0, <1>6, <4>1, <4>2, <4>3
    <3>2. u[i] = tb[j] /\ v[i] = ab[k]
      BY <1>4, <1>5, <1>6
    <3> QED
      BY <1>0, <3>1, <3>2
  <2> HIDE DEF j, k
  <2>2. CASE j <= Len(t)
    <3>1. k <= Len(a) /\ j \in 1..Len(t) /\ Len(a) - Len(t) + j = k
      BY <1>0, <1>1, <2>1, <2>2
    <3> QED
      BY <1>1, <1>2, <1>3, <2>1, <2>2, <3>1
  <2>3. CASE ~(j <= Len(t))
    <3>1. ~(k <= Len(a))
      BY <1>0, <1>1, <2>1, <2>3
    <3> QED
      BY <1>2, <1>3, <2>1, <2>3, <3>1
  <2> QED
    BY <2>2, <2>3
<1>8. u = v
  BY <1>4, <1>5, <1>6, <1>7, SeqEqual
<1> QED
  BY <1>8 DEF t, tb, ab, u, v

LEMMA ConcatLastRows ==
    ASSUME NEW S, NEW n \in Nat, NEW m \in Nat, NEW a \in Seq(S), NEW b \in Seq(S), n <= m
    PROVE  LastRows(n, a \o LastRows(m, b)) = LastRows(n, a \o b)
<1> DEFINE t == LastRows(m, b)
           at == a \o t
           ab == a \o b
           u == LastRows(n, at)
           v == LastRows(n, ab)
<1>0. Len(a) \in Nat /\ Len(b) \in Nat
  OBVIOUS
<1>1. /\ t \in Seq(S) /\ Len(t) = IF Len(b) <= m THEN Len(b) ELSE m
      /\ \A i \in 1..Len(t) : t[i] = b[Len(b) - Len(t) + i]
  BY LastRowsFacts
<1>2. /\ ab \in Seq(S) /\ Len(ab) = Len(a) + Len(b)
      /\ \A i \in 1..(Len(a) + Len(b)) :
            ab[i] = IF i <= Len(a) THEN a[i] ELSE b[i - Len(a)]
  BY ConcatProperties
<1> HIDE DEF t
<1>3. /\ at \in Seq(S) /\ Len(at) = Len(a) + Len(t)
      /\ \A i \in 1..(Len(a) + Len(t)) :
            at[i] = IF i <= Len(a) THEN a[i] ELSE t[i - Len(a)]
  BY <1>1, ConcatProperties
<1>c. CASE Len(b) <= m
  <2>1. t = b
    BY <1>c DEF LastRows, t
  <2> QED
    BY <2>1 DEF t, at, ab
<1> HIDE DEF at, ab
<1>4. /\ u \in Seq(S) /\ Len(u) = IF Len(at) <= n THEN Len(at) ELSE n
      /\ \A i \in 1..Len(u) : u[i] = at[Len(at) - Len(u) + i]
  <2>1. at \in Seq(S)
    BY <1>3
  <2> QED
    BY <2>1, LastRowsFacts
<1>5. /\ v \in Seq(S) /\ Len(v) = IF Len(ab) <= n THEN Len(ab) ELSE n
      /\ \A i \in 1..Len(v) : v[i] = ab[Len(ab) - Len(v) + i]
  <2>1. ab \in Seq(S)
    BY <1>2
  <2> QED
    BY <2>1, LastRowsFacts
<1> HIDE DEF u, v
<1>d. CASE ~(Len(b) <= m)
  <2>6. Len(u) = Len(v) /\ Len(u) = n /\ Len(t) = m
    BY <1>0, <1>1, <1>2, <1>3, <1>4, <1>5, <1>d
  <2>7. ASSUME NEW i \in 1..Len(u) PROVE u[i] = v[i]
    <3> DEFINE j == Len(at) - Len(u) + i
               k == Len(ab) - Len(u) + i
    <3>1. /\ j \in 1..(Len(a) + Len(t)) /\ k \in 1..(Len(a) + Len(b))
          /\ u[i] = at[j] /\ v[i] = ab[k]
          /\ j > Len(a) /\ k > Len(a)
          /\ j - Len(a) \in 1..Len(t)
          /\ Len(b) - Len(t) + (j - Len(a)) = k - Len(a)
      <4>1. Len(at) = Len(a) + Len(t) /\ Len(ab) = Len(a) + Len(b)
        BY <1>2, <1>3
      <4>2. u[i] = at[j] /\ v[i] = ab[k]
        BY <1>4, <1>5, <2>6
      <4> QED
        BY <1>0, <1>d, <2>6, <4>1, <4>2
    <3> HIDE DEF j, k
    <3>2. ab[k] = b[k - Len(a)]
      BY <1>0, <1>2, <3>1
    <3>3. at[j] = t[j - Len(a)]
      <4>1. ~(j <= Len(a))
        BY <1>0, <3>1
      <4> QED
        BY <1>3, <3>1, <4>1
    <3>4. t[j - Len(a)] = b[Len(b) - Len(t) + (j - Len(a))]
      BY <1>1, <3>1
    <3> QED
      BY <3>1, <3>2, <3>3, <3>4
  <2>8. u = v
    BY <1>4, <1>5, <2>6, <2>7, SeqEqual
  <2> QED
    BY <2>8 DEF t, at, ab, u, v
<1> QED
  BY <1>c, <1>d

(* The rows of the messages that wait for a panel. *)
LEMMA RowsOfFacts ==
    /\ RowsOf(<<>>) = <<>>
    /\ \A b \in Seq(Messages) : RowsOf(b) \in Seq(Rows)
    /\ \A b \in Seq(Messages), m \in Messages : RowsOf(Append(b, m)) = RowsOf(b) \o m.rows
    /\ \A m \in Messages : RowsOf(<<m>>) = m.rows
<1> DEFINE parts(b) == [i \in DOMAIN b |-> b[i].rows]
<1>1. \A m \in Messages : m.rows \in Seq(Rows)
  BY DEF Messages
<1>2. ASSUME NEW b \in Seq(Messages)
      PROVE  /\ parts(b) \in Seq(Seq(Rows)) /\ Len(parts(b)) = Len(b)
             /\ \A i \in 1..Len(b) : parts(b)[i] = b[i].rows
  <2>1. DOMAIN b = 1..Len(b) /\ Len(b) \in Nat /\ \A i \in 1..Len(b) : b[i] \in Messages
    OBVIOUS
  <2>2. parts(b) \in [1..Len(b) -> Seq(Rows)]
        /\ \A i \in 1..Len(b) : parts(b)[i] = b[i].rows
    BY <1>1, <2>1
  <2> HIDE DEF parts
  <2>3. parts(b) \in Seq(Seq(Rows))
    BY <2>1, <2>2
  <2>4. DOMAIN parts(b) = 1..Len(b)
    BY <2>2
  <2>5. Len(parts(b)) = Len(b)
    BY <2>1, <2>3, <2>4, LenProperties
  <2> QED
    BY <2>2, <2>3, <2>5
<1>3. RowsOf(<<>>) = <<>>
  <2>1. parts(<<>>) = <<>>
    OBVIOUS
  <2> QED
    BY <2>1, FlattenEmpty DEF RowsOf
<1>4. ASSUME NEW b \in Seq(Messages), NEW m \in Messages
      PROVE  RowsOf(Append(b, m)) = RowsOf(b) \o m.rows
  <2> DEFINE c == Append(b, m)
  <2>1. c \in Seq(Messages) /\ Len(c) = Len(b) + 1 /\ c[Len(b) + 1] = m
        /\ \A i \in 1..Len(b) : c[i] = b[i]
    BY AppendProperties
  <2>2. DOMAIN c = 1..(Len(b) + 1) /\ DOMAIN b = 1..Len(b) /\ Len(b) \in Nat
    BY <2>1
  <2> HIDE DEF c
  <2> HIDE DEF parts
  <2>3. parts(b) \in Seq(Seq(Rows)) /\ Len(parts(b)) = Len(b)
        /\ \A i \in 1..Len(b) : parts(b)[i] = b[i].rows
    BY <1>2
  <2>4. parts(c) \in Seq(Seq(Rows)) /\ Len(parts(c)) = Len(b) + 1
        /\ \A i \in 1..(Len(b) + 1) : parts(c)[i] = c[i].rows
    BY <1>2, <2>1, <2>2
  <2>5. m.rows \in Seq(Rows)
    BY <1>1
  <2> DEFINE d == Append(parts(b), m.rows)
  <2>6. d \in Seq(Seq(Rows)) /\ Len(d) = Len(b) + 1 /\ d[Len(b) + 1] = m.rows
        /\ \A i \in 1..Len(b) : d[i] = parts(b)[i]
    BY <2>3, <2>5, AppendProperties
  <2> HIDE DEF d
  <2>7. \A i \in 1..(Len(b) + 1) : parts(c)[i] = d[i]
    <3> SUFFICES ASSUME NEW i \in 1..(Len(b) + 1) PROVE parts(c)[i] = d[i]
      OBVIOUS
    <3>1. CASE i = Len(b) + 1
      <4>1. parts(c)[i] = c[i].rows
        BY <2>4
      <4> QED
        BY <2>1, <2>6, <3>1, <4>1
    <3>2. CASE i # Len(b) + 1
      <4>1. i \in 1..Len(b)
        BY <2>2, <3>2
      <4>2. parts(c)[i] = c[i].rows
        BY <2>4
      <4> QED
        BY <2>1, <2>3, <2>6, <4>1, <4>2
    <3> QED
      BY <3>1, <3>2
  <2>8. parts(c) = d
    BY <2>4, <2>6, <2>7, SeqEqual
  <2> QED
    BY <2>3, <2>5, <2>8, FlattenAppend DEF RowsOf, parts, c, d
<1>5. ASSUME NEW m \in Messages PROVE RowsOf(<<m>>) = m.rows
  <2>1. <<>> \in Seq(Messages) /\ Append(<<>>, m) = <<m>> /\ <<>> \o m.rows = m.rows
    BY <1>1
  <2> QED
    BY <1>3, <1>4, <2>1
<1>6. ASSUME NEW b \in Seq(Messages) PROVE RowsOf(b) \in Seq(Rows)
  BY <1>2, FlattenType DEF RowsOf
<1> QED
  BY <1>3, <1>4, <1>5, <1>6

-----------------------------------------------------------------------------
(* A panel and its stream. *)
Short(p) == {sub \in Subscriptions :
                sub.view # None => Len(sub.view.rows) <= MaxLength[p]}

(* What is left of the last packet. *)
Kept(st) == LastRows(st.last, st.rows)

(* When no packet is too long, what a panel has and what waits for it lead *)
(* to what the stream has.                                                 *)
Follows(st, p, view, messages) ==
  ShortPackets =>
    /\ view.schema = st.schema
    /\ p \notin Replaces =>
         LastRows(MaxLength[p], view.rows \o RowsOf(messages)) = LastRows(MaxLength[p], st.rows)
    /\ p \in Replaces /\ messages # <<>> => Last(messages).rows = Kept(st)
    /\ p \in Replaces /\ messages = <<>> => view.rows = FullFrame(st, p, view.error).rows

OnlyValues(messages) == ~Some(messages, "error") /\ ~Some(messages, "schema")

PanelInv(st, p, sub) ==
    /\ MaxLength[p] <= st.maxLength
    /\ sub.canEmit => sub.buffer = <<>>
    /\ sub.buffer = <<>> /\ st.replay # None =>
         sub.view # None /\ (st.replay.kind = "error" => sub.view.error)
    /\ sub.buffer # <<>> => Last(sub.buffer) = st.replay
    /\ sub.view # None /\ OnlyValues(sub.buffer) => Follows(st, p, sub.view, sub.buffer)

LEMMA FullFrameFacts ==
    ASSUME NEW st \in Streams, NEW p \in Panels, NEW error \in BOOLEAN
    PROVE  /\ FullFrame(st, p, error) \in Frames
           /\ FullFrame(st, p, error) # None
           /\ FullFrame(st, p, error).schema = st.schema
           /\ FullFrame(st, p, error).error = error
           /\ Len(FullFrame(st, p, error).rows) <= MaxLength[p]
           /\ p \notin Replaces =>
                FullFrame(st, p, error).rows = LastRows(MaxLength[p], st.rows)
           /\ p \in Replaces /\ ~error =>
                FullFrame(st, p, error).rows = LastRows(MaxLength[p], Kept(st))
<1> DEFINE shown == CASE p \notin Replaces -> st.rows
                      [] p \in Replaces /\ error -> <<>>
                      [] OTHER -> Kept(st)
           f == FullFrame(st, p, error)
<1>1. MaxLength[p] \in Nat
  BY LiveStreamAssumption
<1>2. st.rows \in Seq(Rows) /\ st.last \in Nat /\ st.schema \in Schemas \cup {0}
  BY DEF Streams
<1>3. Kept(st) \in Seq(Rows)
  BY <1>2, LastRowsFacts DEF Kept
<1>4. shown \in Seq(Rows)
  BY <1>2, <1>3
<1>5. f = [schema |-> st.schema, error |-> error, rows |-> LastRows(MaxLength[p], shown)]
  BY DEF FullFrame, Kept
<1>6. p \notin Replaces => shown = st.rows
  OBVIOUS
<1>7. p \in Replaces /\ ~error => shown = Kept(st)
  OBVIOUS
<1> HIDE DEF shown, f
<1>8. LastRows(MaxLength[p], shown) \in Seq(Rows)
      /\ Len(LastRows(MaxLength[p], shown)) <= MaxLength[p]
  <2>1. Len(shown) \in Nat
    BY <1>4
  <2> QED
    BY <1>1, <1>4, <2>1, LastRowsFacts
<1>9. f \in Frames
  BY <1>2, <1>5, <1>8 DEF Frames
<1>10. f # None
  BY <1>9, NoneAssumption
<1> QED
  BY <1>5, <1>6, <1>7, <1>8, <1>9, <1>10 DEF f

(* What a subscription makes of messages that lead to the stream's rows. *)
LEMMA EmitFacts ==
    ASSUME NEW st \in Streams, NEW p \in Panels, NEW sub \in Short(p),
           NEW messages \in Seq(Messages), messages # <<>>,
           sub.view # None /\ OnlyValues(messages) => Follows(st, p, sub.view, messages)
    PROVE  LET e == Emit(st, p, sub, messages) IN
           /\ e \in Short(p)
           /\ e.canEmit = sub.canEmit
           /\ e.buffer = <<>>
           /\ e.view # None
           /\ Last(messages).kind = "error" => e.view.error
           /\ Follows(st, p, e.view, <<>>)
<1> DEFINE e == Emit(st, p, sub, messages)
           error == Some(messages, "error")
           full == sub.view = None \/ error \/ Some(messages, "schema")
           view == IF full THEN FullFrame(st, p, error)
                   ELSE NewValues(p, sub.view, messages)
<1>0. sub \in Subscriptions /\ MaxLength[p] \in Nat
  BY LiveStreamAssumption DEF Short
<1>1. e = [sub EXCEPT !.buffer = <<>>, !.view = view]
  BY DEF Emit
<1>2. error \in BOOLEAN
  BY DEF Some
<1>3. Last(messages) = messages[Len(messages)] /\ Len(messages) \in DOMAIN messages
      /\ Last(messages) \in Messages
  BY DEF Last
<1>4. Last(messages).kind = "error" => error
  BY <1>3 DEF Some
<1>5. Last(messages).rows \in Seq(Rows)
  BY <1>3 DEF Messages
<1> DEFINE Good == /\ view \in Frames /\ view # None
                   /\ Len(view.rows) <= MaxLength[p]
                   /\ Last(messages).kind = "error" => view.error
                   /\ Follows(st, p, view, <<>>)
<1>6. ASSUME full PROVE Good
  <2>1. view = FullFrame(st, p, error)
    BY <1>6
  <2>2. view.error = error /\ view.schema = st.schema /\ view \in Frames /\ view # None
        /\ Len(view.rows) <= MaxLength[p]
    BY <1>2, <2>1, FullFrameFacts
  <2>3. p \notin Replaces => LastRows(MaxLength[p], view.rows \o RowsOf(<<>>))
                              = LastRows(MaxLength[p], st.rows)
    <3> SUFFICES ASSUME p \notin Replaces
                 PROVE  LastRows(MaxLength[p], view.rows \o <<>>) = LastRows(MaxLength[p], st.rows)
      BY RowsOfFacts
    <3>1. view.rows = LastRows(MaxLength[p], st.rows)
      BY <1>2, <2>1, FullFrameFacts
    <3>2. view.rows \in Seq(Rows) /\ st.rows \in Seq(Rows)
      BY <2>2 DEF Frames, Streams
    <3>3. view.rows \o <<>> = view.rows
      BY <3>2
    <3> QED
      BY <1>0, <3>1, <3>2, <3>3, LastRowsTwice
  <2>4. view.rows = FullFrame(st, p, view.error).rows
    BY <2>1, <2>2
  <2> HIDE DEF view, error
  <2>5. Follows(st, p, view, <<>>)
    BY <2>2, <2>3, <2>4 DEF Follows
  <2>6. Last(messages).kind = "error" => view.error
    BY <1>4, <2>2, Zenon
  <2> QED
    BY <2>2, <2>5, <2>6, Zenon
<1>7. ASSUME ~full PROVE Good
  <2> DEFINE rows == LastRows(MaxLength[p],
                       IF p \in Replaces THEN Last(messages).rows
                       ELSE sub.view.rows \o RowsOf(messages))
  <2>1. /\ sub.view # None /\ ~error
        /\ Follows(st, p, sub.view, messages)
        /\ sub.view \in Frames
    BY <1>0, <1>7 DEF OnlyValues, Subscriptions
  <2>2. view = [sub.view EXCEPT !.error = FALSE, !.rows = rows]
    BY <1>7 DEF NewValues
  <2>3. rows \in Seq(Rows) /\ Len(rows) <= MaxLength[p]
    <3>1. sub.view.rows \o RowsOf(messages) \in Seq(Rows)
      BY <2>1, RowsOfFacts DEF Frames
    <3> DEFINE s == IF p \in Replaces THEN Last(messages).rows
                    ELSE sub.view.rows \o RowsOf(messages)
    <3>2. s \in Seq(Rows)
      BY <1>5, <3>1
    <3> HIDE DEF s
    <3>3. Len(s) \in Nat
      BY <3>2
    <3>4. rows = LastRows(MaxLength[p], s)
      BY DEF s
    <3> HIDE DEF rows
    <3> QED
      BY <1>0, <3>2, <3>3, <3>4, LastRowsFacts
  <2> HIDE DEF rows
  <2>4. view.error = FALSE /\ view.rows = rows /\ view.schema = sub.view.schema
        /\ view \in Frames
    <3> HIDE DEF view
    <3> QED
      BY <2>1, <2>2, <2>3 DEF Frames
  <2>5. view # None
    BY <2>4, NoneAssumption
  <2>6. ~(Last(messages).kind = "error")
    BY <1>4, <2>1
  <2> HIDE DEF view, error, full
  <2>7. st.rows \in Seq(Rows) /\ view.rows \o <<>> = view.rows
    BY <2>3, <2>4 DEF Streams
  <2>8. ShortPackets /\ p \notin Replaces => rows = LastRows(MaxLength[p], st.rows)
    BY <2>1 DEF Follows, rows
  <2>9. ShortPackets /\ p \notin Replaces =>
          LastRows(MaxLength[p], view.rows \o RowsOf(<<>>)) = LastRows(MaxLength[p], st.rows)
    <3> SUFFICES ASSUME ShortPackets, p \notin Replaces
                 PROVE  LastRows(MaxLength[p], rows) = LastRows(MaxLength[p], st.rows)
      BY <2>4, <2>7, RowsOfFacts
    <3>1. rows = LastRows(MaxLength[p], st.rows)
      BY <2>8
    <3> QED
      BY <1>0, <2>7, <3>1, LastRowsTwice
  <2>10. ShortPackets /\ p \in Replaces => view.rows = FullFrame(st, p, view.error).rows
    <3> SUFFICES ASSUME ShortPackets, p \in Replaces PROVE view.rows = FullFrame(st, p, FALSE).rows
      BY <2>4
    <3>1. rows = LastRows(MaxLength[p], Kept(st))
      BY <2>1 DEF Follows, rows
    <3> QED
      BY <2>4, <3>1, FullFrameFacts
  <2>11. ShortPackets => view.schema = st.schema
    BY <2>1, <2>4 DEF Follows
  <2>12. Follows(st, p, view, <<>>)
    BY <2>9, <2>10, <2>11 DEF Follows
  <2>13. Len(view.rows) <= MaxLength[p]
    BY <2>3, <2>4
  <2> QED
    BY <2>4, <2>5, <2>6, <2>12, <2>13, Zenon
<1>8. Good
  <2> HIDE DEF Good, full
  <2> QED
    BY <1>6, <1>7
<1> HIDE DEF view
<1>9. e.canEmit = sub.canEmit /\ e.buffer = <<>> /\ e.view = view
  BY <1>0, <1>1 DEF Subscriptions
<1>10. e \in Subscriptions
  <2>1. <<>> \in Seq(Messages)
    OBVIOUS
  <2> QED
    BY <1>0, <1>1, <1>8, <2>1 DEF Subscriptions
<1>11. e \in Short(p)
  BY <1>8, <1>9, <1>10 DEF Short
<1> QED
  BY <1>8, <1>9, <1>11

(* What a message tells about the stream st1 that comes after st0. *)
Tells(st0, st1, m) ==
    /\ st1.channel = st0.channel
    /\ st1.timer = st0.timer
    /\ st1.maxLength = st0.maxLength
    /\ m.kind = "error" => st1 = st0
    /\ m.kind = "values" /\ MaxPacket <= st0.maxLength =>
         /\ st1.schema = st0.schema
         /\ m.rows = Kept(st1)
         /\ \A n \in Nat, s \in Seq(Rows) :
              n <= st0.maxLength /\ LastRows(n, s) = LastRows(n, st0.rows)
                => LastRows(n, s \o m.rows) = LastRows(n, st1.rows)

LEMMA LastOfAppend ==
    ASSUME NEW S, NEW s \in Seq(S), NEW x \in S
    PROVE  Last(Append(s, x)) = x /\ Append(s, x) \in Seq(S) /\ Append(s, x) # <<>>
  BY AppendProperties DEF Last

LEMMA SomeOfAppend ==
    ASSUME NEW s \in Seq(Messages), NEW m \in Messages, NEW kind
    PROVE  Some(Append(s, m), kind) <=> Some(s, kind) \/ m.kind = kind
<1>1. /\ Len(s) \in Nat
      /\ DOMAIN s = 1..Len(s) /\ DOMAIN Append(s, m) = 1..(Len(s) + 1)
      /\ \A i \in 1..Len(s) : Append(s, m)[i] = s[i]
      /\ Append(s, m)[Len(s) + 1] = m
  OBVIOUS
<1> QED
  BY <1>1 DEF Some

LEMMA SingleIsAppend == \A m : Append(<<>>, m) = <<m>>
  OBVIOUS

(* A message moves a panel along with its stream. *)
LEMMA ReceiveFacts ==
    ASSUME NEW st0 \in Streams, NEW st1 \in Streams, NEW p \in Panels, NEW sub \in Short(p),
           NEW m \in Messages, Tells(st0, st1, m), PanelInv(st0, p, sub)
    PROVE  /\ Receive(st1, p, sub, m) \in Short(p)
           /\ PanelInv([st1 EXCEPT !.replay = m], p, Receive(st1, p, sub, m))
<1> DEFINE st == [st1 EXCEPT !.replay = m]
           e == Receive(st1, p, sub, m)
<1>0. sub \in Subscriptions /\ MaxLength[p] \in Nat /\ sub.buffer \in Seq(Messages)
  BY LiveStreamAssumption DEF Short, Subscriptions
<1>1. /\ st.replay = m /\ st.maxLength = st1.maxLength /\ st.schema = st1.schema
      /\ st.rows = st1.rows /\ st.last = st1.last /\ st.maxLength = st0.maxLength
  BY DEF Streams, Tells
<1>2. Kept(st) = Kept(st1)
  BY <1>1 DEF Kept
<1>3. \A error : FullFrame(st, p, error) = FullFrame(st1, p, error)
  BY <1>1 DEF FullFrame
<1>4. \A view, messages : Follows(st, p, view, messages) <=> Follows(st1, p, view, messages)
  BY <1>1, <1>2, <1>3 DEF Follows
<1>m. m # None
  BY NoneAssumption
<1> HIDE DEF st
(* What the panel has and the message lead to the stream's rows *)
<1>5. ASSUME sub.view # None, OnlyValues(Append(sub.buffer, m))
      PROVE  Follows(st1, p, sub.view, Append(sub.buffer, m))
  <2> SUFFICES ASSUME ShortPackets PROVE Follows(st1, p, sub.view, Append(sub.buffer, m))
    BY DEF Follows
  <2>1. OnlyValues(sub.buffer) /\ m.kind = "values"
    <3>1. m.kind \in {"error", "schema", "values"}
      BY DEF Messages
    <3> QED
      BY <1>0, <1>5, <3>1, SomeOfAppend DEF OnlyValues
  <2>2. Follows(st0, p, sub.view, sub.buffer)
    BY <1>5, <2>1 DEF PanelInv
  <2>3. sub.view \in Frames /\ sub.view.rows \in Seq(Rows)
    BY <1>0, <1>5 DEF Subscriptions, Frames
  <2>4. RowsOf(sub.buffer) \in Seq(Rows) /\ m.rows \in Seq(Rows)
        /\ RowsOf(Append(sub.buffer, m)) = RowsOf(sub.buffer) \o m.rows
    BY <1>0, RowsOfFacts DEF Messages
  <2> DEFINE s == sub.view.rows \o RowsOf(sub.buffer)
  <2> DEFINE old == sub.view.rows
             coming == RowsOf(sub.buffer)
             new == m.rows
  <2>5. s \in Seq(Rows) /\ sub.view.rows \o (RowsOf(sub.buffer) \o m.rows) = s \o m.rows
    <3>1. old \in Seq(Rows) /\ coming \in Seq(Rows) /\ new \in Seq(Rows)
      BY <2>3, <2>4
    <3> HIDE DEF old, coming, new
    <3>2. old \o coming \in Seq(Rows) /\ old \o (coming \o new) = (old \o coming) \o new
      BY <3>1, ConcatAssociative
    <3> QED
      BY <3>2 DEF old, coming, new
  <2>6. MaxLength[p] <= st0.maxLength /\ MaxPacket <= st0.maxLength
    <3>1. MaxLength[p] <= st0.maxLength /\ MaxPacket <= MaxLength[p]
      BY DEF PanelInv, ShortPackets
    <3>2. {MaxPacket, MaxLength[p], st0.maxLength} \subseteq Nat
      BY LiveStreamAssumption DEF Streams
    <3> QED
      BY <3>1, <3>2
  <2>7. sub.view.schema = st1.schema
    BY <2>1, <2>2, <2>6 DEF Follows, Tells
  <2>8. p \notin Replaces =>
          LastRows(MaxLength[p], sub.view.rows \o RowsOf(Append(sub.buffer, m)))
            = LastRows(MaxLength[p], st1.rows)
    <3> SUFFICES ASSUME p \notin Replaces
                 PROVE  LastRows(MaxLength[p], s \o m.rows) = LastRows(MaxLength[p], st1.rows)
      BY <2>4, <2>5
    <3>1. LastRows(MaxLength[p], s) = LastRows(MaxLength[p], st0.rows)
      BY <2>2 DEF Follows
    <3> HIDE DEF s
    <3> QED
      BY <1>0, <2>1, <2>5, <2>6, <3>1 DEF Tells
  <2>9. Last(Append(sub.buffer, m)).rows = Kept(st1) /\ Append(sub.buffer, m) # <<>>
    BY <1>0, <2>1, <2>6, LastOfAppend DEF Tells
  <2> QED
    BY <2>7, <2>8, <2>9 DEF Follows
<1>6. CASE sub.canEmit
  <2>1. sub.buffer = <<>> /\ e = Emit(st1, p, sub, <<m>>)
    BY <1>6 DEF PanelInv, Receive
  <2>2. <<m>> = Append(sub.buffer, m)
    BY <2>1, SingleIsAppend
  <2>3. sub.view # None /\ OnlyValues(<<m>>) => Follows(st1, p, sub.view, <<m>>)
    BY <1>5, <2>2
  <2>4. <<m>> \in Seq(Messages) /\ <<m>> # <<>> /\ Last(<<m>>) = m
    BY <1>0, <2>2, LastOfAppend
  <2> DEFINE msgs == <<m>>
  <2> HIDE DEF msgs
  <2>5. /\ e \in Short(p)
        /\ e.canEmit = sub.canEmit
        /\ e.buffer = <<>>
        /\ e.view # None
        /\ m.kind = "error" => e.view.error
        /\ Follows(st1, p, e.view, <<>>)
    <3>1. /\ msgs \in Seq(Messages) /\ msgs # <<>> /\ Last(msgs) = m
          /\ sub.view # None /\ OnlyValues(msgs) => Follows(st1, p, sub.view, msgs)
          /\ e = Emit(st1, p, sub, msgs)
      BY <2>1, <2>3, <2>4 DEF msgs
    <3> HIDE DEF e
    <3> QED
      BY <3>1, EmitFacts
  <2> HIDE DEF e
  <2>6. PanelInv(st, p, e)
    BY <1>1, <1>4, <2>5 DEF PanelInv, Tells
  <2> QED
    BY <2>5, <2>6 DEF st, e
<1>7. CASE ~sub.canEmit
  <2>1. e = [sub EXCEPT !.buffer = Append(sub.buffer, m)]
    BY <1>7 DEF Receive
  <2>2. Append(sub.buffer, m) \in Seq(Messages) /\ Append(sub.buffer, m) # <<>>
        /\ Last(Append(sub.buffer, m)) = m
    BY <1>0, LastOfAppend
  <2> HIDE DEF e
  <2>3. /\ e.canEmit = sub.canEmit /\ e.view = sub.view /\ e.buffer = Append(sub.buffer, m)
        /\ e \in Subscriptions
    BY <1>0, <2>1, <2>2 DEF Subscriptions
  <2>4. e \in Short(p)
    BY <2>3 DEF Short
  <2>5. PanelInv(st, p, e)
    <3>1. MaxLength[p] <= st.maxLength
      BY <1>1 DEF PanelInv
    <3>2. e.view # None /\ OnlyValues(e.buffer) => Follows(st, p, e.view, e.buffer)
      BY <1>4, <1>5, <2>3
    <3> QED
      BY <1>1, <1>7, <2>2, <2>3, <3>1, <3>2 DEF PanelInv
  <2> QED
    BY <2>4, <2>5 DEF st, e
<1> QED
  BY <1>6, <1>7

(* StreamingDataFrame.push. *)
LEMMA LastRowsOfConcat ==
    ASSUME NEW S, NEW n \in Nat, NEW a \in Seq(S), NEW b \in Seq(S), n <= Len(b)
    PROVE  LastRows(n, a \o b) = LastRows(n, b)
<1> DEFINE ab == a \o b
           u == LastRows(n, ab)
           v == LastRows(n, b)
<1>0. Len(a) \in Nat /\ Len(b) \in Nat
  OBVIOUS
<1>1. /\ ab \in Seq(S) /\ Len(ab) = Len(a) + Len(b)
      /\ \A i \in 1..(Len(a) + Len(b)) :
            ab[i] = IF i <= Len(a) THEN a[i] ELSE b[i - Len(a)]
  BY ConcatProperties
<1> HIDE DEF ab
<1>2. /\ u \in Seq(S) /\ Len(u) = n
      /\ \A i \in 1..Len(u) : u[i] = ab[Len(ab) - Len(u) + i]
  <2>1. ab \in Seq(S) /\ (IF Len(ab) <= n THEN Len(ab) ELSE n) = n
    BY <1>0, <1>1
  <2> QED
    BY <2>1, LastRowsFacts
<1>3. /\ v \in Seq(S) /\ Len(v) = n
      /\ \A i \in 1..Len(v) : v[i] = b[Len(b) - Len(v) + i]
  <2>1. (IF Len(b) <= n THEN Len(b) ELSE n) = n
    BY <1>0
  <2> QED
    BY <2>1, LastRowsFacts
<1> HIDE DEF u, v
<1>4. ASSUME NEW i \in 1..n PROVE u[i] = v[i]
  <2> DEFINE j == Len(a) + Len(b) - n + i
  <2>1. j \in 1..(Len(a) + Len(b)) /\ ~(j <= Len(a)) /\ j - Len(a) = Len(b) - n + i
    BY <1>0
  <2>2. u[i] = ab[j] /\ v[i] = b[j - Len(a)]
    BY <1>1, <1>2, <1>3, <2>1
  <2> HIDE DEF j
  <2> QED
    BY <1>1, <2>1, <2>2
<1>5. u = v
  BY <1>2, <1>3, <1>4, SeqEqual
<1> QED
  BY <1>5 DEF u, v, ab

LEMMA PushFacts ==
    ASSUME NEW st0 \in Streams, NEW packet \in Packets
    PROVE  LET st1 == Push(st0, packet)
               m == IF st1.schema # st0.schema
                    THEN [kind |-> "schema", rows |-> <<>>]
                    ELSE [kind |-> "values", rows |-> LastPacket(st1)]
           IN  /\ st1 \in Streams
               /\ m \in Messages
               /\ Tells(st0, st1, m)
<1> DEFINE st1 == Push(st0, packet)
           M == st0.maxLength
           a == st0.rows
           b == packet.rows
           rows == IF <<>> \in {a, b} THEN a \o b ELSE LastRows(M, a \o b)
           last == IF Len(b) <= Len(rows) THEN Len(b) ELSE Len(b) - Len(rows)
           m == IF st1.schema # st0.schema
                THEN [kind |-> "schema", rows |-> <<>>]
                ELSE [kind |-> "values", rows |-> LastPacket(st1)]
<1>1. /\ a \in Seq(Rows) /\ b \in Seq(Rows) /\ M \in Nat /\ Len(b) \in Nat
      /\ a \o b \in Seq(Rows)
      /\ packet.schema \in Schemas \cup {0}
      /\ Len(b) <= MaxPacket
  BY DEF Streams, Packets
<1>2. rows \in Seq(Rows)
  BY <1>1, LastRowsFacts
<1>3. rows = a \o b \/ rows = LastRows(M, a \o b)
  OBVIOUS
<1>4. /\ st1 \in Streams
      /\ st1.rows = rows /\ st1.last = Len(b) /\ st1.maxLength = M
      /\ st1.channel = st0.channel /\ st1.timer = st0.timer
  <2>1. st1 = [st0 EXCEPT !.schema = IF packet.schema = 0 THEN st0.schema ELSE packet.schema,
                          !.last = Len(b), !.rows = rows]
    BY DEF Push
  <2> HIDE DEF rows, st1
  <2> QED
    BY <1>1, <1>2, <2>1 DEF Streams
<1> HIDE DEF st1, rows
<1>5. m \in Messages
  <2>1. LastPacket(st1) = LastRows(last, rows) /\ last \in Nat
    BY <1>1, <1>2, <1>4 DEF LastPacket
  <2>2. LastPacket(st1) \in Seq(Rows)
    BY <1>2, <2>1, LastRowsFacts
  <2> QED
    BY <2>2 DEF Messages
(* The packet is not cut, and the rest is only cut as far as is kept *)
<1>6. ASSUME MaxPacket <= M
      PROVE  /\ LastPacket(st1) = b
             /\ Kept(st1) = b
             /\ \A n \in Nat : n <= M => LastRows(n, rows) = LastRows(n, a \o b)
  <2>1. Len(b) <= M
    BY <1>1, <1>6, LiveStreamAssumption
  <2>2. ASSUME NEW n \in Nat, n <= M PROVE LastRows(n, rows) = LastRows(n, a \o b)
    <3> DEFINE ab == a \o b
    <3>1. ab \in Seq(Rows) /\ M \in Nat /\ (rows = ab \/ rows = LastRows(M, ab))
      BY <1>1, <1>3
    <3> HIDE DEF ab, M
    <3>2. LastRows(n, LastRows(M, ab)) = LastRows(n, ab)
      BY <2>2, <3>1, LastRowsTwice
    <3>3. LastRows(n, rows) = LastRows(n, ab)
      BY <3>1, <3>2
    <3> QED
      BY <3>3 DEF ab
  <2>3. LastRows(Len(b), rows) = LastRows(Len(b), a \o b)
    BY <1>1, <2>1, <2>2
  <2>4. LastRows(Len(b), a \o b) = LastRows(Len(b), b)
    BY <1>1, LastRowsOfConcat
  <2>5. LastRows(Len(b), b) = b
    BY <1>1 DEF LastRows
  <2>6. Len(b) <= Len(rows)
    <3>1. Len(LastRows(Len(b), rows)) = IF Len(rows) <= Len(b) THEN Len(rows) ELSE Len(b)
      BY <1>1, <1>2, LastRowsFacts
    <3>2. Len(rows) \in Nat
      BY <1>2
    <3> QED
      BY <1>1, <2>3, <2>4, <2>5, <3>1, <3>2
  <2> QED
    BY <1>4, <2>2, <2>3, <2>4, <2>5, <2>6 DEF LastPacket, Kept
<1>7. ASSUME MaxPacket <= M,
             NEW n \in Nat, NEW s \in Seq(Rows), n <= M, LastRows(n, s) = LastRows(n, a)
      PROVE  LastRows(n, s \o b) = LastRows(n, rows)
  <2>1. LastRows(n, LastRows(n, s) \o b) = LastRows(n, s \o b)
        /\ LastRows(n, LastRows(n, a) \o b) = LastRows(n, a \o b)
    BY <1>1, LastRowsConcat
  <2>2. LastRows(n, rows) = LastRows(n, a \o b)
    BY <1>6, <1>7
  <2> QED
    BY <1>7, <2>1, <2>2
<1>8. m.kind # "error" /\ (m.kind = "values" => m.rows = LastPacket(st1) /\ st1.schema = st0.schema)
  OBVIOUS
<1> HIDE DEF m
<1>9. Tells(st0, st1, m)
  BY <1>4, <1>6, <1>7, <1>8 DEF Tells
<1> QED
  BY <1>4, <1>5, <1>9 DEF m, st1

-----------------------------------------------------------------------------
(* The stream with its panels.                                             *)

StreamInv(w) ==
    /\ w.stream \in Streams
    /\ w.panel \in [Panels -> Subscriptions \cup {None}]
    /\ \A p \in Panels : w.panel[p] # None =>
          w.panel[p] \in Short(p) /\ PanelInv(w.stream, p, w.panel[p])

(* Nobody comes or goes, and the stream stays that of its channel. *)
SamePanels(w, v) ==
    /\ v.stream.channel = w.stream.channel
    /\ v.stream.timer = w.stream.timer
    /\ \A p \in Panels : v.panel[p] = None <=> w.panel[p] = None

LEMMA BroadcastFacts ==
    ASSUME NEW w, StreamInv(w), NEW st1 \in Streams,
           NEW m \in Messages, Tells(w.stream, st1, m)
    PROVE  LET v == Broadcast([stream |-> st1, panel |-> w.panel], m)
           IN  StreamInv(v) /\ SamePanels(w, v)
<1> DEFINE v == Broadcast([stream |-> st1, panel |-> w.panel], m)
           R(p) == Receive(st1, p, w.panel[p], m)
           after == [p \in Panels |-> IF w.panel[p] = None THEN None ELSE R(p)]
<1>1. v = [stream |-> [st1 EXCEPT !.replay = m], panel |-> after]
  BY DEF Broadcast
<1>2. v.stream = [st1 EXCEPT !.replay = m] /\ v.panel = after
  BY <1>1
<1> HIDE DEF v
<1>3. /\ v.stream \in Streams
      /\ v.stream.channel = st1.channel /\ v.stream.timer = st1.timer
  BY <1>2 DEF Streams
<1>4. ASSUME NEW p \in Panels, w.panel[p] # None
      PROVE  R(p) \in Short(p) /\ PanelInv(v.stream, p, R(p)) /\ R(p) \in Subscriptions
             /\ R(p) # None
  <2>1. w.stream \in Streams /\ w.panel[p] \in Short(p) /\ PanelInv(w.stream, p, w.panel[p])
    BY <1>4 DEF StreamInv
  <2>2. R(p) \in Short(p) /\ PanelInv(v.stream, p, R(p))
    BY <1>2, <2>1, ReceiveFacts
  <2>3. R(p) \in Subscriptions
    BY <2>2 DEF Short
  <2>4. R(p) # None
    BY <2>3, NoneAssumption
  <2> QED
    BY <2>2, <2>3, <2>4
<1> HIDE DEF R
<1>5. v.panel \in [Panels -> Subscriptions \cup {None}]
  BY <1>2, <1>4
<1>6. \A p \in Panels : v.panel[p] = IF w.panel[p] = None THEN None ELSE R(p)
  BY <1>2
<1>7. StreamInv(v)
  BY <1>3, <1>4, <1>5, <1>6 DEF StreamInv
<1>8. SamePanels(w, v)
  BY <1>3, <1>4, <1>6 DEF SamePanels, Tells
<1> QED
  BY <1>7, <1>8 DEF v

LEMMA ErrorFacts ==
    ASSUME NEW w, StreamInv(w)
    PROVE  LET v == Broadcast(w, [kind |-> "error", rows |-> <<>>])
           IN  StreamInv(v) /\ SamePanels(w, v)
<1> DEFINE m == [kind |-> "error", rows |-> <<>>]
           u == [stream |-> w.stream, panel |-> w.panel]
<1>1. m \in Messages
  BY DEF Messages
<1>2. m.kind = "error"
  OBVIOUS
<1>3. Broadcast(w, m) = Broadcast(u, m)
  BY DEF Broadcast
<1> HIDE DEF m
<1>4. Tells(w.stream, w.stream, m)
  BY <1>2 DEF Tells
<1>5. w.stream \in Streams
  BY DEF StreamInv
<1>6. StreamInv(Broadcast(u, m)) /\ SamePanels(w, Broadcast(u, m))
  BY <1>1, <1>4, <1>5, BroadcastFacts
<1> HIDE DEF u
<1> QED
  BY <1>3, <1>6 DEF m

LEMMA ProcessFacts ==
    ASSUME NEW w, StreamInv(w), NEW packet \in Packets
    PROVE  StreamInv(Process(w, packet)) /\ SamePanels(w, Process(w, packet))
<1> DEFINE st == Push(w.stream, packet)
           m == IF st.schema # w.stream.schema
                THEN [kind |-> "schema", rows |-> <<>>]
                ELSE [kind |-> "values", rows |-> LastPacket(st)]
           v == Broadcast([stream |-> st, panel |-> w.panel], m)
<1>1. w.stream \in Streams
  BY DEF StreamInv
<1>2. /\ st \in Streams
      /\ m \in Messages /\ Tells(w.stream, st, m)
  BY <1>1, PushFacts
<1>3. Process(w, packet) = v
  BY DEF Process
<1> HIDE DEF st, m
<1>4. StreamInv(v) /\ SamePanels(w, v)
  BY <1>2, BroadcastFacts
<1> HIDE DEF v
<1> QED
  BY <1>3, <1>4

LEMMA SamePanelsTransitive ==
    ASSUME NEW u, NEW v, NEW w, SamePanels(u, v), SamePanels(v, w)
    PROVE  SamePanels(u, w)
  BY DEF SamePanels

LEMMA OnStatusFacts ==
    ASSUME NEW w, StreamInv(w), NEW ch, NEW packet \in Packets \cup {None}
    PROVE  StreamInv(OnStatus(w, ch, packet)) /\ SamePanels(w, OnStatus(w, ch, packet))
<1> DEFINE v == IF ch.error THEN Broadcast(w, [kind |-> "error", rows |-> <<>>]) ELSE w
<1>1. StreamInv(v) /\ SamePanels(w, v)
  <2>1. CASE ch.error
    BY <2>1, ErrorFacts
  <2>2. CASE ~ch.error
    BY <2>2 DEF SamePanels
  <2> QED
    BY <2>1, <2>2
<1>2. OnStatus(w, ch, packet) = IF ch.state = "connected" /\ packet # None
                                THEN Process(v, packet) ELSE v
  BY DEF OnStatus
<1> HIDE DEF v
<1>3. CASE ch.state = "connected" /\ packet # None
  <2>1. StreamInv(Process(v, packet)) /\ SamePanels(v, Process(v, packet))
    BY <1>1, <1>3, ProcessFacts
  <2>2. SamePanels(w, Process(v, packet))
    BY <1>1, <2>1, SamePanelsTransitive
  <2> QED
    BY <1>2, <1>3, <2>1, <2>2
<1>4. CASE ~(ch.state = "connected" /\ packet # None)
  BY <1>1, <1>2, <1>4
<1> QED
  BY <1>3, <1>4

(* get: the stream is made long enough for the panel. *)
LEMMA PreparedFacts ==
    ASSUME NEW w, StreamInv(w), NEW p \in Panels, NEW n \in 1..MaxPacket,
           server.schema \in Schemas
    PROVE  LET v == Prepared(w, p, n)
           IN  /\ StreamInv(v)
               /\ v.stream.channel = w.stream.channel
               /\ v.stream.timer = FALSE
               /\ MaxLength[p] <= v.stream.maxLength
               /\ \A q \in Panels : v.panel[q] = None <=> w.panel[q] = None
<1> DEFINE max == IF w.stream.maxLength < MaxLength[p] THEN MaxLength[p]
                  ELSE w.stream.maxLength
           st == [w.stream EXCEPT !.timer = FALSE, !.maxLength = max]
           u == [stream |-> st, panel |-> w.panel]
           packet == [schema |-> server.schema, rows |-> [i \in 1..n |-> Initial]]
<1>1. /\ w.stream \in Streams
      /\ MaxLength[p] \in Nat /\ w.stream.maxLength \in Nat
  BY LiveStreamAssumption DEF StreamInv, Streams
<1>2. max \in Nat /\ MaxLength[p] <= max /\ w.stream.maxLength <= max
  BY <1>1
<1>d. Prepared(w, p, n) = IF st.last = 0 /\ p \in Framed THEN Process(u, packet) ELSE u
  BY DEF Prepared
<1> HIDE DEF max
<1>3. /\ st \in Streams /\ st.channel = w.stream.channel /\ st.timer = FALSE
      /\ st.maxLength = max /\ st.rows = w.stream.rows /\ st.schema = w.stream.schema
      /\ st.last = w.stream.last /\ st.replay = w.stream.replay
  BY <1>1, <1>2 DEF Streams
<1>4. u.stream = st /\ u.panel = w.panel
  OBVIOUS
<1> HIDE DEF st, u
<1>5. \A q, error : FullFrame(st, q, error) = FullFrame(w.stream, q, error)
  BY <1>3 DEF FullFrame
<1>6. \A q, view, messages : Follows(w.stream, q, view, messages) => Follows(st, q, view, messages)
  BY <1>3, <1>5 DEF Follows, Kept
<1>7. ASSUME NEW q \in Panels, w.panel[q] # None
      PROVE  PanelInv(st, q, w.panel[q])
  <2>1. PanelInv(w.stream, q, w.panel[q])
    BY <1>7 DEF StreamInv
  <2>2. MaxLength[q] <= st.maxLength
    <3>1. MaxLength[q] \in Nat /\ MaxLength[q] <= w.stream.maxLength
      BY <2>1, LiveStreamAssumption DEF PanelInv
    <3> QED
      BY <1>1, <1>2, <1>3, <3>1
  <2> QED
    BY <1>3, <1>6, <2>1, <2>2 DEF PanelInv
<1>8. StreamInv(u)
  BY <1>3, <1>4, <1>7 DEF StreamInv
<1>9. packet \in Packets
  <2>1. [i \in 1..n |-> Initial] \in Seq(Rows) /\ Len([i \in 1..n |-> Initial]) = n
    BY LiveStreamAssumption DEF Initial, Rows
  <2>2. n <= MaxPacket
    BY LiveStreamAssumption
  <2> QED
    BY <2>1, <2>2 DEF Packets
<1> HIDE DEF packet
<1>10. StreamInv(Process(u, packet)) /\ SamePanels(u, Process(u, packet))
  BY <1>8, <1>9, ProcessFacts
<1>11. MaxLength[p] <= Process(u, packet).stream.maxLength
  <2> DEFINE v == Process(u, packet)
  <2>1. v.stream.maxLength = u.stream.maxLength
    BY <1>3, <1>4 DEF Process, Broadcast, Push, Streams
  <2> QED
    BY <1>2, <1>3, <1>4, <2>1
<1>12. CASE st.last = 0 /\ p \in Framed
  BY <1>3, <1>4, <1>d, <1>10, <1>11, <1>12 DEF SamePanels
<1>13. CASE ~(st.last = 0 /\ p \in Framed)
  BY <1>2, <1>3, <1>4, <1>8, <1>d, <1>13
<1> QED
  BY <1>12, <1>13

LEMMA SubscribedFacts ==
    ASSUME NEW w, StreamInv(w), NEW p \in Panels, NEW canEmit \in BOOLEAN,
           MaxLength[p] <= w.stream.maxLength
    PROVE  LET v == Subscribed(w, p, canEmit)
           IN  StreamInv(v) /\ v.stream = w.stream
<1> DEFINE sub == [canEmit |-> canEmit, buffer |-> <<>>, view |-> None]
           r == w.stream.replay
           e == IF r = None THEN sub ELSE Receive(w.stream, p, sub, r)
           v == Subscribed(w, p, canEmit)
<1>1. v.stream = w.stream /\ v.panel = [w.panel EXCEPT ![p] = e]
  BY DEF Subscribed
<1>2. w.stream \in Streams /\ r \in Messages \cup {None}
  BY DEF StreamInv, Streams
<1>3. sub \in Short(p) /\ sub.canEmit = canEmit /\ sub.buffer = <<>> /\ sub.view = None
      /\ sub \in Subscriptions
  BY DEF Short, Subscriptions
<1> HIDE DEF sub
<1>4. e \in Short(p) /\ PanelInv(w.stream, p, e)
  <2>1. CASE r = None
    BY <1>3, <2>1 DEF PanelInv
  <2>2. CASE r # None
    <3>1. r \in Messages
      BY <1>2, <2>2
    <3>2. CASE canEmit
      <4> DEFINE msgs == <<r>>
      <4>1. msgs = Append(<<>>, r) /\ <<>> \in Seq(Messages)
        BY SingleIsAppend
      <4>2. msgs \in Seq(Messages) /\ msgs # <<>> /\ Last(msgs) = r
        BY <3>1, <4>1, LastOfAppend
      <4>3. e = Emit(w.stream, p, sub, msgs)
        BY <1>3, <2>2, <3>2 DEF Receive
      <4> HIDE DEF msgs, e
      <4>4. /\ e \in Short(p)
            /\ e.canEmit = sub.canEmit
            /\ e.buffer = <<>>
            /\ e.view # None
            /\ r.kind = "error" => e.view.error
            /\ Follows(w.stream, p, e.view, <<>>)
        BY <1>2, <1>3, <4>2, <4>3, EmitFacts
      <4> QED
        BY <4>4 DEF PanelInv
    <3>3. CASE ~canEmit
      <4>1. e = [sub EXCEPT !.buffer = Append(sub.buffer, r)]
        BY <1>3, <2>2, <3>3 DEF Receive
      <4>2. Append(sub.buffer, r) \in Seq(Messages) /\ Append(sub.buffer, r) # <<>>
            /\ Last(Append(sub.buffer, r)) = r
        <5>1. sub.buffer \in Seq(Messages)
          BY <1>3
        <5> QED
          BY <3>1, <5>1, LastOfAppend
      <4> HIDE DEF e
      <4>3. /\ e.canEmit = canEmit /\ e.view = None /\ e.buffer = Append(sub.buffer, r)
            /\ e \in Subscriptions
        BY <1>3, <4>1, <4>2 DEF Subscriptions
      <4>4. e \in Short(p)
        BY <4>3 DEF Short
      <4> QED
        BY <3>3, <4>2, <4>3, <4>4 DEF PanelInv
    <3> QED
      BY <3>2, <3>3
  <2> QED
    BY <2>1, <2>2
<1> HIDE DEF e, v
<1>5. e \in Subscriptions
  BY <1>4 DEF Short
<1>6. v.panel \in [Panels -> Subscriptions \cup {None}]
      /\ \A q \in Panels : v.panel[q] = IF q = p THEN e ELSE w.panel[q]
  BY <1>1, <1>5 DEF StreamInv
<1>7. StreamInv(v)
  BY <1>1, <1>4, <1>6 DEF StreamInv
<1> QED
  BY <1>1, <1>7 DEF v

-----------------------------------------------------------------------------
(* The actions.                                                            *)

(* A stream without panels waits for its shutdown. *)
PanelsHaveStream ==
    stream = None \/ stream.timer => \A p \in Panels : panel[p] = None

IInv ==
    /\ TypeOK
    /\ PanelsHaveStream
    /\ stream # None => StreamInv(World)

LEMMA WorldFacts == World.stream = stream /\ World.panel = panel
  BY DEF World

LEMMA InitIInv == Init => IInv
<1> SUFFICES ASSUME Init PROVE IInv
  OBVIOUS
<1> USE LiveStreamAssumption DEF Init
<1>1. (CHOOSE schema \in Schemas : TRUE) \in Schemas
  OBVIOUS
<1>2. server \in [schema : Schemas, row : Rows]
  BY <1>1 DEF Rows
<1>3. chan \in [Channels -> ChannelObjects]
  BY DEF Unused, ChannelObjects
<1>4. TypeOK
  BY <1>2, <1>3 DEF TypeOK
<1> QED
  BY <1>4 DEF IInv, PanelsHaveStream

(* Whatever keeps the stream's invariant keeps the types. *)
LEMMA StreamTypes ==
    ASSUME NEW w, StreamInv(w), stream' = w.stream, panel' = w.panel,
           online' \in BOOLEAN,
           server' \in [schema : Schemas, row : Rows],
           chan' \in [Channels -> ChannelObjects],
           open' \in Channels \cup {0},
           listener' \in [Listeners -> Channels \cup {0}],
           ready' \in BOOLEAN,
           w.stream.timer => \A p \in Panels : w.panel[p] = None
    PROVE  IInv'
<1>0. stream' # None
  BY NoneAssumption DEF StreamInv
<1>1. TypeOK'
  BY DEF StreamInv, Short, TypeOK
<1>2. PanelsHaveStream'
  BY <1>0 DEF PanelsHaveStream
<1>3. StreamInv(World)'
  <2>1. StreamInv(World') <=> StreamInv(w)
    BY DEF World, StreamInv
  <2> QED
    BY <2>1
<1> QED
  BY <1>1, <1>2, <1>3 DEF IInv

(* ... and so does what leaves the stream and its panels alone. *)
LEMMA OtherTypes ==
    ASSUME IInv, UNCHANGED <<stream, panel>>,
           online' \in BOOLEAN,
           server' \in [schema : Schemas, row : Rows],
           chan' \in [Channels -> ChannelObjects],
           open' \in Channels \cup {0},
           listener' \in [Listeners -> Channels \cup {0}],
           ready' \in BOOLEAN
    PROVE  IInv'
<1>1. TypeOK'
  BY DEF IInv, TypeOK
<1>2. PanelsHaveStream'
  BY DEF IInv, PanelsHaveStream
<1>3. StreamInv(World)' <=> StreamInv(World)
  BY DEF StreamInv, World
<1> QED
  BY <1>1, <1>2, <1>3 DEF IInv

LEMMA GetChannelTypes ==
    ASSUME TypeOK, NEW c \in Channels, GetChannel(c)
    PROVE  chan' \in [Channels -> ChannelObjects] /\ open' \in Channels \cup {0}
<1>1. CASE open # 0
  BY <1>1 DEF TypeOK, GetChannel
<1>2. CASE open = 0
  <2> DEFINE ch == [chan[c] EXCEPT !.state = "connecting"]
  <2>1. ch \in ChannelObjects
    BY DEF TypeOK, ChannelObjects
  <2>2. chan' = [chan EXCEPT ![c] = ch] /\ open' = c
    BY <1>2 DEF GetChannel, TypeOK
  <2> HIDE DEF ch
  <2> QED
    BY <2>1, <2>2 DEF TypeOK
<1> QED
  BY <1>1, <1>2

LEMMA SetTimerTypes ==
    ASSUME TypeOK, NEW c \in Channels, SetTimer(c)
    PROVE  chan' \in [Channels -> ChannelObjects]
<1>1. chan[c].timers + 1 \in 0..MaxTimers
  BY LiveStreamAssumption DEF TypeOK, SetTimer, ChannelObjects
<1> QED
  BY <1>1 DEF TypeOK, SetTimer, ChannelObjects

LEMMA ListenIInv ==
    ASSUME IInv, NEW l \in Listeners, Listen(l) \/ StopListening(l)
    PROVE  IInv'
<1> USE DEF IInv
<1>1. CASE Listen(l)
  <2>1. PICK c \in Channels : GetChannel(c) /\ listener' = [listener EXCEPT ![l] = c]
    BY <1>1 DEF Listen
  <2>2. chan' \in [Channels -> ChannelObjects] /\ open' \in Channels \cup {0}
    BY <2>1, GetChannelTypes
  <2>3. listener' \in [Listeners -> Channels \cup {0}]
    BY <2>1 DEF TypeOK
  <2> QED
    BY <1>1, <2>2, <2>3, OtherTypes DEF Listen, TypeOK
<1>2. CASE StopListening(l)
  <2>1. listener[l] \in Channels
    BY <1>2 DEF StopListening, TypeOK
  <2>2. chan' \in [Channels -> ChannelObjects]
    BY <1>2, <2>1, SetTimerTypes DEF StopListening, TypeOK
  <2>3. listener' \in [Listeners -> Channels \cup {0}]
    BY <1>2 DEF StopListening, TypeOK
  <2> QED
    BY <1>2, <2>2, <2>3, OtherTypes DEF StopListening, TypeOK
<1> QED
  BY <1>1, <1>2

LEMMA ChannelTimerIInv ==
    ASSUME IInv, NEW c \in Channels, ChannelTimer(c)
    PROVE  IInv'
<1> USE DEF IInv
<1> DEFINE rest == [chan[c] EXCEPT !.timers = @ - 1]
<1>1. chan[c] \in ChannelObjects /\ chan[c].timers - 1 \in 0..MaxTimers
  BY LiveStreamAssumption DEF TypeOK, ChannelTimer, ChannelObjects
<1>2. rest \in ChannelObjects /\ [rest EXCEPT !.state = "shutdown"] \in ChannelObjects
      /\ Unused \in ChannelObjects
  <2>1. rest \in ChannelObjects
    BY <1>1 DEF ChannelObjects
  <2> HIDE DEF rest
  <2>2. [rest EXCEPT !.state = "shutdown"] \in ChannelObjects
    BY <2>1 DEF ChannelObjects
  <2>3. 0 \in 0..MaxTimers
    BY LiveStreamAssumption
  <2>4. Unused \in ChannelObjects
    BY <2>3 DEF ChannelObjects, Unused
  <2> QED
    BY <2>1, <2>2, <2>4
<1>3. \A d \in Channels : [chan[d] EXCEPT !.state = "disconnected"] \in ChannelObjects
  BY DEF TypeOK, ChannelObjects
<1>4. chan' \in [Channels -> ChannelObjects] /\ open' \in Channels \cup {0}
  <2>1. CASE Heard(c)
    <3>1. chan' = [chan EXCEPT ![c] = rest] /\ UNCHANGED open
      BY <2>1 DEF ChannelTimer
    <3> HIDE DEF rest
    <3> QED
      BY <1>2, <3>1 DEF TypeOK
  <2>2. CASE ~Heard(c)
    <3> DEFINE X(d) == CASE d = c -> IF rest.timers = 0 THEN Unused
                                     ELSE [rest EXCEPT !.state = "shutdown"]
                         [] d # c /\ d = open -> [chan[d] EXCEPT !.state = "disconnected"]
                         [] OTHER -> chan[d]
    <3>1. open' = 0 /\ chan' = [d \in Channels |-> X(d)]
      BY <2>2 DEF ChannelTimer
    <3>2. ASSUME NEW d \in Channels PROVE X(d) \in ChannelObjects
      <4>1. chan[d] \in ChannelObjects
        BY DEF TypeOK
      <4> HIDE DEF rest
      <4> QED
        BY <1>2, <1>3, <4>1
    <3> HIDE DEF X
    <3> QED
      BY <3>1, <3>2
  <2> QED
    BY <2>1, <2>2
<1> QED
  BY <1>4, OtherTypes DEF ChannelTimer, TypeOK

LEMMA NewStreamFacts ==
    ASSUME IInv, stream = None, NEW c \in Channels, NEW ch \in ChannelObjects
    PROVE  /\ StreamInv(NewStream(c, ch))
           /\ NewStream(c, ch).stream.channel = c
           /\ \A p \in Panels : NewStream(c, ch).panel[p] = None
<1> DEFINE st == [channel |-> c, schema |-> 0, rows |-> <<>>, last |-> 0,
                  maxLength |-> DefaultLength, replay |-> None, timer |-> FALSE]
           w == [stream |-> st, panel |-> panel]
<1>1. st \in Streams /\ st.channel = c
  BY LiveStreamAssumption DEF Streams
<1> HIDE DEF st
<1>2. w.stream = st /\ w.panel = panel
  OBVIOUS
<1> HIDE DEF w
<1>3. \A p \in Panels : panel[p] = None
  BY DEF IInv, PanelsHaveStream
<1>4. StreamInv(w)
  BY <1>1, <1>2, <1>3 DEF StreamInv, IInv, TypeOK
<1>5. ch.header \in Packets \cup {None}
  BY DEF ChannelObjects
<1>6. NewStream(c, ch) = OnStatus(w, ch, ch.header)
  BY DEF NewStream, w, st
<1> QED
  BY <1>1, <1>2, <1>3, <1>4, <1>5, <1>6, OnStatusFacts DEF SamePanels

LEMMA GetDataStreamIInv ==
    ASSUME IInv, NEW p \in Panels, GetDataStream(p)
    PROVE  IInv'
<1> USE DEF IInv
<1>1. PICK canEmit \in {TRUE, ready}, n \in 1..MaxPacket :
        IF stream # None
        THEN Become(Subscribed(Prepared(World, p, n), p, canEmit)) /\ UNCHANGED <<chan, open>>
        ELSE \E c \in Channels :
                /\ GetChannel(c)
                /\ Become(Subscribed(Prepared(NewStream(c, chan'[c]), p, n), p, canEmit))
  BY DEF GetDataStream
<1>2. canEmit \in BOOLEAN /\ server.schema \in Schemas
  BY DEF TypeOK
<1>3. ASSUME NEW w, StreamInv(w), Become(Subscribed(Prepared(w, p, n), p, canEmit)),
             chan' \in [Channels -> ChannelObjects], open' \in Channels \cup {0}
      PROVE  IInv'
  <2> DEFINE v == Prepared(w, p, n)
             u == Subscribed(v, p, canEmit)
  <2>1. StreamInv(v) /\ v.stream.timer = FALSE /\ MaxLength[p] <= v.stream.maxLength
    BY <1>2, <1>3, PreparedFacts
  <2> HIDE DEF v
  <2>2. StreamInv(u) /\ u.stream = v.stream
    BY <1>2, <2>1, SubscribedFacts
  <2>3. stream' = u.stream /\ panel' = u.panel
    BY <1>3 DEF Become, v
  <2> HIDE DEF u
  <2> QED
    BY <1>3, <2>1, <2>2, <2>3, StreamTypes DEF GetDataStream, TypeOK
<1>4. CASE stream # None
  BY <1>1, <1>3, <1>4 DEF TypeOK
<1>5. CASE stream = None
  <2>1. PICK c \in Channels :
          /\ GetChannel(c)
          /\ Become(Subscribed(Prepared(NewStream(c, chan'[c]), p, n), p, canEmit))
    BY <1>1, <1>5
  <2>2. chan' \in [Channels -> ChannelObjects] /\ open' \in Channels \cup {0}
    BY <2>1, GetChannelTypes
  <2>3. StreamInv(NewStream(c, chan'[c]))
    BY <1>5, <2>2, NewStreamFacts
  <2> QED
    BY <1>3, <2>1, <2>2, <2>3
<1> QED
  BY <1>4, <1>5

LEMMA UnsubscribeIInv ==
    ASSUME IInv, NEW p \in Panels, Unsubscribe(p)
    PROVE  IInv'
<1> USE DEF IInv
<1>1. stream # None /\ StreamInv(World)
  BY DEF Unsubscribe, PanelsHaveStream
<1> DEFINE left == \E q \in Panels \ {p} : panel[q] # None
           st == IF left THEN stream ELSE [stream EXCEPT !.timer = TRUE]
           w == [stream |-> st, panel |-> panel']
<1>2. stream \in Streams
  BY <1>1 DEF TypeOK
<1>3. /\ st \in Streams /\ st.rows = stream.rows /\ st.maxLength = stream.maxLength
      /\ st.schema = stream.schema /\ st.last = stream.last /\ st.replay = stream.replay
      /\ st.timer => stream.timer \/ ~left
  BY <1>2 DEF Streams
<1>4. stream' = st
  BY DEF Unsubscribe
<1> HIDE DEF st, left
<1>5. w.stream = st /\ w.panel = panel'
  OBVIOUS
<1> HIDE DEF w
<1>6. panel' = [panel EXCEPT ![p] = None]
  BY DEF Unsubscribe
<1>7. \A q, view, messages : Follows(stream, q, view, messages) => Follows(st, q, view, messages)
  <2>1. \A q, error : FullFrame(st, q, error) = FullFrame(stream, q, error)
    BY <1>3 DEF FullFrame
  <2> QED
    BY <1>3, <2>1 DEF Follows, Kept
<1>8. StreamInv(w)
  <2>1. panel' \in [Panels -> Subscriptions \cup {None}]
    BY <1>6 DEF TypeOK
  <2>2. ASSUME NEW q \in Panels, panel'[q] # None
        PROVE  panel'[q] \in Short(q) /\ PanelInv(st, q, panel'[q])
    <3>1. panel'[q] = panel[q] /\ panel[q] # None
      BY <1>6, <2>2 DEF TypeOK
    <3>2. panel[q] \in Short(q) /\ PanelInv(stream, q, panel[q])
      BY <1>1, <3>1, WorldFacts DEF StreamInv
    <3> QED
      BY <1>3, <1>7, <3>1, <3>2 DEF PanelInv
  <2> QED
    BY <1>3, <1>5, <2>1, <2>2 DEF StreamInv
<1>9. w.stream.timer => \A q \in Panels : w.panel[q] = None
  BY <1>3, <1>5, <1>6 DEF PanelsHaveStream, TypeOK, left
<1> QED
  BY <1>4, <1>5, <1>8, <1>9, StreamTypes DEF Unsubscribe, TypeOK

LEMMA ShutdownIInv ==
    ASSUME IInv, Shutdown
    PROVE  IInv'
<1> USE DEF IInv
<1>1. stream.channel \in Channels /\ \A p \in Panels : panel[p] = None
  BY DEF Shutdown, TypeOK, PanelsHaveStream, Streams
<1>2. chan' \in [Channels -> ChannelObjects]
  BY <1>1, SetTimerTypes DEF Shutdown, TypeOK
<1>3. TypeOK'
  BY <1>1, <1>2 DEF Shutdown, TypeOK
<1> QED
  BY <1>1, <1>3 DEF Shutdown, PanelsHaveStream

(* What waited is sent, or waits on. *)
LEMMA MeasureIInv ==
    ASSUME IInv, Measure
    PROVE  IInv'
<1> USE DEF IInv
<1>1. ready' \in BOOLEAN
  BY DEF Measure
<1> DEFINE M(p) == [panel[p] EXCEPT !.canEmit = ready']
           N(p) == IF ready' /\ M(p).buffer # <<>>
                   THEN Emit(stream, p, M(p), M(p).buffer) ELSE M(p)
<1>2. /\ panel' = [p \in Panels |-> IF panel[p] = None THEN None ELSE N(p)]
      /\ UNCHANGED <<online, server, chan, open, stream, listener>>
  BY DEF Measure
<1>3. CASE stream = None
  <2>1. panel' = panel
    BY <1>2, <1>3 DEF PanelsHaveStream, TypeOK
  <2> QED
    BY <1>1, <1>2, <2>1, OtherTypes DEF TypeOK
<1>4. CASE stream # None
  <2>1. StreamInv(World) /\ stream \in Streams
    BY <1>4 DEF TypeOK
  <2>2. ASSUME NEW p \in Panels, panel[p] # None
        PROVE  N(p) \in Short(p) /\ PanelInv(stream, p, N(p))
    <3>1. panel[p] \in Short(p) /\ PanelInv(stream, p, panel[p]) /\ panel[p] \in Subscriptions
      BY <2>1, <2>2, WorldFacts DEF StreamInv, Short
    <3>2. /\ M(p) \in Subscriptions /\ M(p).canEmit = ready' /\ M(p).buffer = panel[p].buffer
          /\ M(p).view = panel[p].view
      BY <1>1, <3>1 DEF Subscriptions
    <3> HIDE DEF M
    <3>3. M(p) \in Short(p)
      BY <3>1, <3>2 DEF Short
    <3>4. CASE ready' /\ M(p).buffer # <<>>
      <4> DEFINE b == M(p).buffer
                 e == Emit(stream, p, M(p), b)
      <4>1. b \in Seq(Messages) /\ b # <<>>
        BY <3>2, <3>4 DEF Subscriptions
      <4>2. M(p).view # None /\ OnlyValues(b) => Follows(stream, p, M(p).view, b)
        BY <3>1, <3>2 DEF PanelInv
      <4>3. Last(b) = stream.replay
        BY <3>1, <3>2, <4>1 DEF PanelInv
      <4> HIDE DEF b
      <4>4. /\ e \in Short(p)
            /\ e.canEmit = M(p).canEmit
            /\ e.buffer = <<>>
            /\ e.view # None
            /\ Last(b).kind = "error" => e.view.error
            /\ Follows(stream, p, e.view, <<>>)
        BY <2>1, <3>3, <4>1, <4>2, EmitFacts
      <4>5. N(p) = e
        BY <3>4 DEF b
      <4> HIDE DEF e, N
      <4>6. PanelInv(stream, p, e)
        BY <3>1, <4>3, <4>4 DEF PanelInv
      <4> QED
        BY <4>4, <4>5, <4>6
    <3>5. CASE ~(ready' /\ M(p).buffer # <<>>)
      <4>1. PanelInv(stream, p, M(p))
        BY <3>1, <3>2, <3>5 DEF PanelInv
      <4> QED
        BY <3>3, <3>5, <4>1
    <3> QED
      BY <3>4, <3>5
  <2> DEFINE w == [stream |-> stream, panel |-> panel']
  <2>3. w.stream = stream /\ w.panel = panel'
    OBVIOUS
  <2> HIDE DEF N, w
  <2>4. panel' \in [Panels -> Subscriptions \cup {None}]
    BY <1>2, <2>2 DEF Short
  <2>5. StreamInv(w)
    <3>1. ASSUME NEW p \in Panels, panel'[p] # None
          PROVE  panel'[p] \in Short(p) /\ PanelInv(stream, p, panel'[p])
      BY <1>2, <2>2, <3>1
    <3> QED
      BY <2>1, <2>3, <2>4, <3>1 DEF StreamInv
  <2>6. w.stream.timer => \A p \in Panels : w.panel[p] = None
    BY <1>2, <2>3 DEF PanelsHaveStream
  <2>7. stream' = w.stream /\ panel' = w.panel
    BY <1>2, <2>3
  <2> QED
    BY <1>1, <1>2, <2>5, <2>6, <2>7, StreamTypes DEF TypeOK
<1> QED
  BY <1>3, <1>4

LEMMA ConnectionIInv ==
    ASSUME IInv, OnConnect \/ OnDisconnect
    PROVE  IInv'
<1> USE DEF IInv
<1>1. CASE OnConnect
  BY <1>1, OtherTypes DEF OnConnect, TypeOK
<1>2. CASE OnDisconnect
  <2>1. \A c \in Channels : chan[c] \in ChannelObjects
           /\ [chan[c] EXCEPT !.state = "connecting"] \in ChannelObjects
    BY DEF TypeOK, ChannelObjects
  <2>2. chan' \in [Channels -> ChannelObjects]
    BY <1>2, <2>1 DEF OnDisconnect
  <2> QED
    BY <1>2, <2>2, OtherTypes DEF OnDisconnect, TypeOK
<1> QED
  BY <1>1, <1>2

(* A status of the channel reaches the stream that hears it. *)
LEMMA DeliverIInv ==
    ASSUME IInv, NEW c \in Channels, NEW ch \in ChannelObjects, NEW packet \in Packets \cup {None},
           Deliver(c, ch, packet),
           server' \in [schema : Schemas, row : Rows],
           UNCHANGED <<online, open, listener, ready>>
    PROVE  IInv'
<1> USE DEF IInv
<1>1. chan' \in [Channels -> ChannelObjects]
  BY DEF Deliver, TypeOK
<1>2. CASE Hears(c)
  <2> DEFINE w == OnStatus(World, ch, packet)
  <2>1. stream # None /\ StreamInv(World)
    BY <1>2 DEF Hears
  <2>2. StreamInv(w) /\ SamePanels(World, w)
    BY <2>1, OnStatusFacts
  <2>3. stream' = w.stream /\ panel' = w.panel
    BY <1>2 DEF Deliver, Become
  <2> HIDE DEF w
  <2>4. w.stream.timer => \A p \in Panels : w.panel[p] = None
    BY <2>2, WorldFacts DEF SamePanels, PanelsHaveStream
  <2> QED
    BY <1>1, <2>2, <2>3, <2>4, StreamTypes DEF TypeOK
<1>3. CASE ~Hears(c)
  BY <1>1, <1>3, OtherTypes DEF Deliver, TypeOK
<1> QED
  BY <1>2, <1>3

(* The server's answers to a subscription are delivered to its channel. *)
LEMMA StatusDelivers ==
    ASSUME TypeOK, NEW c \in Channels, OnSubscribed(c) \/ OnError(c) \/ OnUnsubscribed(c)
    PROVE  \E ch \in ChannelObjects, packet \in Packets \cup {None} :
              ch.timers = chan[c].timers /\ Deliver(c, ch, packet)
<1>0. chan[c] \in ChannelObjects /\ server \in [schema : Schemas, row : Rows]
  BY DEF TypeOK
<1>1. CASE OnSubscribed(c)
  <2>1. PICK n \in 0..MaxPacket :
          LET packet == [schema |-> server.schema,
                         rows |-> [i \in 1..n |-> server.row - n + i]]
          IN  /\ n <= server.row
              /\ Deliver(c, [chan[c] EXCEPT !.state = "connected", !.error = FALSE,
                                           !.header = packet], packet)
    BY <1>1 DEF OnSubscribed
  <2> DEFINE rows == [i \in 1..n |-> server.row - n + i]
             packet == [schema |-> server.schema, rows |-> rows]
             ch == [chan[c] EXCEPT !.state = "connected", !.error = FALSE, !.header = packet]
  <2>2. rows \in Seq(Rows) /\ Len(rows) = n /\ n <= MaxPacket
    <3>1. server.row \in 0..MaxRows /\ n \in Nat /\ n <= server.row /\ n <= MaxPacket
      BY <1>0, <2>1, LiveStreamAssumption DEF Rows
    <3>2. \A i \in 1..n : server.row - n + i \in Rows
      BY <3>1, LiveStreamAssumption DEF Rows
    <3> QED
      BY <3>1, <3>2
  <2>3. packet \in Packets
    BY <1>0, <2>2 DEF Packets
  <2>4. Deliver(c, ch, packet)
    BY <2>1
  <2> HIDE DEF packet
  <2>5. ch \in ChannelObjects /\ ch.timers = chan[c].timers
    BY <1>0, <2>3 DEF ChannelObjects
  <2> HIDE DEF ch
  <2> QED
    BY <2>3, <2>4, <2>5
<1>2. CASE OnError(c)
  <2> DEFINE ch == [chan[c] EXCEPT !.error = TRUE]
  <2>1. ch \in ChannelObjects /\ ch.timers = chan[c].timers
    BY <1>0 DEF ChannelObjects
  <2>2. Deliver(c, ch, None)
    BY <1>2 DEF OnError
  <2> HIDE DEF ch
  <2> QED
    BY <2>1, <2>2
<1>3. CASE OnUnsubscribed(c)
  <2> DEFINE ch == [chan[c] EXCEPT !.state = "disconnected"]
  <2>1. ch \in ChannelObjects /\ ch.timers = chan[c].timers
    BY <1>0 DEF ChannelObjects
  <2>2. Deliver(c, ch, None)
    BY <1>3 DEF OnUnsubscribed
  <2> HIDE DEF ch
  <2> QED
    BY <2>1, <2>2
<1> QED
  BY <1>1, <1>2, <1>3

(* ... and so is what it publishes, unless nobody subscribes to it. *)
LEMMA PublishDelivers ==
    ASSUME TypeOK, Publish
    PROVE  /\ server' \in [schema : Schemas, row : Rows]
           /\ \/ UNCHANGED <<chan, stream, panel>>
              \/ \E ch \in ChannelObjects, packet \in Packets :
                    /\ open \in Channels
                    /\ ch.timers = chan[open].timers
                    /\ Deliver(open, ch, packet)
<1>1. PICK schema \in {0} \cup (Schemas \ {server.schema}), n \in 0..MaxPacket :
        LET c == open
            packet == [schema |-> schema, rows |-> [i \in 1..n |-> server.row + i]]
        IN  /\ server.row + n <= MaxRows
            /\ server' = [schema |-> IF schema = 0 THEN server.schema ELSE schema,
                          row |-> server.row + n]
            /\ IF c # 0 /\ chan[c].state = "connected"
               THEN Deliver(c, [chan[c] EXCEPT
                                  !.header = IF schema = 0 THEN chan[c].header
                                             ELSE packet], packet)
               ELSE UNCHANGED <<chan, stream, panel>>
            /\ UNCHANGED <<online, open, listener, ready>>
  BY DEF Publish
<1> DEFINE rows == [i \in 1..n |-> server.row + i]
           packet == [schema |-> schema, rows |-> rows]
           header == IF schema = 0 THEN chan[open].header ELSE packet
           ch == [chan[open] EXCEPT !.header = header]
<1>2. server \in [schema : Schemas, row : Rows] /\ schema \in Schemas \cup {0}
  BY DEF TypeOK
<1>3. server.row + n \in Rows /\ rows \in Seq(Rows) /\ Len(rows) = n /\ n <= MaxPacket
  <2>1. server.row \in 0..MaxRows /\ n \in Nat /\ n <= MaxPacket /\ server.row + n <= MaxRows
    BY <1>1, <1>2, LiveStreamAssumption DEF Rows
  <2>2. server.row + n \in Rows /\ \A i \in 1..n : server.row + i \in Rows
    BY <2>1, LiveStreamAssumption DEF Rows
  <2> QED
    BY <2>1, <2>2
<1>4. server' \in [schema : Schemas, row : Rows]
  BY <1>1, <1>2, <1>3
<1>5. packet \in Packets
  <2> HIDE DEF rows
  <2> QED
    BY <1>2, <1>3 DEF Packets
<1>6. CASE open # 0 /\ chan[open].state = "connected"
  <2>1. open \in Channels /\ chan[open] \in ChannelObjects
    BY <1>6 DEF TypeOK
  <2>2. Deliver(open, ch, packet)
    BY <1>1, <1>6
  <2> HIDE DEF packet
  <2>3. header \in Packets \cup {None}
    BY <1>5, <2>1 DEF ChannelObjects
  <2> HIDE DEF header
  <2>4. ch \in ChannelObjects /\ ch.timers = chan[open].timers
    BY <2>1, <2>3 DEF ChannelObjects
  <2> HIDE DEF ch
  <2> QED
    BY <1>4, <1>5, <2>1, <2>2, <2>4
<1>7. CASE ~(open # 0 /\ chan[open].state = "connected")
  BY <1>1, <1>4, <1>7
<1> QED
  BY <1>6, <1>7

LEMMA StatusIInv ==
    ASSUME IInv, NEW c \in Channels, OnSubscribed(c) \/ OnError(c) \/ OnUnsubscribed(c)
    PROVE  IInv'
<1>1. PICK ch \in ChannelObjects, packet \in Packets \cup {None} : Deliver(c, ch, packet)
  BY StatusDelivers DEF IInv
<1>2. server' \in [schema : Schemas, row : Rows] /\ UNCHANGED <<online, open, listener, ready>>
  BY DEF IInv, TypeOK, OnSubscribed, OnError, OnUnsubscribed
<1> QED
  BY <1>1, <1>2, DeliverIInv

LEMMA PublishIInv ==
    ASSUME IInv, Publish
    PROVE  IInv'
<1>0. UNCHANGED <<online, open, listener, ready>>
  BY DEF Publish
<1>1. server' \in [schema : Schemas, row : Rows]
  BY PublishDelivers DEF IInv
<1>2. CASE UNCHANGED <<chan, stream, panel>>
  BY <1>0, <1>1, <1>2, OtherTypes DEF IInv, TypeOK
<1>3. CASE ~UNCHANGED <<chan, stream, panel>>
  <2>1. PICK ch \in ChannelObjects, packet \in Packets :
          open \in Channels /\ Deliver(open, ch, packet)
    BY <1>3, PublishDelivers DEF IInv
  <2> QED
    BY <1>0, <1>1, <2>1, DeliverIInv
<1> QED
  BY <1>2, <1>3

LEMMA NextIInv == IInv /\ [Next]_vars => IInv'
<1> SUFFICES ASSUME IInv, [Next]_vars PROVE IInv'
  OBVIOUS
<1>1. ASSUME NEW p \in Panels, GetDataStream(p) PROVE IInv'
  BY <1>1, GetDataStreamIInv
<1>2. ASSUME NEW p \in Panels, Unsubscribe(p) PROVE IInv'
  BY <1>2, UnsubscribeIInv
<1>3. ASSUME NEW l \in Listeners, Listen(l) \/ StopListening(l) PROVE IInv'
  BY <1>3, ListenIInv
<1>4. ASSUME NEW c \in Channels, OnSubscribed(c) \/ OnError(c) \/ OnUnsubscribed(c)
      PROVE  IInv'
  BY <1>4, StatusIInv
<1>5. ASSUME NEW c \in Channels, ChannelTimer(c) PROVE IInv'
  BY <1>5, ChannelTimerIInv
<1>6. CASE Shutdown
  BY <1>6, ShutdownIInv
<1>7. CASE Measure
  BY <1>7, MeasureIInv
<1>8. CASE OnConnect \/ OnDisconnect
  BY <1>8, ConnectionIInv
<1>9. CASE Publish
  BY <1>9, PublishIInv
<1>10. CASE UNCHANGED vars
  BY <1>10, OtherTypes DEF vars, IInv, TypeOK
<1> QED
  BY <1>1, <1>2, <1>3, <1>4, <1>5, <1>6, <1>7, <1>8, <1>9, <1>10 DEF Next

LEMMA Invariance == Spec => []IInv
  BY InitIInv, NextIInv, PTL DEF Spec

(* The variables have their types, and no panel keeps more rows than it    *)
(* shows, however long packets are: after every interleaving of the        *)
(* packets, the panels that come and go, and the browser that gets slow.   *)
THEOREM TypeCorrect == Spec => []TypeOK
  BY Invariance, PTL DEF IInv

LEMMA IInvInSync == ShortPackets /\ IInv => InSync
<1> SUFFICES ASSUME ShortPackets, IInv, NEW p \in Panels, panel[p] # None, panel[p].buffer = <<>>,
                    stream.replay # None
             PROVE  LET view == panel[p].view
                    IN  /\ view # None
                        /\ view.rows = FullFrame(stream, p, view.error).rows
                        /\ view.schema = stream.schema
                        /\ stream.replay.kind = "error" => view.error
  BY DEF InSync
<1> DEFINE view == panel[p].view
<1>1. /\ stream # None /\ stream \in Streams
      /\ panel[p] \in Short(p) /\ PanelInv(stream, p, panel[p])
  BY WorldFacts DEF IInv, PanelsHaveStream, StreamInv
<1>2. view # None /\ (stream.replay.kind = "error" => view.error)
  BY <1>1 DEF PanelInv
<1>3. Follows(stream, p, view, <<>>)
  <2>1. OnlyValues(<<>>)
    BY DEF OnlyValues, Some
  <2> QED
    BY <1>1, <1>2, <2>1 DEF PanelInv
<1>4. view \in Frames /\ Len(view.rows) <= MaxLength[p] /\ MaxLength[p] \in Nat
  BY <1>1, <1>2, LiveStreamAssumption DEF Short, Subscriptions
<1> HIDE DEF view
<1>5. view.rows = FullFrame(stream, p, view.error).rows
  <2>1. CASE p \in Replaces
    BY <1>3, <2>1 DEF Follows
  <2>2. CASE p \notin Replaces
    <3>1. view.rows \in Seq(Rows) /\ view.error \in BOOLEAN
      BY <1>4 DEF Frames
    <3>2. view.rows \o RowsOf(<<>>) = view.rows
      BY <3>1, RowsOfFacts
    <3>3. LastRows(MaxLength[p], view.rows) = view.rows
      BY <1>4 DEF LastRows
    <3>4. view.rows = LastRows(MaxLength[p], stream.rows)
      BY <1>3, <2>2, <3>2, <3>3 DEF Follows
    <3>5. FullFrame(stream, p, view.error).rows = LastRows(MaxLength[p], stream.rows)
      BY <1>1, <2>2, <3>1, FullFrameFacts
    <3> QED
      BY <3>4, <3>5
  <2> QED
    BY <2>1, <2>2
<1> QED
  BY <1>2, <1>3, <1>5 DEF Follows, view

(* When no packet is longer than a panel shows, a panel for which nothing  *)
(* waits shows what the stream has, for every number of panels and length  *)
(* of their frames: what was sent to it since it subscribed, whole frames  *)
(* and new values, adds up to that, whether the stream cuts its rows or    *)
(* takes the first packet as it is.                                        *)
THEOREM PanelsInSync == ASSUME ShortPackets PROVE Spec => []InSync
<1>1. IInv => InSync
  BY IInvInSync
<1> QED
  BY <1>1, Invariance, PTL

-----------------------------------------------------------------------------
(* Who listens, and the open channel.                                      *)

LeftOnce == \A c \in Channels : chan[c].timers <= 1

OpenInv ==
    /\ HeardIsOpen
    /\ \A c \in Channels : chan[c].timers > 0 => open = c

(* Nobody comes or goes at a channel. *)
LEMMA SameHearers ==
    ASSUME OpenInv, UNCHANGED <<open, listener>>,
           stream' # None => stream # None /\ stream'.channel = stream.channel,
           \A c \in Channels : chan'[c].timers > 0 => chan[c].timers > 0
    PROVE  OpenInv'
<1>1. \A c \in Channels : Heard(c)' => Heard(c)
  BY DEF Heard, Hears
<1> QED
  BY <1>1 DEF OpenInv, HeardIsOpen

LEMMA GetChannelOpen ==
    ASSUME TypeOK, OpenInv, NEW c \in Channels, GetChannel(c)
    PROVE  /\ open' = c
           /\ \A d \in Channels : Heard(d) => d = c
           /\ \A d \in Channels : chan'[d].timers > 0 => d = c
<1>1. CASE open # 0
  BY <1>1 DEF GetChannel, OpenInv, HeardIsOpen
<1>2. CASE open = 0
  <2>1. chan' = [chan EXCEPT ![c].state = "connecting"] /\ open' = c
    BY <1>2 DEF GetChannel
  <2>2. \A d \in Channels : chan'[d].timers = chan[d].timers
    BY <2>1 DEF TypeOK, ChannelObjects
  <2>3. \A d \in Channels : open # d
    BY <1>2, LiveStreamAssumption
  <2> QED
    BY <2>1, <2>2, <2>3 DEF OpenInv, HeardIsOpen
<1> QED
  BY <1>1, <1>2

LEMMA SetTimerOpen ==
    ASSUME TypeOK, OpenInv, NEW c \in Channels, open = c, SetTimer(c)
    PROVE  \A d \in Channels : chan'[d].timers > 0 => open = d
<1>1. \A d \in Channels \ {c} : chan'[d] = chan[d]
  BY DEF SetTimer, TypeOK
<1> QED
  BY <1>1 DEF OpenInv

LEMMA ListenOpen ==
    ASSUME TypeOK, OpenInv, NEW l \in Listeners, Listen(l) \/ StopListening(l)
    PROVE  OpenInv'
<1>1. CASE Listen(l)
  <2>1. PICK c \in Channels : GetChannel(c) /\ listener' = [listener EXCEPT ![l] = c]
    BY <1>1 DEF Listen
  <2>2. /\ open' = c
        /\ \A d \in Channels : Heard(d) => d = c
        /\ \A d \in Channels : chan'[d].timers > 0 => d = c
    BY <2>1, GetChannelOpen
  <2>3. \A d \in Channels : Heard(d)' => Heard(d) \/ d = c
    BY <1>1, <2>1 DEF Listen, Heard, Hears, TypeOK
  <2> QED
    BY <2>2, <2>3 DEF OpenInv, HeardIsOpen
<1>2. CASE StopListening(l)
  <2> DEFINE c == listener[l]
  <2>1. c \in Channels /\ Heard(c)
    BY <1>2 DEF StopListening, TypeOK, Heard
  <2>2. open = c
    BY <2>1 DEF OpenInv, HeardIsOpen
  <2>3. chan' = chan \/ SetTimer(c)
    BY <1>2 DEF StopListening
  <2>4. \A d \in Channels : Heard(d)' => Heard(d)
    BY <1>2, LiveStreamAssumption DEF StopListening, TypeOK, Heard, Hears
  <2>5. open' = open
    BY <1>2 DEF StopListening
  <2> HIDE DEF c
  <2>6. \A d \in Channels : chan'[d].timers > 0 => open = d
    BY <2>1, <2>2, <2>3, SetTimerOpen DEF OpenInv
  <2> QED
    BY <2>4, <2>5, <2>6 DEF OpenInv, HeardIsOpen
<1> QED
  BY <1>1, <1>2

LEMMA GetDataStreamOpen ==
    ASSUME IInv, OpenInv, NEW p \in Panels, GetDataStream(p)
    PROVE  OpenInv'
<1> USE DEF IInv
<1>1. PICK canEmit \in {TRUE, ready}, n \in 1..MaxPacket :
        IF stream # None
        THEN Become(Subscribed(Prepared(World, p, n), p, canEmit)) /\ UNCHANGED <<chan, open>>
        ELSE \E c \in Channels :
                /\ GetChannel(c)
                /\ Become(Subscribed(Prepared(NewStream(c, chan'[c]), p, n), p, canEmit))
  BY DEF GetDataStream
<1>2. canEmit \in BOOLEAN /\ server.schema \in Schemas /\ UNCHANGED listener
  BY DEF TypeOK, GetDataStream
<1>3. ASSUME NEW w, StreamInv(w)
      PROVE  Subscribed(Prepared(w, p, n), p, canEmit).stream.channel = w.stream.channel
  <2> DEFINE v == Prepared(w, p, n)
  <2>1. StreamInv(v) /\ v.stream.channel = w.stream.channel /\ MaxLength[p] <= v.stream.maxLength
    BY <1>2, <1>3, PreparedFacts
  <2> HIDE DEF v
  <2>2. Subscribed(v, p, canEmit).stream = v.stream
    BY <1>2, <2>1, SubscribedFacts
  <2> QED
    BY <2>1, <2>2 DEF v
<1>4. CASE stream # None
  <2>1. StreamInv(World) /\ UNCHANGED <<chan, open>>
    BY <1>1, <1>4
  <2>2. stream' = Subscribed(Prepared(World, p, n), p, canEmit).stream
    BY <1>1, <1>4 DEF Become
  <2>3. stream'.channel = stream.channel
    BY <1>3, <2>1, <2>2, WorldFacts
  <2> QED
    BY <1>2, <1>4, <2>1, <2>3, SameHearers
<1>5. CASE stream = None
  <2>1. PICK c \in Channels :
          /\ GetChannel(c)
          /\ Become(Subscribed(Prepared(NewStream(c, chan'[c]), p, n), p, canEmit))
    BY <1>1, <1>5
  <2>2. chan'[c] \in ChannelObjects
    BY <2>1, GetChannelTypes
  <2>3. StreamInv(NewStream(c, chan'[c])) /\ NewStream(c, chan'[c]).stream.channel = c
    BY <1>5, <2>2, NewStreamFacts
  <2>4. stream'.channel = c
    BY <1>3, <2>1, <2>3 DEF Become
  <2>5. /\ open' = c
        /\ \A d \in Channels : Heard(d) => d = c
        /\ \A d \in Channels : chan'[d].timers > 0 => d = c
    BY <2>1, GetChannelOpen
  <2>6. \A d \in Channels : Heard(d)' => Heard(d) \/ d = c
    BY <1>2, <2>4 DEF Heard, Hears
  <2> QED
    BY <2>5, <2>6 DEF OpenInv, HeardIsOpen
<1> QED
  BY <1>4, <1>5

LEMMA ShutdownOpen ==
    ASSUME TypeOK, OpenInv, Shutdown
    PROVE  OpenInv'
<1> DEFINE c == stream.channel
<1>1. c \in Channels /\ Heard(c)
  BY DEF Shutdown, TypeOK, Streams, Heard, Hears
<1>2. open = c /\ open' = open
  BY <1>1 DEF OpenInv, HeardIsOpen, Shutdown
<1>3. chan' = chan \/ SetTimer(c)
  BY DEF Shutdown
<1>4. \A d \in Channels : Heard(d)' => Heard(d)
  BY DEF Shutdown, Heard, Hears
<1> HIDE DEF c
<1>5. \A d \in Channels : chan'[d].timers > 0 => open = d
  BY <1>1, <1>2, <1>3, SetTimerOpen DEF OpenInv
<1> QED
  BY <1>2, <1>4, <1>5 DEF OpenInv, HeardIsOpen

(* The only timer of the open channel, which nobody hears, closes it. *)
LEMMA ChannelTimerOpen ==
    ASSUME TypeOK, OpenInv, LeftOnce, NEW c \in Channels, ChannelTimer(c)
    PROVE  OpenInv'
<1> DEFINE rest == [chan[c] EXCEPT !.timers = @ - 1]
<1>1. chan[c] \in ChannelObjects /\ chan[c].timers = 1
  BY LiveStreamAssumption DEF TypeOK, ChannelTimer, LeftOnce, ChannelObjects
<1>2. rest.timers = 0
  BY <1>1 DEF ChannelObjects
<1>3. open = c
  BY <1>1 DEF OpenInv
<1>4. CASE Heard(c)
  <2>1. chan' = [chan EXCEPT ![c] = rest] /\ UNCHANGED open
    BY <1>4 DEF ChannelTimer
  <2> HIDE DEF rest
  <2>2. \A d \in Channels : chan'[d].timers > 0 => chan[d].timers > 0
    BY <1>1, <1>2, <2>1 DEF TypeOK
  <2> QED
    BY <2>1, <2>2, SameHearers DEF ChannelTimer
<1>5. CASE ~Heard(c)
  <2>1. \A d \in Channels : ~Heard(d)
    BY <1>3, <1>5 DEF OpenInv, HeardIsOpen
  <2>2. \A d \in Channels : ~Heard(d)'
    BY <2>1 DEF ChannelTimer, Heard, Hears
  <2>3. ASSUME NEW d \in Channels PROVE ~(chan'[d].timers > 0)
    <3>1. CASE d = c
      <4>1. chan'[c] = Unused
        BY <1>2, <1>5 DEF ChannelTimer
      <4> QED
        BY <3>1, <4>1 DEF Unused
    <3>2. CASE d # c
      <4>1. chan'[d] = chan[d]
        BY <1>3, <1>5, <3>2 DEF ChannelTimer
      <4> QED
        BY <1>3, <3>2, <4>1 DEF OpenInv
    <3> QED
      BY <3>1, <3>2
  <2> QED
    BY <2>2, <2>3 DEF OpenInv, HeardIsOpen
<1> QED
  BY <1>4, <1>5

LEMMA DeliverOpen ==
    ASSUME IInv, OpenInv, NEW c \in Channels, NEW ch \in ChannelObjects,
           ch.timers = chan[c].timers, NEW packet \in Packets \cup {None},
           Deliver(c, ch, packet), UNCHANGED <<open, listener>>
    PROVE  OpenInv'
<1> USE DEF IInv
<1>1. chan' = [chan EXCEPT ![c] = ch]
  BY DEF Deliver
<1>2. \A d \in Channels : chan'[d].timers > 0 => chan[d].timers > 0
  BY <1>1 DEF TypeOK
<1>3. stream' # None => stream # None /\ stream'.channel = stream.channel
  <2>1. CASE Hears(c)
    <3>1. stream # None /\ StreamInv(World)
      BY <2>1 DEF Hears
    <3>2. stream' = OnStatus(World, ch, packet).stream
      BY <2>1 DEF Deliver, Become
    <3>3. SamePanels(World, OnStatus(World, ch, packet))
      BY <3>1, OnStatusFacts
    <3> QED
      BY <3>1, <3>2, <3>3, WorldFacts DEF SamePanels
  <2>2. CASE ~Hears(c)
    BY <2>2 DEF Deliver
  <2> QED
    BY <2>1, <2>2
<1> QED
  BY <1>2, <1>3, SameHearers

LEMMA StatusOpen ==
    ASSUME IInv, OpenInv, NEW c \in Channels, OnSubscribed(c) \/ OnError(c) \/ OnUnsubscribed(c)
    PROVE  OpenInv'
<1>1. PICK ch \in ChannelObjects, packet \in Packets \cup {None} :
        ch.timers = chan[c].timers /\ Deliver(c, ch, packet)
  BY StatusDelivers DEF IInv
<1> QED
  BY <1>1, DeliverOpen DEF OnSubscribed, OnError, OnUnsubscribed

LEMMA PublishOpen ==
    ASSUME IInv, OpenInv, Publish
    PROVE  OpenInv'
<1>0. UNCHANGED <<open, listener>>
  BY DEF Publish
<1>1. CASE UNCHANGED <<chan, stream, panel>>
  BY <1>0, <1>1, SameHearers
<1>2. CASE ~UNCHANGED <<chan, stream, panel>>
  <2>1. PICK ch \in ChannelObjects, packet \in Packets :
          open \in Channels /\ ch.timers = chan[open].timers /\ Deliver(open, ch, packet)
    BY <1>2, PublishDelivers DEF IInv
  <2> QED
    BY <1>0, <2>1, DeliverOpen
<1> QED
  BY <1>1, <1>2

LEMMA NextOpen == IInv /\ OpenInv /\ LeftOnce /\ [Next]_vars => OpenInv'
<1> SUFFICES ASSUME IInv, OpenInv, LeftOnce, [Next]_vars PROVE OpenInv'
  OBVIOUS
<1>0. TypeOK
  BY DEF IInv
<1>1. ASSUME NEW p \in Panels, GetDataStream(p) PROVE OpenInv'
  BY <1>1, GetDataStreamOpen
<1>2. ASSUME NEW p \in Panels, Unsubscribe(p) PROVE OpenInv'
  <2>1. stream # None /\ stream \in Streams
    BY <1>0, <1>2 DEF Unsubscribe, IInv, PanelsHaveStream, TypeOK
  <2>2. stream'.channel = stream.channel
    BY <1>2, <2>1 DEF Unsubscribe, Streams
  <2> QED
    BY <1>2, <2>1, <2>2, SameHearers DEF Unsubscribe
<1>3. ASSUME NEW l \in Listeners, Listen(l) \/ StopListening(l) PROVE OpenInv'
  BY <1>0, <1>3, ListenOpen
<1>4. ASSUME NEW c \in Channels, OnSubscribed(c) \/ OnError(c) \/ OnUnsubscribed(c)
      PROVE  OpenInv'
  BY <1>4, StatusOpen
<1>5. ASSUME NEW c \in Channels, ChannelTimer(c) PROVE OpenInv'
  BY <1>0, <1>5, ChannelTimerOpen
<1>6. CASE Shutdown
  BY <1>0, <1>6, ShutdownOpen
<1>7. CASE Measure \/ OnConnect
  BY <1>7, SameHearers DEF Measure, OnConnect
<1>8. CASE OnDisconnect
  <2>1. \A c \in Channels : chan'[c].timers = chan[c].timers
    BY <1>0, <1>8 DEF OnDisconnect, TypeOK, ChannelObjects
  <2> QED
    BY <1>8, <2>1, SameHearers DEF OnDisconnect
<1>9. CASE Publish
  BY <1>9, PublishOpen
<1>10. CASE UNCHANGED vars
  BY <1>10, SameHearers DEF vars
<1> QED
  BY <1>1, <1>2, <1>3, <1>4, <1>5, <1>6, <1>7, <1>8, <1>9, <1>10 DEF Next

(* As long as nobody leaves a channel a second time within 250 ms, what    *)
(* is listened to is the open channel, for every number of listeners and   *)
(* panels: the timer of the one who left closes no channel that somebody   *)
(* uses, and a channel that is closed is not listened to.                  *)
THEOREM ListenersAreHeard == Spec /\ []LeftOnce => []HeardIsOpen
<1>1. Init => OpenInv
  <2> SUFFICES ASSUME Init PROVE OpenInv
    OBVIOUS
  <2>1. \A c \in Channels : ~Heard(c)
    BY LiveStreamAssumption DEF Init, Heard, Hears
  <2>2. \A c \in Channels : chan[c].timers = 0
    BY DEF Init, Unused
  <2> QED
    BY <2>1, <2>2 DEF OpenInv, HeardIsOpen
<1>2. OpenInv => HeardIsOpen
  BY DEF OpenInv
<1> QED
  BY <1>1, <1>2, NextOpen, Invariance, PTL DEF Spec

=============================================================================
