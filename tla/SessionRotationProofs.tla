------------------------ MODULE SessionRotationProofs ------------------------
(***************************************************************************)
(* The rotation of a token for any number of tabs and servers, any         *)
(* interval and delay, any number of lost answers and any order of the     *)
(* others: its types, when a token counts as seen, that the expiry cookie  *)
(* is early, and how far the browser may fall behind.                      *)
(***************************************************************************)
EXTENDS SessionRotation, TLAPS

Brings(c) == UnderWay(c) /\ call[c].cookie # None

(* A tab has one call of its job at a time, and none beside that of a page *)
(* that loads.                                                             *)
Busy ==
    \A t \in Tabs :
        /\ UnderWay(<<t, "job">>) /\ page[t] = "app" => job[t] = Calling
        /\ UnderWay(<<t, "page">>) =>
             /\ page[t] # "app"
             /\ \A c \in Callers : c[1] = t /\ c[2] # "page" => ~UnderWay(c)

(* Only rotations that are over bring a cookie, and those under way are in *)
(* a flight; the row's token was sent only if the browser was given it.    *)
CallOK(it) ==
    /\ it.cookie # None => it.stage = "ok" /\ Early(it.cookie)
    /\ it.cookie # None \/ it.stage \in {"looked", "joined"} => it.kind \in Rotations
    /\ it.token = 0 => held

(* The answer with the token of that number is under way. *)
InAir(i) == \E c \in Callers : Brings(c) /\ call[c].cookie.token = i

(* The answer of every newer token than the browser's is under way; of all *)
(* but one if the browser missed one.                                      *)
Lag ==
    /\ missed = 0 => \A i \in 0..(jar.token - 1) : InAir(i)
    /\ missed = 1 => \A i, j \in 0..(jar.token - 1) : i < j => InAir(i) \/ InAir(j)

Core ==
    /\ \A c \in Callers : UnderWay(c) => CallOK(call[c])
    /\ jar.token = 0 => held
    /\ SeenWasHeld
    /\ ExpiryIsEarly
    /\ Lag

IInv == TypeOK /\ Busy /\ Core

-----------------------------------------------------------------------------
LEMMA Bounds ==
    /\ {Interval, Urgent, Leeway, MaxLead, NextRotation} \subseteq Nat \ {0}
    /\ NextRotation \in Lefts
    /\ NextRotation + Leeway = Interval
    /\ Lefts \subseteq Int
    /\ Off \in Nat /\ Calling \in Nat
    /\ Calling > MaxLead
    /\ \A left \in Lefts : left < Off /\ left < Calling /\ Less(left) \in Lefts
    /\ \A token \in Tokens : Older(token) \in Tokens /\ Older(token) > 0
  BY SessionRotationAssumption
  DEF NextRotation, Lefts, Floor, Off, Calling, Less, Tokens, MaxOlder, Older

(* A call that is sent. *)
LEMMA SentType ==
    ASSUME TypeOK, NEW kind \in Kinds, NEW s \in Servers
    PROVE  /\ Sent(kind, s) \in CallsUnderWay
           /\ Sent(kind, s).cookie = None
           /\ Sent(kind, s).stage = "sent"
           /\ Sent(kind, s).token = jar.token
  BY SessionRotationAssumption DEF TypeOK, Sent, CallsUnderWay, Cookies, Tokens

(* The row after a lookup: no older, and of the same token; it counts as   *)
(* seen only when the token itself came.                                   *)
LEMMA RowLookedType ==
    ASSUME TypeOK, NEW token \in Tokens
    PROVE  /\ RowLooked(token) \in [age : 0..Interval, seen : BOOLEAN]
           /\ RowLooked(token).age <= row.age
           /\ RowLooked(token).seen => row.seen \/ token = 0
<1> USE SessionRotationAssumption DEF TypeOK, Tokens, MaxOlder
<1>1. CASE token = 1 /\ row.seen /\ row.age > Urgent
  BY <1>1 DEF RowLooked
<1>2. CASE token = 0
  <2>1. RowLooked(token) = [row EXCEPT !.seen = TRUE]
    BY <1>2 DEF RowLooked
  <2>2. row \in [age : 0..Interval, seen : BOOLEAN]
    OBVIOUS
  <2> DEFINE looked == [row EXCEPT !.seen = TRUE]
  <2>3. looked \in [age : 0..Interval, seen : BOOLEAN] /\ looked.age = row.age
    BY <2>2
  <2> HIDE DEF looked
  <2>4. row.age \in 0..Interval
    BY <2>2
  <2>5. RowLooked(token) = looked
    BY <2>1 DEF looked
  <2> QED
    BY ONLY <1>2, <2>3, <2>4, <2>5, SessionRotationAssumption
<1>3. CASE ~(token = 1 /\ row.seen /\ row.age > Urgent) /\ token # 0
  <2>1. RowLooked(token) = row
    BY <1>3 DEF RowLooked
  <2> QED
    BY <2>1
<1> QED
  BY <1>1, <1>2, <1>3

-----------------------------------------------------------------------------
(* The answers under way and what the browser missed.                      *)

LEMMA TokensAreNumbers ==
    ASSUME TypeOK
    PROVE  /\ jar.token \in Tokens
           /\ \A i \in 0..(jar.token - 1) : i \in Tokens
           /\ missed \in 0..2
           /\ Tokens \subseteq Nat
  BY DEF TypeOK, Cookies, Tokens, MaxOlder

(* The browser's token is no older, and what was under way still is.       *)
LEMMA LagKept ==
    ASSUME TypeOK, Lag, jar'.token \in Nat, jar'.token <= jar.token,
           missed' = missed,
           \A i \in 0..(jar'.token - 1) : InAir(i) => InAir(i)'
    PROVE  Lag'
<1>1. \A i \in 0..(jar'.token - 1) : i \in 0..(jar.token - 1)
  BY TokensAreNumbers
<1>2. missed' = 0 => \A i \in 0..(jar'.token - 1) : InAir(i)'
  BY <1>1 DEF Lag
<1>3. missed' = 1 => \A i, j \in 0..(jar'.token - 1) : i < j => InAir(i)' \/ InAir(j)'
  BY <1>1 DEF Lag
<1> QED
  BY <1>2, <1>3 DEF Lag

(* One answer is lost. *)
LEMMA LagOfLost ==
    ASSUME TypeOK, Lag, NEW k \in Tokens, jar'.token = jar.token,
           Miss(1),
           \A i \in 0..(jar.token - 1) : InAir(i) /\ i # k => InAir(i)'
    PROVE  Lag'
<1>1. missed' = 1 => missed = 0
  BY TokensAreNumbers DEF Miss
<1>2. missed' # 0
  BY TokensAreNumbers DEF Miss
<1>3. missed' = 1 => \A i, j \in 0..(jar'.token - 1) : i < j => InAir(i)' \/ InAir(j)'
  <2> SUFFICES ASSUME missed' = 1,
                      NEW i \in 0..(jar.token - 1), NEW j \in 0..(jar.token - 1), i < j
               PROVE  InAir(i)' \/ InAir(j)'
    OBVIOUS
  <2>1. InAir(i) /\ InAir(j)
    BY <1>1 DEF Lag
  <2>2. i # k \/ j # k
    OBVIOUS
  <2> QED
    BY <2>1, <2>2
<1> QED
  BY <1>2, <1>3 DEF Lag

(* An answer brings an older token than the browser's. *)
LEMMA LagOfOlder ==
    ASSUME TypeOK, Lag, jar'.token \in Tokens, jar'.token > jar.token,
           Miss(jar'.token - jar.token),
           \A i \in 0..(jar'.token - 1) : InAir(i) => InAir(i)'
    PROVE  Lag'
<1> DEFINE n == jar'.token - jar.token
<1>0. jar.token \in Nat /\ jar'.token \in Nat /\ missed \in 0..2
  BY TokensAreNumbers
<1>1. n \in Nat \ {0} /\ jar'.token = jar.token + n
  BY <1>0
<1>2. missed' = IF missed + n > 2 THEN 2 ELSE missed + n
  BY DEF Miss
<1> HIDE DEF n
<1>3. missed' # 0 /\ (missed' = 1 => missed = 0 /\ n = 1)
  BY <1>0, <1>1, <1>2
<1>4. missed' = 1 => \A i, j \in 0..(jar'.token - 1) : i < j => InAir(i)' \/ InAir(j)'
  <2> SUFFICES ASSUME missed' = 1,
                      NEW i \in 0..(jar'.token - 1), NEW j \in 0..(jar'.token - 1), i < j
               PROVE  InAir(i)'
    OBVIOUS
  <2>1. i \in 0..(jar.token - 1)
    BY <1>0, <1>1, <1>3
  <2>2. InAir(i)
    BY <1>3, <2>1 DEF Lag
  <2> QED
    BY <2>2
<1> QED
  BY <1>3, <1>4 DEF Lag

(* Every token is one rotation older, and the new one is under way.        *)
LEMMA LagOfRotated ==
    ASSUME TypeOK, Lag, jar'.token = Older(jar.token), missed' = missed,
           InAir(0)',
           \A i \in Tokens : InAir(i) => InAir(Older(i))'
    PROVE  Lag'
<1>1. ASSUME NEW i \in 0..(jar'.token - 1)
      PROVE  i = 0 \/ (i - 1 \in 0..(jar.token - 1) /\ i - 1 \in Tokens /\ Older(i - 1) = i)
  BY TokensAreNumbers DEF Older, Tokens, MaxOlder
<1>2. ASSUME NEW i \in 0..(jar'.token - 1), i # 0, InAir(i - 1) PROVE InAir(i)'
  <2>1. i - 1 \in Tokens /\ Older(i - 1) = i
    BY <1>1, <1>2
  <2>2. InAir(Older(i - 1))'
    BY <1>2, <2>1
  <2>3. PICK k : k = Older(i - 1) /\ InAir(k)'
    BY <2>2
  <2> QED
    BY <2>1, <2>3
<1>3. missed' = 0 => \A i \in 0..(jar'.token - 1) : InAir(i)'
  BY <1>1, <1>2 DEF Lag
<1>4. missed' = 1 => \A i, j \in 0..(jar'.token - 1) : i < j => InAir(i)' \/ InAir(j)'
  <2> SUFFICES ASSUME missed' = 1,
                      NEW i \in 0..(jar'.token - 1), NEW j \in 0..(jar'.token - 1), i < j
               PROVE  InAir(i)' \/ InAir(j)'
    OBVIOUS
  <2>1. CASE i = 0
    BY <2>1
  <2>2. CASE i # 0
    <3>1. /\ i - 1 \in 0..(jar.token - 1) /\ j - 1 \in 0..(jar.token - 1)
          /\ i - 1 < j - 1 /\ j # 0
      BY <1>1, <2>2
    <3>2. InAir(i - 1) \/ InAir(j - 1)
      BY <3>1 DEF Lag
    <3> QED
      BY <1>2, <2>2, <3>1, <3>2
  <2> QED
    BY <2>1, <2>2
<1> QED
  BY <1>3, <1>4 DEF Lag

(* Calls that are sent or end, and others that stay, take no answer away.  *)
LEMMA InAirKept ==
    ASSUME NEW c \in Callers, NEW i,
           \A d \in Callers : d # c => call'[d] = call[d],
           Brings(c) => call[c].cookie.token # i,
           InAir(i)
    PROVE  InAir(i)'
<1>1. PICK d \in Callers : Brings(d) /\ call[d].cookie.token = i
  BY DEF InAir
<1>2. call'[d] = call[d]
  BY <1>1
<1> QED
  BY <1>1, <1>2 DEF InAir, Brings, UnderWay

-----------------------------------------------------------------------------
(* What each step does to the calls.                                       *)

LEMMA SendsCall ==
    ASSUME IInv, NEW c \in Callers, ~UnderWay(c),
           NEW v \in CallsUnderWay,
           v.cookie = None, v.stage = "sent", v.token = jar.token,
           call' = [call EXCEPT ![c] = v],
           UNCHANGED <<row, jar, held, missed>>
    PROVE  Core' /\ call' \in [Callers -> CallsUnderWay \cup {None}]
<1>1. call' \in [Callers -> CallsUnderWay \cup {None}]
  BY DEF IInv, TypeOK
<1>2. \A d \in Callers : d # c => call'[d] = call[d]
  BY DEF IInv, TypeOK
<1>3. call'[c] = v
  BY DEF IInv, TypeOK
<1>4. ASSUME NEW d \in Callers, call'[d] # None PROVE CallOK(call[d])'
  <2>1. CASE d = c
    BY <1>3, <2>1 DEF CallOK, IInv, Core
  <2>2. CASE d # c
    <3>1. UnderWay(d) /\ call'[d] = call[d]
      BY <1>2, <1>4, <2>2 DEF UnderWay
    <3> QED
      BY <3>1 DEF IInv, Core, CallOK, Early
  <2> QED
    BY <2>1, <2>2
<1>5. Lag'
  <2>1. ~Brings(c)
    BY DEF Brings
  <2>2. \A i : InAir(i) => InAir(i)'
    BY <1>2, <2>1, InAirKept
  <2> QED
    BY <2>2, LagKept, TokensAreNumbers DEF IInv, Core
<1> QED
  BY <1>1, <1>4, <1>5 DEF IInv, Core, UnderWay, SeenWasHeld, ExpiryIsEarly, Early

(* An answer with the cookies it sets, whichever of those that came. *)
LEMMA TakesAnswer ==
    ASSUME IInv, NEW c \in Callers, Answered(c), SetCookies(c),
           NEW v, \/ v = None
                  \/ /\ v \in CallsUnderWay
                     /\ v.cookie = None
                     /\ v.stage = "sent"
                     /\ v.token \in {jar.token, jar'.token},
           call' = [call EXCEPT ![c] = v],
           row' = row
    PROVE  /\ Core'
           /\ call' \in [Callers -> CallsUnderWay \cup {None}]
           /\ jar' \in Cookies /\ held' \in BOOLEAN /\ missed' \in 0..2
           /\ \A d \in Callers : call'[d] # None => UnderWay(d)
<1>1. /\ call' \in [Callers -> CallsUnderWay \cup {None}]
      /\ \A d \in Callers : d # c => call'[d] = call[d]
      /\ call'[c] = v
  BY DEF IInv, TypeOK
<1>2. /\ UnderWay(c) /\ call[c] \in CallsUnderWay
      /\ call[c].cookie \in Cookies \cup {None}
  BY DEF Answered, UnderWay, IInv, TypeOK, CallsUnderWay
<1>3. TypeOK /\ Lag /\ jar.token \in Nat /\ missed \in 0..2 /\ held \in BOOLEAN /\ jar \in Cookies
  <2>1. TypeOK /\ Lag
    BY DEF IInv, Core
  <2> QED
    BY <2>1, TokensAreNumbers DEF TypeOK
<1>4. \A i : InAir(i) /\ (call[c].cookie # None => call[c].cookie.token # i) => InAir(i)'
  <2> SUFFICES ASSUME NEW i, InAir(i), call[c].cookie # None => call[c].cookie.token # i
               PROVE  InAir(i)'
    OBVIOUS
  <2> QED
    BY <1>1, InAirKept DEF Brings
<1>5. CASE call[c].cookie = None
  <2>1. UNCHANGED <<jar, held, missed>>
    BY <1>5 DEF SetCookies, historyVars
  <2>2. Lag'
    BY <1>3, <1>4, <1>5, <2>1, LagKept
  <2>3. ASSUME NEW d \in Callers, call'[d] # None PROVE CallOK(call[d])'
    <3>1. CASE d = c
      BY <1>1, <2>1, <2>3, <3>1 DEF CallOK, IInv, Core
    <3>2. CASE d # c
      <4>1. UnderWay(d) /\ call'[d] = call[d]
        BY <1>1, <2>3, <3>2 DEF UnderWay
      <4> QED
        BY <2>1, <4>1 DEF IInv, Core, CallOK, Early
    <3> QED
      BY <3>1, <3>2
  <2>4. Core'
    BY <2>1, <2>2, <2>3 DEF IInv, Core, UnderWay, SeenWasHeld, ExpiryIsEarly, Early
  <2> QED
    BY <1>1, <1>2, <1>3, <2>1, <2>4 DEF UnderWay
<1>6. CASE call[c].cookie # None
  <2> DEFINE k == call[c].cookie.token
  <2>1. jar' = call[c].cookie /\ Get(call[c].cookie)
    BY <1>6 DEF SetCookies
  <2>2. jar' \in Cookies /\ k \in Tokens /\ k \in Nat /\ jar'.token = k
    BY <1>2, <1>6, <2>1 DEF Cookies, Tokens, MaxOlder
  <2>3. held' = (held \/ k = 0)
    BY <2>1 DEF Get
  <2>4. \A i \in 0..(jar'.token - 1) : InAir(i) => InAir(i)'
    BY <1>4, <2>2
  <2>5. missed' \in 0..2 /\ Lag'
    <3>1. CASE k = 0
      <4>1. missed' = 0
        BY <2>1, <3>1 DEF Get
      <4> QED
        BY <2>2, <3>1, <4>1 DEF Lag
    <3>2. CASE k # 0 /\ k > jar.token
      <4>1. Miss(jar'.token - jar.token)
        BY <2>1, <2>2, <3>2 DEF Get
      <4>2. Lag'
        BY <1>3, <2>2, <2>4, <3>2, <4>1, LagOfOlder
      <4>3. missed' \in 0..2
        BY <1>3, <2>2, <3>2, <4>1 DEF Miss
      <4> QED
        BY <4>2, <4>3
    <3>3. CASE k # 0 /\ ~(k > jar.token)
      <4>1. missed' = missed
        BY <2>1, <3>3 DEF Get
      <4> QED
        BY <1>3, <2>2, <2>4, <3>3, <4>1, LagKept
    <3> QED
      BY <3>1, <3>2, <3>3
  <2>6. held' \in BOOLEAN /\ (held => held') /\ (jar'.token = 0 => held')
    BY <1>3, <2>2, <2>3
  <2>7. ASSUME NEW d \in Callers, call'[d] # None PROVE CallOK(call[d])'
    <3>1. CASE d = c
      <4>1. v.cookie = None /\ v.stage = "sent" /\ v.token \in {jar.token, jar'.token}
        BY <1>1, <2>7, <3>1
      <4>2. v.token = 0 => held'
        BY <2>6, <4>1 DEF IInv, Core
      <4> QED
        BY <1>1, <3>1, <4>1, <4>2 DEF CallOK
    <3>2. CASE d # c
      <4>1. UnderWay(d) /\ call'[d] = call[d]
        BY <1>1, <2>7, <3>2 DEF UnderWay
      <4> QED
        BY <2>6, <4>1 DEF IInv, Core, CallOK, Early
    <3> QED
      BY <3>1, <3>2
  <2>8. ExpiryIsEarly'
    <3>1. Early(call[c].cookie)
      BY <1>2, <1>6 DEF IInv, Core, CallOK
    <3> QED
      BY <2>1, <3>1 DEF ExpiryIsEarly, Early
  <2>9. Core'
    BY <2>5, <2>6, <2>7, <2>8 DEF IInv, Core, UnderWay, SeenWasHeld
  <2> QED
    BY <1>1, <1>2, <2>2, <2>5, <2>6, <2>9 DEF UnderWay
<1> QED
  BY <1>5, <1>6

(* A call is lost, with its answer if it has one.                          *)
LEMMA LosesCall ==
    ASSUME IInv, NEW c \in Callers, UnderWay(c),
           IF News(call[c].cookie) THEN Miss(1) ELSE UNCHANGED missed,
           call' = [call EXCEPT ![c] = None],
           UNCHANGED <<row, jar, held>>
    PROVE  /\ Core'
           /\ call' \in [Callers -> CallsUnderWay \cup {None}]
           /\ missed' \in 0..2
<1>1. /\ call' \in [Callers -> CallsUnderWay \cup {None}]
      /\ \A d \in Callers : d # c => call'[d] = call[d]
      /\ call'[c] = None
  BY DEF IInv, TypeOK
<1>2. TypeOK /\ Lag /\ jar.token \in Nat /\ missed \in 0..2
  BY TokensAreNumbers DEF IInv, Core
<1>3. call[c] \in CallsUnderWay /\ call[c].cookie \in Cookies \cup {None}
  BY <1>2 DEF UnderWay, TypeOK, CallsUnderWay
<1>4. \A i : InAir(i) /\ (call[c].cookie # None => call[c].cookie.token # i) => InAir(i)'
  <2> SUFFICES ASSUME NEW i, InAir(i), call[c].cookie # None => call[c].cookie.token # i
               PROVE  InAir(i)'
    OBVIOUS
  <2> QED
    BY <1>1, InAirKept DEF Brings
<1>5. Lag' /\ missed' \in 0..2
  <2>1. CASE News(call[c].cookie)
    <3>1. call[c].cookie # None /\ Miss(1)
      BY <2>1 DEF News
    <3>2. PICK k \in Tokens : k = call[c].cookie.token
      BY <1>3, <3>1 DEF Cookies
    <3>3. Lag'
      BY <1>2, <1>4, <3>1, <3>2, LagOfLost
    <3>4. missed' \in 0..2
      BY <1>2, <3>1 DEF Miss
    <3> QED
      BY <3>3, <3>4
  <2>2. CASE ~News(call[c].cookie)
    <3>1. missed' = missed
      BY <2>2
    <3>2. call[c].cookie # None => call[c].cookie.token \in Nat /\ call[c].cookie.token >= jar.token
      BY <1>2, <1>3, <2>2 DEF News, Cookies, Tokens, MaxOlder
    <3>3. \A i \in 0..(jar'.token - 1) : InAir(i) => InAir(i)'
      BY <1>2, <1>4, <3>2
    <3> QED
      BY <1>2, <3>1, <3>3, LagKept
  <2> QED
    BY <2>1, <2>2
<1>6. ASSUME NEW d \in Callers, call'[d] # None PROVE CallOK(call[d])'
  <2>1. UnderWay(d) /\ call'[d] = call[d]
    BY <1>1, <1>6 DEF UnderWay
  <2> QED
    BY <2>1 DEF IInv, Core, CallOK, Early
<1> QED
  BY <1>1, <1>5, <1>6 DEF IInv, Core, UnderWay, SeenWasHeld, ExpiryIsEarly, Early

(* A call reaches a server, which looks its token up: the call gets        *)
(* another stage.                                                          *)
LEMMA LooksUp ==
    ASSUME IInv, NEW c \in Callers, UnderWay(c), call[c].stage = "sent",
           NEW stage \in {"looked", "joined"} \cup Statuses,
           stage \in {"looked", "joined"} => call[c].kind \in Rotations,
           call' = [call EXCEPT ![c].stage = stage],
           row' = RowLooked(call[c].token),
           UNCHANGED <<jar, held, missed>>
    PROVE  /\ Core'
           /\ call' \in [Callers -> CallsUnderWay \cup {None}]
           /\ row' \in [age : 0..Interval, seen : BOOLEAN]
           /\ \A d \in Callers : call'[d] # None => UnderWay(d)
           /\ \A d \in Callers : d # c => call'[d] = call[d]
           /\ call'[c].stage = stage
<1>1. /\ call \in [Callers -> CallsUnderWay \cup {None}]
      /\ call[c] \in CallsUnderWay
      /\ call[c].token \in Tokens
      /\ call[c].cookie = None
      /\ row \in [age : 0..Interval, seen : BOOLEAN]
      /\ jar \in Cookies
      /\ TypeOK /\ Lag
  BY DEF IInv, TypeOK, Core, CallOK, UnderWay, CallsUnderWay
<1> DEFINE a == [call[c] EXCEPT !.stage = stage]
<1>2. /\ a \in CallsUnderWay
      /\ a.kind = call[c].kind /\ a.token = call[c].token /\ a.cookie = None
      /\ a.stage = stage
  BY <1>1 DEF CallsUnderWay, Statuses
<1>3. call' = [call EXCEPT ![c] = a]
  OBVIOUS
<1> HIDE DEF a
<1>4. /\ call' \in [Callers -> CallsUnderWay \cup {None}]
      /\ call'[c] = a
      /\ \A d \in Callers : d # c => call'[d] = call[d]
  BY <1>1, <1>2, <1>3
<1>5. /\ row' \in [age : 0..Interval, seen : BOOLEAN]
      /\ row'.age <= row.age
      /\ row'.seen => row.seen \/ call[c].token = 0
  BY <1>1, RowLookedType
<1>6. ASSUME NEW cookie \in Cookies, Early(cookie) PROVE Early(cookie)'
  BY <1>1, <1>5, <1>6, SessionRotationAssumption DEF Early, Cookies, Lefts, Floor
<1>7. ASSUME NEW d \in Callers, call'[d] # None PROVE CallOK(call[d])'
  <2>1. CASE d = c
    BY <1>2, <1>4, <2>1 DEF CallOK, IInv, Core
  <2>2. CASE d # c
    <3>1. UnderWay(d) /\ call'[d] = call[d] /\ CallOK(call[d])
      BY <1>4, <1>7, <2>2 DEF UnderWay, IInv, Core
    <3>2. call[d].cookie # None => call[d].cookie \in Cookies
      BY <1>1, <3>1 DEF UnderWay, CallsUnderWay
    <3>3. call[d].cookie # None => Early(call[d].cookie)'
      <4> SUFFICES ASSUME call[d].cookie # None PROVE Early(call[d].cookie)'
        OBVIOUS
      <4>1. PICK cookie \in Cookies : cookie = call[d].cookie
        BY <3>2
      <4>2. Early(cookie)
        BY <3>1, <4>1 DEF CallOK
      <4>3. Early(cookie)'
        BY <1>6, <4>2
      <4> QED
        BY <3>1, <4>1, <4>3 DEF Early
    <3> QED
      BY <3>1, <3>3 DEF CallOK
  <2> QED
    BY <2>1, <2>2
<1>8. Lag'
  <2>1. \A i : InAir(i) => InAir(i)'
    BY <1>1, <1>4, InAirKept DEF Brings
  <2> QED
    BY <1>1, <2>1, LagKept, TokensAreNumbers
<1>9. SeenWasHeld'
  <2>1. call[c].token = 0 => held
    BY DEF IInv, Core, CallOK
  <2> QED
    BY <1>5, <2>1 DEF IInv, Core, SeenWasHeld
<1>10. ExpiryIsEarly'
  BY <1>1, <1>6 DEF IInv, Core, ExpiryIsEarly, Early
<1> QED
  BY <1>2, <1>4, <1>5, <1>7, <1>8, <1>9, <1>10 DEF IInv, Core, UnderWay

(* A call that is one rotation older, and one that gets the new token.     *)
LEMMA OlderCallIs ==
    ASSUME IInv, NEW d \in Callers, UnderWay(d)
    PROVE  LET older == OlderCall(call[d])
               given == [OlderCall(call[d]) EXCEPT !.stage = "ok", !.cookie = FreshCookie]
           IN  /\ older \in CallsUnderWay
               /\ older.kind = call[d].kind
               /\ older.token = Older(call[d].token)
               /\ older.stage = call[d].stage
               /\ call[d].cookie = None => older.cookie = None
               /\ call[d].cookie # None =>
                    /\ older.cookie \in Cookies
                    /\ older.cookie.token = Older(call[d].cookie.token)
               /\ given \in CallsUnderWay
               /\ given.kind = call[d].kind
               /\ given.token = Older(call[d].token)
               /\ given.stage = "ok"
               /\ given.cookie = FreshCookie
<1> DEFINE cookie == OlderCookie(call[d].cookie)
           new == FreshCookie
           older == OlderCall(call[d])
           given == [older EXCEPT !.stage = "ok", !.cookie = new]
<1>1. call[d] \in CallsUnderWay
  BY DEF IInv, TypeOK, UnderWay
<1>2. new \in Cookies
  BY Bounds DEF FreshCookie, Cookies, Tokens, MaxOlder
<1>3. /\ cookie \in Cookies \cup {None}
      /\ call[d].cookie = None => cookie = None
      /\ call[d].cookie # None =>
            cookie \in Cookies /\ cookie.token = Older(call[d].cookie.token)
  BY <1>1, Bounds DEF CallsUnderWay, Cookies, OlderCookie
<1>4. older = [call[d] EXCEPT !.token = Older(call[d].token), !.cookie = cookie]
  BY <1>1 DEF OlderCall, CallsUnderWay
<1> HIDE DEF cookie, older, new
<1>5. /\ older \in CallsUnderWay
      /\ older.kind = call[d].kind
      /\ older.token = Older(call[d].token)
      /\ older.stage = call[d].stage
      /\ older.cookie = cookie
  BY <1>1, <1>3, <1>4, Bounds DEF CallsUnderWay
<1>6. /\ given \in CallsUnderWay
      /\ given.kind = older.kind
      /\ given.token = older.token
      /\ given.stage = "ok"
      /\ given.cookie = new
  BY <1>2, <1>5 DEF CallsUnderWay, Statuses
<1> QED
  BY <1>3, <1>5, <1>6 DEF older, new

(* The UPDATE: all tokens are older, and the flight gets the new one.      *)
LEMMA Rotates ==
    ASSUME IInv, NEW c \in Callers, RotateToken(c)
    PROVE  /\ Core'
           /\ call' \in [Callers -> CallsUnderWay \cup {None}]
           /\ row' = [age |-> 0, seen |-> FALSE] /\ jar' \in Cookies
           /\ held' = FALSE /\ missed' = missed
           /\ \A d \in Callers : call'[d] # None => UnderWay(d)
           /\ \A d \in Callers :
                UnderWay(d) /\ call[d].stage = "sent" => call'[d].stage = "sent"
<1> DEFINE new == FreshCookie
           older(d) == OlderCall(call[d])
           given(d) == [older(d) EXCEPT !.stage = "ok", !.cookie = new]
<1>0. PICK group \in SUBSET Callers : group = Flight(c)
  BY DEF Flight
<1>1. /\ call \in [Callers -> CallsUnderWay \cup {None}]
      /\ jar \in Cookies
      /\ TypeOK /\ Lag
  BY DEF IInv, TypeOK, Core
<1>2. c \in group /\ \A d \in group : UnderWay(d) /\ call[d].stage \in {"looked", "joined"}
  BY <1>0 DEF Flight, RotateToken
<1>3. ASSUME NEW d \in Callers, UnderWay(d)
      PROVE  /\ older(d) \in CallsUnderWay
             /\ older(d).kind = call[d].kind
             /\ older(d).token = Older(call[d].token)
             /\ older(d).stage = call[d].stage
             /\ call[d].cookie = None => older(d).cookie = None
             /\ call[d].cookie # None =>
                  /\ older(d).cookie \in Cookies
                  /\ older(d).cookie.token = Older(call[d].cookie.token)
             /\ given(d) \in CallsUnderWay
             /\ given(d).kind = call[d].kind
             /\ given(d).token = Older(call[d].token)
             /\ given(d).stage = "ok"
             /\ given(d).cookie = new
  BY <1>3, OlderCallIs
<1>4. /\ row' = [age |-> 0, seen |-> FALSE]
      /\ jar' = OlderCookie(jar)
      /\ held' = FALSE /\ missed' = missed
      /\ call' = [d \in Callers |-> IF UnderWay(d) THEN Rotated(d, group) ELSE None]
  BY <1>0 DEF RotateToken, GiveNewToken
<1>5. /\ \A d \in Callers : ~UnderWay(d) => call'[d] = None
      /\ \A d \in group : call'[d] = given(d)
      /\ \A d \in Callers \ group : UnderWay(d) => call'[d] = older(d)
  <2>1. \A d \in Callers : call'[d] = IF UnderWay(d) THEN Rotated(d, group) ELSE None
    BY <1>4
  <2> QED
    BY <1>2, <2>1 DEF Rotated
<1> HIDE DEF older, given, new
<1>6. \A d \in Callers : call'[d] \in CallsUnderWay \cup {None}
  BY <1>2, <1>3, <1>5
<1>7. \A d \in Callers : call'[d] # None <=> UnderWay(d)
  BY <1>2, <1>3, <1>5, NoneIsNoCall
<1>8. call' \in [Callers -> CallsUnderWay \cup {None}]
  BY <1>4, <1>6
<1>9. jar' \in Cookies /\ jar'.token = Older(jar.token) /\ jar'.token \in Nat /\ jar'.token > 0
  <2>1. jar.token \in Tokens /\ Older(jar.token) \in Tokens /\ Older(jar.token) > 0
    BY <1>1, Bounds DEF Cookies
  <2>2. jar' \in Cookies /\ jar'.token = Older(jar.token)
    BY <1>1, <1>4, <2>1, NoneIsNoCall DEF OlderCookie, Cookies
  <2> QED
    BY <2>1, <2>2 DEF Tokens, MaxOlder
<1>10. new \in Cookies /\ new.token = 0 /\ new.left = NextRotation
  BY Bounds DEF new, FreshCookie, Cookies, Tokens, MaxOlder
<1>11. ASSUME NEW d \in Callers, call'[d] # None PROVE CallOK(call[d])'
  <2>1. UnderWay(d) /\ call[d] \in CallsUnderWay /\ CallOK(call[d])
    BY <1>1, <1>7, <1>11 DEF UnderWay, IInv, Core
  <2>2. /\ call'[d].kind = call[d].kind
        /\ call'[d].token = Older(call[d].token) /\ call'[d].token > 0
    BY <1>3, <1>5, <2>1, Bounds DEF CallsUnderWay
  <2>3. CASE d \in group
    <3>1. call'[d].stage = "ok" /\ call'[d].cookie = new /\ call[d].kind \in Rotations
      BY <1>2, <1>3, <1>5, <2>1, <2>3 DEF CallOK
    <3>2. Early(new)'
      BY <1>4, <1>10, Bounds DEF Early
    <3> QED
      BY <2>2, <3>1, <3>2 DEF CallOK, Early
  <2>4. CASE d \notin group
    <3>1. /\ call'[d].stage = call[d].stage
          /\ call[d].cookie = None => call'[d].cookie = None
          /\ call[d].cookie # None => call'[d].cookie.token = Older(call[d].cookie.token)
      BY <1>3, <1>5, <2>1, <2>4
    <3>2. call[d].cookie # None => call'[d].cookie.token > 0
      BY <2>1, <3>1, Bounds DEF CallsUnderWay, Cookies
    <3>3. call'[d].cookie # None => Early(call[d].cookie)'
      BY <3>1, <3>2 DEF Early
    <3> QED
      BY <2>1, <2>2, <3>1, <3>3 DEF CallOK
  <2> QED
    BY <2>3, <2>4
<1>12. Lag'
  <2>1. Brings(c)' /\ call'[c].cookie.token = 0
    BY <1>2, <1>3, <1>5, <1>7, <1>10, NoneIsNoCall DEF Brings, UnderWay
  <2>2. InAir(0)'
    BY <2>1 DEF InAir
  <2>3. ASSUME NEW i \in Tokens, InAir(i) PROVE InAir(Older(i))'
    <3>1. PICK d \in Callers : Brings(d) /\ call[d].cookie.token = i
      BY <2>3 DEF InAir
    <3>2. UnderWay(d) /\ call[d].cookie # None /\ d \notin group
      BY <1>2, <3>1 DEF Brings, IInv, Core, CallOK
    <3>3. /\ call'[d].cookie.token = Older(i)
          /\ call'[d].cookie # None
      BY <1>3, <1>5, <3>1, <3>2, NoneIsNoCall
    <3> QED
      BY <1>7, <3>2, <3>3 DEF InAir, Brings, UnderWay
  <2> QED
    BY <1>1, <1>4, <1>9, <2>2, <2>3, LagOfRotated
<1>13. SeenWasHeld' /\ ExpiryIsEarly'
  BY <1>4, <1>9 DEF SeenWasHeld, ExpiryIsEarly, Early
<1>14. \A d \in Callers : UnderWay(d) /\ call[d].stage = "sent" => call'[d].stage = "sent"
  BY <1>2, <1>3, <1>5
<1> QED
  BY <1>4, <1>7, <1>8, <1>9, <1>11, <1>12, <1>13, <1>14 DEF Core, UnderWay

(* Time passes: the row is older, and every cookie nearer its expiry.      *)
LEMMA Passes ==
    ASSUME IInv, Tick
    PROVE  IInv'
<1>1. /\ call \in [Callers -> CallsUnderWay \cup {None}]
      /\ row \in [age : 0..Interval, seen : BOOLEAN]
      /\ jar \in Cookies
      /\ job \in [Tabs -> Lefts \cup {Off, Calling}]
  BY DEF IInv, TypeOK
<1>2. Interval \in Nat
  BY Bounds
<1>3. /\ row' \in [age : 0..Interval, seen : BOOLEAN]
      /\ row'.seen = row.seen
      /\ row'.age \in {row.age, row.age + 1}
  <2> DEFINE age == IF row.age = Interval THEN row.age ELSE row.age + 1
  <2>1. age \in 0..Interval /\ age \in {row.age, row.age + 1}
    BY <1>1, <1>2
  <2>2. row' = [row EXCEPT !.age = age]
    BY <1>1 DEF Tick
  <2> HIDE DEF age
  <2> QED
    BY <1>1, <2>1, <2>2
<1>4. ASSUME NEW cookie \in Cookies
      PROVE  /\ LaterCookie(cookie) \in Cookies
             /\ LaterCookie(cookie).token = cookie.token
             /\ LaterCookie(cookie).left = Less(cookie.left)
             /\ Early(cookie) => Early(LaterCookie(cookie))'
  <2> DEFINE later == [cookie EXCEPT !.left = Less(cookie.left)]
  <2>1. LaterCookie(cookie) = later
    BY NoneIsNoCall DEF LaterCookie, Cookies
  <2>2. later \in Cookies /\ later.token = cookie.token /\ later.left = Less(cookie.left)
    BY Bounds DEF Cookies
  <2>3. cookie.left \in Int /\ Less(cookie.left) \in Int
        /\ (Less(cookie.left) >= 0 =>
              cookie.left >= 0 /\ Less(cookie.left) = cookie.left - 1)
    BY Bounds DEF Cookies, Lefts, Less, Floor
  <2>4. Early(cookie) => Early(later)'
    BY <1>1, <1>2, <1>3, <2>2, <2>3, Bounds DEF Early
  <2> QED
    BY <2>1, <2>2, <2>4 DEF Early
<1>5. jar' = LaterCookie(jar)
  BY <1>1, NoneIsNoCall DEF Tick, LaterCookie
<1>6. ASSUME NEW d \in Callers
      PROVE  /\ ~UnderWay(d) => call'[d] = None
             /\ UnderWay(d) =>
                  /\ call'[d] \in CallsUnderWay
                  /\ call'[d].token = call[d].token
                  /\ call'[d].stage = call[d].stage
                  /\ call'[d].kind = call[d].kind
                  /\ call'[d].cookie = LaterCookie(call[d].cookie)
  <2>1. call'[d] = IF UnderWay(d)
                   THEN [call[d] EXCEPT !.age = @ + 1, !.cookie = LaterCookie(@)]
                   ELSE None
    BY DEF Tick
  <2>2. CASE UnderWay(d)
    <3>1. call[d] \in CallsUnderWay /\ call[d].age < MaxDelay /\ MaxDelay \in Nat
      BY <1>1, <2>2, SessionRotationAssumption DEF UnderWay, Tick
    <3> DEFINE cookie == LaterCookie(call[d].cookie)
               older == call[d].age + 1
    <3>2. cookie \in Cookies \cup {None} /\ older \in 0..MaxDelay
      BY <1>4, <3>1 DEF LaterCookie, CallsUnderWay
    <3>3. call'[d] = [call[d] EXCEPT !.age = older, !.cookie = cookie]
      BY <2>1, <2>2, <3>1 DEF CallsUnderWay
    <3> HIDE DEF cookie, older
    <3>4. /\ call'[d] \in CallsUnderWay
          /\ call'[d].token = call[d].token
          /\ call'[d].stage = call[d].stage
          /\ call'[d].kind = call[d].kind
          /\ call'[d].cookie = cookie
      BY <3>1, <3>2, <3>3 DEF CallsUnderWay
    <3> QED
      BY <2>2, <3>4 DEF cookie
  <2> QED
    BY <2>1, <2>2
<1>7. \A d \in Callers : call'[d] # None <=> UnderWay(d)
  BY <1>6, NoneIsNoCall DEF UnderWay
<1>8. call' \in [Callers -> CallsUnderWay \cup {None}]
  BY <1>6 DEF Tick
<1>9. ASSUME NEW d \in Callers, UnderWay(d)
      PROVE  /\ call'[d].cookie = None <=> call[d].cookie = None
             /\ call[d].cookie # None =>
                  /\ call[d].cookie \in Cookies
                  /\ call'[d].cookie.token = call[d].cookie.token
                  /\ Early(call[d].cookie) => Early(call[d].cookie)'
  <2>1. call[d] \in CallsUnderWay /\ call'[d].cookie = LaterCookie(call[d].cookie)
    BY <1>1, <1>6, <1>9 DEF UnderWay
  <2>2. CASE call[d].cookie = None
    BY <2>1, <2>2 DEF LaterCookie
  <2>3. CASE call[d].cookie # None
    <3>1. PICK cookie \in Cookies : cookie = call[d].cookie
      BY <2>1, <2>3 DEF CallsUnderWay
    <3> QED
      BY <1>4, <2>1, <2>3, <3>1, NoneIsNoCall DEF Early
  <2> QED
    BY <2>2, <2>3
<1>10. ASSUME NEW d \in Callers, call'[d] # None PROVE CallOK(call[d])'
  <2>1. UnderWay(d) /\ CallOK(call[d])
    BY <1>7, <1>10 DEF IInv, Core
  <2>2. /\ call'[d].token = call[d].token
        /\ call'[d].stage = call[d].stage
        /\ call'[d].kind = call[d].kind
    BY <1>6, <2>1
  <2>3. call[d].cookie = None <=> call'[d].cookie = None
    BY <1>9, <2>1
  <2>4. call[d].cookie # None => Early(call[d].cookie)'
    BY <1>9, <2>1 DEF CallOK
  <2> QED
    BY <2>1, <2>2, <2>3, <2>4 DEF CallOK, Tick, historyVars
<1>11. jar'.token = jar.token /\ jar' \in Cookies
  BY <1>1, <1>4, <1>5
<1>12. Lag'
  <2>1. ASSUME NEW i, InAir(i) PROVE InAir(i)'
    <3>1. PICK d \in Callers : Brings(d) /\ call[d].cookie.token = i
      BY <2>1 DEF InAir
    <3>2. Brings(d)' /\ call'[d].cookie.token = i
      BY <1>7, <1>9, <3>1 DEF Brings, UnderWay
    <3> QED
      BY <3>2 DEF InAir
  <2>2. missed' = missed
    BY DEF Tick, historyVars
  <2> QED
    BY <1>11, <2>1, <2>2, LagKept, TokensAreNumbers DEF IInv, Core
<1>13. SeenWasHeld'
  BY <1>3 DEF IInv, Core, SeenWasHeld, Tick, historyVars
<1>14. ExpiryIsEarly'
  BY <1>1, <1>4, <1>5 DEF IInv, Core, ExpiryIsEarly, Early
<1>15. job' \in [Tabs -> Lefts \cup {Off, Calling}]
       /\ \A t \in Tabs : job[t] = Calling => job'[t] = Calling
  <2>1. \A t \in Tabs : job'[t] = IF job[t] \in Lefts THEN Less(job[t]) ELSE job[t]
    BY DEF Tick
  <2>2. \A t \in Tabs : job[t] \in Lefts \cup {Off, Calling}
    BY <1>1
  <2>3. Calling \notin Lefts
    BY Bounds
  <2>4. \A t \in Tabs : job'[t] \in Lefts \cup {Off, Calling}
    BY <2>1, <2>2, Bounds
  <2>5. \A t \in Tabs : job[t] = Calling => job'[t] = Calling
    BY <2>1, <2>3
  <2> QED
    BY <2>4, <2>5 DEF Tick
<1>16. TypeOK'
  BY <1>3, <1>8, <1>11, <1>15 DEF IInv, TypeOK, Tick, historyVars
<1>17. Busy'
  <2>1. page' = page
    BY DEF Tick
  <2>2. \A t \in Tabs : <<t, "job">> \in Callers /\ <<t, "page">> \in Callers
    BY DEF Callers
  <2> QED
    BY <1>7, <1>15, <2>1, <2>2 DEF IInv, Busy, UnderWay
<1> QED
  BY <1>10, <1>11, <1>12, <1>13, <1>14, <1>16, <1>17
  DEF IInv, Core, UnderWay, Tick, historyVars

(* Fewer calls do no harm. *)
LEMMA FewerCalls ==
    ASSUME IInv,
           \A d \in Callers : call'[d] # None => UnderWay(d),
           \A t \in Tabs : call'[<<t, "page">>] # None => page'[t] # "app",
           \A t \in Tabs : call'[<<t, "job">>] # None /\ page'[t] = "app"
                             => page[t] = "app" /\ job'[t] = job[t]
    PROVE  Busy'
<1>1. \A t \in Tabs : <<t, "job">> \in Callers /\ <<t, "page">> \in Callers
  BY DEF Callers
<1> QED
  BY <1>1 DEF IInv, Busy, UnderWay

(* The pages and jobs stay as they are.                                    *)
LEMMA SamePages ==
    ASSUME IInv, \A d \in Callers : call'[d] # None => UnderWay(d),
           UNCHANGED <<page, job>>
    PROVE  Busy'
<1>1. \A t \in Tabs : <<t, "job">> \in Callers /\ <<t, "page">> \in Callers
  BY DEF Callers
<1> QED
  BY <1>1, FewerCalls DEF IInv, Busy

LEMMA InitIInv == Init => IInv
<1> SUFFICES ASSUME Init PROVE IInv
  OBVIOUS
<1>1. \A c \in Callers : ~UnderWay(c)
  BY DEF Init, UnderWay
<1>2. TypeOK
  <2>1. row \in [age : 0..Interval, seen : BOOLEAN]
    BY SessionRotationAssumption DEF Init
  <2>2. jar \in Cookies
    BY Bounds DEF Init, Cookies, Tokens, MaxOlder
  <2>3. job \in [Tabs -> Lefts \cup {Off, Calling}]
    BY Bounds DEF Init
  <2>4. page \in [Tabs -> {"app", "loading", "login"}]
    BY DEF Init
  <2>5. call \in [Callers -> CallsUnderWay \cup {None}] /\ held \in BOOLEAN /\ missed \in 0..2
    BY DEF Init
  <2> QED
    BY <2>1, <2>2, <2>3, <2>4, <2>5 DEF TypeOK
<1>3. Busy
  <2>1. \A t \in Tabs : <<t, "job">> \in Callers /\ <<t, "page">> \in Callers
    BY DEF Callers
  <2> QED
    BY <1>1, <2>1 DEF Busy
<1>4. SeenWasHeld /\ held
  BY DEF SeenWasHeld, Init
<1>5. ExpiryIsEarly
  BY Bounds DEF ExpiryIsEarly, Early, Init
<1>6. Lag
  BY DEF Lag, Init
<1> QED
  BY <1>1, <1>2, <1>3, <1>4, <1>5, <1>6 DEF IInv, Core

-----------------------------------------------------------------------------
(* One lemma for the steps of each actor. *)

LEMMA JobKeeps ==
    ASSUME IInv, NEW t \in Tabs, Job(t)
    PROVE  IInv'
<1> DEFINE c == <<t, "job">>
<1>0. c \in Callers /\ <<t, "page">> \in Callers
  BY DEF Callers
<1>1. /\ job \in [Tabs -> Lefts \cup {Off, Calling}]
      /\ page \in [Tabs -> {"app", "loading", "login"}]
      /\ jar \in Cookies
      /\ TypeOK
  BY DEF IInv, TypeOK
<1>2. ASSUME Reschedule(t) PROVE IInv'
  <2>1. job' = [job EXCEPT ![t] = jar.left] /\ jar.left \in Lefts
    BY <1>1, <1>2 DEF Reschedule, Cookies
  <2>2. UNCHANGED <<row, jar, page, call, held, missed>>
    BY <1>2 DEF Reschedule, historyVars
  <2>3. TypeOK'
    BY <1>1, <2>1, <2>2 DEF TypeOK
  <2>4. ~UnderWay(c)
    BY <1>0, <1>2, Bounds DEF Reschedule, JobDue, IInv, Busy
  <2>5. Busy'
    BY <1>1, <2>1, <2>2, <2>4 DEF IInv, Busy, UnderWay
  <2>6. Core'
    BY <2>2 DEF IInv, Core, CallOK, Lag, InAir, Brings, UnderWay, SeenWasHeld, ExpiryIsEarly, Early
  <2> QED
    BY <2>3, <2>5, <2>6 DEF IInv
<1>3. ASSUME NEW s \in Servers, RunJob(t, s) PROVE IInv'
  <2>1. PICK v \in CallsUnderWay : v = Sent("job", s)
    BY <1>1, SentType DEF Kinds
  <2>2. /\ v.cookie = None /\ v.stage = "sent" /\ v.token = jar.token
        /\ call' = [call EXCEPT ![c] = v]
        /\ job' = [job EXCEPT ![t] = Calling]
        /\ UNCHANGED <<row, jar, page, held, missed>>
    BY <1>3, <2>1 DEF RunJob, Sent, historyVars
  <2>3. ~UnderWay(c) /\ page[t] = "app" /\ ~UnderWay(<<t, "page">>)
    BY <1>0, <1>3, Bounds DEF RunJob, JobDue, IInv, Busy
  <2>4. Core' /\ call' \in [Callers -> CallsUnderWay \cup {None}]
    BY <1>0, <2>2, <2>3, SendsCall
  <2>5. TypeOK'
    <3>1. call' \in [Callers -> CallsUnderWay \cup {None}]
      BY <2>4 DEF Core
    <3> QED
      BY <1>1, <2>2, <3>1 DEF TypeOK
  <2>6. Busy'
    <3>1. \A d \in Callers : d # c => call'[d] = call[d]
      BY <1>1, <2>2 DEF TypeOK
    <3>2. job'[t] = Calling /\ \A u \in Tabs : u # t => job'[u] = job[u]
      BY <1>1, <2>2
    <3>3. \A u \in Tabs : /\ <<u, "job">> \in Callers /\ <<u, "page">> \in Callers
                          /\ <<u, "page">> # c
                          /\ u # t => <<u, "job">> # c
      BY DEF Callers
    <3>4. \A u \in Tabs : \A d \in Callers : u # t /\ d[1] = u => d # c
      OBVIOUS
    <3> QED
      BY <2>2, <2>3, <3>1, <3>2, <3>3, <3>4 DEF IInv, Busy, UnderWay
  <2> QED
    BY <2>4, <2>5, <2>6 DEF IInv
<1>4. ASSUME JobAnswer(t) PROVE IInv'
  <2>1. /\ Answered(c) /\ SetCookies(c) /\ row' = row
        /\ call' = [call EXCEPT ![c] = None]
    BY <1>4 DEF JobAnswer, End
  <2>2. PICK v : v = None
    OBVIOUS
  <2>3. /\ Core' /\ jar' \in Cookies /\ held' \in BOOLEAN /\ missed' \in 0..2
        /\ call' \in [Callers -> CallsUnderWay \cup {None}]
        /\ \A d \in Callers : call'[d] # None => UnderWay(d)
    <3>1. call' = [call EXCEPT ![c] = v]
      BY <2>1, <2>2
    <3> QED
      BY <1>0, <2>1, <2>2, <3>1, TakesAnswer
  <2>4. /\ page' \in [Tabs -> {"app", "loading", "login"}]
        /\ job' \in [Tabs -> Lefts \cup {Off, Calling}]
        /\ \A u \in Tabs : u # t => page'[u] = page[u] /\ job'[u] = job[u]
        /\ page'[t] = "app" => page[t] = "app"
    BY <1>1, <1>4, <2>3 DEF JobAnswer, SetLoggedOut, Cookies
  <2>5. TypeOK'
    BY <1>1, <2>1, <2>3, <2>4 DEF TypeOK
  <2>6. call'[c] = None
    BY <1>0, <1>1, <2>1 DEF TypeOK
  <2>7. Busy'
    <3>1. \A u \in Tabs : call'[<<u, "page">>] # None => page'[u] # "app"
      BY <2>3, <2>4 DEF IInv, Busy, Callers
    <3> QED
      BY <2>3, <2>4, <2>6, <3>1, FewerCalls
  <2> QED
    BY <2>3, <2>5, <2>7 DEF IInv
<1> QED
  BY <1>2, <1>3, <1>4 DEF Job

LEMMA PageKeeps ==
    ASSUME IInv, NEW t \in Tabs, Page(t)
    PROVE  IInv'
<1> DEFINE c == <<t, "page">>
<1>0. c \in Callers /\ <<t, "job">> \in Callers
  BY DEF Callers
<1>1. /\ job \in [Tabs -> Lefts \cup {Off, Calling}]
      /\ page \in [Tabs -> {"app", "loading", "login"}]
      /\ jar \in Cookies
      /\ TypeOK
  BY DEF IInv, TypeOK
<1>2. ASSUME NEW s \in Servers, Load(t, s) PROVE IInv'
  <2>1. PICK v \in CallsUnderWay : v = Sent("page", s)
    BY <1>1, SentType DEF Kinds
  <2>2. /\ v.cookie = None /\ v.stage = "sent" /\ v.token = jar.token
        /\ call' = [call EXCEPT ![c] = v]
        /\ UNCHANGED <<row, jar, job, page, held, missed>>
    BY <1>2, <2>1 DEF Load, Sent, historyVars
  <2>3. page[t] # "app" /\ \A d \in Callers : d[1] = t => ~UnderWay(d)
    BY <1>2 DEF Load
  <2>4. Core' /\ call' \in [Callers -> CallsUnderWay \cup {None}]
    <3>1. ~UnderWay(c)
      BY <1>0, <2>3
    <3> QED
      BY <1>0, <2>2, <3>1, SendsCall
  <2>5. TypeOK'
    BY <1>1, <2>2, <2>4 DEF TypeOK
  <2>6. Busy'
    <3>1. \A d \in Callers : d # c => call'[d] = call[d]
      BY <1>1, <2>2 DEF TypeOK
    <3>2. \A u \in Tabs : /\ <<u, "job">> \in Callers /\ <<u, "page">> \in Callers
                          /\ <<u, "job">> # c
                          /\ u # t => <<u, "page">> # c
      BY DEF Callers
    <3>3. \A u \in Tabs : \A d \in Callers : u # t /\ d[1] = u => d # c
      OBVIOUS
    <3>4. \A d \in Callers : d[2] # "page" => d # c
      OBVIOUS
    <3> QED
      BY <2>2, <2>3, <3>1, <3>2, <3>3, <3>4 DEF IInv, Busy, UnderWay
  <2> QED
    BY <2>4, <2>5, <2>6 DEF IInv
<1>3. ASSUME PageAnswer(t) PROVE IInv'
  <2>1. Answered(c) /\ SetCookies(c) /\ row' = row
    BY <1>3 DEF PageAnswer
  <2>2. /\ UnderWay(c) /\ page[t] # "app"
        /\ \A d \in Callers : d[1] = t /\ d[2] # "page" => ~UnderWay(d)
    BY <2>1 DEF Answered, IInv, Busy
  <2>3. jar' \in Cookies
    <3>1. call[c] \in CallsUnderWay
      BY <1>0, <1>1, <2>2 DEF TypeOK, UnderWay
    <3> QED
      BY <1>1, <2>1, <3>1 DEF SetCookies, CallsUnderWay
  <2>4. PICK v : /\ call' = [call EXCEPT ![c] = v]
                 /\ \/ v = None
                    \/ /\ v \in CallsUnderWay
                       /\ v.cookie = None
                       /\ v.stage = "sent"
                       /\ v.token \in {jar.token, jar'.token}
                       /\ page' = page
    <3>1. CASE End(c)
      BY <3>1 DEF End
    <3>2. CASE /\ \E s \in Servers :
                      call' = [call EXCEPT ![c] =
                                  [Sent(IF call[c].kind = "page" THEN "redirect"
                                        ELSE "page", s) EXCEPT !.token = jar'.token]]
               /\ UNCHANGED <<page, job>>
      <4>1. PICK kind \in {"page", "redirect"}, s \in Servers :
                call' = [call EXCEPT ![c] = [Sent(kind, s) EXCEPT !.token = jar'.token]]
        BY <3>2
      <4>2. PICK token \in Tokens : token = jar'.token
        BY <2>3 DEF Cookies
      <4>3. kind \in Kinds
        BY DEF Kinds
      <4>4. call' = [call EXCEPT ![c] = [Sent(kind, s) EXCEPT !.token = token]]
        BY <4>1, <4>2
      <4>5. PICK sent \in CallsUnderWay :
                sent = Sent(kind, s) /\ sent.cookie = None /\ sent.stage = "sent"
        BY <1>1, <4>3, SentType
      <4>6. PICK w : w = [sent EXCEPT !.token = token]
        OBVIOUS
      <4>7. w \in CallsUnderWay /\ w.cookie = None /\ w.stage = "sent" /\ w.token = token
        BY <4>5, <4>6 DEF CallsUnderWay
      <4>8. call' = [call EXCEPT ![c] = w]
        BY <4>4, <4>5, <4>6
      <4> QED
        BY <3>2, <4>2, <4>7, <4>8
    <3> QED
      BY <1>3, <3>1, <3>2 DEF PageAnswer
  <2>5. /\ Core' /\ jar' \in Cookies /\ held' \in BOOLEAN /\ missed' \in 0..2
        /\ call' \in [Callers -> CallsUnderWay \cup {None}]
        /\ \A d \in Callers : call'[d] # None => UnderWay(d)
    BY <1>0, <2>1, <2>4, TakesAnswer
  <2>6. /\ page' \in [Tabs -> {"app", "loading", "login"}]
        /\ job' \in [Tabs -> Lefts \cup {Off, Calling}]
        /\ \A u \in Tabs : u # t => page'[u] = page[u] /\ job'[u] = job[u]
    <3>1. jar.left \in Lefts
      BY <1>1 DEF Cookies
    <3> QED
      BY <1>1, <1>3, <3>1 DEF PageAnswer
  <2>7. TypeOK'
    BY <1>1, <2>1, <2>5, <2>6 DEF TypeOK
  <2>8. call'[c] = v
    BY <1>0, <1>1, <2>4 DEF TypeOK
  <2>9. Busy'
    <3>1. \A u \in Tabs : call'[<<u, "page">>] # None => page'[u] # "app"
      BY <2>2, <2>4, <2>5, <2>6, <2>8 DEF IInv, Busy, Callers
    <3>2. call'[<<t, "job">>] = None
      BY <1>0, <2>2, <2>5
    <3>3. \A u \in Tabs : call'[<<u, "job">>] # None /\ page'[u] = "app"
                             => page[u] = "app" /\ job'[u] = job[u]
      BY <2>6, <3>2
    <3> QED
      BY <2>5, <3>1, <3>3, FewerCalls
  <2> QED
    BY <2>5, <2>7, <2>9 DEF IInv
<1> QED
  BY <1>2, <1>3 DEF Page

LEMMA RequestKeeps ==
    ASSUME IInv, NEW t \in ActiveTabs, Ask(t) \/ RequestAnswer(t) \/ CheckAnswer(t)
    PROVE  IInv'
<1> DEFINE c == <<t, "request">>
<1>0. t \in Tabs /\ c \in Callers
  BY SessionRotationAssumption DEF Callers
<1>1. /\ job \in [Tabs -> Lefts \cup {Off, Calling}]
      /\ page \in [Tabs -> {"app", "loading", "login"}]
      /\ jar \in Cookies /\ jar.token \in Tokens
      /\ TypeOK
  BY DEF IInv, TypeOK, Cookies
<1>2. \A u \in Tabs : /\ <<u, "job">> \in Callers /\ <<u, "page">> \in Callers
                      /\ <<u, "job">> # c /\ <<u, "page">> # c
  BY DEF Callers
<1>3. ASSUME Ask(t) PROVE IInv'
  <2>1. PICK s \in Servers : Request(t, s)
    BY <1>3 DEF Ask
  <2>2. PICK v \in CallsUnderWay : v = Sent("first", s)
    BY <1>1, SentType DEF Kinds
  <2>3. /\ v.cookie = None /\ v.stage = "sent" /\ v.token = jar.token
        /\ call' = [call EXCEPT ![c] = v]
        /\ UNCHANGED <<row, jar, job, page, held, missed>>
        /\ ~UnderWay(c) /\ page[t] = "app"
    BY <2>1, <2>2 DEF Request, Sent, historyVars
  <2>4. Core' /\ call' \in [Callers -> CallsUnderWay \cup {None}]
    BY <1>0, <2>3, SendsCall
  <2>5. TypeOK'
    BY <1>1, <2>3, <2>4 DEF TypeOK
  <2>6. Busy'
    <3>1. \A d \in Callers : d # c => call'[d] = call[d]
      BY <1>1, <2>3 DEF TypeOK
    <3>2. ~UnderWay(<<t, "page">>)
      BY <1>0, <2>3 DEF IInv, Busy
    <3>3. \A u \in Tabs : \A d \in Callers : u # t /\ d[1] = u => d # c
      OBVIOUS
    <3> QED
      BY <1>2, <2>3, <3>1, <3>2, <3>3 DEF IInv, Busy, UnderWay
  <2> QED
    BY <2>4, <2>5, <2>6 DEF IInv
<1>4. ASSUME RequestAnswer(t) PROVE IInv'
  <2>1. Answered(c) /\ SetCookies(c) /\ UNCHANGED <<row, job, page>>
    BY <1>4 DEF RequestAnswer
  <2>2. PICK v : /\ call' = [call EXCEPT ![c] = v]
                 /\ \/ v = None
                    \/ /\ v \in CallsUnderWay
                       /\ v.cookie = None
                       /\ v.stage = "sent"
                       /\ v.token \in {jar.token, jar'.token}
    <3>1. CASE End(c)
      BY <3>1 DEF End
    <3>2. CASE \E s \in Servers :
                  call' = [call EXCEPT ![c] =
                              Sent(IF jar.left < 0 THEN "rotate" ELSE "ping", s)]
      <4>1. PICK kind \in {"rotate", "ping"}, s \in Servers :
                call' = [call EXCEPT ![c] = Sent(kind, s)]
        BY <3>2
      <4>2. kind \in Kinds
        BY DEF Kinds
      <4> QED
        BY <1>1, <4>1, <4>2, SentType
    <3> QED
      BY <1>4, <3>1, <3>2 DEF RequestAnswer
  <2>3. /\ Core' /\ jar' \in Cookies /\ held' \in BOOLEAN /\ missed' \in 0..2
        /\ call' \in [Callers -> CallsUnderWay \cup {None}]
        /\ \A d \in Callers : call'[d] # None => UnderWay(d)
    BY <1>0, <2>1, <2>2, TakesAnswer
  <2>4. TypeOK'
    BY <1>1, <2>1, <2>3 DEF TypeOK
  <2>5. Busy'
    BY <2>1, <2>3, SamePages
  <2> QED
    BY <2>3, <2>4, <2>5 DEF IInv
<1>5. ASSUME CheckAnswer(t) PROVE IInv'
  <2>1. Answered(c) /\ SetCookies(c) /\ row' = row /\ page[t] = "app"
    BY <1>5 DEF CheckAnswer
  <2>2. jar' \in Cookies
    <3>1. call[c] \in CallsUnderWay
      BY <1>0, <1>1, <2>1 DEF TypeOK, UnderWay, Answered
    <3> QED
      BY <1>1, <2>1, <3>1 DEF SetCookies, CallsUnderWay
  <2>3. PICK v : /\ call' = [call EXCEPT ![c] = v]
                 /\ \/ v = None /\ SetLoggedOut(t)
                    \/ /\ v \in CallsUnderWay
                       /\ v.cookie = None
                       /\ v.stage = "sent"
                       /\ v.token \in {jar.token, jar'.token}
                       /\ UNCHANGED <<job, page>>
    <3>1. CASE End(c) /\ SetLoggedOut(t)
      BY <3>1 DEF End
    <3>2. CASE /\ \E s \in Servers :
                      call' = [call EXCEPT ![c] =
                                  [Sent("second", s) EXCEPT !.token = jar'.token]]
               /\ UNCHANGED <<job, page>>
      <4>1. PICK s \in Servers :
                call' = [call EXCEPT ![c] = [Sent("second", s) EXCEPT !.token = jar'.token]]
        BY <3>2
      <4>2. PICK token \in Tokens : token = jar'.token
        BY <2>2 DEF Cookies
      <4>3. "second" \in Kinds
        BY DEF Kinds
      <4>4. call' = [call EXCEPT ![c] = [Sent("second", s) EXCEPT !.token = token]]
        BY <4>1, <4>2
      <4>5. PICK sent \in CallsUnderWay :
                sent = Sent("second", s) /\ sent.cookie = None /\ sent.stage = "sent"
        BY <1>1, <4>3, SentType
      <4>6. PICK w : w = [sent EXCEPT !.token = token]
        OBVIOUS
      <4>7. w \in CallsUnderWay /\ w.cookie = None /\ w.stage = "sent" /\ w.token = token
        BY <4>5, <4>6 DEF CallsUnderWay
      <4>8. call' = [call EXCEPT ![c] = w]
        BY <4>4, <4>5, <4>6
      <4> QED
        BY <3>2, <4>2, <4>7, <4>8
    <3> QED
      BY <1>5, <3>1, <3>2 DEF CheckAnswer
  <2>4. /\ Core' /\ held' \in BOOLEAN /\ missed' \in 0..2
        /\ call' \in [Callers -> CallsUnderWay \cup {None}]
        /\ \A d \in Callers : call'[d] # None => UnderWay(d)
    BY <1>0, <2>1, <2>3, TakesAnswer
  <2>5. /\ page' \in [Tabs -> {"app", "loading", "login"}]
        /\ job' \in [Tabs -> Lefts \cup {Off, Calling}]
        /\ \A u \in Tabs : page'[u] = "app" => page[u] = "app" /\ job'[u] = job[u]
    BY <1>1, <2>3 DEF SetLoggedOut
  <2>6. TypeOK'
    BY <1>1, <2>1, <2>2, <2>4, <2>5 DEF TypeOK
  <2>7. Busy'
    <3>1. \A u \in Tabs : call'[<<u, "page">>] # None => page'[u] # "app"
      BY <1>2, <2>4, <2>5 DEF IInv, Busy
    <3> QED
      BY <2>4, <2>5, <3>1, FewerCalls
  <2> QED
    BY <2>4, <2>6, <2>7 DEF IInv
<1> QED
  BY <1>3, <1>4, <1>5

(* What a lookup does to its call. *)
LEMMA LookupStep ==
    ASSUME NEW c \in Callers, Authenticate(c) \/ JoinFlight(c) \/ LookupToken(c)
    PROVE  /\ UnderWay(c) /\ call[c].stage = "sent"
           /\ row' = RowLooked(call[c].token)
           /\ UNCHANGED <<jar, job, page, held, missed>>
           /\ \E stage \in {"looked", "joined"} \cup Statuses :
                 /\ call' = [call EXCEPT ![c].stage = stage]
                 /\ stage \in {"looked", "joined"} => call[c].kind \in Rotations
                 /\ stage = "stale" => Authenticate(c)
<1>1. CASE Authenticate(c)
  <2>1. PICK stage \in Statuses : Answer(c, stage)
    BY <1>1 DEF Authenticate, Statuses
  <2>2. stage \notin {"looked", "joined"}
    BY <2>1 DEF Statuses
  <2> QED
    BY <1>1, <2>1, <2>2 DEF Authenticate, Answer, historyVars
<1>2. CASE JoinFlight(c)
  <2>1. call' = [call EXCEPT ![c].stage = "joined"] /\ RotationArrives(c)
    BY <1>2 DEF JoinFlight
  <2>2. PICK stage : stage = "joined"
    OBVIOUS
  <2>3. /\ call' = [call EXCEPT ![c].stage = stage]
        /\ stage \in {"looked", "joined"} \cup Statuses /\ stage # "stale"
    BY <2>1, <2>2
  <2> QED
    BY <2>1, <2>3 DEF RotationArrives, historyVars
<1>3. CASE LookupToken(c)
  <2>1. RotationArrives(c)
    BY <1>3 DEF LookupToken
  <2>2. PICK stage \in {"looked", "unauthorized"} : call' = [call EXCEPT ![c].stage = stage]
    BY <1>3 DEF LookupToken
  <2>3. stage \in {"looked", "joined"} \cup Statuses /\ stage # "stale"
    BY <2>2 DEF Statuses
  <2> QED
    BY <2>1, <2>2, <2>3 DEF RotationArrives, historyVars
<1> QED
  BY <1>1, <1>2, <1>3

LEMMA ServeKeeps ==
    ASSUME IInv, NEW c \in Callers, Serve(c)
    PROVE  IInv'
<1>1. TypeOK
  BY DEF IInv
<1>2. ASSUME Core', call' \in [Callers -> CallsUnderWay \cup {None}],
             row' \in [age : 0..Interval, seen : BOOLEAN], jar' \in Cookies,
             held' \in BOOLEAN, missed' \in 0..2,
             \A d \in Callers : call'[d] # None => UnderWay(d),
             UNCHANGED <<job, page>>
      PROVE  IInv'
  <2>1. TypeOK'
    BY <1>1, <1>2 DEF TypeOK
  <2>2. Busy'
    BY <1>2, SamePages
  <2> QED
    BY <1>2, <2>1, <2>2 DEF IInv
<1>3. ASSUME UnderWay(c), call[c].stage = "sent",
             NEW stage \in {"looked", "joined"} \cup Statuses,
             stage \in {"looked", "joined"} => call[c].kind \in Rotations,
             call' = [call EXCEPT ![c].stage = stage],
             row' = RowLooked(call[c].token),
             UNCHANGED <<jar, job, page, held, missed>>
      PROVE  IInv'
  <2>1. /\ Core'
        /\ call' \in [Callers -> CallsUnderWay \cup {None}]
        /\ row' \in [age : 0..Interval, seen : BOOLEAN]
        /\ \A d \in Callers : call'[d] # None => UnderWay(d)
    BY <1>3, LooksUp
  <2> QED
    BY <1>1, <1>2, <1>3, <2>1 DEF TypeOK
<1>4. CASE Authenticate(c) \/ JoinFlight(c) \/ LookupToken(c)
  BY <1>3, <1>4, LookupStep
<1>5. CASE RotateToken(c)
  <2>1. /\ Core'
        /\ call' \in [Callers -> CallsUnderWay \cup {None}]
        /\ row' = [age |-> 0, seen |-> FALSE] /\ jar' \in Cookies
        /\ held' = FALSE /\ missed' = missed
        /\ \A d \in Callers : call'[d] # None => UnderWay(d)
    BY <1>5, Rotates
  <2>2. row' \in [age : 0..Interval, seen : BOOLEAN]
    BY <2>1, SessionRotationAssumption
  <2>3. UNCHANGED <<job, page>>
    BY <1>5 DEF RotateToken
  <2> QED
    BY <1>1, <1>2, <2>1, <2>2, <2>3 DEF TypeOK
<1> QED
  BY <1>4, <1>5 DEF Serve

LEMMA LoseKeeps ==
    ASSUME IInv, NEW c \in Callers, Lose(c)
    PROVE  IInv'
<1>1. /\ job \in [Tabs -> Lefts \cup {Off, Calling}]
      /\ TypeOK
  BY DEF IInv, TypeOK
<1>2. /\ UnderWay(c) /\ call' = [call EXCEPT ![c] = None]
      /\ UNCHANGED <<row, jar, page, held>>
      /\ job' = IF c[2] = "job" THEN [job EXCEPT ![c[1]] = Off] ELSE job
      /\ IF News(call[c].cookie) THEN Miss(1) ELSE UNCHANGED missed
  BY DEF Lose, End
<1>3. Core' /\ call' \in [Callers -> CallsUnderWay \cup {None}] /\ missed' \in 0..2
  BY <1>2, LosesCall
<1>4. /\ \A d \in Callers : d # c => call'[d] = call[d]
      /\ call'[c] = None
  BY <1>1, <1>2 DEF TypeOK
<1>5. \A d \in Callers : call'[d] # None => UnderWay(d)
  BY <1>4 DEF UnderWay
<1>6. job' \in [Tabs -> Lefts \cup {Off, Calling}]
  BY <1>1, <1>2
<1>7. TypeOK'
  BY <1>1, <1>2, <1>3, <1>6 DEF TypeOK
<1>8. Busy'
  <2>1. \A t \in Tabs : /\ <<t, "job">> \in Callers /\ <<t, "page">> \in Callers
                        /\ <<t, "job">>[1] = t /\ <<t, "job">>[2] = "job"
    BY DEF Callers
  <2>2. \A t \in Tabs : call'[<<t, "page">>] # None => page'[t] # "app"
    BY <1>2, <1>5, <2>1 DEF IInv, Busy
  <2>3. ASSUME NEW t \in Tabs, call'[<<t, "job">>] # None
        PROVE  job'[t] = job[t]
    <3>1. c # <<t, "job">>
      BY <1>4, <2>3
    <3>2. c \in (Tabs \X {"job", "page"}) \cup (ActiveTabs \X {"request"})
      BY DEF Callers
    <3>3. c[2] = "job" => c[1] # t
      BY <3>1, <3>2
    <3> QED
      BY <1>1, <1>2, <3>3
  <2>4. page' = page
    BY <1>2
  <2> QED
    BY <1>5, <2>2, <2>3, <2>4, FewerCalls
<1> QED
  BY <1>3, <1>7, <1>8 DEF IInv

LEMMA NextIInv == IInv /\ [Next]_vars => IInv'
<1> SUFFICES ASSUME IInv, [Next]_vars PROVE IInv'
  OBVIOUS
<1>1. CASE Next
  <2>1. CASE \E t \in Tabs : Job(t) \/ Page(t)
    BY <2>1, JobKeeps, PageKeeps
  <2>2. CASE \E t \in ActiveTabs : Ask(t) \/ RequestAnswer(t) \/ CheckAnswer(t)
    BY <2>2, RequestKeeps
  <2>3. CASE \E c \in Callers : Serve(c) \/ Lose(c)
    BY <2>3, ServeKeeps, LoseKeeps
  <2>4. CASE Tick
    BY <2>4, Passes
  <2> QED
    BY <1>1, <2>1, <2>2, <2>3, <2>4 DEF Next
<1>2. CASE UNCHANGED vars
  BY <1>2
  DEF vars, historyVars, IInv, TypeOK, Busy, Core, CallOK, Lag, InAir, Brings,
      UnderWay, SeenWasHeld, ExpiryIsEarly, Early
<1> QED
  BY <1>1, <1>2

LEMMA Invariance == Spec => []IInv
  BY InitIInv, NextIInv, PTL DEF Spec

-----------------------------------------------------------------------------
(* Each variable keeps its type, a call that was answered and not          *)
(* delivered included: the ages and expiries that the jobs of              *)
(* context_srv.ts and the lookups of auth_token.go compare stay in range.  *)
THEOREM TypeCorrect == Spec => []TypeOK
<1>1. IInv => TypeOK
  BY DEF IInv
<1> QED
  BY <1>1, Invariance, PTL

(* The expiry cookie of the row's token passes before the token is due for *)
(* rotation, by the leeway at least (WriteSessionCookie), whatever        *)
(* the order in which servers rotate and answers set cookies.              *)
THEOREM ExpiryEarly == Spec => []ExpiryIsEarly
<1>1. IInv => ExpiryIsEarly
  BY DEF IInv, Core
<1> QED
  BY <1>1, Invariance, PTL

(* Between rotations the browser has a token that the row knows            *)
(* (LookupToken in auth_token.go finds it, or the one before), unless the  *)
(* answers of two rotations were lost or overtaken since it last had the   *)
(* row's: however many tabs and servers rotate, and however long the calls *)
(* take.                                                                   *)
THEOREM TokenKnown == Spec => []TokenIsKnown
<1>1. IInv => TokenIsKnown
  <2> SUFFICES ASSUME IInv, ~Rotating, missed < 2 PROVE jar.token \in {0, 1}
    BY DEF TokenIsKnown
  <2>1. \A i : ~InAir(i)
    BY DEF InAir, Brings, Rotating, IInv, Core, CallOK
  <2>2. TypeOK /\ Lag /\ jar.token \in Nat
    BY TokensAreNumbers DEF IInv, Core
  <2>3. missed \in {0, 1}
    BY <2>2, TokensAreNumbers
  <2>4. CASE missed = 0
    <3>1. jar.token # 0 => 0 \in 0..(jar.token - 1)
      BY <2>2
    <3> QED
      BY <2>1, <2>2, <2>4, <3>1 DEF Lag
  <2>5. CASE missed = 1
    <3>1. jar.token \notin {0, 1} => 0 \in 0..(jar.token - 1) /\ 1 \in 0..(jar.token - 1)
      BY <2>2
    <3> QED
      BY <2>1, <2>2, <2>5, <3>1 DEF Lag
  <2> QED
    BY <2>3, <2>4, <2>5
<1> QED
  BY <1>1, Invariance, PTL

-----------------------------------------------------------------------------
(* A call that comes to its server and is told to rotate was looked up in  *)
(* this step.                                                              *)
LEMMA OnlyLookupsRefuse ==
    ASSUME IInv, Next, NEW c \in Callers,
           UnderWay(c), call[c].stage = "sent",
           UnderWay(c)', call'[c].stage = "stale"
    PROVE  Authenticate(c)
<1>0. /\ call \in [Callers -> CallsUnderWay \cup {None}]
      /\ jar \in Cookies /\ jar.token \in Tokens /\ TypeOK
  BY DEF IInv, TypeOK, Cookies
<1>1. ASSUME NEW d \in Callers, NEW v, call' = [call EXCEPT ![d] = v],
             v = None \/ v.stage = "sent"
      PROVE  FALSE
  <2>1. call'[c] = call[c] \/ call'[c] = v
    BY <1>0, <1>1
  <2> QED
    BY <1>1, <2>1 DEF UnderWay
<1>2. \A d \in Callers : ~End(d)
  BY <1>1 DEF End
<1>3. \A kind, s : Sent(kind, s).stage = "sent" /\ [Sent(kind, s) EXCEPT !.token = jar'.token].stage = "sent"
  BY DEF Sent
<1>4. /\ \A t \in Tabs : <<t, "job">> \in Callers /\ <<t, "page">> \in Callers
      /\ \A t \in ActiveTabs : <<t, "request">> \in Callers
  BY DEF Callers
<1>5. ASSUME NEW t \in Tabs, Job(t) PROVE FALSE
  <2>1. CASE Reschedule(t)
    BY <2>1 DEF Reschedule
  <2>2. CASE \E s \in Servers : RunJob(t, s)
    BY <1>1, <1>3, <1>4, <2>2 DEF RunJob
  <2>3. CASE JobAnswer(t)
    BY <1>2, <1>4, <2>3 DEF JobAnswer
  <2> QED
    BY <1>5, <2>1, <2>2, <2>3 DEF Job
<1>6. ASSUME NEW t \in Tabs, Page(t) PROVE FALSE
  <2>1. CASE \E s \in Servers : Load(t, s)
    BY <1>1, <1>3, <1>4, <2>1 DEF Load
  <2>2. CASE PageAnswer(t)
    <3>1. PICK kind, s : call' = [call EXCEPT ![<<t, "page">>] =
                                     [Sent(kind, s) EXCEPT !.token = jar'.token]]
      BY <1>2, <1>4, <2>2 DEF PageAnswer
    <3> QED
      BY <1>1, <1>3, <1>4, <3>1
  <2> QED
    BY <1>6, <2>1, <2>2 DEF Page
<1>7. ASSUME NEW t \in ActiveTabs, Ask(t) \/ RequestAnswer(t) \/ CheckAnswer(t)
      PROVE  FALSE
  <2>1. CASE Ask(t)
    BY <1>1, <1>3, <1>4, <2>1 DEF Ask, Request
  <2>2. CASE RequestAnswer(t)
    <3>1. PICK kind, s : call' = [call EXCEPT ![<<t, "request">>] = Sent(kind, s)]
      BY <1>2, <1>4, <2>2 DEF RequestAnswer
    <3> QED
      BY <1>1, <1>3, <1>4, <3>1
  <2>3. CASE CheckAnswer(t)
    <3>1. PICK s : call' = [call EXCEPT ![<<t, "request">>] =
                               [Sent("second", s) EXCEPT !.token = jar'.token]]
      BY <1>2, <1>4, <2>3 DEF CheckAnswer
    <3> QED
      BY <1>1, <1>3, <1>4, <3>1
  <2> QED
    BY <1>7, <2>1, <2>2, <2>3
<1>8. ASSUME NEW d \in Callers, Serve(d) PROVE d = c /\ Authenticate(c)
  <2>1. CASE RotateToken(d)
    BY <2>1, Rotates
  <2>2. CASE Authenticate(d) \/ JoinFlight(d) \/ LookupToken(d)
    <3>1. PICK stage \in {"looked", "joined"} \cup Statuses :
             /\ call' = [call EXCEPT ![d].stage = stage]
             /\ stage \in {"looked", "joined"} => call[d].kind \in Rotations
             /\ stage = "stale" => Authenticate(d)
      BY <2>2, LookupStep
    <3>2. /\ \A e \in Callers : e # d => call'[e] = call[e]
          /\ call'[d].stage = stage
      BY <2>2, <3>1, LookupStep, LooksUp
    <3>3. d = c
      BY <3>2
    <3> QED
      BY <3>1, <3>2, <3>3
  <2> QED
    BY <1>8, <2>1, <2>2 DEF Serve
<1>9. ASSUME NEW d \in Callers, Lose(d) PROVE FALSE
  BY <1>2, <1>9 DEF Lose
<1>10. ASSUME Tick PROVE FALSE
  <2>1. call'[c] = [call[c] EXCEPT !.age = @ + 1, !.cookie = LaterCookie(@)]
    BY <1>10 DEF Tick
  <2>2. call[c] \in CallsUnderWay
    BY <1>0 DEF UnderWay
  <2> QED
    BY <2>1, <2>2 DEF CallsUnderWay
<1> QED
  BY <1>5, <1>6, <1>7, <1>8, <1>9, <1>10 DEF Next

(* No request or page that comes with the previous token is told to rotate *)
(* within UrgentRotateTime of the rotation, as long as the browser was not *)
(* given the new token (auth_token.go's test of auth_token_seen): whatever *)
(* becomes of the answers, in whatever order the calls are served.         *)
THEOREM PreviousAccepted == Spec => PreviousIsAccepted
<1> DEFINE Accepted ==
      \A c \in Callers :
         /\ UnderWay(c) /\ call[c].stage = "sent" /\ call[c].token = 1
         /\ UnderWay(c)' /\ call'[c].stage = "stale"
         => held \/ row.age >= Urgent
<1>1. IInv /\ [Next]_vars => [Accepted]_vars
  <2> SUFFICES ASSUME IInv, Next, NEW c \in Callers,
                      UnderWay(c), call[c].stage = "sent", call[c].token = 1,
                      UnderWay(c)', call'[c].stage = "stale"
               PROVE  held \/ row.age >= Urgent
    OBVIOUS
  <2>1. Authenticate(c)
    BY OnlyLookupsRefuse
  <2>2. call[c] \in CallsUnderWay /\ call \in [Callers -> CallsUnderWay \cup {None}]
    BY DEF IInv, TypeOK, UnderWay
  <2>3. NeedsRotation(call[c].token)
    <3>1. PICK status \in Statuses :
             /\ call' = [call EXCEPT ![c].stage = status]
             /\ status = "stale" => NeedsRotation(call[c].token)
      BY <2>1 DEF Authenticate, Answer, Statuses
    <3>2. call'[c].stage = status
      BY <2>2, <3>1 DEF CallsUnderWay
    <3> QED
      BY <3>1, <3>2
  <2>4. row.seen => held
    BY DEF IInv, Core, SeenWasHeld
  <2>5. row.age \in Nat /\ Interval >= Urgent /\ {Interval, Urgent} \subseteq Nat
    BY SessionRotationAssumption DEF IInv, TypeOK
  <2> QED
    BY <2>3, <2>4, <2>5 DEF NeedsRotation
<1>2. Spec => [][Accepted]_vars
  BY <1>1, Invariance, PTL DEF Spec
<1> QED
  BY <1>2 DEF PreviousIsAccepted

=============================================================================
