--------------------------- MODULE SessionRotation ---------------------------
(***************************************************************************)
(* The rotation of a session's token: the tabs of one browser, which share *)
(* its cookies, the servers, which share the row of user_auth_token, and   *)
(* the calls between them.  Every tab has a job that rotates the token     *)
(* shortly before it must be rotated (public/app/core/services/            *)
(* context_srv.ts), and checks the session when a request gets a 401       *)
(* (backend_srv.ts); the servers look up and rotate                        *)
(* (pkg/services/auth/authimpl/auth_token.go).                             *)
(*                                                                         *)
(* A token is known by the number of rotations since it was made: 0 is the *)
(* row's auth_token, 1 its prev_auth_token, and the row does not know the  *)
(* older ones.  Times are counted from now, in ticks.                      *)
(*                                                                         *)
(* Nothing orders the calls: the tabs send them over connections of their  *)
(* own, to any server, and the browser sets the cookies of the answers in  *)
(* the order in which these happen to come.                                *)
(*                                                                         *)
(* Two simplifications.  The middleware looks a token up also for a call   *)
(* that rotates it: the two lookups are one here.  And the two statements  *)
(* of a lookup are one step: the second has no effect if the row was       *)
(* rotated after the first.                                                *)
(***************************************************************************)
EXTENDS Integers, FiniteSets

CONSTANTS
    Tabs,
    ActiveTabs,  \* those whose user makes requests
    Servers,
    Interval,    \* token_rotation_interval_minutes
    Urgent,      \* UrgentRotateTime
    Leeway,      \* rotationLeeway
    MaxLead,     \* a job runs 1 to MaxLead ticks before the expiry
    MaxDelay,    \* the ticks a call takes at most
    None

ASSUME SessionRotationAssumption ==
    /\ IsFiniteSet(Tabs)
    /\ ActiveTabs \subseteq Tabs
    /\ {Interval, Urgent, Leeway, MaxLead} \subseteq Nat \ {0}
    /\ MaxDelay \in Nat
    /\ Urgent + Leeway <= Interval
    /\ MaxLead <= Interval

VARIABLES
    row,       \* user_auth_token: rotated_at, as an age, and auth_token_seen
    jar,       \* the cookies: the session's and its expiry's
    job,       \* a tab's rotation job: Off, Calling, or expires, from now
    page,      \* what a tab shows: the app, nothing yet, or the login form
    call,      \* the calls under way
    held,      \* history: the browser has been given the row's token
    missed     \* history: what the browser missed since it last had the
               \* row's token, 2 for two rotations or more

historyVars == <<held, missed>>
vars == <<row, jar, job, page, call, historyVars>>

MaxOlder == 3
Tokens == 0..MaxOlder
Floor == -2
Lefts == Floor..(Interval - Leeway)

Off == Interval + 1
Calling == Interval + 2

(* A tab has three calls at most: that of its job, its request or the      *)
(* check that the request waits for, and that which loads the page.        *)
Callers == (Tabs \X {"job", "page"}) \cup (ActiveTabs \X {"request"})

Kinds == {"job", "first", "ping", "rotate", "second", "page", "redirect"}

Rotations == {"job", "rotate", "redirect"}

Cookies == [token : Tokens, left : Lefts]

Statuses == {"ok", "stale", "unauthorized"}

CallsUnderWay ==
    [kind : Kinds, server : Servers, token : Tokens, age : 0..MaxDelay,
     stage : {"sent", "looked", "joined"} \cup Statuses,
     cookie : Cookies \cup {None}]

ASSUME NoneIsNoCall == None \notin CallsUnderWay \cup Cookies

TypeOK ==
    /\ row \in [age : 0..Interval, seen : BOOLEAN]
    /\ jar \in Cookies
    /\ job \in [Tabs -> Lefts \cup {Off, Calling}]
    /\ page \in [Tabs -> {"app", "loading", "login"}]
    /\ call \in [Callers -> CallsUnderWay \cup {None}]
    /\ held \in BOOLEAN
    /\ missed \in 0..2

(* Mutant: the cookie expires when the token must be rotated, no earlier. *)
NextRotationWithoutLeeway == Interval

(* When the expiry cookie of a new token expires. *)
NextRotation == Interval - Leeway

(* The session has just been made and its cookies written.  Every tab has  *)
(* been loaded with them, which schedules its job.                         *)
Init ==
    /\ row = [age |-> 0, seen |-> FALSE]
    /\ jar = [token |-> 0, left |-> NextRotation]
    /\ job = [t \in Tabs |-> jar.left]
    /\ page = [t \in Tabs |-> "app"]
    /\ call = [c \in Callers |-> None]
    /\ held = TRUE
    /\ missed = 0

-----------------------------------------------------------------------------
UnderWay(c) == call[c] # None

(* A call that takes the browser's cookie to some server. *)
Sent(kind, s) ==
    [kind |-> kind, server |-> s, token |-> jar.token, age |-> 0,
     stage |-> "sent", cookie |-> None]

(* The job's timer, set to 1 to MaxLead ticks before the expiry it knows.  *)
(* If the cookie has a later one, another tab has rotated.                 *)
JobDue(t) == page[t] = "app" /\ job[t] <= MaxLead

Reschedule(t) ==
    /\ JobDue(t)
    /\ jar.left > job[t]
    /\ job' = [job EXCEPT ![t] = jar.left]
    /\ UNCHANGED <<row, jar, page, call, historyVars>>

RunJob(t, s) ==
    /\ JobDue(t)
    /\ jar.left <= job[t]
    /\ job' = [job EXCEPT ![t] = Calling]
    /\ call' = [call EXCEPT ![<<t, "job">>] = Sent("job", s)]
    /\ UNCHANGED <<row, jar, page, historyVars>>

(* The user of a tab requests something. *)
Request(t, s) ==
    /\ t \in ActiveTabs
    /\ page[t] = "app"
    /\ ~UnderWay(<<t, "request">>)
    /\ call' = [call EXCEPT ![<<t, "request">>] = Sent("first", s)]
    /\ UNCHANGED <<row, jar, job, page, historyVars>>

-----------------------------------------------------------------------------
(* LookupToken: the row is found by its token or by the one before.  When  *)
(* the one before comes back though the token has been seen, the browser   *)
(* does not know the token: it counts as unseen and due for rotation.      *)
Found(token) == token \in {0, 1}

RowLooked(token) ==
    CASE token = 1 /\ row.seen /\ row.age > Urgent ->
             [age |-> Urgent, seen |-> FALSE]
      [] token = 0 -> [row EXCEPT !.seen = TRUE]
      [] OTHER -> row

NeedsRotation(token) ==
    \/ token = 1 /\ row.seen
    \/ token = 1 /\ row.age >= Urgent
    \/ row.age >= Interval

Answer(c, status) == call' = [call EXCEPT ![c].stage = status]

(* A request, a ping or a page reaches a server. *)
Authenticate(c) ==
    /\ UnderWay(c)
    /\ call[c].kind \notin Rotations
    /\ call[c].stage = "sent"
    /\ LET token == call[c].token
       IN  /\ row' = RowLooked(token)
           /\ Answer(c, IF ~Found(token) THEN "unauthorized"
                        ELSE IF NeedsRotation(token) THEN "stale" ELSE "ok")
    /\ UNCHANGED <<jar, job, page, historyVars>>

(* The rotations of one token that one server has under way: singleflight  *)
(* runs the first, and the others get its result.                          *)
Flight(c) ==
    {d \in Callers : /\ UnderWay(d)
                     /\ call[d].stage \in {"looked", "joined"}
                     /\ call[d].server = call[c].server
                     /\ call[d].token = call[c].token}

RotationArrives(c) ==
    /\ UnderWay(c)
    /\ call[c].kind \in Rotations
    /\ call[c].stage = "sent"
    /\ row' = RowLooked(call[c].token)
    /\ UNCHANGED <<jar, job, page, historyVars>>

JoinFlight(c) ==
    /\ RotationArrives(c)
    /\ Flight(c) # {}
    /\ call' = [call EXCEPT ![c].stage = "joined"]

LookupToken(c) ==
    /\ RotationArrives(c)
    /\ Flight(c) = {}
    /\ call' = [call EXCEPT ![c].stage =
                   IF Found(call[c].token) THEN "looked" ELSE "unauthorized"]

(* Every token the browser holds or sends is one rotation older now. *)
Older(token) == IF token = MaxOlder THEN MaxOlder ELSE token + 1

OlderCookie(cookie) ==
    IF cookie = None THEN None ELSE [cookie EXCEPT !.token = Older(@)]

OlderCall(it) == [it EXCEPT !.token = Older(@), !.cookie = OlderCookie(@)]

FreshCookie == [token |-> 0, left |-> NextRotation]

(* What the flight gets; for everyone the tokens are older now. *)
Rotated(d, flight) ==
    IF d \in flight
    THEN [OlderCall(call[d]) EXCEPT !.stage = "ok", !.cookie = FreshCookie]
    ELSE OlderCall(call[d])

GiveNewToken(c) ==
    /\ jar' = OlderCookie(jar)
    /\ call' = [d \in Callers |-> IF UnderWay(d) THEN Rotated(d, Flight(c)) ELSE None]
    /\ held' = FALSE

(* Mutant: auth_token_seen is not reset. *)
RotateTokenKeepsSeen(c) ==
    /\ UnderWay(c)
    /\ call[c].stage = "looked"
    /\ row' = [row EXCEPT !.age = 0]
    /\ GiveNewToken(c)
    /\ UNCHANGED <<job, page, missed>>

(* Mutant: rotated_at is not set. *)
RotateTokenKeepsAge(c) ==
    /\ UnderWay(c)
    /\ call[c].stage = "looked"
    /\ row' = [row EXCEPT !.seen = FALSE]
    /\ GiveNewToken(c)
    /\ UNCHANGED <<job, page, missed>>

(* rotateToken's UPDATE, by the id of the row: it is made whether the row  *)
(* was rotated since the lookup or not.                                    *)
RotateToken(c) ==
    /\ UnderWay(c)
    /\ call[c].stage = "looked"
    /\ row' = [age |-> 0, seen |-> FALSE]
    /\ GiveNewToken(c)
    /\ UNCHANGED <<job, page, missed>>

-----------------------------------------------------------------------------
(* A call has its answer, and its caller may get it now. *)
Answered(c) == UnderWay(c) /\ call[c].stage \in Statuses

(* The answer brings a newer token than the browser's. *)
News(cookie) == cookie # None /\ cookie.token < jar.token

Miss(n) == missed' = IF missed + n > 2 THEN 2 ELSE missed + n

(* Setting the cookies back to an older token is missing what came between.*)
Get(cookie) ==
    /\ held' = (held \/ cookie.token = 0)
    /\ IF cookie.token = 0 THEN missed' = 0
       ELSE IF cookie.token > jar.token THEN Miss(cookie.token - jar.token)
       ELSE UNCHANGED missed

(* Mutant: WriteSessionCookie writes the expiry only. *)
SetExpiry(c) ==
    IF call[c].cookie = None THEN UNCHANGED <<jar, historyVars>>
    ELSE /\ jar' = [jar EXCEPT !.left = call[c].cookie.left]
         /\ Get(call[c].cookie)

(* The cookies of an answer are set before anyone sees the answer. *)
SetCookies(c) ==
    IF call[c].cookie = None THEN UNCHANGED <<jar, historyVars>>
    ELSE jar' = call[c].cookie /\ Get(call[c].cookie)

End(c) == call' = [call EXCEPT ![c] = None]

(* setLoggedOut reloads the page, which forgets its calls. *)
SetLoggedOut(t) ==
    /\ page' = [page EXCEPT ![t] = "loading"]
    /\ job' = [job EXCEPT ![t] = Off]

JobAnswer(t) ==
    LET c == <<t, "job">>
    IN  /\ Answered(c)
        /\ SetCookies(c)
        /\ End(c)
        /\ \/ /\ page[t] = "app"
              /\ call[c].stage = "ok"
              /\ job' = [job EXCEPT ![t] = jar'.left]
              /\ UNCHANGED page
           \/ /\ page[t] = "app"
              /\ call[c].stage = "unauthorized"
              /\ SetLoggedOut(t)
           \/ /\ page[t] # "app"
              /\ UNCHANGED <<page, job>>
        /\ UNCHANGED row

Refused(c) == call[c].stage \in {"stale", "unauthorized"}

(* The first 401 is followed by a ping, or a rotation where the expiry     *)
(* cookie has passed; a request that is sent again just fails.             *)
RequestAnswer(t) ==
    LET c == <<t, "request">>
    IN  /\ Answered(c)
        /\ call[c].kind \in {"first", "second"} \/ page[t] # "app"
        /\ SetCookies(c)
        /\ IF page[t] = "app" /\ call[c].kind = "first" /\ Refused(c)
           THEN \E s \in Servers :
                   call' = [call EXCEPT ![c] =
                               Sent(IF jar.left < 0 THEN "rotate" ELSE "ping", s)]
           ELSE End(c)
        /\ UNCHANGED <<row, job, page>>

(* The check decides whether the request is sent again.  Any 401 is taken  *)
(* to mean that there is no session.                                       *)
CheckAnswer(t) ==
    LET c == <<t, "request">>
    IN  /\ Answered(c)
        /\ page[t] = "app"
        /\ call[c].kind \in {"ping", "rotate"}
        /\ SetCookies(c)
        /\ IF Refused(c)
           THEN End(c) /\ SetLoggedOut(t)
           ELSE /\ \E s \in Servers :
                      call' = [call EXCEPT ![c] =
                                  [Sent("second", s) EXCEPT !.token = jar'.token]]
                /\ UNCHANGED <<job, page>>
        /\ UNCHANGED row

(* The page is asked for, when the calls of the old one are over. *)
Load(t, s) ==
    /\ page[t] # "app"
    /\ \A c \in Callers : c[1] = t => ~UnderWay(c)
    /\ call' = [call EXCEPT ![<<t, "page">>] = Sent("page", s)]
    /\ UNCHANGED <<row, jar, job, page, historyVars>>

(* The server knows a token that needs to be rotated from one that it does *)
(* not know, and redirects the page to a rotation and back, or to the      *)
(* login form.                                                             *)
PageAnswer(t) ==
    LET c == <<t, "page">>
    IN  /\ Answered(c)
        /\ SetCookies(c)
        /\ \/ /\ call[c].stage = "ok"
              /\ call[c].kind = "page"
              /\ End(c)
              /\ page' = [page EXCEPT ![t] = "app"]
              /\ job' = [job EXCEPT ![t] = jar.left]
           \/ /\ call[c].stage = "stale" \/ call[c].kind = "redirect"
              /\ call[c].stage # "unauthorized"
              /\ \E s \in Servers :
                    call' = [call EXCEPT ![c] =
                                [Sent(IF call[c].kind = "page" THEN "redirect"
                                      ELSE "page", s) EXCEPT !.token = jar'.token]]
              /\ UNCHANGED <<page, job>>
           \/ /\ call[c].stage = "unauthorized"
              /\ End(c)
              /\ page' = [page EXCEPT ![t] = "login"]
              /\ UNCHANGED job
        /\ UNCHANGED row

(* The network fails a call, on its way there or back.  The job is not set *)
(* again; a request fails with its check.                                  *)
Lose(c) ==
    /\ UnderWay(c)
    /\ call[c].stage = "sent" \/ Answered(c)
    /\ IF News(call[c].cookie) THEN Miss(1) ELSE UNCHANGED missed
    /\ End(c)
    /\ job' = IF c[2] = "job" THEN [job EXCEPT ![c[1]] = Off] ELSE job
    /\ UNCHANGED <<row, jar, page, held>>

-----------------------------------------------------------------------------
Less(left) == IF left = Floor THEN Floor ELSE left - 1

LaterCookie(cookie) ==
    IF cookie = None THEN None ELSE [cookie EXCEPT !.left = Less(@)]

(* A tick: no call takes more than MaxDelay, no timer is late, and a page  *)
(* is asked for as soon as it can be.                                      *)
Tick ==
    /\ \A c \in Callers : UnderWay(c) => call[c].age < MaxDelay
    /\ \A t \in Tabs : page[t] # "app" => \E c \in Callers : c[1] = t /\ UnderWay(c)
    /\ \A t \in Tabs : page[t] = "app" => job[t] > 1
    /\ row' = [row EXCEPT !.age = IF @ = Interval THEN @ ELSE @ + 1]
    /\ jar' = [jar EXCEPT !.left = Less(@)]
    /\ job' = [t \in Tabs |-> IF job[t] \in Lefts THEN Less(job[t]) ELSE job[t]]
    /\ call' = [c \in Callers |->
                  IF UnderWay(c)
                  THEN [call[c] EXCEPT !.age = @ + 1, !.cookie = LaterCookie(@)]
                  ELSE None]
    /\ UNCHANGED <<page, historyVars>>

Job(t) == Reschedule(t) \/ (\E s \in Servers : RunJob(t, s)) \/ JobAnswer(t)

Page(t) == (\E s \in Servers : Load(t, s)) \/ PageAnswer(t)

Serve(c) ==
    \/ Authenticate(c)
    \/ JoinFlight(c)
    \/ LookupToken(c)
    \/ RotateToken(c)

Ask(t) == \E s \in Servers : Request(t, s)

Next ==
    \/ \E t \in Tabs : Job(t) \/ Page(t)
    \/ \E t \in ActiveTabs : Ask(t) \/ RequestAnswer(t) \/ CheckAnswer(t)
    \/ \E c \in Callers : Serve(c) \/ Lose(c)
    \/ Tick

Spec == Init /\ [][Next]_vars

-----------------------------------------------------------------------------
(* setLoggedOut, which reloads the page, is for a session that has ended:  *)
(* no tab calls it while the session lives.                                *)
NobodyLoggedOut == \A t \in Tabs : page[t] = "app"

Rotating == \E c \in Callers : UnderWay(c) /\ call[c].kind \in Rotations

(* When no rotation is under way, the browser has a token the row knows,   *)
(* unless it missed two rotations since it last had the row's token: their *)
(* answers were lost, or overtaken by newer ones and set the cookies back. *)
(* So the session survives any number of rotations at once, in any order   *)
(* of their answers, of which one is lost or overtaken by one other.       *)
TokenIsKnown == ~Rotating /\ missed < 2 => jar.token \in {0, 1}

(* auth_token_seen is set only if the browser got the token, though an     *)
(* older answer may have set its cookies back since.                       *)
SeenWasHeld == row.seen => held

(* The previous token is good for UrgentRotateTime after a rotation, as    *)
(* long as the browser was not given the new one: while the answer is      *)
(* under way, or when it is lost, no request or page is told to rotate.    *)
PreviousIsAccepted ==
    [][\A c \in Callers :
         /\ UnderWay(c) /\ call[c].stage = "sent" /\ call[c].token = 1
         /\ UnderWay(c)' /\ call'[c].stage = "stale"
         => held \/ row.age >= Urgent]_vars

(* While the expiry cookie has not passed and the browser has the row's    *)
(* token, that token is not due for as long as the cookie says, and the    *)
(* leeway after it: a job that follows the cookie rotates in time, in      *)
(* whatever order the answers of several rotations set the cookies.        *)
Early(cookie) ==
    cookie.token = 0 /\ cookie.left >= 0
        => row.age + cookie.left + Leeway <= Interval

ExpiryIsEarly == Early(jar)

=============================================================================
