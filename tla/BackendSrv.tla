----------------------------- MODULE BackendSrv -----------------------------
(***************************************************************************)
(* The front end's request service: BackendSrv.fetch, the FetchQueue that  *)
(* keeps one entry per request, the FetchQueueWorker that decides which of *)
(* them may start and the ResponseQueue that starts them                   *)
(* (public/app/core/services).                                             *)
(*                                                                         *)
(* All of it runs on one thread and is wired with rxjs Subjects, which     *)
(* call their subscribers at once: a request that starts cancels another,  *)
(* whose subscriber unsubscribes, which changes the queue and publishes an *)
(* update, all within the call that started it.  The variable calls is     *)
(* this stack of calls; a browser event (an answer, a click) comes only    *)
(* when it is empty.  The worker's concatMap is not reentrant: an update   *)
(* published while it hands out a list of requests waits in snapshots, of  *)
(* which noOfInProgress is a number of that moment and state the object of *)
(* now.                                                                    *)
(***************************************************************************)
EXTENDS Naturals, FiniteSets, SequencesExt

CONSTANTS
    Requests,      \* calls of fetch, numbered; each is subscribed to once
    DataRequests,  \* those with the url of a data query
    AuthRequests,  \* those that rotateToken and loginPing make
    requestIdOf,   \* options.requestId, None where there is none
    consumerOf,    \* who subscribed: its requests end together
    Limit,         \* maxParallelRequests
    MaxReissued,   \* the requests a subscriber makes within its callback
    None

ASSUME BackendSrvAssumption ==
    /\ IsFiniteSet(Requests)
    /\ Requests = 1..Cardinality(Requests)
    /\ DataRequests \subseteq Requests
    /\ AuthRequests \subseteq Requests \ DataRequests
    /\ DOMAIN requestIdOf = Requests
    /\ DOMAIN consumerOf = Requests
    /\ \A a \in AuthRequests : requestIdOf[a] = None
    /\ Limit \in Nat \ {0}
    /\ MaxReissued \in Nat
    /\ None \notin Requests

VARIABLES
    fresh,       \* the requests not made yet
    subscribed,  \* those whose subscriber is open
    pending,     \* FetchQueue.state: the Pending entries, oldest first
    inProgress,  \* FetchQueue.state: the InProgress entries
    snapshots,   \* concatMap's buffer: noOfInProgress of waiting updates
    working,     \* concatMap has a list in hand
    list,        \* what is left of it
    connected,   \* the responses subscribed to, in the order of
                 \* inFlightRequests' observers
    awaits,      \* the auth check a request that got a 401 waits for
    retried,     \* the requests that had their 401
    rotation,    \* _tokenRotationInProgress
    calls        \* the stack, its top first

queueVars == <<pending, inProgress>>
workerVars == <<snapshots, working, list>>
authVars == <<awaits, retried, rotation>>
vars == <<fresh, subscribed, queueVars, workerVars, connected, authVars, calls>>

Calls == [op : {"add", "done", "error", "listen"}, id : Requests]
         \cup [op : {"work"}, id : {None}]

TypeOK ==
    /\ fresh \subseteq Requests
    /\ subscribed \subseteq Requests \ fresh
    /\ pending \in Seq(Requests)
    /\ inProgress \subseteq Requests
    /\ snapshots \in Seq(0..Cardinality(Requests))
    /\ working \in BOOLEAN
    /\ list \in Seq(Requests)
    /\ connected \in Seq(Requests)
    /\ ToSet(connected) \subseteq subscribed
    /\ awaits \in [Requests -> AuthRequests \cup {None}]
    /\ retried \subseteq Requests
    /\ rotation \in AuthRequests \cup {None}
    /\ calls \in Seq(Calls)

Init ==
    /\ fresh = Requests
    /\ subscribed = {}
    /\ pending = <<>>
    /\ inProgress = {}
    /\ snapshots = <<>>
    /\ working = FALSE
    /\ list = <<>>
    /\ connected = <<>>
    /\ awaits = [r \in Requests |-> None]
    /\ retried = {}
    /\ rotation = None
    /\ calls = <<>>

-----------------------------------------------------------------------------
Call(op, r) == [op |-> op, id |-> r]

CallEach(op, s) == [i \in DOMAIN s |-> Call(op, s[i])]

(* What of s is in S, in its order. *)
Only(s, S) ==
    LET only[i \in 0..Len(s)] ==
            IF i = 0 THEN <<>>
            ELSE IF s[i] \in S THEN Append(only[i - 1], s[i]) ELSE only[i - 1]
    IN  only[Len(s)]

Without(s, r) == Only(s, Requests \ {r})

InOrder(S) == Only([i \in 1..Cardinality(Requests) |-> i], S)

Waiters(a) == {r \in subscribed : awaits[r] = a}

Consumers == {consumerOf[r] : r \in Requests \ AuthRequests}

RequestsOf(c) == {r \in subscribed : consumerOf[r] = c}

(* What may still be requested, and what of it within a callback. *)
Unmade == {r \in fresh \ AuthRequests : Call("add", r) \notin ToSet(calls)}

Reissues == {S \in SUBSET Unmade : Cardinality(S) <= MaxReissued}

(* Mutant: the limit holds for api requests as well. *)
ToFetchWithoutPrecedence(entries, noOfInProgress) ==
    LET allowed == IF noOfInProgress < Limit THEN Limit - noOfInProgress ELSE 0
    IN  SubSeq(entries, 1, IF allowed < Len(entries) THEN allowed ELSE Len(entries))

(* Mutant: of the data requests, the last that there is room for.          *)
ToFetchLatest(entries, noOfInProgress) ==
    LET apiRequests == Only(entries, Requests \ DataRequests)
        dataRequests == Only(entries, DataRequests)
        taken == noOfInProgress + Len(apiRequests)
        allowed == IF taken < Limit THEN Limit - taken ELSE 0
        left == IF allowed < Len(dataRequests) THEN Len(dataRequests) - allowed ELSE 0
    IN  apiRequests \o SubSeq(dataRequests, left + 1, Len(dataRequests))

(* The worker's choice: every api request, and data requests as long as    *)
(* noOfInProgress and the api requests leave room.                         *)
ToFetch(entries, noOfInProgress) ==
    LET apiRequests == Only(entries, Requests \ DataRequests)
        dataRequests == Only(entries, DataRequests)
        taken == noOfInProgress + Len(apiRequests)
        allowed == IF taken < Limit THEN Limit - taken ELSE 0
    IN  apiRequests \o SubSeq(dataRequests, 1,
                              IF allowed < Len(dataRequests)
                              THEN allowed ELSE Len(dataRequests))

(* Mutant: the worker uses exhaustMap: an update that comes while it works *)
(* is dropped.                                                             *)
PublishUnheard(entries, started, rest) ==
    IF entries = <<>> \/ working
    THEN calls' = rest /\ UNCHANGED workerVars
    ELSE /\ working' = TRUE
         /\ list' = ToFetch(entries, Cardinality(started))
         /\ calls' = <<Call("work", None)>> \o rest
         /\ UNCHANGED snapshots

(* FetchQueue publishes its state after each change.  The worker ignores   *)
(* an update without pending requests, keeps one for later while it works, *)
(* and acts on it at once otherwise.  Afterwards the calls in rest go on.  *)
Publish(entries, started, rest) ==
    \/ /\ entries = <<>>
       /\ calls' = rest
       /\ UNCHANGED workerVars
    \/ /\ entries # <<>>
       /\ working
       /\ snapshots' = Append(snapshots, Cardinality(started))
       /\ calls' = rest
       /\ UNCHANGED <<working, list>>
    \/ /\ entries # <<>>
       /\ ~working
       /\ working' = TRUE
       /\ list' = ToFetch(entries, Cardinality(started))
       /\ calls' = <<Call("work", None)>> \o rest
       /\ UNCHANGED snapshots

Top(op) == calls # <<>> /\ Head(calls).op = op

-----------------------------------------------------------------------------
(* fetch: the queue gets an entry. *)
Add ==
    /\ Top("add")
    /\ LET r == Head(calls).id
       IN  /\ fresh' = fresh \ {r}
           /\ subscribed' = subscribed \cup {r}
           /\ pending' = Append(pending, r)
           /\ Publish(pending', inProgress, Tail(calls))
    /\ UNCHANGED <<inProgress, connected, authVars>>

(* Mutant: unsubscribe leaves the subscription of the response alone. *)
DoneKeepsResponse ==
    /\ Top("done")
    /\ LET r == Head(calls).id
       IN  /\ r \in subscribed
           /\ subscribed' = subscribed \ {r}
           /\ pending' = Without(pending, r)
           /\ inProgress' = inProgress \ {r}
           /\ awaits' = [awaits EXCEPT ![r] = None]
           /\ rotation' = IF rotation = r THEN None ELSE rotation
           /\ Publish(pending', inProgress', Tail(calls))
    /\ UNCHANGED <<fresh, connected, retried>>

(* Mutant: setDone is called where the response ends, as it once was, and  *)
(* not for a request that is unsubscribed from before it has one.          *)
DoneWhenAnswered ==
    /\ Top("done")
    /\ LET r == Head(calls).id
           ended == {r} \cap ToSet(connected)
       IN  /\ r \in subscribed
           /\ subscribed' = subscribed \ {r}
           /\ pending' = Only(pending, Requests \ ended)
           /\ inProgress' = inProgress \ ended
           /\ connected' = Without(connected, r)
           /\ awaits' = [awaits EXCEPT ![r] = None]
           /\ rotation' = IF rotation = r THEN None ELSE rotation
           /\ Publish(pending', inProgress', Tail(calls))
    /\ UNCHANGED <<fresh, retried>>

(* The unsubscribe function of fetch: the entry goes, then the response.   *)
(* A request that waited for an auth check unsubscribes from it, and the   *)
(* last one to do so ends it.                                              *)
Done ==
    /\ Top("done")
    /\ LET r == Head(calls).id
           a == awaits[r]
           last == IF a # None /\ Waiters(a) = {r} /\ a \in subscribed
                   THEN <<Call("done", a)>> ELSE <<>>
       IN  /\ r \in subscribed
           /\ subscribed' = subscribed \ {r}
           /\ pending' = Without(pending, r)
           /\ inProgress' = inProgress \ {r}
           /\ connected' = Without(connected, r)
           /\ awaits' = [awaits EXCEPT ![r] = None]
           /\ rotation' = IF rotation = r THEN None ELSE rotation
           /\ Publish(pending', inProgress', last \o Tail(calls))
    /\ UNCHANGED <<fresh, retried>>

(* A request fails or is cancelled: its subscriber is told, which may make *)
(* new requests before it unsubscribes from all it has (a subscriber of    *)
(* several, by forkJoin or merge, ends with the first that fails).  The    *)
(* failure of an auth check is the failure of those that wait for it.      *)
Error ==
    /\ Top("error")
    /\ LET r == Head(calls).id
       IN  /\ r \in subscribed
           /\ \/ /\ r \in AuthRequests
                 /\ calls' = CallEach("error", InOrder(Waiters(r)))
                             \o <<Call("done", r)>> \o Tail(calls)
              \/ /\ r \notin AuthRequests
                 /\ \E S \in Reissues :
                       calls' = CallEach("add", InOrder(S))
                                \o CallEach("done", InOrder(RequestsOf(consumerOf[r])))
                                \o Tail(calls)
    /\ UNCHANGED <<fresh, subscribed, queueVars, workerVars, connected, authVars>>

(* A subscription that is closed already is not called again. *)
Closed ==
    /\ calls # <<>>
    /\ Head(calls).op \in {"done", "error"}
    /\ Head(calls).id \notin subscribed
    /\ calls' = Tail(calls)
    /\ UNCHANGED <<fresh, subscribed, queueVars, workerVars, connected, authVars>>

(* Mutant: internalFetch does not announce the requestId. *)
StartWithoutCancelling ==
    /\ Top("work")
    /\ list # <<>>
    /\ LET r == Head(list)
       IN  /\ pending' = Without(pending, r)
           /\ inProgress' = inProgress \cup {r}
           /\ snapshots' = IF pending' = <<>> THEN snapshots
                           ELSE Append(snapshots, Cardinality(inProgress'))
           /\ list' = Tail(list)
           /\ calls' = <<Call("listen", r)>> \o calls
    /\ UNCHANGED <<fresh, subscribed, working, connected, authVars>>

(* The next request of the worker's list starts: ResponseQueue has it      *)
(* InProgress, whether it has an entry or not, and internalFetch cancels   *)
(* the response with the same requestId.                                   *)
Start ==
    /\ Top("work")
    /\ list # <<>>
    /\ LET r == Head(list)
           same == Only(connected, {q \in Requests : /\ requestIdOf[r] # None
                                                     /\ requestIdOf[q] = requestIdOf[r]})
       IN  /\ pending' = Without(pending, r)
           /\ inProgress' = inProgress \cup {r}
           /\ snapshots' = IF pending' = <<>> THEN snapshots
                           ELSE Append(snapshots, Cardinality(inProgress'))
           /\ list' = Tail(list)
           /\ calls' = CallEach("error", same) \o <<Call("listen", r)>> \o calls
    /\ UNCHANGED <<fresh, subscribed, working, connected, authVars>>

(* fetch subscribes to the response, unless it was unsubscribed from. *)
Listen ==
    /\ Top("listen")
    /\ LET r == Head(calls).id
       IN  connected' = IF r \in subscribed THEN Append(connected, r) ELSE connected
    /\ calls' = Tail(calls)
    /\ UNCHANGED <<fresh, subscribed, queueVars, workerVars, authVars>>

(* The list is handed out: the next update makes a new one. *)
NextUpdate ==
    /\ Top("work")
    /\ list = <<>>
    /\ snapshots # <<>>
    /\ snapshots' = Tail(snapshots)
    /\ list' = ToFetch(pending, Head(snapshots))
    /\ UNCHANGED <<fresh, subscribed, queueVars, working, connected, authVars, calls>>

Rest ==
    /\ Top("work")
    /\ list = <<>>
    /\ snapshots = <<>>
    /\ working' = FALSE
    /\ calls' = Tail(calls)
    /\ UNCHANGED <<fresh, subscribed, queueVars, snapshots, list, connected, authVars>>

Run == Add \/ Done \/ Error \/ Closed \/ Start \/ Listen \/ NextUpdate \/ Rest

-----------------------------------------------------------------------------
(* What the browser calls next, when the stack is empty. *)
Idle == calls = <<>>

(* A response that is on the network: not waiting for an auth check. *)
Sent(r) == r \in ToSet(connected) /\ awaits[r] = None

(* Someone subscribes to a request. *)
Fetch(r) ==
    /\ Idle
    /\ r \in Unmade
    /\ calls' = <<Call("add", r)>>
    /\ UNCHANGED <<fresh, subscribed, queueVars, workerVars, connected, authVars>>

(* The response is there: next, complete, and the end of the subscription. *)
Succeed(r) ==
    /\ Idle
    /\ Sent(r)
    /\ r \notin AuthRequests
    /\ \E S \in Reissues :
          calls' = CallEach("add", InOrder(S)) \o <<Call("done", r)>>
    /\ UNCHANGED <<fresh, subscribed, queueVars, workerVars, connected, authVars>>

(* Any other answer, or none. *)
Fail(r) ==
    /\ Idle
    /\ Sent(r)
    /\ calls' = <<Call("error", r)>>
    /\ UNCHANGED <<fresh, subscribed, queueVars, workerVars, connected, authVars>>

(* The first 401 of a request makes it wait for an auth check: the ping,   *)
(* or the rotation of the token when the expiry cookie has passed, which   *)
(* all who need it share.                                                  *)
Unauthorized(r) ==
    /\ Idle
    /\ Sent(r)
    /\ r \notin AuthRequests
    /\ r \notin retried
    /\ retried' = retried \cup {r}
    /\ UNCHANGED <<fresh, subscribed, queueVars, workerVars, connected>>

LoginPing(r, a) ==
    /\ Unauthorized(r)
    /\ a \in fresh \cap AuthRequests
    /\ awaits' = [awaits EXCEPT ![r] = a]
    /\ calls' = <<Call("add", a)>>
    /\ UNCHANGED rotation

RotateToken(r, a) ==
    /\ Unauthorized(r)
    /\ rotation = None
    /\ a \in fresh \cap AuthRequests
    /\ awaits' = [awaits EXCEPT ![r] = a]
    /\ rotation' = a
    /\ calls' = <<Call("add", a)>>

JoinRotation(r) ==
    /\ Unauthorized(r)
    /\ rotation # None
    /\ awaits' = [awaits EXCEPT ![r] = rotation]
    /\ UNCHANGED <<rotation, calls>>

(* The auth check succeeds: those that waited for it are sent again. *)
Authorized(a) ==
    /\ Idle
    /\ Sent(a)
    /\ a \in AuthRequests
    /\ awaits' = [r \in Requests |-> IF awaits[r] = a THEN None ELSE awaits[r]]
    /\ calls' = <<Call("done", a)>>
    /\ UNCHANGED <<fresh, subscribed, queueVars, workerVars, connected,
                   retried, rotation>>

(* A subscriber leaves: a panel is removed, or starts a new query. *)
Unsubscribe(c) ==
    /\ Idle
    /\ RequestsOf(c) # {}
    /\ calls' = CallEach("done", InOrder(RequestsOf(c)))
    /\ UNCHANGED <<fresh, subscribed, queueVars, workerVars, connected, authVars>>

ResolveCancelerIfExists(requestId) ==
    /\ Idle
    /\ requestId # None
    /\ LET found == Only(connected, {q \in Requests : requestIdOf[q] = requestId})
       IN  found # <<>> /\ calls' = CallEach("error", found)
    /\ UNCHANGED <<fresh, subscribed, queueVars, workerVars, connected, authVars>>

CancelAllInFlightRequests ==
    /\ Idle
    /\ connected # <<>>
    /\ calls' = CallEach("error", connected)
    /\ UNCHANGED <<fresh, subscribed, queueVars, workerVars, connected, authVars>>

Browser ==
    \/ \E c \in Consumers : Unsubscribe(c)
    \/ \E r \in Requests : Fetch(r) \/ Succeed(r) \/ Fail(r) \/ Authorized(r)
    \/ \E r \in Requests, a \in AuthRequests : LoginPing(r, a) \/ RotateToken(r, a)
    \/ \E r \in Requests : JoinRotation(r)
    \/ \E r \in Requests : ResolveCancelerIfExists(requestIdOf[r])
    \/ CancelAllInFlightRequests

Next == Run \/ Browser

Spec == Init /\ [][Next]_vars

(* A call on the stack is executed; a request that is on the network is    *)
(* answered, if only by the browser's time limit.  Nobody has to make or   *)
(* to cancel a request.                                                    *)
FairSpec ==
    /\ Spec
    /\ WF_vars(Run)
    /\ \A r \in Requests : WF_vars(Succeed(r) \/ Fail(r) \/ Authorized(r))

-----------------------------------------------------------------------------
(* Of the requests with one requestId, one at most has its response        *)
(* pending: a refresh cannot be overwritten by the answer it replaced.     *)
OnePerRequestId ==
    \A q, r \in ToSet(connected) :
        requestIdOf[q] = requestIdOf[r] /\ requestIdOf[r] # None => q = r

(* When the stack is empty, the entries of the queue are the requests with *)
(* a subscriber: unsubscribe made all others Done, and gave their slots    *)
(* back.  It holds for subscribers with one request each; one with several *)
(* can unsubscribe from a request that is in the worker's list already.    *)
SlotsAreReturned == Idle => ToSet(pending) \cup inProgress = subscribed

(* When the stack is empty, no api request waits, and a data request waits *)
(* only if Limit requests run: no update of the queue was missed.          *)
WorkConserving ==
    Idle => \/ pending = <<>>
            \/ /\ ToSet(pending) \subseteq DataRequests
               /\ Cardinality(inProgress) >= Limit

(* The pairs of s, the earlier one first. *)
Precedes(s) ==
    {p \in ToSet(s) \X ToSet(s) : \E i, j \in DOMAIN s : i < j /\ p = <<s[i], s[j]>>}

Service == INSTANCE RequestService WITH
    unmade <- fresh,
    waiting <- ToSet(pending),
    running <- inProgress,
    before <- Precedes(pending)

(* Lists made of stale updates, one behind the other, and requests that    *)
(* end while a list is handed out: still each request starts once, in the  *)
(* order in which those of its class were made, and none that ended.  It   *)
(* holds for subscribers with one request each, as SlotsAreReturned.       *)
ImplementsRequestService == Service!Spec

(* Every request ends, in whatever way, also when those that hold the      *)
(* slots wait for an auth check that goes through the same queue.          *)
EveryRequestEnds == \A r \in Requests : r \in subscribed ~> r \notin subscribed

=============================================================================
