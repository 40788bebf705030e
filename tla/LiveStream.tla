----------------------------- MODULE LiveStream -----------------------------
(***************************************************************************)
(* One channel of Grafana Live in the browser                              *)
(* (public/app/features/live): the service keeps one open channel          *)
(* (channel.ts) and one data stream on it (LiveDataStream.ts), which keeps *)
(* the last rows and sends them to the panels: to each one full frame      *)
(* first, and then what is new.  A panel has a copy of its own (live.ts).  *)
(* Others listen to the channel's events themselves.                       *)
(*                                                                         *)
(* What runs in the browser runs to its end before anything else does: an  *)
(* action is a call from outside, an event of the connection, or a timer.  *)
(*                                                                         *)
(* A row is the number it was published with.  A schema is a number too,   *)
(* and 0 is none.  A panel asks for its stream and subscribes to it in one *)
(* step.  The connection has been up before the first channel is opened,   *)
(* and the server answers every subscription with the schema.              *)
(* Arrays are values here, although the code shares some.  A panel that    *)
(* replaces its rows takes the arrays of a message as they are, and trims  *)
(* them for the others too; the assumption that no packet is longer than   *)
(* such a panel shows leaves that out.  And what a channel keeps as its    *)
(* header is the packet as it came.                                        *)
(***************************************************************************)
EXTENDS Integers, SequencesExt

CONSTANTS
    Panels,
    Listeners,
    Replaces,    \* the panels that show the last packet only
    Framed,      \* the panels that bring a frame with their query
    MaxLength,   \* how many rows a panel shows
    DefaultLength, \* how many rows a stream keeps, until a panel wants more
    Schemas,
    Channels,
    MaxRows,     \* rows the server publishes
    MaxPacket,   \* rows of a packet, or of a frame that a panel brings
    MaxBuffer,   \* messages that wait for a panel
    MaxTimers,   \* how often everybody leaves a channel within 250 ms
    None

ASSUME LiveStreamAssumption ==
    /\ Replaces \subseteq Panels
    /\ Framed \subseteq Panels
    /\ MaxLength \in [Panels -> Nat \ {0}]
    /\ DefaultLength \in Nat \ {0}
    /\ Schemas \subseteq Nat \ {0}
    /\ Schemas # {}
    /\ Channels \subseteq Nat \ {0}
    /\ {MaxRows, MaxBuffer, MaxTimers} \subseteq Nat
    /\ MaxPacket \in Nat \ {0}
    /\ \A p \in Replaces : MaxPacket <= MaxLength[p]

VARIABLES
    online,    \* the connection is up
    server,    \* the schema of what the server publishes, and the last row
    chan,      \* the channel objects
    open,      \* CentrifugeService.open: the channel, or 0
    stream,    \* liveDataStreamByChannelId: the data stream, or None
    panel,     \* the subscriptions of the panels
    listener,  \* the channels of the other listeners
    ready      \* liveTimer.ok

vars == <<online, server, chan, open, stream, panel, listener, ready>>

Rows == 0..MaxRows
Initial == 0  \* the row of a frame that a panel brings

Packets == {packet \in [schema : Schemas \cup {0}, rows : Seq(Rows)] :
               Len(packet.rows) <= MaxPacket}

Messages == [kind : {"error", "schema", "values"}, rows : Seq(Rows)]

Frames == [schema : Schemas \cup {0}, rows : Seq(Rows), error : BOOLEAN]

ChannelObjects ==
    [state  : {"unused", "connecting", "connected", "disconnected", "shutdown"},
     error  : BOOLEAN,
     header : Packets \cup {None},
     timers : 0..MaxTimers]

Streams == [channel : Channels, schema : Schemas \cup {0}, rows : Seq(Rows), last : Nat,
            maxLength : Nat, replay : Messages \cup {None}, timer : BOOLEAN]

Subscriptions == [canEmit : BOOLEAN, buffer : Seq(Messages), view : Frames \cup {None}]

ASSUME NoneAssumption ==
    None \notin Packets \cup Messages \cup Frames \cup Streams \cup Subscriptions

TypeOK ==
    /\ online \in BOOLEAN
    /\ server \in [schema : Schemas, row : Rows]
    /\ chan \in [Channels -> ChannelObjects]
    /\ open \in Channels \cup {0}
    /\ stream \in Streams \cup {None}
    /\ panel \in [Panels -> Subscriptions \cup {None}]
    /\ listener \in [Listeners -> Channels \cup {0}]
    /\ ready \in BOOLEAN
    /\ \A p \in Panels :
          panel[p] # None /\ panel[p].view # None => Len(panel[p].view.rows) <= MaxLength[p]

Unused == [state |-> "unused", error |-> FALSE, header |-> None, timers |-> 0]

Init ==
    /\ online = TRUE
    /\ server = [schema |-> CHOOSE schema \in Schemas : TRUE, row |-> 0]
    /\ chan = [c \in Channels |-> Unused]
    /\ open = 0
    /\ stream = None
    /\ panel = [p \in Panels |-> None]
    /\ listener = [l \in Listeners |-> 0]
    /\ ready = TRUE

-----------------------------------------------------------------------------
(* The frames.                                                             *)

LastRows(n, rows) ==
    IF Len(rows) <= n THEN rows ELSE SubSeq(rows, Len(rows) - n + 1, Len(rows))

(* getValuesFromLastPacket: the packet may be longer than what is left of  *)
(* it, and slice then counts from the end.                                 *)
LastPacket(st) ==
    LastRows(IF st.last <= Len(st.rows) THEN st.last ELSE st.last - Len(st.rows), st.rows)

(* getFullFrameResponseData, and what live.ts makes of it. *)
FullFrame(st, p, error) ==
    [schema |-> st.schema,
     error  |-> error,
     rows   |-> LastRows(MaxLength[p],
                         CASE p \notin Replaces -> st.rows
                           [] p \in Replaces /\ error -> <<>>
                           [] OTHER -> LastRows(st.last, st.rows))]

RowsOf(messages) == FlattenSeq([i \in DOMAIN messages |-> messages[i].rows])

(* Mutant: the rows of a panel are not limited to what it shows. *)
NewValuesUntrimmed(p, view, messages) ==
    [view EXCEPT
        !.error = FALSE,
        !.rows = IF p \in Replaces THEN Last(messages).rows
                 ELSE view.rows \o RowsOf(messages)]

(* pushNewValues, with the panel's own frame. *)
NewValues(p, view, messages) ==
    [view EXCEPT
        !.error = FALSE,
        !.rows = LastRows(MaxLength[p],
                     IF p \in Replaces THEN Last(messages).rows
                     ELSE view.rows \o RowsOf(messages))]

Some(messages, kind) == \E i \in DOMAIN messages : messages[i].kind = kind

(* Mutant: only the last message decides whether the whole frame is sent. *)
EmitByLast(st, p, sub, messages) ==
    LET error == Last(messages).kind = "error"
    IN  [sub EXCEPT
            !.buffer = <<>>,
            !.view = IF \/ @ = None
                        \/ error
                        \/ Last(messages).kind = "schema"
                     THEN FullFrame(st, p, error)
                     ELSE NewValues(p, @, messages)]

(* What a subscription makes of the messages it may emit: the whole frame  *)
(* as it is now, the first time, and when there is an error or another     *)
(* schema among them; or else what is new.                                 *)
Emit(st, p, sub, messages) ==
    LET error == Some(messages, "error")
    IN  [sub EXCEPT
            !.buffer = <<>>,
            !.view = IF sub.view = None \/ error \/ Some(messages, "schema")
                     THEN FullFrame(st, p, error)
                     ELSE NewValues(p, sub.view, messages)]

(* bufferIfNot. *)
Receive(st, p, sub, m) ==
    IF sub.canEmit THEN Emit(st, p, sub, <<m>>)
    ELSE [sub EXCEPT !.buffer = Append(@, m)]

(* A message of the data stream: it is kept for the next who subscribes. *)
Broadcast(w, m) ==
    [stream |-> [w.stream EXCEPT !.replay = m],
     panel  |-> [p \in Panels |-> IF w.panel[p] = None THEN None
                                  ELSE Receive(w.stream, p, w.panel[p], m)]]

(* StreamingDataFrame.push: columns that keep their name keep their rows.  *)
(* The first rows are taken as they are, however many; a packet without    *)
(* rows leaves those that are there alone.                                 *)
Push(st, packet) ==
    [st EXCEPT
        !.schema = IF packet.schema = 0 THEN st.schema ELSE packet.schema,
        !.last = Len(packet.rows),
        !.rows = IF <<>> \in {st.rows, packet.rows} THEN st.rows \o packet.rows
                 ELSE LastRows(st.maxLength, st.rows \o packet.rows)]

Process(w, packet) ==
    LET st == Push(w.stream, packet)
    IN  Broadcast([stream |-> st, panel |-> w.panel],
                  IF st.schema # w.stream.schema
                  THEN [kind |-> "schema", rows |-> <<>>]
                  ELSE [kind |-> "values", rows |-> LastPacket(st)])

(* onNext, of a status of channel ch. *)
OnStatus(w, ch, packet) ==
    LET v == IF ch.error THEN Broadcast(w, [kind |-> "error", rows |-> <<>>]) ELSE w
    IN  IF ch.state = "connected" /\ packet # None THEN Process(v, packet) ELSE v

World == [stream |-> stream, panel |-> panel]

Become(w) == stream' = w.stream /\ panel' = w.panel

Hears(c) == stream # None /\ stream.channel = c

RoomToWait == \A p \in Panels : panel[p] # None => Len(panel[p].buffer) < MaxBuffer

-----------------------------------------------------------------------------
(* The channels.                                                           *)

Heard(c) == Hears(c) \/ \E l \in Listeners : listener[l] = c

Fresh == {c \in Channels : chan[c].state = "unused"}

(* getChannel: the open channel, or a new one, which subscribes. *)
GetChannel(c) ==
    IF open # 0 THEN c = open /\ UNCHANGED <<chan, open>>
    ELSE /\ Fresh # {}
         /\ c = CHOOSE d \in Fresh : \A e \in Fresh : d <= e
         /\ chan' = [chan EXCEPT ![c].state = "connecting"]
         /\ open' = c

Listen(l) ==
    /\ listener[l] = 0
    /\ \E c \in Channels : GetChannel(c) /\ listener' = [listener EXCEPT ![l] = c]
    /\ UNCHANGED <<online, server, stream, panel, ready>>

(* The last who leaves a channel sets a timer. *)
SetTimer(c) ==
    /\ chan[c].timers < MaxTimers
    /\ chan' = [chan EXCEPT ![c].timers = chan[c].timers + 1]

StopListening(l) ==
    /\ listener[l] # 0
    /\ listener' = [listener EXCEPT ![l] = 0]
    /\ IF Hears(listener[l]) \/ \E k \in Listeners \ {l} : listener[k] = listener[l]
       THEN UNCHANGED chan
       ELSE SetTimer(listener[l])
    /\ UNCHANGED <<online, server, open, stream, panel, ready>>

(* Mutant: whether somebody listens again is not asked. *)
ChannelTimerUnasked(c) ==
    /\ chan[c].timers > 0
    /\ open' = 0
    /\ chan' = [chan EXCEPT ![c] = IF @.timers = 1 THEN Unused
                                 ELSE [@ EXCEPT !.timers = @ - 1, !.state = "shutdown"]]
    /\ UNCHANGED <<online, server, stream, panel, listener, ready>>

(* disconnectIfNoListeners, 250 ms later.  It does not ask whether the     *)
(* channel is closed already: shutdownCallback removes what is open under  *)
(* the channel's id.                                                       *)
ChannelTimer(c) ==
    /\ chan[c].timers > 0
    /\ LET rest == [chan[c] EXCEPT !.timers = @ - 1]
       IN  IF Heard(c)
           THEN chan' = [chan EXCEPT ![c] = rest] /\ UNCHANGED open
           ELSE /\ open' = 0
                /\ chan' = [d \in Channels |->
                       CASE d = c -> IF rest.timers = 0 THEN Unused
                                     ELSE [rest EXCEPT !.state = "shutdown"]
                         [] d # c /\ d = open -> [chan[d] EXCEPT !.state = "disconnected"]
                         [] OTHER -> chan[d]]
    /\ UNCHANGED <<online, server, stream, panel, listener, ready>>

-----------------------------------------------------------------------------
(* The data stream.                                                        *)

(* A new stream gets the channel's status, with its last header. *)
NewStream(c, ch) ==
    OnStatus([stream |-> [channel |-> c, schema |-> 0, rows |-> <<>>, last |-> 0,
                          maxLength |-> DefaultLength, replay |-> None, timer |-> FALSE],
              panel |-> panel],
             ch, ch.header)

(* get: the shutdown is off, the frame gets as long as the panel wants it, *)
(* and the panel's frame, of n rows, comes first.                          *)
Prepared(w, p, n) ==
    LET st == [w.stream EXCEPT
                 !.timer = FALSE,
                 !.maxLength = IF w.stream.maxLength < MaxLength[p]
                               THEN MaxLength[p] ELSE w.stream.maxLength]
        v  == [stream |-> st, panel |-> w.panel]
    IN  IF st.last = 0 /\ p \in Framed
        THEN Process(v, [schema |-> server.schema, rows |-> [i \in 1..n |-> Initial]])
        ELSE v

(* The readiness starts with TRUE.  The first who asks for it, of all      *)
(* channels, then gets what it is.                                         *)
Subscribed(w, p, canEmit) ==
    LET sub == [canEmit |-> canEmit, buffer |-> <<>>, view |-> None]
    IN  [stream |-> w.stream,
         panel  |-> [w.panel EXCEPT ![p] =
                       IF w.stream.replay = None THEN sub
                       ELSE Receive(w.stream, p, sub, w.stream.replay)]]

GetDataStream(p) ==
    /\ panel[p] = None
    /\ RoomToWait
    /\ \E canEmit \in {TRUE, ready}, n \in 1..MaxPacket :
          IF stream # None
          THEN Become(Subscribed(Prepared(World, p, n), p, canEmit)) /\ UNCHANGED <<chan, open>>
          ELSE \E c \in Channels :
                  /\ GetChannel(c)
                  /\ Become(Subscribed(Prepared(NewStream(c, chan'[c]), p, n), p, canEmit))
    /\ UNCHANGED <<online, server, listener, ready>>

(* Mutant: the shutdown is forgotten. *)
UnsubscribeForgets(p) ==
    /\ panel[p] # None
    /\ panel' = [panel EXCEPT ![p] = None]
    /\ UNCHANGED <<online, server, chan, open, stream, listener, ready>>

Unsubscribe(p) ==
    /\ panel[p] # None
    /\ panel' = [panel EXCEPT ![p] = None]
    /\ stream' = IF \E q \in Panels \ {p} : panel[q] # None THEN stream
                 ELSE [stream EXCEPT !.timer = TRUE]
    /\ UNCHANGED <<online, server, chan, open, listener, ready>>

(* shutdownIfNoSubscribers, 5 s later, when the channels' timers that were *)
(* set before have run.                                                    *)
Shutdown ==
    /\ stream # None
    /\ stream.timer
    /\ \A c \in Channels : chan[c].timers = 0
    /\ stream' = None
    /\ IF \E l \in Listeners : listener[l] = stream.channel THEN UNCHANGED chan
       ELSE SetTimer(stream.channel)
    /\ UNCHANGED <<online, server, open, panel, listener, ready>>

(* The browser is slow or is not any more: what waits is sent. *)
Measure ==
    /\ ready' = ~ready
    /\ panel' = [p \in Panels |->
                   IF panel[p] = None THEN None
                   ELSE LET sub == [panel[p] EXCEPT !.canEmit = ready']
                        IN  IF ready' /\ sub.buffer # <<>>
                            THEN Emit(stream, p, sub, sub.buffer)
                            ELSE sub]
    /\ UNCHANGED <<online, server, chan, open, stream, listener>>

-----------------------------------------------------------------------------
(* The connection.  Only the open channel has a subscription.              *)

Deliver(c, ch, packet) ==
    /\ RoomToWait
    /\ chan' = [chan EXCEPT ![c] = ch]
    /\ IF Hears(c) THEN Become(OnStatus(World, ch, packet)) ELSE UNCHANGED <<stream, panel>>

OnConnect ==
    /\ ~online
    /\ online' = TRUE
    /\ UNCHANGED <<server, chan, open, stream, panel, listener, ready>>

(* A subscription waits for the connection to come back. *)
OnDisconnect ==
    /\ online
    /\ online' = FALSE
    /\ chan' = [c \in Channels |->
                  IF c = open /\ chan[c].state = "connected"
                  THEN [chan[c] EXCEPT !.state = "connecting"] ELSE chan[c]]
    /\ UNCHANGED <<server, open, stream, panel, listener, ready>>

(* The server accepts the subscription, with its schema and perhaps its    *)
(* last rows.                                                              *)
OnSubscribed(c) ==
    /\ online
    /\ c = open
    /\ chan[c].state = "connecting"
    /\ \E n \in 0..MaxPacket :
          LET packet == [schema |-> server.schema,
                         rows |-> [i \in 1..n |-> server.row - n + i]]
          IN  /\ n <= server.row
              /\ Deliver(c, [chan[c] EXCEPT !.state = "connected", !.error = FALSE,
                                           !.header = packet], packet)
    /\ UNCHANGED <<online, server, open, listener, ready>>

OnError(c) ==
    /\ online
    /\ c = open
    /\ chan[c].state = "connecting"
    /\ Deliver(c, [chan[c] EXCEPT !.error = TRUE], None)
    /\ UNCHANGED <<online, server, open, listener, ready>>

(* The server ends the subscription. *)
OnUnsubscribed(c) ==
    /\ online
    /\ c = open
    /\ chan[c].state = "connected"
    /\ Deliver(c, [chan[c] EXCEPT !.state = "disconnected"], None)
    /\ UNCHANGED <<online, server, open, listener, ready>>

(* A packet of some rows, with the schema when it is another one. *)
Publish ==
    \E schema \in {0} \cup (Schemas \ {server.schema}), n \in 0..MaxPacket :
        LET c == open
            packet == [schema |-> schema, rows |-> [i \in 1..n |-> server.row + i]]
        IN  /\ server.row + n <= MaxRows
            /\ server' = [schema |-> IF schema = 0 THEN server.schema ELSE schema,
                          row |-> server.row + n]
            /\ IF c # 0 /\ chan[c].state = "connected"
               THEN Deliver(c, [chan[c] EXCEPT
                                  !.header = IF schema = 0 THEN chan[c].header
                                             ELSE packet], packet)
               ELSE UNCHANGED <<chan, stream, panel>>
            /\ UNCHANGED <<online, open, listener, ready>>

Next ==
    \/ \E p \in Panels : GetDataStream(p) \/ Unsubscribe(p)
    \/ \E l \in Listeners : Listen(l) \/ StopListening(l)
    \/ \E c \in Channels : OnSubscribed(c) \/ OnError(c) \/ OnUnsubscribed(c) \/ ChannelTimer(c)
    \/ Shutdown \/ Measure \/ OnConnect \/ OnDisconnect \/ Publish

(* The timers run in the end. *)
Spec ==
    /\ Init
    /\ [][Next]_vars
    /\ WF_vars(Shutdown)
    /\ \A c \in Channels : WF_vars(ChannelTimer(c))

-----------------------------------------------------------------------------
(* No packet is longer than a panel shows. *)
ShortPackets == \A p \in Panels : MaxPacket <= MaxLength[p]

(* A panel for which nothing waits shows what the stream has: the rows it  *)
(* asked for, or the last packet; with the stream's schema; and an error   *)
(* if that was the last it got.  Whatever happened since it subscribed,    *)
(* full frames and new values add up to that.  It takes ShortPackets: of a *)
(* packet that is longer than the stream keeps, LastPacket is not what the *)
(* stream has kept.                                                        *)
InSync ==
    \A p \in Panels :
        panel[p] # None /\ panel[p].buffer = <<>> /\ stream.replay # None =>
            LET view == panel[p].view
            IN  /\ view # None
                /\ view.rows = FullFrame(stream, p, view.error).rows
                /\ view.schema = stream.schema
                /\ stream.replay.kind = "error" => view.error

Nobody ==
    /\ \A p \in Panels : panel[p] = None
    /\ \A l \in Listeners : listener[l] = 0

(* The frame a panel brings is taken first or not at all: those of         *)
(* subsequent subscribers are skipped.                                     *)
InitialFirst ==
    stream # None =>
        \A i, j \in DOMAIN stream.rows :
            i < j /\ stream.rows[j] = Initial => stream.rows[i] = Initial

(* When everybody has gone, the stream is shut down in the end and the     *)
(* channel closed, unless somebody comes back.                             *)
Released == Nobody ~> (~Nobody \/ (stream = None /\ open = 0))

(* A channel that somebody listens to, a data stream or another listener,  *)
(* is the open one, which gets the server's messages: nobody is left       *)
(* behind at a channel that was closed.  It takes that nobody leaves a     *)
(* channel twice within 250 ms.                                            *)
HeardIsOpen == \A c \in Channels : Heard(c) => open = c

=============================================================================
