------------------------------- MODULE Broker -------------------------------
(***************************************************************************)
(* The SSE broker of one server process: the map of connected clients, the *)
(* goroutine per channel that listens to Redis, the bounded buffer of each *)
(* client, and the SSE handlers that drain the buffers.                    *)
(*                                                                         *)
(* b.clients maps a channel to an inner Go map.  Inner maps are reference  *)
(* objects: broadcast takes the reference under the lock and iterates over *)
(* the object without it, so the model has map objects (Maps) with an      *)
(* identity of their own.  Subscribe, Unsubscribe and Close hold the lock  *)
(* from end to end and are one step each.                                  *)
(***************************************************************************)
EXTENDS Integers, FiniteSets, Sequences, Functions

CONSTANTS
    Channels,     \* account ids and "session:" ids
    Clients,      \* SSE connections; each connects once
    Goroutines,   \* bound: runs of subscribeToRedis
    Maps,         \* inner map objects
    Events,       \* events; each is published once
    NULL,
    EventsCap,    \* capacity of Client.Events, 100 in the code
    InboxCap      \* bound: messages waiting in one Redis subscription

ASSUME CapAssumption == EventsCap \in Nat \ {0} /\ InboxCap \in Nat \ {0}
ASSUME NullAssumption == NULL \notin Channels \cup Maps \cup Events

VARIABLES
    entry,        \* b.clients: channel -> map object, or NULL
    members,      \* map object -> the clients in it
    gor,          \* goroutine -> where subscribeToRedis has got to
    inbox,        \* goroutine -> events its Redis subscription holds for it
    cl,           \* client -> its handler and its Done channel
    buf,          \* client -> Client.Events
    sent,         \* client -> history: events written to its open response
    dropped,      \* client -> history: events its full buffer refused
    publishedOn,  \* history: event -> the channel it was published on
    closed,       \* Close has cancelled b.ctx
    panicked      \* some close(client.Done) hit a closed channel

vars == <<entry, members, gor, inbox, cl, buf, sent, dropped, publishedOn,
          closed, panicked>>

-----------------------------------------------------------------------------

\* A goroutine: the channel it listens to and, in the loop of broadcast, the
\* map object, the event, the clients that were there at the start, and the
\* clients the loop has come to.
GoroutineAt(pc, ch, m, e, todo) ==
    [pc |-> pc, channel |-> ch, map |-> m, event |-> e, todo |-> todo,
     visited |-> {}]

NoGoroutine == GoroutineAt("none", NULL, NULL, NULL, {})

ExitedGoroutine == GoroutineAt("exited", NULL, NULL, NULL, {})

\* What is left of a client when its handler has returned.
GoneClient(c) == [cl[c] EXCEPT !.pc = "gone", !.done = "closed"]

NewClient == [pc |-> "new", channel |-> NULL, done |-> "open", late |-> FALSE]

\* The handler of c is past Subscribe and not on its way out.
Connected(c) == cl[c].pc \in {"greeting", "streaming", "writing"}

Init ==
    /\ entry = [ch \in Channels |-> NULL]
    /\ members = [m \in Maps |-> {}]
    /\ gor = [g \in Goroutines |-> NoGoroutine]
    /\ inbox = [g \in Goroutines |-> <<>>]
    /\ cl = [c \in Clients |-> NewClient]
    /\ buf = [c \in Clients |-> <<>>]
    /\ sent = [c \in Clients |-> {}]
    /\ dropped = [c \in Clients |-> {}]
    /\ publishedOn = [e \in Events |-> NULL]
    /\ closed = FALSE
    /\ panicked = FALSE

\* A map object nothing refers to is free to be allocated.
FreeMap(m) ==
    /\ \A ch \in Channels : entry[ch] # m
    /\ \A g \in Goroutines : gor[g].map # m

Registered(c) == entry[cl[c].channel] # NULL /\ c \in members[entry[cl[c].channel]]

\* Subscribe, from a request that passed authentication; one that was in
\* flight at shutdown may do so after Close.
Subscribe(c, ch) ==
    /\ cl[c].pc = "new"
    /\ cl' = [cl EXCEPT ![c] = [pc |-> "greeting", channel |-> ch,
                                done |-> "open", late |-> closed]]
    /\ \/ /\ entry[ch] # NULL
          /\ members' = [members EXCEPT ![entry[ch]] = @ \cup {c}]
          /\ UNCHANGED <<entry, gor>>
       \/ /\ entry[ch] = NULL
          /\ \E m \in Maps, g \in Goroutines :
                /\ FreeMap(m)
                /\ gor[g].pc = "none"
                /\ entry' = [entry EXCEPT ![ch] = m]
                /\ members' = [members EXCEPT ![m] = {c}]
                /\ gor' = [gor EXCEPT ![g] =
                              GoroutineAt("starting", ch, NULL, NULL, {})]
    /\ UNCHANGED <<inbox, buf, sent, dropped, publishedOn, closed, panicked>>

\* The queued messages and "connected" have been written, or the error was
\* logged, and the SSE handler's loop begins.
Greeted(c) ==
    /\ cl[c].pc = "greeting"
    /\ cl' = [cl EXCEPT ![c].pc = "streaming"]
    /\ UNCHANGED <<entry, members, gor, inbox, buf, sent, dropped, publishedOn,
                   closed, panicked>>

\* A round of the loop takes an event and writes it, ...
SendEvent(c) ==
    /\ cl[c].pc = "streaming"
    /\ buf[c] # <<>>
    /\ sent' = [sent EXCEPT ![c] = @ \cup {Head(buf[c])}]
    /\ buf' = [buf EXCEPT ![c] = Tail(@)]
    /\ cl' = [cl EXCEPT ![c].pc = "writing"]
    /\ UNCHANGED <<entry, members, gor, inbox, dropped, publishedOn, closed,
                   panicked>>

\* ... or writes a heartbeat, ...
Heartbeat(c) ==
    /\ cl[c].pc = "streaming"
    /\ cl' = [cl EXCEPT ![c].pc = "writing"]
    /\ UNCHANGED <<entry, members, gor, inbox, buf, sent, dropped, publishedOn,
                   closed, panicked>>

\* ... which takes as long as the client makes it take (WriteTimeout is 0):
\* the handler does not see the end of its context or of Done meanwhile.
Written(c) ==
    /\ cl[c].pc = "writing"
    /\ cl' = [cl EXCEPT ![c].pc = "streaming"]
    /\ UNCHANGED <<entry, members, gor, inbox, buf, sent, dropped, publishedOn,
                   closed, panicked>>

WriteFails(c) ==
    /\ cl[c].pc = "writing"
    /\ cl' = [cl EXCEPT ![c].pc = "leaving"]
    /\ UNCHANGED <<entry, members, gor, inbox, buf, sent, dropped, publishedOn,
                   closed, panicked>>

\* The loop ends because the request is over: the client has gone, or its
\* 60 s are up.
RequestOver(c) ==
    /\ cl[c].pc = "streaming"
    /\ cl' = [cl EXCEPT ![c].pc = "leaving"]
    /\ UNCHANGED <<entry, members, gor, inbox, buf, sent, dropped, publishedOn,
                   closed, panicked>>

DoneClosed(c) ==
    /\ cl[c].done = "closed"
    /\ RequestOver(c)

\* Mutant: the Redis subscription is cancelled without asking whether other
\* clients of the channel remain.
UnsubscribeStopsChannel(c) ==
    LET ch == cl[c].channel
        m == entry[ch]
    IN /\ cl[c].pc = "leaving"
       /\ m # NULL
       /\ members' = [members EXCEPT ![m] = @ \ {c}]
       /\ entry' = [entry EXCEPT ![ch] = IF members[m] = {c} THEN NULL ELSE @]
       /\ gor' = [g \in Goroutines |-> IF gor[g].channel = ch
                                       THEN ExitedGoroutine
                                       ELSE gor[g]]
       /\ cl' = [cl EXCEPT ![c] = GoneClient(c)]
       /\ UNCHANGED <<inbox, buf, sent, dropped, publishedOn, closed, panicked>>

\* Mutant: the channel's map is removed without asking whether it is empty.
UnsubscribeDropsMap(c) ==
    LET ch == cl[c].channel
        m == entry[ch]
    IN /\ cl[c].pc = "leaving"
       /\ m # NULL
       /\ members' = [members EXCEPT ![m] = @ \ {c}]
       /\ entry' = [entry EXCEPT ![ch] = NULL]
       /\ cl' = [cl EXCEPT ![c] = GoneClient(c)]
       /\ UNCHANGED <<gor, inbox, buf, sent, dropped, publishedOn, closed, panicked>>

\* The deferred Unsubscribe.  It acts when the channel has an inner map, and
\* then closes Done without asking whether the client was in that map; a
\* second close panics (and the deferred Unlock still runs).  The histories
\* of a connection end with it.
Unsubscribe(c) ==
    LET ch == cl[c].channel
        m == entry[ch]
    IN /\ cl[c].pc = "leaving"
       /\ \/ /\ m # NULL
             /\ members' = [members EXCEPT ![m] = @ \ {c}]
             /\ \/ /\ cl[c].done = "open"
                   /\ entry' = [entry EXCEPT ![ch] =
                                   IF members[m] \subseteq {c} THEN NULL ELSE @]
                   /\ UNCHANGED panicked
                \/ /\ cl[c].done = "closed"
                   /\ panicked' = TRUE
                   /\ UNCHANGED entry
          \/ /\ m = NULL
             /\ UNCHANGED <<entry, members, panicked>>
       /\ cl' = [cl EXCEPT ![c] = GoneClient(c)]
       /\ buf' = [buf EXCEPT ![c] = <<>>]
       /\ sent' = [sent EXCEPT ![c] = {}]
       /\ dropped' = [dropped EXCEPT ![c] = {}]
       /\ UNCHANGED <<gor, inbox, publishedOn, closed>>

-----------------------------------------------------------------------------
(* Redis, external: a message published on a channel reaches those of its  *)
(* subscriptions that are up, at most once; an outage loses it.            *)

\* The subscription of a goroutine that has started becomes active.
RedisSubscribed(g) ==
    /\ gor[g].pc = "starting"
    /\ gor' = [gor EXCEPT ![g].pc = "listening"]
    /\ UNCHANGED <<entry, members, inbox, cl, buf, sent, dropped, publishedOn,
                   closed, panicked>>

Listening(ch) == {g \in Goroutines : /\ gor[g].pc \in {"listening", "iterating"}
                                     /\ gor[g].channel = ch
                                     /\ Len(inbox[g]) < InboxCap}

\* Publish, by a handler of this or of another server process.
Publish(e, ch) ==
    /\ publishedOn[e] = NULL
    /\ publishedOn' = [publishedOn EXCEPT ![e] = ch]
    /\ \E reached \in SUBSET Listening(ch) :
          inbox' = [g \in Goroutines |-> IF g \in reached
                                         THEN Append(inbox[g], e)
                                         ELSE inbox[g]]
    /\ UNCHANGED <<entry, members, gor, cl, buf, sent, dropped, closed, panicked>>

\* The receive of subscribeToRedis and the locked part of broadcast: the
\* reference to the inner map (nil if there is none) is read once.
Receive(g) ==
    LET m == entry[gor[g].channel]
    IN /\ gor[g].pc = "listening"
       /\ inbox[g] # <<>>
       /\ inbox' = [inbox EXCEPT ![g] = Tail(@)]
       /\ gor' = [gor EXCEPT ![g] =
                     GoroutineAt("iterating", gor[g].channel, m, Head(inbox[g]),
                                 IF m = NULL THEN {} ELSE members[m])]
       /\ UNCHANGED <<entry, members, cl, buf, sent, dropped, publishedOn, closed,
                      panicked>>

\* Mutant: broadcast to whoever is connected.
AnyReachable(g) == {c \in Clients : Connected(c)} \ gor[g].visited

\* Clients the range loop may come to: it produces an entry once, never one
\* that was removed, and perhaps one that was added meanwhile.
Reachable(g) == IF gor[g].map = NULL THEN {}
                ELSE members[gor[g].map] \ gor[g].visited

\* Mutant: a send without a default branch.
OfferBlocking(g, c) ==
    /\ gor[g].pc = "iterating"
    /\ c \in Reachable(g)
    /\ gor' = [gor EXCEPT ![g].visited = @ \cup {c}]
    /\ Len(buf[c]) < EventsCap
    /\ buf' = [buf EXCEPT ![c] = Append(@, gor[g].event)]
    /\ UNCHANGED <<entry, members, inbox, cl, sent, dropped, publishedOn, closed,
                   panicked>>

\* Mutant: the buffer grows instead of refusing an event.
OfferUnbounded(g, c) ==
    /\ gor[g].pc = "iterating"
    /\ c \in Reachable(g)
    /\ gor' = [gor EXCEPT ![g].visited = @ \cup {c}]
    /\ buf' = [buf EXCEPT ![c] = Append(@, gor[g].event)]
    /\ UNCHANGED <<entry, members, inbox, cl, sent, dropped, publishedOn, closed,
                   panicked>>

\* One round of the loop: the send, or its default branch on a full buffer.
Offer(g, c) ==
    /\ gor[g].pc = "iterating"
    /\ c \in Reachable(g)
    /\ gor' = [gor EXCEPT ![g].visited = @ \cup {c}]
    /\ \/ /\ Len(buf[c]) < EventsCap
          /\ buf' = [buf EXCEPT ![c] = Append(@, gor[g].event)]
          /\ UNCHANGED dropped
       \/ /\ Len(buf[c]) = EventsCap
          /\ dropped' = [dropped EXCEPT ![c] = @ \cup {gor[g].event}]
          /\ UNCHANGED buf
    /\ UNCHANGED <<entry, members, inbox, cl, sent, publishedOn, closed, panicked>>

EndBroadcast(g) ==
    /\ gor[g].pc = "iterating"
    /\ gor[g].todo \cap Reachable(g) = {}
    /\ gor' = [gor EXCEPT ![g] = 
                  GoroutineAt("listening", gor[g].channel, NULL, NULL, {})]
    /\ UNCHANGED <<entry, members, inbox, cl, buf, sent, dropped, publishedOn,
                   closed, panicked>>

\* b.ctx is cancelled: the goroutine returns and its subscription is closed.
Exit(g) ==
    /\ closed
    /\ gor[g].pc \in {"starting", "listening"}
    /\ gor' = [gor EXCEPT ![g] = ExitedGoroutine]
    /\ inbox' = [inbox EXCEPT ![g] = <<>>]
    /\ UNCHANGED <<entry, members, cl, buf, sent, dropped, publishedOn, closed,
                   panicked>>

\* Mutant: the clients stay in b.clients.
CloseKeepsClients ==
    /\ ~closed
    /\ closed' = TRUE
    /\ cl' = [c \in Clients |-> IF /\ Connected(c) \/ cl[c].pc = "leaving"
                                   /\ Registered(c)
                                THEN [cl[c] EXCEPT !.done = "closed"]
                                ELSE cl[c]]
    /\ UNCHANGED <<entry, members, gor, inbox, buf, sent, dropped, publishedOn,
                   panicked>>

\* Close, once, at the end of main.  The inner maps keep their contents for
\* a broadcast that still holds one.
Close ==
    /\ ~closed
    /\ closed' = TRUE
    /\ cl' = [c \in Clients |-> IF /\ Connected(c) \/ cl[c].pc = "leaving"
                                   /\ Registered(c)
                                THEN [cl[c] EXCEPT !.done = "closed"]
                                ELSE cl[c]]
    /\ entry' = [ch \in Channels |-> NULL]
    /\ UNCHANGED <<members, gor, inbox, buf, sent, dropped, publishedOn, panicked>>

\* The Go runtime ends the process when it notices a write to a map that is
\* being iterated over; it need not notice.
ConcurrentMapAccess ==
    \E g \in Goroutines, ch \in Channels :
        /\ gor[g].pc = "iterating"
        /\ gor[g].map # NULL
        /\ gor[g].map = entry[ch]
        /\ \E c \in Clients :
              \/ cl[c].pc = "new"
              \/ cl[c].pc = "leaving" /\ cl[c].channel = ch

\* Nothing of the process is left; another one may be started.
ProcessEnds ==
    /\ entry' = [ch \in Channels |-> NULL]
    /\ members' = [m \in Maps |-> {}]
    /\ gor' = [g \in Goroutines |-> IF gor[g].pc = "none" THEN NoGoroutine
                                    ELSE ExitedGoroutine]
    /\ inbox' = [g \in Goroutines |-> <<>>]
    /\ cl' = [c \in Clients |-> IF cl[c].pc = "new" THEN cl[c]
                                ELSE [GoneClient(c) EXCEPT !.late = FALSE]]
    /\ buf' = [c \in Clients |-> <<>>]
    /\ sent' = [c \in Clients |-> {}]
    /\ dropped' = [c \in Clients |-> {}]
    /\ closed' = FALSE
    /\ panicked' = FALSE
    /\ UNCHANGED publishedOn

Fatal == ConcurrentMapAccess /\ ProcessEnds

-----------------------------------------------------------------------------

\* The handler of c between Subscribe and Unsubscribe.
Handle(c) ==
    \/ Greeted(c)
    \/ SendEvent(c)
    \/ Heartbeat(c)
    \/ Written(c)
    \/ WriteFails(c)
    \/ RequestOver(c)
    \/ DoneClosed(c)

Client(c) ==
    \/ \E ch \in Channels : Subscribe(c, ch)
    \/ Handle(c)
    \/ Unsubscribe(c)

Goroutine(g) ==
    \/ RedisSubscribed(g)
    \/ Receive(g)
    \/ \E c \in Clients : Offer(g, c)
    \/ EndBroadcast(g)
    \/ Exit(g)

Next ==
    \/ \E c \in Clients : Client(c)
    \/ \E g \in Goroutines : Goroutine(g)
    \/ \E e \in Events, ch \in Channels : Publish(e, ch)
    \/ Close
    \/ Fatal

Spec == Init /\ [][Next]_vars

-----------------------------------------------------------------------------

GoroutineRows ==
    [pc : {"none", "starting", "listening", "iterating", "exited"},
     channel : Channels \cup {NULL}, map : Maps \cup {NULL},
     event : Events \cup {NULL}, todo : SUBSET Clients, visited : SUBSET Clients]

ClientRows ==
    [pc : {"new", "greeting", "streaming", "writing", "leaving", "gone"},
     channel : Channels \cup {NULL}, done : {"open", "closed"}, late : BOOLEAN]

\* The type invariant.
TypeOK ==
    /\ entry \in [Channels -> Maps \cup {NULL}]
    /\ members \in [Maps -> SUBSET Clients]
    /\ gor \in [Goroutines -> GoroutineRows]
    /\ inbox \in [Goroutines -> Seq(Events)]
    /\ \A g \in Goroutines : Len(inbox[g]) <= InboxCap
    /\ cl \in [Clients -> ClientRows]
    /\ buf \in [Clients -> Seq(Events)]
    /\ \A c \in Clients : Len(buf[c]) <= EventsCap
    /\ sent \in [Clients -> SUBSET Events]
    /\ dropped \in [Clients -> SUBSET Events]
    /\ publishedOn \in [Events -> Channels \cup {NULL}]
    /\ closed \in BOOLEAN /\ panicked \in BOOLEAN

Offered(c) == Range(buf[c]) \cup sent[c] \cup dropped[c]

\* A client is handed events of its own channel only, although a broadcast
\* may go on over an inner map that has left b.clients and goroutines outlive
\* the clients they were started for (broadcast, subscribeToRedis).
ChannelIsolation ==
    \A c \in Clients, e \in Events :
        e \in Offered(c) => publishedOn[e] = cl[c].channel

\* While the broker is open, a channel with a registered client has a
\* goroutine that listens to it or is about to: the clients that stay are
\* served however the others come and go (Subscribe starts a goroutine only
\* for the first client).
ChannelServed ==
    ~closed => \A ch \in Channels : entry[ch] # NULL =>
        \E g \in Goroutines : /\ gor[g].channel = ch
                              /\ gor[g].pc \in {"starting", "listening", "iterating"}

\* A client that is connected is in the map of its channel until Close
\* replaces b.clients: Unsubscribe never takes away the map of clients that
\* stay.
RegisteredWhileStreaming ==
    \A c \in Clients :
        Connected(c) /\ (~closed \/ cl[c].late) => Registered(c)

\* Close reaches every handler that was there, however its channel's map was
\* removed and made again before: its Done is closed.  That Done is closed a
\* second time, which panics, takes a request that subscribes after Close
\* (Close replaces b.clients, and Unsubscribe closes Done if the channel has
\* a map, whoever is in it).
CloseReachesHandlers ==
    /\ closed => \A c \in Clients :
          Connected(c) /\ ~cl[c].late => cl[c].done = "closed"
    /\ panicked => \E c \in Clients : cl[c].late

\* A slow client holds up nobody: an event that has reached the process is
\* handed to every client that stays registered on its channel, even if
\* every handler is stuck in a write (the default branch of broadcast).
SlowClientsDoNotBlock ==
    \A c \in Clients, e \in Events :
        (\E g \in Goroutines : e \in Range(inbox[g]))
            /\ Connected(c) /\ ~closed
            /\ publishedOn[e] = cl[c].channel
          ~> e \in Offered(c) \/ ~Connected(c) \/ closed

=============================================================================
