---------------------------- MODULE ServerProofs ----------------------------
(***************************************************************************)
(* Proofs about Broker and Server for every set of channels, clients,      *)
(* goroutines, map objects and events, and for every buffer size.          *)
(*                                                                         *)
(* BrokerInv is the inductive invariant of the broker.  Its core is that a *)
(* map object belongs to one channel for as long as anything refers to it, *)
(* b.clients or a broadcast under way (OneHome), and holds clients of that *)
(* channel only (Kin): a broadcast that goes on without the lock, over a   *)
(* map that has left b.clients, still meets no stranger.  LateChannels     *)
(* keeps track of the clients that Close cannot reach, because they came   *)
(* after it.                                                               *)
(***************************************************************************)
EXTENDS Server, QueueLemmas

USE CapAssumption, NullAssumption

-----------------------------------------------------------------------------

\* b.clients, or a broadcast on channel ch, refers to map object m.
Refers(m, ch) ==
    \/ entry[ch] = m
    \/ \E g \in Goroutines : gor[g].map = m /\ gor[g].channel = ch

\* A map object is the map of one channel.
OneHome ==
    \A m \in Maps, ch, dh \in Channels : Refers(m, ch) /\ Refers(m, dh) => ch = dh

\* ... and holds its clients.
Kin ==
    \A m \in Maps, ch \in Channels : Refers(m, ch) =>
        \A c \in members[m] : cl[c].channel = ch

\* The handler of c is between Subscribe and the end of Unsubscribe.
Active(c) == Connected(c) \/ cl[c].pc = "leaving"

\* A client has a channel when it has subscribed; a second close of its
\* Done, and a client that came after Close, need a broker that is closed.
Clientele ==
    \A c \in Clients :
        /\ cl[c].pc = "new" => cl[c].channel = NULL
        /\ Active(c) => cl[c].channel \in Channels
        /\ Active(c) /\ (cl[c].late \/ cl[c].done = "closed") => closed

Running == {"starting", "listening", "iterating"}

\* What a goroutine has received or is handing out is of its channel.
Carries(g) ==
    /\ gor[g].pc \in Running => gor[g].channel \in Channels
    /\ gor[g].pc \notin {"listening", "iterating"} => inbox[g] = <<>>
    /\ gor[g].pc # "iterating" => gor[g].map = NULL
    /\ \A e \in Range(inbox[g]) : publishedOn[e] = gor[g].channel
    /\ gor[g].pc = "iterating" =>
          gor[g].event \in Events /\ publishedOn[gor[g].event] = gor[g].channel

\* What a client was handed is of its channel.
Handed(c) ==
    \A e \in Offered(c) :
        publishedOn[e] = cl[c].channel /\ cl[c].channel \in Channels

\* A closed broker has a channel only if somebody came late, and only then
\* can Done be closed a second time.
LateChannels ==
    /\ closed => \A ch \in Channels : entry[ch] # NULL => \E c \in Clients : cl[c].late
    /\ panicked => closed

BrokerInv ==
    /\ TypeOK /\ OneHome /\ Kin /\ Clientele
    /\ \A g \in Goroutines : Carries(g)
    /\ \A c \in Clients : Handed(c)
    /\ ChannelServed /\ RegisteredWhileStreaming
    /\ LateChannels /\ CloseReachesHandlers

\* Requests and main: who streams was accepted, and the broker is closed
\* only after the requests were waited for.
Orderly ==
    /\ \A c \in Clients : Active(c) => c \in accepted
    /\ closed => main \in {"closeRedis", "closeDB", "exit"}
    /\ ~forced /\ Closing => accepted = {}
    /\ ~forced => ~panicked

ServerInv == ServerTypeOK /\ BrokerInv /\ Orderly

\* A request that is answered before it subscribes (Refuse of Server).
Leave(c) ==
    /\ cl[c].pc = "new"
    /\ cl' = [cl EXCEPT ![c] = GoneClient(c)]
    /\ UNCHANGED <<entry, members, gor, inbox, buf, sent, dropped, publishedOn,
                   closed, panicked>>

\* What the broker may do on its own and inside a server.
BrokerMove == Next \/ ProcessEnds \/ \E c \in Clients : Leave(c)

-----------------------------------------------------------------------------
(* The rows.                                                               *)

\* The locals of a handler that moves on.
LEMMA ClientPc ==
    ASSUME TypeOK, NEW c \in Clients, NEW pc \in {"streaming", "writing", "leaving"},
           cl' = [cl EXCEPT ![c].pc = pc]
    PROVE  /\ cl' \in [Clients -> ClientRows]
           /\ cl'[c].pc = pc
           /\ \A d \in Clients : /\ cl'[d].channel = cl[d].channel
                                 /\ cl'[d].done = cl[d].done
                                 /\ cl'[d].late = cl[d].late
                                 /\ d # c => cl'[d].pc = cl[d].pc
  <1>1. cl \in [Clients -> ClientRows]
    BY DEF TypeOK
  <1>. DEFINE row == [cl[c] EXCEPT !.pc = pc]
  <1>2. cl' = [cl EXCEPT ![c] = row]
    OBVIOUS
  <1>3. /\ row \in ClientRows /\ row.pc = pc /\ row.channel = cl[c].channel
        /\ row.done = cl[c].done /\ row.late = cl[c].late
    <2>1. cl[c] \in ClientRows
      BY <1>1
    <2>. QED
      BY ONLY <2>1, pc \in {"streaming", "writing", "leaving"} DEF ClientRows
  <1>. HIDE DEF row
  <1>. QED
    BY <1>1, <1>2, <1>3

\* A handler that returns.
LEMMA GoneRow ==
    ASSUME TypeOK, NEW c \in Clients
    PROVE  /\ GoneClient(c) \in ClientRows /\ GoneClient(c).pc = "gone"
           /\ GoneClient(c).channel = cl[c].channel
           /\ GoneClient(c).late = cl[c].late
  <1>1. cl[c] \in ClientRows
    BY DEF TypeOK
  <1>. QED
    BY ONLY <1>1 DEF ClientRows, GoneClient

\* ... leaves the others alone.
LEMMA Going ==
    ASSUME TypeOK, NEW c \in Clients, cl' = [cl EXCEPT ![c] = GoneClient(c)]
    PROVE  /\ cl' \in [Clients -> ClientRows]
           /\ cl'[c].pc = "gone" /\ cl'[c].channel = cl[c].channel
           /\ cl'[c].late = cl[c].late
           /\ \A d \in Clients \ {c} : cl'[d] = cl[d]
  BY GoneRow DEF TypeOK

\* A client that subscribes.
LEMMA Coming ==
    ASSUME TypeOK, NEW c \in Clients, NEW ch \in Channels, Subscribe(c, ch)
    PROVE  /\ cl' \in [Clients -> ClientRows]
           /\ cl[c].pc = "new" /\ cl'[c].pc = "greeting" /\ cl'[c].channel = ch
           /\ cl'[c].done = "open" /\ cl'[c].late = closed
           /\ \A d \in Clients \ {c} : cl'[d] = cl[d]
  <1>. DEFINE row == [pc |-> "greeting", channel |-> ch, done |-> "open", late |-> closed]
  <1>1. cl' = [cl EXCEPT ![c] = row] /\ cl[c].pc = "new"
    BY DEF Subscribe
  <1>2. /\ row \in ClientRows /\ row.pc = "greeting" /\ row.channel = ch
        /\ row.done = "open" /\ row.late = closed
    BY DEF ClientRows, TypeOK
  <1>. HIDE DEF row
  <1>. QED
    BY <1>1, <1>2 DEF TypeOK

\* Close closes Done channels and changes nothing else of a client.
LEMMA DoneRow ==
    ASSUME TypeOK, Close
    PROVE  /\ cl' \in [Clients -> ClientRows]
           /\ \A c \in Clients : /\ cl'[c].pc = cl[c].pc
                                 /\ cl'[c].channel = cl[c].channel
                                 /\ cl'[c].late = cl[c].late
  <1>1. ASSUME NEW c \in Clients
        PROVE  /\ [cl[c] EXCEPT !.done = "closed"] \in ClientRows
               /\ [cl[c] EXCEPT !.done = "closed"].pc = cl[c].pc
               /\ [cl[c] EXCEPT !.done = "closed"].channel = cl[c].channel
               /\ [cl[c] EXCEPT !.done = "closed"].late = cl[c].late
    <2>1. cl[c] \in ClientRows
      BY DEF TypeOK
    <2>. QED
      BY ONLY <2>1 DEF ClientRows
  <1>2. PICK X \in SUBSET Clients :
           cl' = [c \in Clients |-> IF c \in X THEN [cl[c] EXCEPT !.done = "closed"]
                                              ELSE cl[c]]
    <2>. DEFINE X == {c \in Clients : /\ Connected(c) \/ cl[c].pc = "leaving"
                                      /\ Registered(c)}
    <2>. WITNESS X \in SUBSET Clients
    <2>. QED
      BY DEF Close
  <1>. QED
    BY <1>1, <1>2 DEF TypeOK

\* When the process ends every handler has gone.
LEMMA Ending ==
    ASSUME TypeOK, ProcessEnds
    PROVE  /\ cl' \in [Clients -> ClientRows]
           /\ \A c \in Clients : /\ cl'[c].pc = "gone" \/ (cl'[c] = cl[c] /\ cl[c].pc = "new")
                                 /\ cl'[c].channel = cl[c].channel
  <1>1. cl' = [c \in Clients |-> IF cl[c].pc = "new" THEN cl[c]
                                 ELSE [GoneClient(c) EXCEPT !.late = FALSE]]
    BY DEF ProcessEnds
  <1>2. ASSUME NEW c \in Clients
        PROVE  /\ cl'[c] \in ClientRows
               /\ cl'[c].pc = "gone" \/ (cl'[c] = cl[c] /\ cl[c].pc = "new")
               /\ cl'[c].channel = cl[c].channel
    <2>1. CASE cl[c].pc = "new"
      BY <1>1, <2>1 DEF TypeOK
    <2>2. CASE cl[c].pc # "new"
      <3>. DEFINE gone == GoneClient(c)
      <3>1. cl'[c] = [gone EXCEPT !.late = FALSE]
        BY <1>1, <2>2
      <3>2. gone \in ClientRows /\ gone.pc = "gone" /\ gone.channel = cl[c].channel
        BY GoneRow
      <3>. HIDE DEF gone
      <3>. QED
        BY <3>1, <3>2 DEF ClientRows
    <2>. QED
      BY <2>1, <2>2
  <1>. QED
    BY <1>1, <1>2

\* A goroutine outside broadcast.
LEMMA QuietRow ==
    ASSUME NEW pc \in {"none", "starting", "listening", "exited"},
           NEW ch \in Channels \cup {NULL}
    PROVE  /\ GoroutineAt(pc, ch, NULL, NULL, {}) \in GoroutineRows
           /\ GoroutineAt(pc, ch, NULL, NULL, {}).pc = pc
           /\ GoroutineAt(pc, ch, NULL, NULL, {}).channel = ch
           /\ GoroutineAt(pc, ch, NULL, NULL, {}).map = NULL
  BY DEF GoroutineAt, GoroutineRows

\* ... that has not run or has returned.
LEMMA IdleRows ==
    /\ NoGoroutine \in GoroutineRows /\ NoGoroutine.pc = "none"
    /\ NoGoroutine.map = NULL
    /\ ExitedGoroutine \in GoroutineRows /\ ExitedGoroutine.pc = "exited"
    /\ ExitedGoroutine.map = NULL
  BY QuietRow DEF NoGoroutine, ExitedGoroutine

\* A goroutine that has received an event.
LEMMA BusyRow ==
    ASSUME NEW ch \in Channels, NEW m \in Maps \cup {NULL}, NEW e \in Events,
           NEW todo \in SUBSET Clients
    PROVE  /\ GoroutineAt("iterating", ch, m, e, todo) \in GoroutineRows
           /\ GoroutineAt("iterating", ch, m, e, todo).pc = "iterating"
           /\ GoroutineAt("iterating", ch, m, e, todo).channel = ch
           /\ GoroutineAt("iterating", ch, m, e, todo).map = m
           /\ GoroutineAt("iterating", ch, m, e, todo).event = e
  BY DEF GoroutineAt, GoroutineRows

\* The row of one goroutine is replaced.
LEMMA Replaced ==
    ASSUME TypeOK, NEW g \in Goroutines, NEW row \in GoroutineRows,
           gor' = [gor EXCEPT ![g] = row]
    PROVE  /\ gor' \in [Goroutines -> GoroutineRows]
           /\ gor'[g] = row
           /\ \A h \in Goroutines \ {g} : gor'[h] = gor[h]
  BY DEF TypeOK

-----------------------------------------------------------------------------
(* What the steps do.                                                      *)

\* Every round of an SSE handler's loop changes where the handler is; one
\* that sends an event takes it from the buffer.
LEMMA HandleStep ==
    ASSUME TypeOK, NEW c \in Clients, Handle(c)
    PROVE  /\ cl' \in [Clients -> ClientRows]
           /\ Connected(c) /\ Active(c)'
           /\ \A d \in Clients : /\ cl'[d].channel = cl[d].channel
                                 /\ cl'[d].done = cl[d].done
                                 /\ cl'[d].late = cl[d].late
                                 /\ d # c => cl'[d].pc = cl[d].pc
           /\ UNCHANGED <<entry, members, gor, inbox, dropped, publishedOn, closed,
                          panicked>>
           /\ (buf' = buf /\ sent' = sent) \/ SendEvent(c)
  <1>1. \E pc \in {"streaming", "writing", "leaving"} : cl' = [cl EXCEPT ![c].pc = pc]
    BY DEF Handle, Greeted, SendEvent, Heartbeat, Written, WriteFails, RequestOver,
           DoneClosed
  <1>2. cl[c].pc \in {"greeting", "streaming", "writing"}
    BY DEF Handle, Greeted, SendEvent, Heartbeat, Written, WriteFails, RequestOver,
           DoneClosed
  <1>3. /\ UNCHANGED <<entry, members, gor, inbox, dropped, publishedOn, closed,
                       panicked>>
        /\ (buf' = buf /\ sent' = sent) \/ SendEvent(c)
    BY DEF Handle, Greeted, SendEvent, Heartbeat, Written, WriteFails, RequestOver,
           DoneClosed
  <1>. QED
    BY <1>1, <1>2, <1>3, ClientPc DEF Connected, Active

\* An event that is sent was in the buffer.
LEMMA SendStep ==
    ASSUME TypeOK, NEW c \in Clients, SendEvent(c)
    PROVE  /\ buf' \in [Clients -> Seq(Events)]
           /\ \A d \in Clients : Len(buf'[d]) <= EventsCap
           /\ sent' \in [Clients -> SUBSET Events]
           /\ \A d \in Clients : Offered(d)' = Offered(d)
  <1>1. /\ buf[c] \in Seq(Events) /\ buf[c] # <<>>
        /\ buf' = [buf EXCEPT ![c] = Tail(buf[c])]
        /\ sent' = [sent EXCEPT ![c] = sent[c] \cup {Head(buf[c])}]
        /\ dropped' = dropped
    BY DEF SendEvent, TypeOK
  <1>2. /\ Head(buf[c]) \in Events /\ Tail(buf[c]) \in Seq(Events)
        /\ Len(Tail(buf[c])) = Len(buf[c]) - 1 /\ Len(buf[c]) \in Nat
        /\ Range(buf[c]) = {Head(buf[c])} \cup Range(Tail(buf[c]))
    BY <1>1, QueueTail
  <1>3. /\ buf'[c] = Tail(buf[c]) /\ sent'[c] = sent[c] \cup {Head(buf[c])}
        /\ \A d \in Clients \ {c} : buf'[d] = buf[d] /\ sent'[d] = sent[d]
    BY <1>1 DEF TypeOK
  <1>4. Offered(c)' = Offered(c)
    BY <1>1, <1>2, <1>3 DEF Offered
  <1>5. \A d \in Clients \ {c} : Offered(d)' = Offered(d)
    BY <1>1, <1>3 DEF Offered
  <1>. QED
    BY <1>1, <1>2, <1>3, <1>4, <1>5 DEF TypeOK

\* The first client of a channel gets a map object that is free and starts a
\* goroutine, ...
First(c, ch, m, g) ==
    /\ entry[ch] = NULL /\ FreeMap(m) /\ gor[g].pc = "none"
    /\ entry' = [entry EXCEPT ![ch] = m]
    /\ members' = [members EXCEPT ![m] = {c}]
    /\ gor'[g].pc = "starting" /\ gor'[g].channel = ch /\ gor'[g].map = NULL
    /\ \A h \in Goroutines \ {g} : gor'[h] = gor[h]
    /\ gor' \in [Goroutines -> GoroutineRows]

\* ... the others join the map that is there.
Further(c, ch) ==
    /\ entry[ch] \in Maps
    /\ members' = [members EXCEPT ![entry[ch]] = members[entry[ch]] \cup {c}]
    /\ entry' = entry /\ gor' = gor

\* Subscribe is one of the two.
LEMMA SubscribeStep ==
    ASSUME TypeOK, NEW c \in Clients, NEW ch \in Channels, Subscribe(c, ch)
    PROVE  /\ Further(c, ch) \/ \E m \in Maps, g \in Goroutines : First(c, ch, m, g)
           /\ UNCHANGED <<inbox, buf, sent, dropped, publishedOn, closed, panicked>>
  <1>1. UNCHANGED <<inbox, buf, sent, dropped, publishedOn, closed, panicked>>
    BY DEF Subscribe
  <1>2. ASSUME entry[ch] # NULL
        PROVE  Further(c, ch)
    BY <1>2 DEF Subscribe, Further, TypeOK
  <1>3. ASSUME entry[ch] = NULL
        PROVE  \E m \in Maps, g \in Goroutines : First(c, ch, m, g)
    <2>. DEFINE row == GoroutineAt("starting", ch, NULL, NULL, {})
    <2>1. PICK m \in Maps, g \in Goroutines :
             /\ FreeMap(m) /\ gor[g].pc = "none"
             /\ entry' = [entry EXCEPT ![ch] = m]
             /\ members' = [members EXCEPT ![m] = {c}]
             /\ gor' = [gor EXCEPT ![g] = row]
      BY <1>3 DEF Subscribe
    <2>2. /\ row \in GoroutineRows /\ row.pc = "starting" /\ row.channel = ch
          /\ row.map = NULL
      BY QuietRow
    <2>. HIDE DEF row
    <2>3. First(c, ch, m, g)
      BY <1>3, <2>1, <2>2, Replaced DEF First
    <2>. QED
      BY <2>3
  <1>. QED
    BY <1>1, <1>2, <1>3

\* Unsubscribe takes c out of the map of its channel, and the map out of
\* b.clients only if nobody else is in it.
LEMMA UnsubscribeStep ==
    ASSUME TypeOK, Clientele, NEW c \in Clients, Unsubscribe(c)
    PROVE  /\ cl[c].channel \in Channels /\ cl[c].pc = "leaving"
           /\ \A ch \in Channels \ {cl[c].channel} : entry'[ch] = entry[ch]
           /\ \/ entry'[cl[c].channel] = entry[cl[c].channel]
              \/ /\ entry'[cl[c].channel] = NULL
                 /\ entry[cl[c].channel] \in Maps
                 /\ members[entry[cl[c].channel]] \subseteq {c}
           /\ \A m \in Maps : members'[m] = members[m] \/ members'[m] = members[m] \ {c}
           /\ entry' \in [Channels -> Maps \cup {NULL}]
           /\ members' \in [Maps -> SUBSET Clients]
           /\ \/ panicked' = panicked
              \/ panicked' = TRUE /\ cl[c].done = "closed"
           /\ UNCHANGED <<gor, inbox, publishedOn, closed>>
  <1>. DEFINE ch == cl[c].channel
  <1>1. cl[c].pc = "leaving" /\ ch \in Channels
    BY DEF Unsubscribe, Clientele, Active
  <1>2. UNCHANGED <<gor, inbox, publishedOn, closed>>
    BY DEF Unsubscribe
  <1>3. CASE entry[ch] = NULL
    BY <1>1, <1>2, <1>3 DEF Unsubscribe, TypeOK
  <1>4. CASE entry[ch] # NULL
    <2>1. entry[ch] \in Maps
      BY <1>1, <1>4 DEF TypeOK
    <2>2. members' = [members EXCEPT ![entry[ch]] = members[entry[ch]] \ {c}]
      BY <1>4 DEF Unsubscribe
    <2>3. /\ \A m \in Maps : members'[m] = members[m] \/ members'[m] = members[m] \ {c}
          /\ members' \in [Maps -> SUBSET Clients]
      BY <2>1, <2>2 DEF TypeOK
    <2>4. \/ /\ entry' = entry
             /\ panicked' = TRUE /\ cl[c].done = "closed"
          \/ /\ entry' = [entry EXCEPT ![ch] = IF members[entry[ch]] \subseteq {c} THEN NULL
                                               ELSE entry[ch]]
             /\ panicked' = panicked
      BY <1>4 DEF Unsubscribe
    <2>. QED
      BY <1>1, <1>2, <2>1, <2>3, <2>4 DEF TypeOK
  <1>. QED
    BY <1>3, <1>4

\* A connection that ends leaves nothing behind.
LEMMA UnsubscribeClears ==
    ASSUME TypeOK, NEW c \in Clients, Unsubscribe(c)
    PROVE  /\ cl' \in [Clients -> ClientRows]
           /\ cl'[c].pc = "gone" /\ cl'[c].channel = cl[c].channel
           /\ cl'[c].late = cl[c].late
           /\ \A d \in Clients \ {c} : cl'[d] = cl[d]
           /\ \A d \in Clients : Offered(d)' \subseteq Offered(d)
           /\ buf' \in [Clients -> Seq(Events)]
           /\ \A d \in Clients : Len(buf'[d]) <= EventsCap
           /\ sent' \in [Clients -> SUBSET Events]
           /\ dropped' \in [Clients -> SUBSET Events]
  <1>1. /\ cl' = [cl EXCEPT ![c] = GoneClient(c)]
        /\ buf' = [buf EXCEPT ![c] = <<>>]
        /\ sent' = [sent EXCEPT ![c] = {}]
        /\ dropped' = [dropped EXCEPT ![c] = {}]
    BY DEF Unsubscribe
  <1>2. /\ buf'[c] = <<>> /\ sent'[c] = {} /\ dropped'[c] = {}
        /\ \A d \in Clients \ {c} : /\ buf'[d] = buf[d] /\ sent'[d] = sent[d]
                                    /\ dropped'[d] = dropped[d]
    BY <1>1 DEF TypeOK
  <1>3. Offered(c)' = {}
    BY <1>2, QueueEmpty DEF Offered
  <1>4. \A d \in Clients \ {c} : Offered(d)' = Offered(d)
    BY <1>2 DEF Offered
  <1>5. <<>> \in Seq(Events) /\ Len(<<>>) = 0
    BY QueueEmpty
  <1>6. /\ buf' \in [Clients -> Seq(Events)]
        /\ sent' \in [Clients -> SUBSET Events]
        /\ dropped' \in [Clients -> SUBSET Events]
    BY <1>1, <1>5 DEF TypeOK
  <1>7. \A d \in Clients : Len(buf'[d]) <= EventsCap
    BY <1>2, <1>5 DEF TypeOK
  <1>8. /\ cl' \in [Clients -> ClientRows]
        /\ cl'[c].pc = "gone" /\ cl'[c].channel = cl[c].channel
        /\ cl'[c].late = cl[c].late
        /\ \A d \in Clients \ {c} : cl'[d] = cl[d]
    BY <1>1, Going
  <1>. QED
    BY <1>3, <1>4, <1>6, <1>7, <1>8

\* A goroutine keeps its channel until it returns.  Only a broadcast that
\* begins refers to a map, the one of its channel in b.clients.
GoroutineEffect(g) ==
    /\ gor' \in [Goroutines -> GoroutineRows]
    /\ \A h \in Goroutines \ {g} : gor'[h] = gor[h]
    /\ gor[g].pc \in Running
    /\ \/ /\ gor'[g].pc = "exited" /\ gor'[g].map = NULL
          /\ closed
       \/ /\ gor'[g].pc \in Running
          /\ gor'[g].channel = gor[g].channel
          /\ gor'[g].map \in {gor[g].map, NULL, entry[gor[g].channel]}
    /\ UNCHANGED <<entry, members, cl, sent, publishedOn, closed, panicked>>

\* RedisSubscribed.
LEMMA RedisSubscribedStep ==
    ASSUME TypeOK, NEW g \in Goroutines, RedisSubscribed(g)
    PROVE  /\ GoroutineEffect(g)
           /\ gor'[g].pc = "listening" /\ gor'[g].map = gor[g].map
  <1>. DEFINE row == [gor[g] EXCEPT !.pc = "listening"]
  <1>1. gor' = [gor EXCEPT ![g] = row]
    BY DEF RedisSubscribed
  <1>2. /\ row \in GoroutineRows /\ row.pc = "listening"
        /\ row.channel = gor[g].channel /\ row.map = gor[g].map
    <2>1. gor[g] \in GoroutineRows
      BY DEF TypeOK
    <2>. QED
      BY ONLY <2>1 DEF GoroutineRows
  <1>. HIDE DEF row
  <1>3. /\ gor[g].pc = "starting"
        /\ UNCHANGED <<entry, members, cl, sent, publishedOn, closed, panicked>>
    BY DEF RedisSubscribed
  <1>. QED
    BY <1>1, <1>2, <1>3, Replaced DEF GoroutineEffect, Running

\* Receive takes the head of the inbox.
LEMMA ReceiveStep ==
    ASSUME TypeOK, NEW g \in Goroutines, Carries(g), Receive(g)
    PROVE  /\ GoroutineEffect(g)
           /\ gor'[g].pc = "iterating" /\ gor'[g].event = Head(inbox[g])
           /\ Head(inbox[g]) \in Events
           /\ Range(inbox[g]) = {Head(inbox[g])} \cup Range(inbox'[g])
           /\ \A h \in Goroutines \ {g} : inbox'[h] = inbox[h]
           /\ inbox' \in [Goroutines -> Seq(Events)]
           /\ \A h \in Goroutines : Len(inbox'[h]) <= InboxCap
           /\ UNCHANGED <<buf, dropped>>
  <1>. DEFINE ch == gor[g].channel
              todo == IF entry[ch] = NULL THEN {} ELSE members[entry[ch]]
              row == GoroutineAt("iterating", ch, entry[ch], Head(inbox[g]), todo)
  <1>1. /\ gor[g].pc = "listening" /\ inbox[g] # <<>>
        /\ inbox' = [inbox EXCEPT ![g] = Tail(inbox[g])]
        /\ gor' = [gor EXCEPT ![g] = row]
        /\ UNCHANGED <<entry, members, cl, sent, publishedOn, closed, panicked>>
        /\ UNCHANGED <<buf, dropped>>
    BY DEF Receive
  <1>2. ch \in Channels
    BY <1>1 DEF Carries, Running
  <1>3. entry[ch] \in Maps \cup {NULL} /\ todo \in SUBSET Clients
    BY <1>2 DEF TypeOK
  <1>4. /\ Head(inbox[g]) \in Events /\ Tail(inbox[g]) \in Seq(Events)
        /\ Len(Tail(inbox[g])) = Len(inbox[g]) - 1 /\ Len(inbox[g]) \in Nat
        /\ Range(inbox[g]) = {Head(inbox[g])} \cup Range(Tail(inbox[g]))
    BY <1>1, QueueTail DEF TypeOK
  <1>. HIDE DEF todo
  <1>5. /\ row \in GoroutineRows /\ row.pc = "iterating" /\ row.channel = ch
        /\ row.map = entry[ch] /\ row.event = Head(inbox[g])
    BY <1>2, <1>3, <1>4, BusyRow
  <1>. HIDE DEF row
  <1>6. /\ gor' \in [Goroutines -> GoroutineRows] /\ gor'[g] = row
        /\ \A h \in Goroutines \ {g} : gor'[h] = gor[h]
    BY <1>1, <1>5, Replaced
  <1>7. GoroutineEffect(g)
    BY <1>1, <1>5, <1>6 DEF GoroutineEffect, Running
  <1>8. /\ inbox'[g] = Tail(inbox[g])
        /\ \A h \in Goroutines \ {g} : inbox'[h] = inbox[h]
        /\ inbox' \in [Goroutines -> Seq(Events)]
    BY <1>1, <1>4 DEF TypeOK
  <1>9. \A h \in Goroutines : Len(inbox'[h]) <= InboxCap
    <2>1. Len(Tail(inbox[g])) <= InboxCap
      BY <1>4 DEF TypeOK
    <2>. QED
      BY <1>8, <2>1 DEF TypeOK
  <1>. QED
    BY <1>1, <1>4, <1>5, <1>6, <1>7, <1>8, <1>9

\* Offer hands the event to one client of the map, or drops it.
LEMMA OfferStep ==
    ASSUME TypeOK, NEW g \in Goroutines, Carries(g), NEW c \in Clients, Offer(g, c)
    PROVE  /\ GoroutineEffect(g)
           /\ gor[g].pc = "iterating" /\ gor'[g].pc = "iterating"
           /\ gor'[g].event = gor[g].event /\ gor'[g].map = gor[g].map
           /\ gor[g].map \in Maps /\ c \in members[gor[g].map]
           /\ Offered(c)' = Offered(c) \cup {gor[g].event}
           /\ \A d \in Clients \ {c} : Offered(d)' = Offered(d)
           /\ buf' \in [Clients -> Seq(Events)]
           /\ \A d \in Clients : Len(buf'[d]) <= EventsCap
           /\ dropped' \in [Clients -> SUBSET Events]
           /\ UNCHANGED inbox
  <1>. DEFINE row == [gor[g] EXCEPT !.visited = gor[g].visited \cup {c}]
              e == gor[g].event
  <1>1. /\ gor[g].pc = "iterating" /\ c \in Reachable(g)
        /\ gor' = [gor EXCEPT ![g] = row]
        /\ UNCHANGED <<entry, members, inbox, cl, sent, publishedOn, closed, panicked>>
    BY DEF Offer
  <1>2. /\ row \in GoroutineRows /\ row.pc = gor[g].pc /\ row.event = gor[g].event
        /\ row.channel = gor[g].channel /\ row.map = gor[g].map
    <2>1. gor[g] \in GoroutineRows
      BY DEF TypeOK
    <2>. QED
      BY ONLY <2>1, c \in Clients DEF GoroutineRows
  <1>. HIDE DEF row
  <1>3. /\ gor' \in [Goroutines -> GoroutineRows] /\ gor'[g] = row
        /\ \A h \in Goroutines \ {g} : gor'[h] = gor[h]
    BY <1>1, <1>2, Replaced
  <1>4. GoroutineEffect(g)
    BY <1>1, <1>2, <1>3 DEF GoroutineEffect, Running
  <1>5. gor[g].map \in Maps /\ c \in members[gor[g].map]
    <2>1. gor[g].map \in Maps \cup {NULL}
      BY DEF TypeOK, GoroutineRows
    <2>. QED
      BY <1>1, <2>1 DEF Reachable
  <1>6. e \in Events
    BY <1>1 DEF Carries
  <1>. HIDE DEF e
  <1>7. /\ Append(buf[c], e) \in Seq(Events)
        /\ Len(Append(buf[c], e)) = Len(buf[c]) + 1 /\ Len(buf[c]) \in Nat
        /\ Range(Append(buf[c], e)) = Range(buf[c]) \cup {e}
    BY <1>6, QueueAppend DEF TypeOK
  <1>8. CASE Len(buf[c]) < EventsCap /\ buf' = [buf EXCEPT ![c] = Append(buf[c], e)]
             /\ dropped' = dropped
    <2>1. buf'[c] = Append(buf[c], e) /\ \A d \in Clients \ {c} : buf'[d] = buf[d]
      BY <1>8 DEF TypeOK
    <2>2. Offered(c)' = Offered(c) \cup {e}
      BY <1>1, <1>7, <1>8, <2>1 DEF Offered
    <2>3. \A d \in Clients \ {c} : Offered(d)' = Offered(d)
      BY <1>1, <1>8, <2>1 DEF Offered
    <2>4. /\ buf' \in [Clients -> Seq(Events)]
          /\ \A d \in Clients : Len(buf'[d]) <= EventsCap
      BY <1>7, <1>8, <2>1 DEF TypeOK
    <2>. QED
      BY <1>1, <1>2, <1>3, <1>4, <1>5, <1>8, <2>2, <2>3, <2>4 DEF e, TypeOK
  <1>9. CASE dropped' = [dropped EXCEPT ![c] = dropped[c] \cup {e}] /\ buf' = buf
    <2>1. /\ dropped'[c] = dropped[c] \cup {e}
          /\ \A d \in Clients \ {c} : dropped'[d] = dropped[d]
          /\ dropped' \in [Clients -> SUBSET Events]
      BY <1>6, <1>9 DEF TypeOK
    <2>2. Offered(c)' = Offered(c) \cup {e}
      BY <1>1, <1>9, <2>1 DEF Offered
    <2>3. \A d \in Clients \ {c} : Offered(d)' = Offered(d)
      BY <1>1, <1>9, <2>1 DEF Offered
    <2>. QED
      BY <1>1, <1>2, <1>3, <1>4, <1>5, <1>9, <2>1, <2>2, <2>3 DEF e, TypeOK
  <1>. QED
    BY <1>8, <1>9 DEF Offer, e

\* EndBroadcast lets go of the map.
LEMMA EndBroadcastStep ==
    ASSUME TypeOK, NEW g \in Goroutines, EndBroadcast(g)
    PROVE  /\ GoroutineEffect(g)
           /\ gor'[g].pc = "listening" /\ gor'[g].map = NULL
           /\ UNCHANGED <<inbox, buf, dropped>>
  <1>. DEFINE row == GoroutineAt("listening", gor[g].channel, NULL, NULL, {})
  <1>1. /\ gor[g].pc = "iterating" /\ gor' = [gor EXCEPT ![g] = row]
        /\ UNCHANGED <<entry, members, cl, sent, publishedOn, closed, panicked>>
        /\ UNCHANGED <<inbox, buf, dropped>>
    BY DEF EndBroadcast
  <1>2. gor[g].channel \in Channels \cup {NULL}
    BY DEF TypeOK, GoroutineRows
  <1>3. /\ row \in GoroutineRows /\ row.pc = "listening"
        /\ row.channel = gor[g].channel /\ row.map = NULL
    BY <1>2, QuietRow
  <1>. HIDE DEF row
  <1>4. /\ gor' \in [Goroutines -> GoroutineRows] /\ gor'[g] = row
        /\ \A h \in Goroutines \ {g} : gor'[h] = gor[h]
    BY <1>1, <1>3, Replaced
  <1>. QED
    BY <1>1, <1>3, <1>4 DEF GoroutineEffect, Running

\* Exit, after Close only.
LEMMA ExitStep ==
    ASSUME TypeOK, NEW g \in Goroutines, Exit(g)
    PROVE  /\ GoroutineEffect(g)
           /\ gor'[g].pc = "exited" /\ gor'[g].map = NULL
           /\ inbox' \in [Goroutines -> Seq(Events)]
           /\ inbox'[g] = <<>>
           /\ \A h \in Goroutines \ {g} : inbox'[h] = inbox[h]
           /\ UNCHANGED <<buf, dropped>>
  <1>1. /\ gor[g].pc \in Running /\ closed /\ gor' = [gor EXCEPT ![g] = ExitedGoroutine]
        /\ inbox' = [inbox EXCEPT ![g] = <<>>]
        /\ UNCHANGED <<entry, members, cl, sent, publishedOn, closed, panicked>>
        /\ UNCHANGED <<buf, dropped>>
    BY DEF Exit, Running
  <1>2. /\ gor' \in [Goroutines -> GoroutineRows] /\ gor'[g] = ExitedGoroutine
        /\ \A h \in Goroutines \ {g} : gor'[h] = gor[h]
    BY <1>1, IdleRows, Replaced
  <1>3. GoroutineEffect(g) /\ gor'[g].pc = "exited" /\ gor'[g].map = NULL
    BY <1>1, <1>2, IdleRows DEF GoroutineEffect
  <1>. QED
    BY <1>1, <1>3, QueueEmpty DEF TypeOK

\* Every step of a goroutine is of this kind.
LEMMA GoroutineStep ==
    ASSUME TypeOK, NEW g \in Goroutines, Carries(g), Goroutine(g)
    PROVE  GoroutineEffect(g)
  BY RedisSubscribedStep, ReceiveStep, OfferStep, EndBroadcastStep, ExitStep
     DEF Goroutine

\* Publish adds the event to the inbox of subscriptions that are up.
LEMMA PublishStep ==
    ASSUME TypeOK, NEW e \in Events, NEW ch \in Channels, Publish(e, ch)
    PROVE  /\ publishedOn[e] = NULL /\ publishedOn'[e] = ch
           /\ \A f \in Events \ {e} : publishedOn'[f] = publishedOn[f]
           /\ publishedOn' \in [Events -> Channels \cup {NULL}]
           /\ inbox' \in [Goroutines -> Seq(Events)]
           /\ \A g \in Goroutines :
                 /\ Len(inbox'[g]) <= InboxCap
                 /\ \/ inbox'[g] = inbox[g]
                    \/ /\ Range(inbox'[g]) = Range(inbox[g]) \cup {e}
                       /\ gor[g].channel = ch /\ gor[g].pc \in {"listening", "iterating"}
           /\ UNCHANGED <<entry, members, gor, cl, buf, sent, dropped, closed, panicked>>
  <1>1. /\ publishedOn[e] = NULL
        /\ publishedOn' = [publishedOn EXCEPT ![e] = ch]
        /\ UNCHANGED <<entry, members, gor, cl, buf, sent, dropped, closed, panicked>>
    BY DEF Publish
  <1>2. PICK reached \in SUBSET Listening(ch) :
           inbox' = [g \in Goroutines |-> IF g \in reached THEN Append(inbox[g], e)
                                                           ELSE inbox[g]]
    BY DEF Publish
  <1>3. ASSUME NEW g \in Goroutines
        PROVE  /\ inbox'[g] \in Seq(Events) /\ Len(inbox'[g]) <= InboxCap
               /\ \/ inbox'[g] = inbox[g]
                  \/ /\ Range(inbox'[g]) = Range(inbox[g]) \cup {e}
                     /\ gor[g].channel = ch /\ gor[g].pc \in {"listening", "iterating"}
    <2>1. CASE g \notin reached
      BY <1>2, <2>1 DEF TypeOK
    <2>2. CASE g \in reached
      <3>1. /\ inbox[g] \in Seq(Events) /\ Len(inbox[g]) < InboxCap
            /\ gor[g].channel = ch /\ gor[g].pc \in {"listening", "iterating"}
        BY <2>2 DEF Listening, TypeOK
      <3>2. inbox'[g] = Append(inbox[g], e)
        BY <1>2, <2>2
      <3>3. /\ Append(inbox[g], e) \in Seq(Events)
            /\ Len(Append(inbox[g], e)) = Len(inbox[g]) + 1 /\ Len(inbox[g]) \in Nat
            /\ Range(Append(inbox[g], e)) = Range(inbox[g]) \cup {e}
        BY <3>1, QueueAppend
      <3>. QED
        BY <3>1, <3>2, <3>3
    <2>. QED
      BY <2>1, <2>2
  <1>. QED
    BY <1>1, <1>2, <1>3 DEF TypeOK

\* A process that has ended has no goroutine, no map and no event left.
LEMMA EndingClears ==
    ASSUME TypeOK, ProcessEnds
    PROVE  /\ TypeOK'
           /\ \A ch \in Channels : entry'[ch] = NULL
           /\ \A g \in Goroutines : /\ gor'[g].pc \in {"none", "exited"}
                                    /\ gor'[g].map = NULL /\ inbox'[g] = <<>>
           /\ \A c \in Clients : Offered(c)' = {}
           /\ closed' = FALSE /\ panicked' = FALSE
  <1>1. /\ entry' = [ch \in Channels |-> NULL]
        /\ members' = [m \in Maps |-> {}]
        /\ gor' = [g \in Goroutines |-> IF gor[g].pc = "none" THEN NoGoroutine
                                        ELSE ExitedGoroutine]
        /\ inbox' = [g \in Goroutines |-> <<>>]
        /\ buf' = [c \in Clients |-> <<>>]
        /\ sent' = [c \in Clients |-> {}] /\ dropped' = [c \in Clients |-> {}]
        /\ closed' = FALSE /\ panicked' = FALSE /\ publishedOn' = publishedOn
    BY DEF ProcessEnds
  <1>2. /\ gor' \in [Goroutines -> GoroutineRows]
        /\ \A g \in Goroutines : /\ gor'[g].pc \in {"none", "exited"}
                                 /\ gor'[g].map = NULL
    BY <1>1, IdleRows
  <1>3. <<>> \in Seq(Events) /\ Len(<<>>) = 0 /\ Range(<<>>) = {}
    BY QueueEmpty
  <1>4. /\ inbox' \in [Goroutines -> Seq(Events)] /\ buf' \in [Clients -> Seq(Events)]
        /\ \A g \in Goroutines : inbox'[g] = <<>> /\ Len(inbox'[g]) <= InboxCap
        /\ \A c \in Clients : buf'[c] = <<>> /\ Len(buf'[c]) <= EventsCap
    BY <1>1, <1>3
  <1>5. \A c \in Clients : Offered(c)' = {}
    BY <1>1, <1>3, <1>4 DEF Offered
  <1>6. cl' \in [Clients -> ClientRows]
    BY Ending
  <1>7. /\ entry' \in [Channels -> Maps \cup {NULL}]
        /\ members' \in [Maps -> SUBSET Clients]
        /\ sent' \in [Clients -> SUBSET Events]
        /\ dropped' \in [Clients -> SUBSET Events]
        /\ \A ch \in Channels : entry'[ch] = NULL
    BY <1>1
  <1>. QED
    BY <1>1, <1>2, <1>4, <1>5, <1>6, <1>7 DEF TypeOK

\* The kinds of steps.
LEMMA Moves ==
    ASSUME [BrokerMove]_vars
    PROVE  \/ \E c \in Clients, ch \in Channels : Subscribe(c, ch)
           \/ \E c \in Clients : Handle(c)
           \/ \E c \in Clients : Unsubscribe(c)
           \/ \E c \in Clients : Leave(c)
           \/ \E g \in Goroutines : Goroutine(g)
           \/ \E e \in Events, ch \in Channels : Publish(e, ch)
           \/ Close
           \/ ProcessEnds
           \/ UNCHANGED vars
  BY DEF BrokerMove, Next, Client, Fatal

-----------------------------------------------------------------------------
(* Types.                                                                  *)

\* An empty broker.
LEMMA TypeInit == Init => TypeOK
  <1> SUFFICES ASSUME Init PROVE TypeOK
    OBVIOUS
  <1>1. NewClient \in ClientRows
    BY DEF NewClient, ClientRows
  <1>2. <<>> \in Seq(Events) /\ Len(<<>>) = 0
    BY QueueEmpty
  <1>3. NoGoroutine \in GoroutineRows
    BY IdleRows
  <1>4. /\ inbox \in [Goroutines -> Seq(Events)] /\ buf \in [Clients -> Seq(Events)]
        /\ \A g \in Goroutines : Len(inbox[g]) <= InboxCap
        /\ \A c \in Clients : Len(buf[c]) <= EventsCap
    BY <1>2 DEF Init
  <1>5. /\ cl \in [Clients -> ClientRows] /\ gor \in [Goroutines -> GoroutineRows]
    BY <1>1, <1>3 DEF Init
  <1>. QED
    BY <1>4, <1>5 DEF Init, TypeOK

\* Every step keeps the types.
LEMMA TypeStep ==
    ASSUME TypeOK, Clientele, \A g \in Goroutines : Carries(g), [BrokerMove]_vars
    PROVE  TypeOK'
  <1>1. ASSUME NEW c \in Clients, NEW ch \in Channels, Subscribe(c, ch)
        PROVE  TypeOK'
    <2>1. /\ cl' \in [Clients -> ClientRows]
          /\ UNCHANGED <<inbox, buf, sent, dropped, publishedOn, closed, panicked>>
      BY <1>1, Coming, SubscribeStep
    <2>2. CASE Further(c, ch)
      BY <2>1, <2>2 DEF Further, TypeOK
    <2>3. CASE \E m \in Maps, g \in Goroutines : First(c, ch, m, g)
      BY <2>1, <2>3 DEF First, TypeOK
    <2>. QED
      BY <1>1, <2>2, <2>3, SubscribeStep
  <1>2. ASSUME NEW c \in Clients, Handle(c)
        PROVE  TypeOK'
    <2>1. /\ cl' \in [Clients -> ClientRows]
          /\ UNCHANGED <<entry, members, gor, inbox, dropped, publishedOn, closed,
                         panicked>>
          /\ (buf' = buf /\ sent' = sent) \/ SendEvent(c)
      BY <1>2, HandleStep
    <2>2. CASE buf' = buf /\ sent' = sent
      BY <2>1, <2>2 DEF TypeOK
    <2>3. CASE SendEvent(c)
      BY <2>1, <2>3, SendStep DEF TypeOK
    <2>. QED
      BY <2>1, <2>2, <2>3
  <1>3. ASSUME NEW c \in Clients, Unsubscribe(c)
        PROVE  TypeOK'
    <2>1. /\ entry' \in [Channels -> Maps \cup {NULL}]
          /\ members' \in [Maps -> SUBSET Clients]
          /\ panicked' \in BOOLEAN
          /\ UNCHANGED <<gor, inbox, publishedOn, closed>>
      BY <1>3, UnsubscribeStep DEF TypeOK
    <2>. QED
      BY <1>3, <2>1, UnsubscribeClears DEF TypeOK
  <1>4. ASSUME NEW c \in Clients, Leave(c)
        PROVE  TypeOK'
    BY <1>4, Going DEF TypeOK, Leave
  <1>5. ASSUME NEW g \in Goroutines, Goroutine(g)
        PROVE  TypeOK'
    <2>1. /\ gor' \in [Goroutines -> GoroutineRows]
          /\ UNCHANGED <<entry, members, cl, sent, publishedOn, closed, panicked>>
      BY <1>5, GoroutineStep DEF GoroutineEffect
    <2>2. /\ inbox' \in [Goroutines -> Seq(Events)]
          /\ \A h \in Goroutines : Len(inbox'[h]) <= InboxCap
      <3>1. CASE Receive(g)
        BY <3>1, ReceiveStep
      <3>2. CASE Exit(g)
        <4>1. /\ inbox' \in [Goroutines -> Seq(Events)] /\ inbox'[g] = <<>>
              /\ \A h \in Goroutines \ {g} : inbox'[h] = inbox[h]
          BY <3>2, ExitStep
        <4>2. Len(inbox'[g]) <= InboxCap
          BY <4>1, QueueEmpty
        <4>. QED
          BY <4>1, <4>2 DEF TypeOK
      <3>. QED
        BY <1>5, <3>1, <3>2 DEF Goroutine, RedisSubscribed, Offer, EndBroadcast, TypeOK
    <2>3. /\ buf' \in [Clients -> Seq(Events)]
          /\ \A c \in Clients : Len(buf'[c]) <= EventsCap
          /\ dropped' \in [Clients -> SUBSET Events]
      <3>1. ASSUME NEW c \in Clients, Offer(g, c)
            PROVE  /\ buf' \in [Clients -> Seq(Events)]
                   /\ \A d \in Clients : Len(buf'[d]) <= EventsCap
                   /\ dropped' \in [Clients -> SUBSET Events]
        BY <3>1, OfferStep
      <3>. QED
        BY <1>5, <3>1 DEF Goroutine, RedisSubscribed, Receive, EndBroadcast, Exit, TypeOK
    <2>. QED
      BY <2>1, <2>2, <2>3 DEF TypeOK
  <1>6. ASSUME NEW e \in Events, NEW ch \in Channels, Publish(e, ch)
        PROVE  TypeOK'
    BY <1>6, PublishStep DEF TypeOK
  <1>7. ASSUME Close
        PROVE  TypeOK'
    BY <1>7, DoneRow DEF TypeOK, Close
  <1>8. ASSUME UNCHANGED vars
        PROVE  TypeOK'
    BY <1>8 DEF TypeOK, vars
  <1>. QED
    BY <1>1, <1>2, <1>3, <1>4, <1>5, <1>6, <1>7, <1>8, Moves, EndingClears

-----------------------------------------------------------------------------
(* Map objects.                                                            *)

\* Every step but Subscribe keeps clients' channels, adds nobody to a map,
\* and refers to no map object that was not referred to for that channel.
LEMMA Shrinks ==
    ASSUME TypeOK, Clientele, \A g \in Goroutines : Carries(g), [BrokerMove]_vars,
           ~ \E c \in Clients, ch \in Channels : Subscribe(c, ch)
    PROVE  /\ \A c \in Clients : cl'[c].channel = cl[c].channel
           /\ \A m \in Maps, ch \in Channels :
                 Refers(m, ch)' => Refers(m, ch) /\ members'[m] \subseteq members[m]
  <1>. DEFINE Claim == /\ \A c \in Clients : cl'[c].channel = cl[c].channel
                       /\ \A m \in Maps, ch \in Channels :
                             Refers(m, ch)' =>
                                 Refers(m, ch) /\ members'[m] \subseteq members[m]
  <1>1. ASSUME NEW c \in Clients, Handle(c)
        PROVE  Claim
    BY <1>1, HandleStep DEF Refers
  <1>2. ASSUME NEW c \in Clients, Unsubscribe(c)
        PROVE  Claim
    <2>1. \A d \in Clients : cl'[d].channel = cl[d].channel
      BY <1>2, UnsubscribeClears
    <2>2. /\ cl[c].channel \in Channels /\ gor' = gor
          /\ \A ch \in Channels \ {cl[c].channel} : entry'[ch] = entry[ch]
          /\ entry'[cl[c].channel] = entry[cl[c].channel] \/ entry'[cl[c].channel] = NULL
          /\ \A m \in Maps : members'[m] = members[m] \/ members'[m] = members[m] \ {c}
      BY <1>2, UnsubscribeStep
    <2>3. \A ch \in Channels : entry'[ch] = entry[ch] \/ entry'[ch] = NULL
      BY <2>2
    <2>4. \A m \in Maps : members'[m] \subseteq members[m]
      BY <2>2
    <2>. QED
      BY <2>1, <2>2, <2>3, <2>4 DEF Refers
  <1>3. ASSUME NEW c \in Clients, Leave(c)
        PROVE  Claim
    <2>1. \A d \in Clients : cl'[d].channel = cl[d].channel
      BY <1>3, Going DEF Leave
    <2>. QED
      BY <1>3, <2>1 DEF Refers, Leave
  <1>4. ASSUME NEW g \in Goroutines, Goroutine(g)
        PROVE  Claim
    <2>1. /\ \A h \in Goroutines \ {g} : gor'[h] = gor[h]
          /\ UNCHANGED <<entry, members, cl>>
          /\ \/ gor'[g].map = NULL
             \/ /\ gor'[g].channel = gor[g].channel
                /\ gor'[g].map \in {gor[g].map, NULL, entry[gor[g].channel]}
      BY <1>4, GoroutineStep DEF GoroutineEffect
    <2>. QED
      BY <2>1 DEF Refers
  <1>5. ASSUME NEW e \in Events, NEW ch \in Channels, Publish(e, ch)
        PROVE  Claim
    BY <1>5 DEF Publish, Refers
  <1>6. ASSUME Close
        PROVE  Claim
    <2>1. \A c \in Clients : cl'[c].channel = cl[c].channel
      BY <1>6, DoneRow
    <2>2. (\A ch \in Channels : entry'[ch] = NULL) /\ gor' = gor /\ members' = members
      BY <1>6 DEF Close
    <2>. QED
      BY <2>1, <2>2 DEF Refers
  <1>7. ASSUME ProcessEnds
        PROVE  Claim
    BY <1>7, Ending, EndingClears DEF Refers
  <1>8. ASSUME UNCHANGED vars
        PROVE  Claim
    BY <1>8 DEF vars, Refers
  <1>. QED
    BY <1>1, <1>2, <1>3, <1>4, <1>5, <1>6, <1>7, <1>8, Moves

\* A client that has not subscribed is in no map anything refers to.
LEMMA Stranger ==
    ASSUME Kin, Clientele, NEW c \in Clients, cl[c].pc = "new",
           NEW m \in Maps, NEW ch \in Channels, Refers(m, ch)
    PROVE  c \notin members[m]
  BY DEF Kin, Clientele

\* A map object that is allocated was free, so that no broadcast over it is
\* under way.
LEMMA Fresh ==
    ASSUME NEW m \in Maps, FreeMap(m), NEW ch \in Channels
    PROVE  ~ Refers(m, ch)
  BY DEF FreeMap, Refers

\* What Subscribe of the first client refers to.
LEMMA FirstRefers ==
    ASSUME TypeOK, NEW c \in Clients, NEW ch \in Channels, NEW m \in Maps,
           NEW g \in Goroutines, First(c, ch, m, g),
           NEW n \in Maps, NEW dh \in Channels, Refers(n, dh)'
    PROVE  Refers(n, dh) \/ (n = m /\ dh = ch)
  <1>1. /\ entry'[ch] = m /\ \A bh \in Channels \ {ch} : entry'[bh] = entry[bh]
        /\ gor'[g].map = NULL /\ \A h \in Goroutines \ {g} : gor'[h] = gor[h]
    BY DEF First, TypeOK
  <1>. QED
    BY <1>1 DEF Refers

\* Map objects stay with their channels.
LEMMA OneHomeStep ==
    ASSUME TypeOK, OneHome, Clientele, \A g \in Goroutines : Carries(g),
           [BrokerMove]_vars
    PROVE  OneHome'
  <1>1. ASSUME NEW c \in Clients, NEW ch \in Channels, Subscribe(c, ch)
        PROVE  OneHome'
    <2>1. CASE Further(c, ch)
      <3>1. \A n \in Maps, dh \in Channels : Refers(n, dh)' <=> Refers(n, dh)
        BY <2>1 DEF Further, Refers
      <3>. QED
        BY <3>1 DEF OneHome
    <2>2. ASSUME NEW m \in Maps, NEW g \in Goroutines, First(c, ch, m, g)
          PROVE  OneHome'
      <3>1. \A bh \in Channels : ~ Refers(m, bh)
        BY <2>2, Fresh DEF First
      <3>2. \A n \in Maps, dh \in Channels :
               Refers(n, dh)' => Refers(n, dh) \/ (n = m /\ dh = ch)
        BY <2>2, FirstRefers
      <3>. QED
        BY <3>1, <3>2 DEF OneHome
    <2>. QED
      BY <1>1, <2>1, <2>2, SubscribeStep
  <1>2. ASSUME ~ \E c \in Clients, ch \in Channels : Subscribe(c, ch)
        PROVE  OneHome'
    BY <1>2, Shrinks DEF OneHome
  <1>. QED
    BY <1>1, <1>2

\* ... and hold clients of that channel.
LEMMA KinStep ==
    ASSUME TypeOK, OneHome, Kin, Clientele, \A g \in Goroutines : Carries(g),
           [BrokerMove]_vars
    PROVE  Kin'
  <1>1. ASSUME NEW c \in Clients, NEW ch \in Channels, Subscribe(c, ch)
        PROVE  Kin'
    <2>1. /\ cl[c].pc = "new" /\ cl'[c].channel = ch
          /\ \A d \in Clients \ {c} : cl'[d] = cl[d]
      BY <1>1, Coming
    <2>2. ASSUME NEW n \in Maps, NEW dh \in Channels, Refers(n, dh), NEW d \in members[n]
          PROVE  cl'[d].channel = dh /\ d # c
      <3>1. d \in Clients /\ cl[d].channel = dh /\ d # c
        BY <2>1, <2>2, Stranger DEF Kin, TypeOK
      <3>. QED
        BY <2>1, <3>1
    <2>3. CASE Further(c, ch)
      <3>1. /\ entry[ch] \in Maps /\ Refers(entry[ch], ch)
            /\ members'[entry[ch]] = members[entry[ch]] \cup {c}
            /\ \A n \in Maps \ {entry[ch]} : members'[n] = members[n]
            /\ \A n \in Maps, dh \in Channels : Refers(n, dh)' <=> Refers(n, dh)
        BY <2>3 DEF Further, Refers, TypeOK
      <3>2. ASSUME NEW n \in Maps, NEW dh \in Channels, Refers(n, dh),
                   NEW d \in members'[n]
            PROVE  cl'[d].channel = dh
        <4>1. CASE d \in members[n]
          BY <2>2, <3>2, <4>1
        <4>2. CASE d \notin members[n]
          <5>1. n = entry[ch] /\ d = c
            BY <3>1, <3>2, <4>2
          <5>2. dh = ch
            BY <3>1, <3>2, <5>1 DEF OneHome
          <5>. QED
            BY <2>1, <5>1, <5>2
        <4>. QED
          BY <4>1, <4>2
      <3>. QED
        BY <3>1, <3>2 DEF Kin
    <2>4. ASSUME NEW m \in Maps, NEW g \in Goroutines, First(c, ch, m, g)
          PROVE  Kin'
      <3>1. \A bh \in Channels : ~ Refers(m, bh)
        BY <2>4, Fresh DEF First
      <3>2. /\ members'[m] = {c}
            /\ \A n \in Maps \ {m} : members'[n] = members[n]
        BY <2>4 DEF First, TypeOK
      <3>3. ASSUME NEW n \in Maps, NEW dh \in Channels, Refers(n, dh)',
                   NEW d \in members'[n]
            PROVE  cl'[d].channel = dh
        <4>1. Refers(n, dh) \/ (n = m /\ dh = ch)
          BY <2>4, <3>3, FirstRefers
        <4>2. CASE n = m
          BY <2>1, <3>1, <3>2, <3>3, <4>1, <4>2
        <4>3. CASE n # m
          BY <2>2, <3>2, <3>3, <4>1, <4>3
        <4>. QED
          BY <4>2, <4>3
      <3>. QED
        BY <3>3 DEF Kin
    <2>. QED
      BY <1>1, <2>3, <2>4, SubscribeStep
  <1>2. ASSUME ~ \E c \in Clients, ch \in Channels : Subscribe(c, ch)
        PROVE  Kin'
    <2>1. SUFFICES ASSUME NEW m \in Maps, NEW ch \in Channels, Refers(m, ch)',
                          NEW d \in members'[m]
                   PROVE  cl'[d].channel = ch
      BY DEF Kin
    <2>2. Refers(m, ch) /\ d \in members[m]
      BY <1>2, <2>1, Shrinks
    <2>3. d \in Clients /\ cl[d].channel = ch
      BY <2>2 DEF Kin, TypeOK
    <2>. QED
      BY <1>2, <2>3, Shrinks
  <1>. QED
    BY <1>1, <1>2

-----------------------------------------------------------------------------
(* Clients.                                                                *)

\* Channels, Done and the time of Subscribe agree with where a handler is.
LEMMA ClienteleStep ==
    ASSUME TypeOK, Clientele, \A g \in Goroutines : Carries(g), [BrokerMove]_vars
    PROVE  Clientele'
  <1>. SUFFICES ASSUME NEW d \in Clients
                PROVE  /\ cl'[d].pc = "new" => cl'[d].channel = NULL
                       /\ Active(d)' => cl'[d].channel \in Channels
                       /\ Active(d)' /\ (cl'[d].late \/ cl'[d].done = "closed") => closed'
    BY DEF Clientele
  <1>. DEFINE Claim == /\ cl'[d].pc = "new" => cl'[d].channel = NULL
                       /\ Active(d)' => cl'[d].channel \in Channels
                       /\ Active(d)' /\ (cl'[d].late \/ cl'[d].done = "closed") => closed'
  <1>0. ASSUME cl'[d] = cl[d], closed' = closed
        PROVE  Claim
    BY <1>0 DEF Clientele, Active, Connected
  <1>1. ASSUME NEW c \in Clients, NEW ch \in Channels, Subscribe(c, ch)
        PROVE  Claim
    <2>1. closed' = closed
      BY <1>1 DEF Subscribe
    <2>2. CASE d # c
      <3>1. cl'[d] = cl[d]
        BY <1>1, <2>2, Coming
      <3>. QED
        BY <1>0, <2>1, <3>1
    <2>3. CASE d = c
      <3>1. /\ cl'[d].pc = "greeting" /\ cl'[d].channel = ch
            /\ cl'[d].done = "open" /\ cl'[d].late = closed
        BY <1>1, <2>3, Coming
      <3>. QED
        BY <2>1, <3>1
    <2>. QED
      BY <2>2, <2>3
  <1>2. ASSUME NEW c \in Clients, Handle(c)
        PROVE  Claim
    <2>1. /\ cl'[d].channel = cl[d].channel /\ cl'[d].done = cl[d].done
          /\ cl'[d].late = cl[d].late /\ (d # c => cl'[d].pc = cl[d].pc)
          /\ Connected(c) /\ Active(c)' /\ closed' = closed
      BY <1>2, HandleStep
    <2>2. /\ Active(d)' => Active(d)
          /\ cl'[d].pc = "new" => cl[d].pc = "new"
      BY <2>1 DEF Active, Connected
    <2>. QED
      BY <2>1, <2>2 DEF Clientele
  <1>3. ASSUME NEW c \in Clients, Unsubscribe(c) \/ Leave(c)
        PROVE  Claim
    <2>1. cl' = [cl EXCEPT ![c] = GoneClient(c)] /\ closed' = closed
      BY <1>3 DEF Unsubscribe, Leave
    <2>2. CASE d # c
      BY <1>0, <2>1, <2>2, Going
    <2>3. CASE d = c
      <3>1. cl'[d].pc = "gone"
        BY <2>1, <2>3, Going
      <3>. QED
        BY <3>1 DEF Active, Connected
    <2>. QED
      BY <2>2, <2>3
  <1>4. ASSUME NEW g \in Goroutines, Goroutine(g)
        PROVE  Claim
    BY <1>0, <1>4, GoroutineStep DEF GoroutineEffect
  <1>5. ASSUME NEW e \in Events, NEW ch \in Channels, Publish(e, ch)
        PROVE  Claim
    BY <1>0, <1>5 DEF Publish
  <1>6. ASSUME Close
        PROVE  Claim
    <2>1. /\ cl'[d].pc = cl[d].pc /\ cl'[d].channel = cl[d].channel
          /\ closed' = TRUE
      BY <1>6, DoneRow DEF Close
    <2>. QED
      BY <2>1 DEF Clientele, Active, Connected
  <1>7. ASSUME ProcessEnds
        PROVE  Claim
    <2>1. cl'[d].pc = "gone" \/ (cl'[d] = cl[d] /\ cl[d].pc = "new")
      BY <1>7, Ending
    <2>. QED
      BY <2>1 DEF Clientele, Active, Connected
  <1>8. ASSUME UNCHANGED vars
        PROVE  Claim
    BY <1>0, <1>8 DEF vars
  <1>. QED
    BY <1>1, <1>2, <1>3, <1>4, <1>5, <1>6, <1>7, <1>8, Moves

-----------------------------------------------------------------------------
(* Events.                                                                 *)

\* What a goroutine carries is of its channel.
LEMMA CarriesStep ==
    ASSUME TypeOK, Clientele, \A g \in Goroutines : Carries(g), [BrokerMove]_vars,
           NEW h \in Goroutines
    PROVE  Carries(h)'
  <1>0. ASSUME gor'[h] = gor[h], inbox'[h] = inbox[h], publishedOn' = publishedOn
        PROVE  Carries(h)'
    <2>1. Carries(h)
      OBVIOUS
    <2>. QED
      BY <1>0, <2>1 DEF Carries
  <1>1. ASSUME NEW c \in Clients, NEW ch \in Channels, Subscribe(c, ch)
        PROVE  Carries(h)'
    <2>1. UNCHANGED <<inbox, publishedOn>>
      BY <1>1, SubscribeStep
    <2>2. CASE Further(c, ch)
      BY <1>0, <2>1, <2>2 DEF Further
    <2>3. ASSUME NEW m \in Maps, NEW g \in Goroutines, First(c, ch, m, g)
          PROVE  Carries(h)'
      <3>1. CASE h # g
        BY <1>0, <2>1, <2>3, <3>1 DEF First
      <3>2. CASE h = g
        <4>1. gor[g].pc = "none" /\ Carries(g)
          BY <2>3 DEF First
        <4>2. inbox'[g] = <<>>
          BY <2>1, <4>1 DEF Carries
        <4>3. Range(inbox'[g]) = {}
          BY <4>2, QueueEmpty
        <4>4. gor'[g].pc = "starting" /\ gor'[g].channel = ch /\ gor'[g].map = NULL
          BY <2>3 DEF First
        <4>. QED
          BY <3>2, <4>2, <4>3, <4>4 DEF Carries, Running
      <3>. QED
        BY <3>1, <3>2
    <2>. QED
      BY <1>1, <2>2, <2>3, SubscribeStep
  <1>2. ASSUME NEW c \in Clients, Handle(c)
        PROVE  Carries(h)'
    BY <1>0, <1>2, HandleStep
  <1>3. ASSUME NEW c \in Clients, Unsubscribe(c) \/ Leave(c)
        PROVE  Carries(h)'
    BY <1>0, <1>3 DEF Unsubscribe, Leave
  <1>4. ASSUME NEW g \in Goroutines, Goroutine(g)
        PROVE  Carries(h)'
    <2>. Carries(g)
      OBVIOUS
    <2>1. GoroutineEffect(g)
      BY <1>4, GoroutineStep
    <2>2. publishedOn' = publishedOn
      BY <2>1 DEF GoroutineEffect
    <2>3. CASE h # g
      <3>1. gor'[h] = gor[h]
        BY <2>1, <2>3 DEF GoroutineEffect
      <3>2. CASE Receive(g)
        BY <1>0, <2>2, <2>3, <3>1, <3>2, ReceiveStep
      <3>3. CASE Exit(g)
        BY <1>0, <2>2, <2>3, <3>1, <3>3, ExitStep
      <3>. QED
        BY <1>0, <1>4, <2>2, <3>1, <3>2, <3>3
           DEF Goroutine, RedisSubscribed, Offer, EndBroadcast
    <2>4. CASE h = g
      <3>0. ASSUME gor'[g].pc \in Running
            PROVE  gor'[g].channel = gor[g].channel /\ gor[g].channel \in Channels
        BY <2>1, <3>0 DEF GoroutineEffect, Carries, Running
      <3>1. CASE RedisSubscribed(g)
        <4>1. /\ gor'[g].pc = "listening" /\ gor'[g].map = gor[g].map
              /\ inbox' = inbox /\ gor[g].pc = "starting"
          BY <3>1, RedisSubscribedStep DEF RedisSubscribed
        <4>. QED
          BY <2>2, <2>4, <3>0, <4>1 DEF Carries, Running
      <3>2. CASE Receive(g)
        <4>1. /\ gor'[g].pc = "iterating" /\ gor'[g].event = Head(inbox[g])
              /\ Head(inbox[g]) \in Events
              /\ Range(inbox[g]) = {Head(inbox[g])} \cup Range(inbox'[g])
          BY <3>2, ReceiveStep
        <4>. QED
          BY <2>2, <2>4, <3>0, <4>1 DEF Carries, Running
      <3>3. ASSUME NEW c \in Clients, Offer(g, c)
            PROVE  Carries(g)'
        <4>1. /\ gor[g].pc = "iterating" /\ gor'[g].pc = "iterating"
              /\ gor'[g].event = gor[g].event /\ inbox' = inbox
          BY <3>3, OfferStep
        <4>. QED
          BY <2>2, <3>0, <4>1 DEF Carries, Running
      <3>4. CASE EndBroadcast(g)
        <4>1. /\ gor'[g].pc = "listening" /\ gor'[g].map = NULL /\ inbox' = inbox
          BY <3>4, EndBroadcastStep
        <4>. QED
          BY <2>2, <2>4, <3>0, <4>1 DEF Carries, Running
      <3>5. CASE Exit(g)
        <4>1. gor'[g].pc = "exited" /\ gor'[g].map = NULL /\ inbox'[g] = <<>>
          BY <3>5, ExitStep
        <4>2. Range(inbox'[g]) = {}
          BY <4>1, QueueEmpty
        <4>. QED
          BY <2>4, <4>1, <4>2 DEF Carries, Running
      <3>. QED
        BY <1>4, <2>4, <3>1, <3>2, <3>3, <3>4, <3>5 DEF Goroutine
    <2>. QED
      BY <2>3, <2>4
  <1>5. ASSUME NEW e \in Events, NEW ch \in Channels, Publish(e, ch)
        PROVE  Carries(h)'
    <2>1. /\ publishedOn[e] = NULL /\ publishedOn'[e] = ch /\ gor' = gor
          /\ \A f \in Events \ {e} : publishedOn'[f] = publishedOn[f]
          /\ \/ inbox'[h] = inbox[h]
             \/ /\ Range(inbox'[h]) = Range(inbox[h]) \cup {e}
                /\ gor[h].channel = ch /\ gor[h].pc \in {"listening", "iterating"}
      BY <1>5, PublishStep
    <2>2. Carries(h) /\ Range(inbox[h]) \subseteq Events
      BY QueueType DEF TypeOK
    <2>3. ASSUME gor[h].channel \in Channels, NEW f \in Events,
                 publishedOn[f] = gor[h].channel
          PROVE  publishedOn'[f] = gor[h].channel
      BY <2>1, <2>3
    <2>4. gor[h].pc \notin {"listening", "iterating"} => inbox'[h] = <<>>
      BY <2>1, <2>2 DEF Carries
    <2>5. \A f \in Range(inbox'[h]) : publishedOn'[f] = gor[h].channel
      <3>1. CASE gor[h].pc \in {"listening", "iterating"}
        BY <2>1, <2>2, <2>3, <3>1 DEF Carries, Running
      <3>2. CASE gor[h].pc \notin {"listening", "iterating"}
        BY <2>4, <3>2, QueueEmpty
      <3>. QED
        BY <3>1, <3>2
    <2>6. gor[h].pc = "iterating" =>
             gor[h].event \in Events /\ publishedOn'[gor[h].event] = gor[h].channel
      BY <2>2, <2>3 DEF Carries, Running
    <2>. QED
      BY <2>1, <2>2, <2>4, <2>5, <2>6 DEF Carries
  <1>6. ASSUME Close
        PROVE  Carries(h)'
    BY <1>0, <1>6 DEF Close
  <1>7. ASSUME ProcessEnds
        PROVE  Carries(h)'
    <2>1. gor'[h].pc \in {"none", "exited"} /\ gor'[h].map = NULL /\ inbox'[h] = <<>>
      BY <1>7, EndingClears
    <2>2. Range(inbox'[h]) = {}
      BY <2>1, QueueEmpty
    <2>. QED
      BY <2>1, <2>2 DEF Carries, Running
  <1>8. ASSUME UNCHANGED vars
        PROVE  Carries(h)'
    BY <1>0, <1>8 DEF vars
  <1>. QED
    BY <1>1, <1>2, <1>3, <1>4, <1>5, <1>6, <1>7, <1>8, Moves

\* What a client was handed is of its channel.
LEMMA HandedStep ==
    ASSUME TypeOK, Kin, Clientele, \A g \in Goroutines : Carries(g),
           \A c \in Clients : Handed(c), [BrokerMove]_vars, NEW d \in Clients
    PROVE  Handed(d)'
  <1>. Handed(d)
    OBVIOUS
  <1>0. ASSUME cl'[d].channel = cl[d].channel, Offered(d)' \subseteq Offered(d),
               publishedOn' = publishedOn
        PROVE  Handed(d)'
    BY <1>0 DEF Handed
  <1>1. ASSUME NEW c \in Clients, NEW ch \in Channels, Subscribe(c, ch)
        PROVE  Handed(d)'
    <2>1. UNCHANGED <<buf, sent, dropped, publishedOn>>
      BY <1>1, SubscribeStep
    <2>2. Offered(d)' = Offered(d)
      BY <2>1 DEF Offered
    <2>3. CASE d # c
      BY <1>0, <1>1, <2>1, <2>2, <2>3, Coming
    <2>4. CASE d = c
      <3>1. cl[d].channel = NULL
        BY <1>1, <2>4, Coming DEF Clientele
      <3>. QED
        BY <2>2, <3>1 DEF Handed
    <2>. QED
      BY <2>3, <2>4
  <1>2. ASSUME NEW c \in Clients, Handle(c)
        PROVE  Handed(d)'
    <2>1. /\ cl'[d].channel = cl[d].channel /\ UNCHANGED <<dropped, publishedOn>>
          /\ (buf' = buf /\ sent' = sent) \/ SendEvent(c)
      BY <1>2, HandleStep
    <2>2. Offered(d)' = Offered(d)
      <3>1. CASE buf' = buf /\ sent' = sent
        BY <2>1, <3>1 DEF Offered
      <3>. QED
        BY <2>1, <3>1, SendStep
    <2>. QED
      BY <1>0, <2>1, <2>2
  <1>3. ASSUME NEW c \in Clients, Unsubscribe(c)
        PROVE  Handed(d)'
    <2>1. cl'[d].channel = cl[d].channel /\ Offered(d)' \subseteq Offered(d)
      BY <1>3, UnsubscribeClears
    <2>. QED
      BY <1>0, <1>3, <2>1 DEF Unsubscribe
  <1>4. ASSUME NEW c \in Clients, Leave(c)
        PROVE  Handed(d)'
    <2>1. cl'[d].channel = cl[d].channel
      BY <1>4, Going DEF Leave
    <2>2. Offered(d)' = Offered(d)
      BY <1>4 DEF Offered, Leave
    <2>. QED
      BY <1>0, <1>4, <2>1, <2>2 DEF Leave
  <1>5. ASSUME NEW g \in Goroutines, Goroutine(g)
        PROVE  Handed(d)'
    <2>. Carries(g)
      OBVIOUS
    <2>1. cl' = cl /\ publishedOn' = publishedOn /\ sent' = sent
      BY <1>5, GoroutineStep DEF GoroutineEffect
    <2>2. ASSUME NEW c \in Clients, Offer(g, c)
          PROVE  Handed(d)'
      <3>1. /\ gor[g].pc = "iterating" /\ gor[g].map \in Maps
            /\ c \in members[gor[g].map]
            /\ Offered(c)' = Offered(c) \cup {gor[g].event}
            /\ \A b \in Clients \ {c} : Offered(b)' = Offered(b)
        BY <2>2, OfferStep
      <3>2. gor[g].channel \in Channels /\ publishedOn[gor[g].event] = gor[g].channel
        BY <3>1 DEF Carries, Running
      <3>3. Refers(gor[g].map, gor[g].channel)
        BY DEF Refers
      <3>4. cl[c].channel = gor[g].channel
        BY <3>1, <3>2, <3>3 DEF Kin
      <3>5. CASE d # c
        BY <1>0, <2>1, <3>1, <3>5
      <3>6. CASE d = c
        BY <2>1, <3>1, <3>2, <3>4, <3>6 DEF Handed
      <3>. QED
        BY <3>5, <3>6
    <2>3. ASSUME buf' = buf, dropped' = dropped
          PROVE  Handed(d)'
      <3>1. Offered(d)' = Offered(d)
        BY <2>1, <2>3 DEF Offered
      <3>. QED
        BY <1>0, <2>1, <3>1
    <2>. QED
      BY <1>5, <2>2, <2>3
         DEF Goroutine, RedisSubscribed, Receive, EndBroadcast, Exit
  <1>6. ASSUME NEW e \in Events, NEW ch \in Channels, Publish(e, ch)
        PROVE  Handed(d)'
    <2>1. /\ publishedOn[e] = NULL /\ cl' = cl
          /\ \A f \in Events \ {e} : publishedOn'[f] = publishedOn[f]
          /\ UNCHANGED <<buf, sent, dropped>>
      BY <1>6, PublishStep
    <2>2. Offered(d)' = Offered(d)
      BY <2>1 DEF Offered
    <2>3. Offered(d) \subseteq Events
      <3>1. Range(buf[d]) \subseteq Events
        BY QueueType DEF TypeOK
      <3>. QED
        BY <3>1 DEF Offered, TypeOK
    <2>. QED
      BY <2>1, <2>2, <2>3 DEF Handed
  <1>7. ASSUME Close
        PROVE  Handed(d)'
    <2>1. Offered(d)' = Offered(d) /\ publishedOn' = publishedOn
      BY <1>7 DEF Offered, Close
    <2>. QED
      BY <1>0, <1>7, <2>1, DoneRow
  <1>8. ASSUME ProcessEnds
        PROVE  Handed(d)'
    BY <1>8, EndingClears DEF Handed
  <1>9. ASSUME UNCHANGED vars
        PROVE  Handed(d)'
    <2>1. Offered(d)' = Offered(d)
      BY <1>9 DEF vars, Offered
    <2>. QED
      BY <1>0, <1>9, <2>1 DEF vars
  <1>. QED
    BY <1>1, <1>2, <1>3, <1>4, <1>5, <1>6, <1>7, <1>8, <1>9, Moves

-----------------------------------------------------------------------------
(* Service.                                                                *)

\* A channel in b.clients has a goroutine while the broker is open.
LEMMA ServedStep ==
    ASSUME TypeOK, Clientele, \A g \in Goroutines : Carries(g), ChannelServed,
           [BrokerMove]_vars
    PROVE  ChannelServed'
  <1>. SUFFICES ASSUME ~closed', NEW dh \in Channels, entry'[dh] # NULL
                PROVE  \E g \in Goroutines : /\ gor'[g].channel = dh
                                             /\ gor'[g].pc \in Running
    BY DEF ChannelServed, Running
  <1>. DEFINE Claim == \E g \in Goroutines : /\ gor'[g].channel = dh
                                             /\ gor'[g].pc \in Running
  <1>0. ASSUME ~closed, entry[dh] # NULL
        PROVE  \E g \in Goroutines : gor[g].channel = dh /\ gor[g].pc \in Running
    BY <1>0 DEF ChannelServed, Running
  <1>1. ASSUME NEW c \in Clients, NEW ch \in Channels, Subscribe(c, ch)
        PROVE  Claim
    <2>1. ~closed
      BY <1>1, SubscribeStep
    <2>2. CASE Further(c, ch)
      BY <1>0, <2>1, <2>2 DEF Further
    <2>3. ASSUME NEW m \in Maps, NEW g \in Goroutines, First(c, ch, m, g)
          PROVE  Claim
      <3>1. CASE dh = ch
        BY <2>3, <3>1 DEF First, Running
      <3>2. CASE dh # ch
        <4>1. entry[dh] # NULL
          BY <2>3, <3>2 DEF First, TypeOK
        <4>2. PICK h \in Goroutines : gor[h].channel = dh /\ gor[h].pc \in Running
          BY <1>0, <2>1, <4>1
        <4>3. h # g
          BY <2>3, <4>2 DEF First, Running
        <4>. QED
          BY <2>3, <4>2, <4>3 DEF First
      <3>. QED
        BY <3>1, <3>2
    <2>. QED
      BY <1>1, <2>2, <2>3, SubscribeStep
  <1>2. ASSUME NEW c \in Clients, Handle(c)
        PROVE  Claim
    BY <1>0, <1>2, HandleStep
  <1>3. ASSUME NEW c \in Clients, Unsubscribe(c)
        PROVE  Claim
    <2>1. /\ closed' = closed /\ gor' = gor
          /\ \A ch \in Channels \ {cl[c].channel} : entry'[ch] = entry[ch]
          /\ entry'[cl[c].channel] = entry[cl[c].channel] \/ entry'[cl[c].channel] = NULL
      BY <1>3, UnsubscribeStep
    <2>2. entry[dh] # NULL
      BY <2>1
    <2>. QED
      BY <1>0, <2>1, <2>2
  <1>4. ASSUME NEW g \in Goroutines, Goroutine(g)
        PROVE  Claim
    <2>1. /\ entry' = entry /\ closed' = closed
          /\ \A h \in Goroutines \ {g} : gor'[h] = gor[h]
          /\ \/ closed
             \/ gor'[g].pc \in Running /\ gor'[g].channel = gor[g].channel
      BY <1>4, GoroutineStep DEF GoroutineEffect
    <2>2. PICK h \in Goroutines : gor[h].channel = dh /\ gor[h].pc \in Running
      BY <1>0, <2>1
    <2>3. gor'[h].channel = dh /\ gor'[h].pc \in Running
      BY <2>1, <2>2
    <2>. QED
      BY <2>3
  <1>5. ASSUME UNCHANGED <<entry, gor, closed>>
        PROVE  Claim
    BY <1>0, <1>5
  <1>6. Close => FALSE
    BY DEF Close
  <1>7. ProcessEnds => FALSE
    BY EndingClears
  <1>. QED
    BY <1>1, <1>2, <1>3, <1>4, <1>5, <1>6, <1>7, Moves DEF Leave, Publish, vars

\* A client that streams stays in the map of its channel.
LEMMA RegisteredStep ==
    ASSUME TypeOK, Clientele, \A g \in Goroutines : Carries(g),
           RegisteredWhileStreaming, [BrokerMove]_vars
    PROVE  RegisteredWhileStreaming'
  <1>. SUFFICES ASSUME NEW d \in Clients, Connected(d)', ~closed' \/ cl'[d].late
                PROVE  Registered(d)'
    BY DEF RegisteredWhileStreaming
  <1>0. ASSUME Connected(d), ~closed \/ cl[d].late
        PROVE  /\ cl[d].channel \in Channels /\ entry[cl[d].channel] \in Maps
               /\ d \in members[entry[cl[d].channel]]
    <2>1. cl[d].channel \in Channels /\ Registered(d)
      BY <1>0 DEF Clientele, Active, RegisteredWhileStreaming
    <2>. QED
      BY <2>1 DEF Registered, TypeOK
  <1>1. ASSUME NEW c \in Clients, NEW ch \in Channels, Subscribe(c, ch)
        PROVE  Registered(d)'
    <2>1. /\ closed' = closed /\ cl[c].pc = "new" /\ cl'[c].channel = ch
          /\ \A b \in Clients \ {c} : cl'[b] = cl[b]
      BY <1>1, Coming, SubscribeStep
    <2>2. ASSUME d # c
          PROVE  /\ cl'[d] = cl[d] /\ cl[d].channel \in Channels
                 /\ entry[cl[d].channel] \in Maps
                 /\ d \in members[entry[cl[d].channel]]
      <3>1. cl'[d] = cl[d]
        BY <2>1, <2>2
      <3>2. Connected(d) /\ (~closed \/ cl[d].late)
        BY <2>1, <3>1 DEF Connected
      <3>. QED
        BY <1>0, <3>1, <3>2
    <2>3. CASE Further(c, ch)
      <3>1. /\ entry[ch] \in Maps /\ entry' = entry
            /\ members'[entry[ch]] = members[entry[ch]] \cup {c}
            /\ \A n \in Maps \ {entry[ch]} : members'[n] = members[n]
        BY <2>3 DEF Further, TypeOK
      <3>2. CASE d = c
        BY <2>1, <3>1, <3>2 DEF Registered
      <3>3. CASE d # c
        BY <2>2, <3>1, <3>3 DEF Registered
      <3>. QED
        BY <3>2, <3>3
    <2>4. ASSUME NEW m \in Maps, NEW g \in Goroutines, First(c, ch, m, g)
          PROVE  Registered(d)'
      <3>1. /\ entry[ch] = NULL /\ entry'[ch] = m
            /\ \A bh \in Channels \ {ch} : entry'[bh] = entry[bh]
            /\ members'[m] = {c}
            /\ \A n \in Maps \ {m} : members'[n] = members[n]
            /\ \A bh \in Channels : entry[bh] # m
        BY <2>4 DEF First, FreeMap, TypeOK
      <3>2. CASE d = c
        BY <2>1, <3>1, <3>2 DEF Registered
      <3>3. CASE d # c
        BY <2>2, <3>1, <3>3 DEF Registered
      <3>. QED
        BY <3>2, <3>3
    <2>. QED
      BY <1>1, <2>3, <2>4, SubscribeStep
  <1>2. ASSUME NEW c \in Clients, Handle(c)
        PROVE  Registered(d)'
    <2>1. /\ cl'[d].channel = cl[d].channel /\ cl'[d].late = cl[d].late
          /\ (d # c => cl'[d].pc = cl[d].pc) /\ Connected(c)
          /\ UNCHANGED <<entry, members, closed>>
      BY <1>2, HandleStep
    <2>2. Connected(d)
      BY <2>1 DEF Connected
    <2>. QED
      BY <1>0, <2>1, <2>2 DEF Registered
  <1>3. ASSUME NEW c \in Clients, Unsubscribe(c)
        PROVE  Registered(d)'
    <2>1. cl'[c].pc = "gone" /\ \A b \in Clients \ {c} : cl'[b] = cl[b]
      BY <1>3, UnsubscribeClears
    <2>2. d # c /\ cl'[d] = cl[d] /\ Connected(d)
      BY <2>1 DEF Connected
    <2>3. /\ \A ch \in Channels \ {cl[c].channel} : entry'[ch] = entry[ch]
          /\ \/ entry'[cl[c].channel] = entry[cl[c].channel]
             \/ members[entry[cl[c].channel]] \subseteq {c}
          /\ \A m \in Maps : members'[m] = members[m] \/ members'[m] = members[m] \ {c}
          /\ closed' = closed
      BY <1>3, UnsubscribeStep
    <2>4. /\ cl[d].channel \in Channels /\ entry[cl[d].channel] \in Maps
          /\ d \in members[entry[cl[d].channel]]
      BY <1>0, <2>2, <2>3
    <2>5. entry'[cl[d].channel] = entry[cl[d].channel]
      BY <2>2, <2>3, <2>4
    <2>6. d \in members'[entry[cl[d].channel]]
      BY <2>2, <2>3, <2>4
    <2>. QED
      BY <2>2, <2>4, <2>5, <2>6 DEF Registered
  <1>4. ASSUME NEW c \in Clients, Leave(c)
        PROVE  Registered(d)'
    <2>1. /\ cl'[c].pc = "gone" /\ \A b \in Clients \ {c} : cl'[b] = cl[b]
          /\ UNCHANGED <<entry, members, closed>>
      BY <1>4, Going DEF Leave
    <2>2. cl'[d] = cl[d] /\ Connected(d)
      BY <2>1 DEF Connected
    <2>. QED
      BY <1>0, <2>1, <2>2 DEF Registered
  <1>5. ASSUME UNCHANGED <<entry, members, cl, closed>>
        PROVE  Registered(d)'
    <2>1. Connected(d)
      BY <1>5 DEF Connected
    <2>. QED
      BY <1>0, <1>5, <2>1 DEF Registered
  <1>6. ASSUME NEW g \in Goroutines, Goroutine(g)
        PROVE  Registered(d)'
    BY <1>5, <1>6, GoroutineStep DEF GoroutineEffect
  <1>7. Close => FALSE
    <2>1. SUFFICES ASSUME Close PROVE FALSE
      OBVIOUS
    <2>2. ~closed /\ closed' /\ cl'[d].late = cl[d].late /\ cl'[d].pc = cl[d].pc
      BY <2>1, DoneRow DEF Close
    <2>3. Connected(d) /\ cl[d].late
      BY <2>2 DEF Connected
    <2>. QED
      BY <2>2, <2>3 DEF Clientele, Active
  <1>8. ProcessEnds => FALSE
    BY Ending DEF Connected
  <1>. QED
    BY <1>1, <1>2, <1>3, <1>4, <1>5, <1>6, <1>7, <1>8, Moves DEF Publish, vars

-----------------------------------------------------------------------------
(* The end of the broker.                                                  *)

\* A goroutine has nothing to do with the end of the broker.
LEMMA GoroutineLeaves ==
    ASSUME NEW g \in Goroutines, Goroutine(g)
    PROVE  UNCHANGED <<entry, cl, closed, panicked>>
  BY DEF Goroutine, RedisSubscribed, Receive, Offer, EndBroadcast, Exit

\* Only Close closes the broker.
LEMMA ClosedBy ==
    ASSUME TypeOK, Clientele, [BrokerMove]_vars, closed'
    PROVE  closed \/ Close
  <1>1. ASSUME NEW c \in Clients, NEW ch \in Channels, Subscribe(c, ch)
        PROVE  closed' = closed
    BY <1>1 DEF Subscribe
  <1>2. ASSUME NEW c \in Clients, Handle(c)
        PROVE  closed' = closed
    BY <1>2, HandleStep
  <1>3. ASSUME NEW c \in Clients, Unsubscribe(c)
        PROVE  closed' = closed
    BY <1>3 DEF Unsubscribe
  <1>4. ASSUME NEW g \in Goroutines, Goroutine(g)
        PROVE  closed' = closed
    BY <1>4, GoroutineLeaves
  <1>. QED
    BY <1>1, <1>2, <1>3, <1>4, Moves DEF Leave, Publish, ProcessEnds, vars

\* Done is closed a second time by an Unsubscribe that finds a map.
LEMMA PanickedBy ==
    ASSUME TypeOK, Clientele, LateChannels, [BrokerMove]_vars, panicked'
    PROVE  /\ closed /\ closed'
           /\ \/ panicked
              \/ \E c \in Clients : /\ Unsubscribe(c) /\ cl[c].channel \in Channels
                                    /\ entry[cl[c].channel] # NULL
  <1>1. ASSUME NEW c \in Clients, NEW ch \in Channels, Subscribe(c, ch)
        PROVE  UNCHANGED <<closed, panicked>>
    BY <1>1 DEF Subscribe
  <1>2. ASSUME NEW c \in Clients, Handle(c)
        PROVE  UNCHANGED <<closed, panicked>>
    BY <1>2, HandleStep
  <1>3. ASSUME NEW c \in Clients, Unsubscribe(c)
        PROVE  /\ closed' = closed
               /\ \/ panicked' = panicked
                  \/ /\ closed /\ cl[c].channel \in Channels
                     /\ entry[cl[c].channel] # NULL
    <2>1. Active(c)
      BY <1>3 DEF Unsubscribe, Active
    <2>. QED
      BY <1>3, <2>1 DEF Unsubscribe, Clientele
  <1>4. ASSUME NEW g \in Goroutines, Goroutine(g)
        PROVE  UNCHANGED <<closed, panicked>>
    BY <1>4, GoroutineLeaves
  <1>5. ASSUME UNCHANGED <<closed, panicked>>
        PROVE  panicked /\ closed /\ closed'
    BY <1>5 DEF LateChannels
  <1>6. ~Close
    BY DEF Close, LateChannels
  <1>7. ~ProcessEnds
    BY DEF ProcessEnds
  <1>8. ASSUME \/ \E c \in Clients : Leave(c)
               \/ \E e \in Events, ch \in Channels : Publish(e, ch)
               \/ UNCHANGED vars
        PROVE  UNCHANGED <<closed, panicked>>
    BY <1>8 DEF Leave, Publish, vars
  <1>9. ASSUME NEW c \in Clients, Unsubscribe(c), panicked' # panicked
        PROVE  /\ closed /\ closed' /\ cl[c].channel \in Channels
               /\ entry[cl[c].channel] # NULL
    <2>1. /\ closed' = closed /\ closed
          /\ cl[c].channel \in Channels /\ entry[cl[c].channel] # NULL
      BY <1>3, <1>9
    <2>2. closed'
      BY <2>1
    <2>. QED
      BY <2>1, <2>2
  <1>10. ASSUME NEW c \in Clients, Unsubscribe(c), panicked' = panicked
         PROVE  panicked /\ closed /\ closed'
    BY <1>3, <1>5, <1>10
  <1>. QED
    BY <1>1, <1>2, <1>4, <1>5, <1>6, <1>7, <1>8, <1>9, <1>10, Moves

\* Who came late is remembered for as long as the process lives.
LEMMA LateKept ==
    ASSUME TypeOK, Clientele, [BrokerMove]_vars, closed, closed',
           NEW d \in Clients, cl[d].late
    PROVE  cl'[d].late
  <1>1. ASSUME NEW c \in Clients, NEW ch \in Channels, Subscribe(c, ch)
        PROVE  cl'[d].late
    BY <1>1, Coming
  <1>2. ASSUME NEW c \in Clients, Handle(c)
        PROVE  cl'[d].late
    BY <1>2, HandleStep
  <1>3. ASSUME NEW c \in Clients, Unsubscribe(c)
        PROVE  cl'[d].late
    BY <1>3, UnsubscribeClears
  <1>4. ASSUME NEW c \in Clients, Leave(c)
        PROVE  cl'[d].late
    BY <1>4, Going DEF Leave
  <1>5. ASSUME NEW g \in Goroutines, Goroutine(g)
        PROVE  cl'[d].late
    BY <1>5, GoroutineLeaves
  <1>. QED
    BY <1>1, <1>2, <1>3, <1>4, <1>5, Moves DEF Publish, Close, ProcessEnds, vars

\* A channel of a closed broker was made by a client that came late.
LEMMA LateStep ==
    ASSUME TypeOK, Clientele, LateChannels, [BrokerMove]_vars
    PROVE  LateChannels'
  <1>0. panicked' => closed'
    BY PanickedBy
  <1>. SUFFICES ASSUME closed', NEW ch \in Channels, entry'[ch] # NULL
                PROVE  \E d \in Clients : cl'[d].late
    BY <1>0 DEF LateChannels
  <1>1. ~Close
    BY DEF Close
  <1>2. closed
    BY <1>1, ClosedBy
  <1>3. ASSUME NEW c \in Clients, NEW dh \in Channels, Subscribe(c, dh)
        PROVE  \E d \in Clients : cl'[d].late
    BY <1>2, <1>3, Coming
  <1>4. ASSUME NEW c \in Clients, Unsubscribe(c)
        PROVE  entry[ch] # NULL
    BY <1>4, UnsubscribeStep
  <1>5. ASSUME NEW c \in Clients, Handle(c)
        PROVE  entry[ch] # NULL
    BY <1>5, HandleStep
  <1>6. ASSUME NEW g \in Goroutines, Goroutine(g)
        PROVE  entry[ch] # NULL
    BY <1>6, GoroutineLeaves
  <1>7. ASSUME entry[ch] # NULL
        PROVE  \E d \in Clients : cl'[d].late
    BY <1>2, <1>7, LateKept DEF LateChannels
  <1>. QED
    BY <1>1, <1>3, <1>4, <1>5, <1>6, <1>7, Moves DEF Leave, Publish, ProcessEnds, vars

\* Close finds every connected client in the map of its channel.
LEMMA CloseCloses ==
    ASSUME TypeOK, RegisteredWhileStreaming, Close, NEW d \in Clients, Connected(d)
    PROVE  cl'[d].done = "closed"
  <1>1. Registered(d)
    BY DEF RegisteredWhileStreaming, Close
  <1>2. cl'[d] = [cl[d] EXCEPT !.done = "closed"]
    BY <1>1 DEF Close
  <1>3. cl[d] \in ClientRows
    BY DEF TypeOK
  <1>. QED
    BY <1>2, <1>3 DEF ClientRows

\* Done of every handler that was there is closed, and twice only after a
\* late client has come.
LEMMA ReachedStep ==
    ASSUME TypeOK, Clientele, RegisteredWhileStreaming, LateChannels,
           CloseReachesHandlers, [BrokerMove]_vars
    PROVE  CloseReachesHandlers'
  <1>1. ASSUME closed', NEW d \in Clients, Connected(d)', ~cl'[d].late
        PROVE  cl'[d].done = "closed"
    <2>1. CASE Close
      <3>1. Connected(d)
        BY <1>1, <2>1, DoneRow DEF Connected
      <3>. QED
        BY <2>1, <3>1, CloseCloses
    <2>2. CASE ~Close
      <3>1. closed
        BY <1>1, <2>2, ClosedBy
      <3>2. ASSUME Connected(d), ~cl[d].late
            PROVE  cl[d].done = "closed"
        BY <3>1, <3>2 DEF CloseReachesHandlers
      <3>3. ASSUME NEW c \in Clients, NEW ch \in Channels, Subscribe(c, ch)
            PROVE  cl'[d].done = "closed"
        <4>1. d # c /\ cl'[d] = cl[d]
          BY <1>1, <3>1, <3>3, Coming
        <4>. QED
          BY <1>1, <3>2, <4>1 DEF Connected
      <3>4. ASSUME NEW c \in Clients, Handle(c)
            PROVE  cl'[d].done = "closed"
        <4>1. /\ cl'[d].done = cl[d].done /\ cl'[d].late = cl[d].late
              /\ (d # c => cl'[d].pc = cl[d].pc) /\ Connected(c)
          BY <3>4, HandleStep
        <4>2. Connected(d)
          BY <1>1, <4>1 DEF Connected
        <4>. QED
          BY <1>1, <3>2, <4>1, <4>2
      <3>5. ASSUME NEW c \in Clients, Unsubscribe(c) \/ Leave(c)
            PROVE  cl'[d].done = "closed"
        <4>1. cl'[c].pc = "gone" /\ \A e \in Clients \ {c} : cl'[e] = cl[e]
          BY <3>5, UnsubscribeClears, Going DEF Leave
        <4>2. cl'[d] = cl[d]
          BY <1>1, <4>1 DEF Connected
        <4>. QED
          BY <1>1, <3>2, <4>2 DEF Connected
      <3>6. ASSUME cl' = cl
            PROVE  cl'[d].done = "closed"
        BY <1>1, <3>2, <3>6 DEF Connected
      <3>7. ASSUME NEW g \in Goroutines, Goroutine(g)
            PROVE  cl' = cl
        BY <3>7, GoroutineLeaves
      <3>8. ~ProcessEnds
        BY <1>1 DEF ProcessEnds
      <3>. QED
        BY <2>2, <3>3, <3>4, <3>5, <3>6, <3>7, <3>8, Moves DEF Publish, vars
    <2>. QED
      BY <2>1, <2>2
  <1>2. ASSUME panicked'
        PROVE  \E d \in Clients : cl'[d].late
    <2>1. closed'
      BY <1>2, PanickedBy, ClosedBy
    <2>2. CASE panicked
      BY <2>1, <2>2, LateKept DEF LateChannels, CloseReachesHandlers
    <2>3. ASSUME NEW c \in Clients, Unsubscribe(c), cl[c].channel \in Channels,
                 entry[cl[c].channel] # NULL, closed
          PROVE  \E d \in Clients : cl'[d].late
      BY <2>1, <2>3, LateKept DEF LateChannels
    <2>. QED
      BY <1>2, <2>2, <2>3, PanickedBy
  <1>. QED
    BY <1>1, <1>2 DEF CloseReachesHandlers

-----------------------------------------------------------------------------
(* The broker.                                                             *)

\* A broker that was made has no client, no goroutine and no event.
LEMMA BrokerInit == Init => BrokerInv
  <1> SUFFICES ASSUME Init PROVE BrokerInv
    OBVIOUS
  <1>1. /\ \A ch \in Channels : entry[ch] = NULL
        /\ \A g \in Goroutines : gor[g] = NoGoroutine /\ inbox[g] = <<>>
        /\ \A c \in Clients : /\ cl[c] = NewClient /\ buf[c] = <<>>
                              /\ sent[c] = {} /\ dropped[c] = {}
    BY DEF Init
  <1>2. NewClient.pc = "new" /\ NewClient.channel = NULL
    BY DEF NewClient
  <1>3. \A m \in Maps, ch \in Channels : ~ Refers(m, ch)
    BY <1>1, IdleRows DEF Refers
  <1>4. OneHome /\ Kin
    BY <1>3 DEF OneHome, Kin
  <1>5. Clientele /\ RegisteredWhileStreaming
    BY <1>1, <1>2 DEF Clientele, RegisteredWhileStreaming, Active, Connected
  <1>6. Range(<<>>) = {}
    BY QueueEmpty
  <1>7. \A g \in Goroutines : Carries(g)
    BY <1>1, <1>6, IdleRows DEF Carries, Running
  <1>8. \A c \in Clients : Handed(c)
    BY <1>1, <1>6 DEF Handed, Offered
  <1>9. ChannelServed
    BY <1>1 DEF ChannelServed
  <1>10. LateChannels /\ CloseReachesHandlers
    BY DEF LateChannels, CloseReachesHandlers, Init
  <1>. QED
    BY <1>4, <1>5, <1>7, <1>8, <1>9, <1>10, TypeInit DEF BrokerInv

\* Every step of the broker keeps its invariant.
LEMMA BrokerStep == BrokerInv /\ [BrokerMove]_vars => BrokerInv'
  <1> SUFFICES ASSUME BrokerInv, [BrokerMove]_vars PROVE BrokerInv'
    OBVIOUS
  <1> USE DEF BrokerInv
  <1>1. TypeOK' /\ Clientele' /\ OneHome' /\ Kin'
    BY TypeStep, ClienteleStep, OneHomeStep, KinStep
  <1>2. (\A g \in Goroutines : Carries(g))' /\ (\A c \in Clients : Handed(c))'
    BY CarriesStep, HandedStep
  <1>3. ChannelServed' /\ RegisteredWhileStreaming'
    BY ServedStep, RegisteredStep
  <1>4. LateChannels' /\ CloseReachesHandlers'
    BY LateStep, ReachedStep
  <1>. QED
    BY <1>1, <1>2, <1>3, <1>4

\* The invariant gives the isolation of channels.
LEMMA HandedIsolates == BrokerInv => ChannelIsolation
  BY DEF BrokerInv, Handed, ChannelIsolation

\* The invariant of the broker by itself, whoever calls it, in whichever
\* order, before and after Close.
THEOREM BrokerInvariant == Spec => []BrokerInv
  <1>1. [Next]_vars => [BrokerMove]_vars
    BY DEF BrokerMove
  <1>. QED
    BY <1>1, BrokerInit, BrokerStep, PTL DEF Spec

-----------------------------------------------------------------------------
(* The server.                                                             *)

\* A step of the server is a step of its broker, or none.
LEMMA ServerMoves == [ServerNext]_serverVars => [BrokerMove]_vars
  <1> SUFFICES ASSUME [ServerNext]_serverVars PROVE [BrokerMove]_vars
    OBVIOUS
  <1>1. ASSUME NEW c \in Clients, Refuse(c)
        PROVE  Leave(c)
    BY <1>1 DEF Refuse, Leave
  <1>2. ASSUME NEW c \in Clients, Request(c)
        PROVE  Client(c)
    BY <1>2 DEF Request, Client
  <1>3. ASSUME Deferred
        PROVE  Close \/ UNCHANGED vars
    BY <1>3 DEF Deferred
  <1>4. ASSUME Gone
        PROVE  ProcessEnds
    BY <1>4 DEF Gone
  <1>. QED
    BY <1>1, <1>2, <1>3, <1>4
       DEF ServerNext, serverVars, BrokerMove, Next, Boot, Accept, Signal, Shutdown,
           ShutdownTimesOut, Exited, Killed, Restart

\* The stages of main.
LEMMA Stages ==
    /\ DOMAIN BootOrder = {"load", "connect", "ping", "migrate", "redis"}
    /\ DOMAIN DeferOrder = {"stopJob", "closeBroker", "closeRedis", "closeDB"}
    /\ \A x \in DOMAIN BootOrder :
          BootOrder[x] \in {"connect", "ping", "migrate", "redis", "serving"}
    /\ DeferOrder["stopJob"] = "closeBroker"
    /\ DeferOrder["closeBroker"] = "closeRedis"
    /\ DeferOrder["closeRedis"] = "closeDB"
    /\ DeferOrder["closeDB"] = "exit"
  BY DEF BootOrder, DeferOrder

\* What main does, without the broker.
LEMMA ServerTypeStep ==
    ASSUME ServerTypeOK, TypeOK', [ServerNext]_serverVars
    PROVE  ServerTypeOK'
  <1>1. ASSUME UNCHANGED <<main, accepted, forced>>
        PROVE  ServerTypeOK'
    BY <1>1 DEF ServerTypeOK
  <1>2. ASSUME Boot
        PROVE  ServerTypeOK'
    BY <1>2, Stages DEF ServerTypeOK, Boot
  <1>3. ASSUME NEW c \in Clients, Accept(c) \/ Refuse(c) \/ Request(c)
        PROVE  ServerTypeOK'
    BY <1>3 DEF ServerTypeOK, Accept, Refuse, Request
  <1>4. ASSUME Signal \/ Shutdown \/ ShutdownTimesOut \/ Restart
        PROVE  ServerTypeOK'
    BY <1>4, Stages DEF ServerTypeOK, Signal, Shutdown, ShutdownTimesOut, Restart
  <1>5. ASSUME Deferred
        PROVE  ServerTypeOK'
    BY <1>5, Stages DEF ServerTypeOK, Deferred
  <1>6. ASSUME Gone
        PROVE  ServerTypeOK'
    BY <1>6, Stages DEF ServerTypeOK, Gone
  <1>. QED
    BY <1>1, <1>2, <1>3, <1>4, <1>5, <1>6 DEF ServerNext, serverVars, Exited, Killed

\* The handlers that are active after a step were so before, or have just
\* subscribed.
LEMMA ActiveStep ==
    ASSUME BrokerInv, [ServerNext]_serverVars, NEW d \in Clients, Active(d)'
    PROVE  \/ Active(d) /\ ~ (Unsubscribe(d) \/ Leave(d) \/ ProcessEnds)
           \/ \E ch \in Channels : Subscribe(d, ch)
  <1> USE DEF BrokerInv
  <1>1. ASSUME NEW c \in Clients, NEW ch \in Channels, Subscribe(c, ch), d # c
        PROVE  cl'[d] = cl[d]
    BY <1>1, Coming
  <1>2. ASSUME NEW c \in Clients, Handle(c)
        PROVE  Active(d)
    BY <1>2, HandleStep DEF Active, Connected
  <1>3. ASSUME NEW c \in Clients, Unsubscribe(c) \/ Leave(c)
        PROVE  d # c /\ cl'[d] = cl[d]
    <2>1. cl' = [cl EXCEPT ![c] = GoneClient(c)]
      BY <1>3 DEF Unsubscribe, Leave
    <2>2. cl'[c].pc = "gone" /\ \A b \in Clients \ {c} : cl'[b] = cl[b]
      BY <2>1, Going
    <2>. QED
      BY <2>2 DEF Active, Connected
  <1>4. ASSUME NEW g \in Goroutines, Goroutine(g)
        PROVE  cl'[d] = cl[d]
    BY <1>4, GoroutineStep DEF GoroutineEffect
  <1>5. ASSUME Close
        PROVE  Active(d)
    BY <1>5, DoneRow DEF Active, Connected
  <1>6. ProcessEnds => FALSE
    BY Ending DEF Active, Connected
  <1>7. cl'[d] = cl[d] => Active(d)
    BY DEF Active, Connected
  <1>8. [BrokerMove]_vars
    BY ServerMoves
  <1>9. Active(d) \/ \E ch \in Channels : Subscribe(d, ch)
    BY <1>1, <1>2, <1>3, <1>4, <1>5, <1>6, <1>7, <1>8, Moves DEF Publish, vars
  <1>. QED
    BY <1>3, <1>6, <1>9

\* A handler subscribes for a request that was accepted, ...
LEMMA SubscribeAccepted ==
    ASSUME BrokerInv, [ServerNext]_serverVars, NEW d \in Clients, NEW ch \in Channels,
           Subscribe(d, ch)
    PROVE  d \in accepted /\ accepted' = accepted
  <1> USE DEF BrokerInv
  <1>1. /\ cl[d].pc = "new" /\ cl'[d].pc = "greeting"
    BY Coming
  <1>2. cl' # cl
    BY <1>1
  <1>3. ASSUME NEW c \in Clients, Handle(c) \/ Unsubscribe(c) \/ Refuse(c)
        PROVE  FALSE
    <2>1. CASE Handle(c)
      <3>1. (d # c => cl'[d].pc = cl[d].pc) /\ Connected(c)
        BY <2>1, HandleStep
      <3>. QED
        BY <1>1, <3>1 DEF Connected
    <2>2. CASE Unsubscribe(c) \/ Refuse(c)
      <3>1. cl' = [cl EXCEPT ![c] = GoneClient(c)]
        BY <2>2 DEF Unsubscribe, Refuse
      <3>2. cl'[c].pc = "gone" /\ (d # c => cl'[d] = cl[d])
        BY <3>1, Going
      <3>. QED
        BY <1>1, <3>2
    <2>. QED
      BY <1>3, <2>1, <2>2
  <1>4. ASSUME NEW c \in Clients, c \in accepted, NEW bh \in Channels, Subscribe(c, bh)
        PROVE  d \in accepted
    <2>1. d # c => cl'[d] = cl[d]
      BY <1>4, Coming
    <2>. QED
      BY <1>1, <1>4, <2>1
  <1>5. ASSUME NEW g \in Goroutines, Goroutine(g)
        PROVE  FALSE
    BY <1>2, <1>5, GoroutineStep DEF GoroutineEffect
  <1>6. Close => FALSE
    BY <1>1, DoneRow
  <1>7. ProcessEnds => FALSE
    BY <1>1, Ending
  <1>. QED
    BY <1>2, <1>3, <1>4, <1>5, <1>6, <1>7
       DEF ServerNext, serverVars, vars, Boot, Accept, Request, Signal, Shutdown,
           ShutdownTimesOut, Deferred, Exited, Killed, Gone, Restart, Publish

\* ... which stays accepted until its handler has returned.
LEMMA AcceptedStep ==
    ASSUME BrokerInv, Orderly, [ServerNext]_serverVars, NEW d \in Clients, Active(d)'
    PROVE  d \in accepted'
  <1>1. CASE \E ch \in Channels : Subscribe(d, ch)
    BY <1>1, SubscribeAccepted
  <1>2. ASSUME Active(d), ~ (Unsubscribe(d) \/ Leave(d) \/ ProcessEnds)
        PROVE  d \in accepted'
    <2>1. d \in accepted
      BY <1>2 DEF Orderly
    <2>2. ASSUME NEW c \in Clients, Refuse(c)
          PROVE  d \in accepted'
      <3>1. cl[c].pc = "new" /\ accepted' = accepted \ {c}
        BY <2>2 DEF Refuse
      <3>. QED
        BY <1>2, <2>1, <3>1 DEF Active, Connected
    <2>3. ASSUME NEW c \in Clients, Request(c)
          PROVE  d \in accepted'
      BY <1>2, <2>1, <2>3 DEF Request
    <2>. QED
      BY <1>2, <2>1, <2>2, <2>3
         DEF ServerNext, serverVars, Boot, Accept, Signal, Shutdown, ShutdownTimesOut,
             Deferred, Exited, Killed, Gone, Restart
  <1>. QED
    BY <1>1, <1>2, ActiveStep

\* The broker is closed, and a Done channel for the second time, only by the
\* broker's own calls.
LEMMA BrokerFlags ==
    ASSUME BrokerInv, [BrokerMove]_vars
    PROVE  /\ closed' = closed \/ Close \/ ProcessEnds
           /\ \/ panicked' = panicked
              \/ ProcessEnds
              \/ \E c \in Clients : /\ Unsubscribe(c) /\ Active(c)
                                    /\ cl[c].done = "closed"
  <1> USE DEF BrokerInv
  <1>1. ASSUME NEW c \in Clients, NEW ch \in Channels, Subscribe(c, ch)
        PROVE  UNCHANGED <<closed, panicked>>
    BY <1>1 DEF Subscribe
  <1>2. ASSUME NEW c \in Clients, Handle(c)
        PROVE  UNCHANGED <<closed, panicked>>
    BY <1>2, HandleStep
  <1>3. ASSUME NEW c \in Clients, Unsubscribe(c)
        PROVE  /\ closed' = closed /\ Active(c)
               /\ panicked' = panicked \/ cl[c].done = "closed"
    BY <1>3, UnsubscribeStep DEF Active
  <1>4. ASSUME NEW g \in Goroutines, Goroutine(g)
        PROVE  UNCHANGED <<closed, panicked>>
    BY <1>4, GoroutineStep DEF GoroutineEffect
  <1>. QED
    BY <1>1, <1>2, <1>3, <1>4, Moves DEF Leave, Publish, Close, vars

\* Main closes the broker, and it does so after Shutdown.
LEMMA CloseStep ==
    ASSUME BrokerInv, [ServerNext]_serverVars, ~Gone, closed' # closed
    PROVE  main = "closeBroker" /\ main' = "closeRedis"
  <1> USE DEF BrokerInv
  <1>1. ASSUME NEW c \in Clients, Request(c) \/ Refuse(c)
        PROVE  closed' = closed
    BY <1>1, HandleStep DEF Request, Refuse, Subscribe, Unsubscribe
  <1>2. ASSUME NEW g \in Goroutines, Goroutine(g)
        PROVE  closed' = closed
    BY <1>2, GoroutineStep DEF GoroutineEffect
  <1>3. ASSUME Deferred
        PROVE  main = "closeBroker" /\ main' = "closeRedis"
    BY <1>3, Stages DEF Deferred, vars
  <1>. QED
    BY <1>1, <1>2, <1>3
       DEF ServerNext, serverVars, vars, Boot, Accept, Signal, Shutdown,
           ShutdownTimesOut, Exited, Killed, Restart, Publish

\* The order of main keeps requests and shutdown apart.
LEMMA OrderlyStep ==
    ASSUME ServerInv, [ServerNext]_serverVars
    PROVE  Orderly'
  <1>. USE DEF ServerInv
  <1>0. [BrokerMove]_vars
    BY ServerMoves
  <1>1. \A c \in Clients : Active(c)' => c \in accepted'
    BY AcceptedStep
  <1>2. CASE Gone
    <2>1. closed' = FALSE /\ panicked' = FALSE
      BY <1>2, EndingClears DEF BrokerInv, Gone
    <2>2. accepted' = {}
      BY <1>2 DEF Gone
    <2>. QED
      BY <1>1, <2>1, <2>2 DEF Orderly
  <1>3. ASSUME NEW c \in Clients, Unsubscribe(c), Active(c), cl[c].done = "closed"
        PROVE  forced
    <2>1. closed /\ c \in accepted
      BY <1>3 DEF BrokerInv, Clientele, Orderly
    <2>2. Closing
      BY <2>1, Stages DEF Orderly, Closing
    <2>. QED
      BY <2>1, <2>2 DEF Orderly
  <1>4. ASSUME ~Gone
        PROVE  Orderly'
    <2>1. ~forced' => ~forced
      BY <1>4
         DEF ServerNext, serverVars, Boot, Accept, Refuse, Request, Signal, Shutdown,
             ShutdownTimesOut, Deferred, Exited, Killed, Restart
    <2>2. ~forced' /\ Closing' => accepted' = {}
      BY <1>4, Stages
         DEF Orderly, Closing, ServerTypeOK, ServerNext, serverVars, Boot, Accept,
             Refuse, Request, Signal, Shutdown, ShutdownTimesOut, Deferred, Exited,
             Killed, Restart
    <2>3. ASSUME closed' = closed
          PROVE  closed' => main' \in {"closeRedis", "closeDB", "exit"}
      <3>1. closed => main' \in {"closeRedis", "closeDB", "exit"}
        BY <1>4, Stages
           DEF Orderly, ServerNext, serverVars, Boot, Accept, Refuse, Request, Signal,
               Shutdown, ShutdownTimesOut, Deferred, Exited, Killed, Restart
      <3>. QED
        BY <2>3, <3>1
    <2>4. closed' => main' \in {"closeRedis", "closeDB", "exit"}
      BY <1>4, <2>3, CloseStep
    <2>5. ~forced' => ~panicked'
      <3>1. \/ panicked' = panicked
            \/ ProcessEnds
            \/ \E c \in Clients : /\ Unsubscribe(c) /\ Active(c)
                                  /\ cl[c].done = "closed"
        BY <1>0, BrokerFlags
      <3>2. CASE panicked' = panicked
        BY <2>1, <3>2 DEF Orderly
      <3>3. CASE ProcessEnds
        BY <3>3 DEF ProcessEnds
      <3>. QED
        BY <1>3, <2>1, <3>1, <3>2, <3>3
    <2>. QED
      BY <1>1, <2>1, <2>2, <2>4, <2>5 DEF Orderly
  <1>. QED
    BY <1>2, <1>4

-----------------------------------------------------------------------------
(* The theorems.                                                           *)

\* A process that has just been started.
LEMMA ServerInvInit == ServerInit => ServerInv
  <1> SUFFICES ASSUME ServerInit PROVE ServerInv
    OBVIOUS
  <1>1. BrokerInv /\ ~closed /\ ~panicked
    BY BrokerInit DEF ServerInit, Init
  <1>2. ServerTypeOK
    BY <1>1, Stages DEF ServerInit, ServerTypeOK, BrokerInv
  <1>3. \A c \in Clients : cl[c].pc = "new"
    BY DEF ServerInit, Init, NewClient
  <1>4. Orderly
    BY <1>1, <1>3 DEF Orderly, ServerInit, Active, Connected
  <1>. QED
    BY <1>1, <1>2, <1>4 DEF ServerInv

\* Each step keeps the invariant of the process.
LEMMA ServerInvStep == ServerInv /\ [ServerNext]_serverVars => ServerInv'
  <1> SUFFICES ASSUME ServerInv, [ServerNext]_serverVars PROVE ServerInv'
    OBVIOUS
  <1>1. BrokerInv'
    BY ServerMoves, BrokerStep DEF ServerInv
  <1>2. ServerTypeOK'
    BY <1>1, ServerTypeStep DEF ServerInv, BrokerInv
  <1>3. Orderly'
    BY OrderlyStep
  <1>. QED
    BY <1>1, <1>2, <1>3 DEF ServerInv

\* The invariant of a server process, through start-up, requests, shutdown,
\* a kill at any moment and a restart.
THEOREM ServerInvariant == ServerSpec => []ServerInv
  BY ServerInvInit, ServerInvStep, PTL DEF ServerSpec

\* Map objects, goroutines, clients and buffers keep their types, and no
\* buffer exceeds its capacity (the default branch of broadcast).
THEOREM ServerTypes == ServerSpec => []ServerTypeOK
  <1>1. ServerInv => ServerTypeOK
    BY DEF ServerInv
  <1>. QED
    BY <1>1, ServerInvariant, PTL

\* A client is handed events of its own channel only, also by a broadcast
\* over a map that has left b.clients.
THEOREM ServerIsolation == ServerSpec => []ChannelIsolation
  <1>1. ServerInv => ChannelIsolation
    BY HandedIsolates DEF ServerInv
  <1>. QED
    BY <1>1, ServerInvariant, PTL

\* While the broker is open a channel with clients has a goroutine.
THEOREM ServerServes == ServerSpec => []ChannelServed
  <1>1. ServerInv => ChannelServed
    BY DEF ServerInv, BrokerInv
  <1>. QED
    BY <1>1, ServerInvariant, PTL

\* Unsubscribe never takes away the map of clients that stay.
THEOREM ServerRegisters == ServerSpec => []RegisteredWhileStreaming
  <1>1. ServerInv => RegisteredWhileStreaming
    BY DEF ServerInv, BrokerInv
  <1>. QED
    BY <1>1, ServerInvariant, PTL

\* Close reaches every handler that was there, and Done is closed a second
\* time only if a request subscribed after Close (Close, Unsubscribe).
THEOREM ServerCloses == ServerSpec => []CloseReachesHandlers
  <1>1. ServerInv => CloseReachesHandlers
    BY DEF ServerInv, BrokerInv
  <1>. QED
    BY <1>1, ServerInvariant, PTL

\* Unless Shutdown gave up waiting, nothing is closed under a request and no
\* Done channel is closed twice.
THEOREM ServerShutsDownInOrder == ServerSpec => []NothingClosedInUse
  <1>1. ServerInv => NothingClosedInUse
    <2>. SUFFICES ASSUME ServerInv, ~forced
                  PROVE  /\ Closing => accepted = {}
                         /\ ~panicked
                         /\ \A c \in Clients : Connected(c) => c \in accepted /\ ~closed
      BY DEF NothingClosedInUse
    <2>1. (Closing => accepted = {}) /\ ~panicked
      BY DEF ServerInv, Orderly
    <2>2. closed => Closing
      BY Stages DEF ServerInv, Orderly, Closing
    <2>3. \A c \in Clients : Connected(c) => c \in accepted
      BY DEF ServerInv, Orderly, Active
    <2>. QED
      BY <2>1, <2>2, <2>3
  <1>. QED
    BY <1>1, ServerInvariant, PTL

=============================================================================
