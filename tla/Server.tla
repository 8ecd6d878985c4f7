------------------------------- MODULE Server -------------------------------
(***************************************************************************)
(* A server process around its SSE broker: main starts the parts of the    *)
(* server one after the other, serves requests until a signal comes, waits *)
(* for the requests in progress and closes what it has opened.  Shutdown   *)
(* waits for 30 s at most, and nothing limits how long a handler is stuck  *)
(* in a write, so the broker may be closed under handlers that still run.  *)
(*                                                                         *)
(* Requests are those for GET /v1/events.  The process may end at any time *)
(* and be started again.                                                   *)
(***************************************************************************)
EXTENDS Broker

VARIABLES
    main,         \* what main is about to do
    accepted,     \* requests in progress
    forced        \* Shutdown gave up waiting for them

serverVars == <<vars, main, accepted, forced>>

-----------------------------------------------------------------------------

\* The order of start-up, ...
BootOrder ==
    [load |-> "connect", connect |-> "ping", ping |-> "migrate",
     migrate |-> "redis", redis |-> "serving"]

\* ... and of the deferred calls, last in, first out.
DeferOrder ==
    [stopJob |-> "closeBroker", closeBroker |-> "closeRedis",
     closeRedis |-> "closeDB", closeDB |-> "exit"]

ServerInit ==
    /\ Init
    /\ main = "load"
    /\ accepted = {}
    /\ forced = FALSE

\* After the last step the broker and the router are made, the cleanup job
\* and the listener are started, and main waits for a signal.
Boot ==
    /\ main \in DOMAIN BootOrder
    /\ main' = BootOrder[main]
    /\ UNCHANGED <<vars, accepted, forced>>

\* A request is read and passes to its handler.  While main drains, one may
\* still come in on a connection that was idle.
Accept(c) ==
    /\ main \in {"serving", "draining"}
    /\ cl[c].pc = "new"
    /\ c \notin accepted
    /\ accepted' = accepted \cup {c}
    /\ UNCHANGED <<vars, main, forced>>

\* Authentication or the rate limiter answers it.
Refuse(c) ==
    /\ c \in accepted
    /\ cl[c].pc = "new"
    /\ cl' = [cl EXCEPT ![c] = GoneClient(c)]
    /\ accepted' = accepted \ {c}
    /\ UNCHANGED <<entry, members, gor, inbox, buf, sent, dropped, publishedOn,
                   closed, panicked, main, forced>>

\* The SSE handler of c, from Subscribe to the end of Unsubscribe.
Request(c) ==
    \/ /\ c \in accepted
       /\ \E ch \in Channels : Subscribe(c, ch)
       /\ UNCHANGED <<main, accepted, forced>>
    \/ /\ Handle(c)
       /\ UNCHANGED <<main, accepted, forced>>
    \/ /\ Unsubscribe(c)
       /\ accepted' = accepted \ {c}
       /\ UNCHANGED <<main, forced>>

\* SIGINT or SIGTERM: Shutdown closes the listener.
Signal ==
    /\ main = "serving"
    /\ main' = "draining"
    /\ UNCHANGED <<vars, accepted, forced>>

\* Mutant: server.Close in place of server.Shutdown.
ShutdownAtOnce ==
    /\ main = "draining"
    /\ main' = "stopJob"
    /\ UNCHANGED <<vars, accepted, forced>>

\* Shutdown returns when no request is in progress ...
Shutdown ==
    /\ main = "draining"
    /\ accepted = {}
    /\ main' = "stopJob"
    /\ UNCHANGED <<vars, accepted, forced>>

\* Mutant: Shutdown under a context without a deadline.
ShutdownWaits == FALSE /\ UNCHANGED serverVars

\* ... or when ServerShutdownTimeout is over.
ShutdownTimesOut ==
    /\ main = "draining"
    /\ accepted # {}
    /\ forced' = TRUE
    /\ main' = "stopJob"
    /\ UNCHANGED <<vars, accepted>>

\* main returns: the deferred calls.  Stop does not wait for the cleanup
\* job, and only Close concerns the broker.
Deferred ==
    /\ main \in DOMAIN DeferOrder
    /\ main' = DeferOrder[main]
    /\ IF main = "closeBroker" THEN Close ELSE UNCHANGED vars
    /\ UNCHANGED <<accepted, forced>>

\* The process is gone, and its connections with it.
Gone ==
    /\ ProcessEnds
    /\ main' = "exited"
    /\ accepted' = {}
    /\ forced' = FALSE

Exited == main = "exit" /\ Gone

\* log.Fatal, at start-up or when the port is taken, SIGKILL, and what the
\* Go runtime does when it notices the unlocked map (Fatal of Broker).
Killed == main \notin {"exit", "exited"} /\ Gone

Restart ==
    /\ main = "exited"
    /\ main' = "load"
    /\ UNCHANGED <<vars, accepted, forced>>

-----------------------------------------------------------------------------

ServerNext ==
    \/ Boot
    \/ \E c \in Clients : Accept(c) \/ Refuse(c) \/ Request(c)
    \/ \E g \in Goroutines : Goroutine(g) /\ UNCHANGED <<main, accepted, forced>>
    \/ \E e \in Events, ch \in Channels :
          Publish(e, ch) /\ UNCHANGED <<main, accepted, forced>>
    \/ Signal
    \/ Shutdown
    \/ ShutdownTimesOut
    \/ Deferred
    \/ Exited
    \/ Killed
    \/ Restart

ServerSpec == ServerInit /\ [][ServerNext]_serverVars

\* Fairness.  Goroutines that can run do run, so does main once a signal has
\* come, and the deadline of Shutdown passes.  Nothing is assumed of clients:
\* a handler may be stuck in a write for ever.
ServerFairSpec ==
    /\ ServerSpec
    /\ \A g \in Goroutines :
          WF_serverVars(Goroutine(g) /\ UNCHANGED <<main, accepted, forced>>)
    /\ WF_serverVars(Shutdown)
    /\ WF_serverVars(ShutdownTimesOut)
    /\ WF_serverVars(Deferred)
    /\ WF_serverVars(Exited)

-----------------------------------------------------------------------------

\* Main has closed what the handlers use, or is about to.
Closing == main \in DOMAIN DeferOrder \cup {"exit", "exited"}

\* The type invariant of the process.
ServerTypeOK ==
    /\ TypeOK
    /\ main \in DOMAIN BootOrder \cup DOMAIN DeferOrder
                \cup {"serving", "draining", "exit", "exited"}
    /\ accepted \subseteq Clients
    /\ forced \in BOOLEAN

\* Unless Shutdown gave up, nothing is closed under a request: neither the
\* broker nor Redis nor the database, no request subscribes with a closed
\* broker, and no Done channel is closed a second time, which panics.
NothingClosedInUse ==
    ~forced => /\ Closing => accepted = {}
               /\ ~panicked
               /\ \A c \in Clients : Connected(c) => c \in accepted /\ ~closed

\* Shutdown ends, though a client may neither read nor go away and a
\* handler that is stuck in a write sees neither its timeout nor Done.
ShutdownEnds == main = "draining" ~> main = "exited"

=============================================================================
