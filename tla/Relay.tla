------------------------------- MODULE Relay -------------------------------
(***************************************************************************)
(* Pairing together with the SSE connections of the OpenClaw clients: a    *)
(* client presents the token of its session, the authentication middleware *)
(* looks up the session and, if that is paired, its account, and the       *)
(* handler subscribes the connection to the channel of the account or else *)
(* to the channel of the session.  The choice is made once; sessions and   *)
(* accounts change while the connection is open.                           *)
(*                                                                         *)
(* The rows and the requests that change them are those of module Pairing. *)
(* The broker appears as what it does to the pairing_complete event: it    *)
(* hands it to some of the connections that listen to the channel.         *)
(***************************************************************************)
EXTENDS Pairing

CONSTANT Streams  \* GET /v1/events requests in progress at one time

VARIABLE stream   \* request -> where it has got to

relayVars == <<vars, stream>>

\* A request: the session row it found, the account it may read (NULL if
\* none), and the accounts that pairing_complete events have told it of.
StreamAt(pc, s, a) == [pc |-> pc, session |-> s, account |-> a, told |-> {}]

NoStream == StreamAt("closed", NULL, NULL)

RelayInit ==
    /\ Init
    /\ stream = [x \in Streams |-> NoStream]

-----------------------------------------------------------------------------

\* Mutant: a paired session is taken to have an account.
FindByTokenHashNil(x, s) ==
    /\ stream[x].pc = "closed"
    /\ sessions[s].status \in {"pending_pairing", "paired"}
    /\ stream' = [stream EXCEPT ![x] =
                     IF sessions[s].status = "paired"
                     THEN StreamAt("account", s, sessions[s].account_id)
                     ELSE StreamAt("limit", s, NULL)]
    /\ UNCHANGED vars

\* The middleware hashes the token and looks for a pending or paired session;
\* only a paired one leads on to an account.  An unknown or revoked token and
\* a failed query end the request.
FindByTokenHash(x, s) ==
    /\ stream[x].pc = "closed"
    /\ sessions[s].status \in {"pending_pairing", "paired"}
    /\ stream' = [stream EXCEPT ![x] =
                     IF sessions[s].status = "paired" /\ sessions[s].account_id # NULL
                     THEN StreamAt("account", s, sessions[s].account_id)
                     ELSE StreamAt("limit", s, NULL)]
    /\ UNCHANGED vars

\* The account is looked up in a statement of its own.  If it is gone, the
\* request goes on without one.
FindAccount(x) ==
    LET a == stream[x].account
    IN /\ stream[x].pc = "account"
       /\ stream' = [stream EXCEPT ![x] =
                        StreamAt("limit", stream[x].session,
                                 IF accounts[a].status = "live" THEN a ELSE NULL)]
       /\ UNCHANGED vars

\* So it does if the statement fails.
FindAccountFails(x) ==
    /\ stream[x].pc = "account"
    /\ stream' = [stream EXCEPT ![x] = StreamAt("limit", stream[x].session, NULL)]
    /\ UNCHANGED vars

\* The rate limiter refuses the request; it is asked for accounts only.
RateLimited(x) ==
    /\ stream[x].pc = "limit"
    /\ stream[x].account # NULL
    /\ stream' = [stream EXCEPT ![x] = NoStream]
    /\ UNCHANGED vars

\* ServeHTTP subscribes and streams.
ServeHTTP(x) ==
    /\ stream[x].pc = "limit"
    /\ stream' = [stream EXCEPT ![x].pc = "open"]
    /\ UNCHANGED vars

\* Mutant: the session channel without the session's id in its name.
OnAnySession(x, s) == stream[x].pc = "open" /\ stream[x].account = NULL

\* The channel of x: the account's, or "session:" and the session's id.
OnSession(x, s) == /\ stream[x].pc = "open"
                   /\ stream[x].account = NULL
                   /\ stream[x].session = s

OnAccount(x, a) == /\ stream[x].pc = "open"
                   /\ stream[x].account = a

\* PublishPairingComplete publishes on both channels; connections that the
\* event does not reach are those of Announce alone.
AnnounceToStreams(h) ==
    LET s == hnd[h].session
        a == sessions[s].account_id
    IN /\ Announce(h)
       /\ SessionExists(s)
       /\ a # NULL
       /\ \E X \in SUBSET {x \in Streams : OnSession(x, s) \/ OnAccount(x, a)} :
             /\ X # {}
             /\ stream' = [x \in Streams |->
                              IF x \in X THEN [stream[x] EXCEPT !.told = @ \cup {a}]
                                         ELSE stream[x]]

\* Mutant: streams are exempt from the request timeout.
RequestOverUnlessOpen(x) ==
    /\ stream[x].pc \in {"account", "limit"}
    /\ stream' = [stream EXCEPT ![x] = NoStream]
    /\ UNCHANGED vars

\* The 60 s of the request are over, the client goes, a write fails.
RequestOver(x) ==
    /\ stream[x].pc # "closed"
    /\ stream' = [stream EXCEPT ![x] = NoStream]
    /\ UNCHANGED vars

-----------------------------------------------------------------------------

Stream(x) ==
    \/ \E s \in Sessions : FindByTokenHash(x, s)
    \/ FindAccount(x)
    \/ FindAccountFails(x)
    \/ RateLimited(x)
    \/ ServeHTTP(x)
    \/ RequestOver(x)

RelayNext ==
    \/ Next /\ UNCHANGED stream
    \/ \E h \in Handlers : AnnounceToStreams(h)
    \/ \E x \in Streams : Stream(x)

RelaySpec == RelayInit /\ [][RelayNext]_relayVars

\* Steps of request x on its way from the token of s to an account's channel.
FindAccountFor(s, x) == stream[x].session = s /\ FindAccount(x)
ServeAccountOf(s, x) == stream[x].session = s /\ stream[x].account # NULL /\ ServeHTTP(x)

\* Fairness.  The ticker of the cleanup job keeps firing and the clock keeps
\* running.  The timeout ends every request whose client reads what it is
\* sent (module Server has clients that do not).  The client of a session
\* keeps connecting, and its requests do not fail at the same place every
\* time.  Nothing is assumed of Kakao users, the dashboard and the handlers.
RelayFairSpec ==
    /\ RelaySpec
    /\ WF_relayVars(DeleteExpired /\ UNCHANGED stream)
    /\ WF_relayVars(Tick /\ UNCHANGED stream)
    /\ \A x \in Streams :
          /\ WF_relayVars(RequestOver(x))
          /\ \A s \in Sessions :
                /\ SF_relayVars(FindByTokenHash(x, s))
                /\ SF_relayVars(FindAccountFor(s, x))
                /\ SF_relayVars(ServeAccountOf(s, x))

-----------------------------------------------------------------------------

\* The type invariant of the streams.
RelayTypeOK ==
    /\ TypeOK
    /\ stream \in [Streams -> [pc : {"closed", "account", "limit", "open"},
                              session : Sessions \cup {NULL},
                              account : Accounts \cup {NULL},
                              told : SUBSET Accounts]]
    /\ \A x \in Streams : stream[x].pc = "account" => stream[x].account \in Accounts

\* Isolation from the token to the stream: a connection that listens to an
\* account, or is told of one, presented the token of the session that the
\* account was created for, although rows change between the two look-ups
\* and after them (AuthMiddleware, PublishPairingComplete).
StreamsAreOwn ==
    \A x \in Streams :
        \A a \in stream[x].told \cup ({stream[x].account} \ {NULL}) :
            /\ origin[a] # NULL
            /\ origin[a].session = stream[x].session

Revoked(s) == sessions[s].status \in {"expired", "disconnected", "deleted"}

\* Revoking a session ends it for good, although the handler of its stream
\* never looks at the session again: the cleanup job deletes the row, the
\* timeout ends the connection, and the token leads to no account any more.
RevokedLosesAll ==
    \A s \in Sessions :
        Revoked(s) ~> [](/\ sessions[s].status = "deleted"
                         /\ \A x \in Streams :
                               stream[x].session = s => stream[x].account = NULL)

\* A session whose client has something to wait for: its code to be redeemed
\* or, once that was done, the messages of its account.
Waiting(s) ==
    \/ sessions[s].status = "pending_pairing"
    \/ sessions[s].status = "paired" /\ sessions[s].account_id # NULL

\* A stream of the session's own client is on its account's channel.
ReachesAccount(s) ==
    /\ sessions[s].account_id # NULL
    /\ \E x \in Streams : stream[x].session = s /\ OnAccount(x, sessions[s].account_id)

\* No client waits for ever: its code expires and the cleanup job deletes the
\* session, it is revoked, its account is deleted, or it gets to its
\* account's channel.  To be connected on the session channel is not enough:
\* a client that waits there reaches its account even if pairing_complete is
\* lost, because the timeout makes it connect again.
WaitingEnds ==
    \A s \in Sessions : Waiting(s) ~> ~Waiting(s) \/ ReachesAccount(s)

=============================================================================
