------------------------------ MODULE Delivery ------------------------------
(***************************************************************************)
(* The way of a Kakao message to the OpenClaw client: the webhook stores   *)
(* it as queued and publishes it; a client that connects is first sent the *)
(* queued messages, which are marked delivered, and then what the broker   *)
(* hands it; the cleanup job expires queued messages whose callback has    *)
(* run out.                                                                *)
(*                                                                         *)
(* The broker (module Broker) appears as what it does to a message that    *)
(* was published: one copy for each of the process's Redis subscriptions   *)
(* to the channel that was up, broadcast later to the connections that are *)
(* registered then, dropped for those whose buffer is full.                *)
(***************************************************************************)
EXTENDS Integers, FiniteSets, Sequences, Functions

CONSTANTS
    Accounts,
    Convs,
    Messages,     \* ids of rows of table inbound_messages
    Webhooks,     \* webhook requests with a message, in progress at one time
    Conns,        \* SSE connections open at one time
    NULL,
    CallbackTTL,  \* CALLBACK_TTL_SECONDS, in ticks
    BufCap,       \* capacity of a client's event buffer
    MaxCopies,    \* bound: subscriptions of the process to one channel
    MaxTime       \* bound: the clock stops here

ASSUME NullAssumption == NULL \notin Accounts \cup Convs \cup Messages
ASSUME BoundAssumption ==
    /\ CallbackTTL \in Nat \ {0} /\ BufCap \in Nat \ {0}
    /\ MaxCopies \in Nat \ {0} /\ MaxTime \in Nat

VARIABLES
    now,
    account,      \* account -> "none", "live" or "deleted"
    held,         \* the accounts that a paired session leads to
    link,         \* conversation -> the account it is paired with, or NULL
    inbound,      \* table inbound_messages
    web,          \* webhook handler -> where it has got to
    wire,         \* message -> copies of its event that were not broadcast yet
    conn,         \* SSE handler -> where it has got to
    buf,          \* connection -> Client.Events
    written,      \* history: connection -> messages written to it so far
    received,     \* history: message -> accounts to whose clients it was written
    missed        \* history: connection -> messages that passed it by

vars == <<now, account, held, link, inbound, web, wire, conn, buf, written, received,
          missed>>

-----------------------------------------------------------------------------

Row(status, a, expires, n) ==
    [status |-> status, account_id |-> a, callback_expires_at |-> expires,
     created |-> n]

\* A row that is gone keeps its account as history: an event that was
\* published on that account's channel is still under way.
NoRow == Row("none", NULL, NULL, 0)

Exists(m) == inbound[m].status \in {"queued", "delivered", "expired"}

WebAt(pc, a, expires, m) ==
    [pc |-> pc, account |-> a, expires |-> expires, msg |-> m]

IdleWeb == WebAt("idle", NULL, NULL, NULL)

ConnAt(pc, a, todo) == [pc |-> pc, account |-> a, todo |-> todo]

Offline == ConnAt("offline", NULL, {})

Init ==
    /\ now = 0
    /\ account = [a \in Accounts |-> "none"]
    /\ held = {}
    /\ link = [k \in Convs |-> NULL]
    /\ inbound = [m \in Messages |-> NoRow]
    /\ web = [w \in Webhooks |-> IdleWeb]
    /\ wire = [m \in Messages |-> 0]
    /\ conn = [c \in Conns |-> Offline]
    /\ buf = [c \in Conns |-> <<>>]
    /\ written = [c \in Conns |-> {}]
    /\ received = [m \in Messages |-> {}]
    /\ missed = [c \in Conns |-> {}]

-----------------------------------------------------------------------------
(* The webhook.                                                            *)

\* A message of a paired user.  With a callback URL the message is given an
\* expiry, without one it has NULL; then the account is read with the
\* conversation.  Bound: the clock does not stop before the callback expires.
Webhook(w, k, hasCallback) ==
    /\ web[w].pc = "idle"
    /\ link[k] # NULL
    /\ hasCallback => now + CallbackTTL < MaxTime
    /\ web' = [web EXCEPT ![w] =
                  WebAt("create", link[k],
                        IF hasCallback THEN now + CallbackTTL ELSE NULL, NULL)]
    /\ UNCHANGED <<now, account, held, link, inbound, wire, conn, buf, written,
                   received, missed>>

\* created_at orders the rows.
NextCreated == Cardinality({m \in Messages : inbound[m].status # "none"}) + 1

\* Mutant: the schema without the foreign key.
CreateInboundUnchecked(w, m) ==
    /\ web[w].pc = "create"
    /\ inbound[m].status = "none"
    /\ inbound' = [inbound EXCEPT ![m] =
                      Row("queued", web[w].account, web[w].expires, NextCreated)]
    /\ web' = [web EXCEPT ![w] = WebAt("publish", web[w].account, NULL, m)]
    /\ UNCHANGED <<now, account, held, link, wire, conn, buf, written, received,
                   missed>>

\* The foreign key refuses an account that is gone, and the handler then
\* returns (WebhookDies, like every other error).
CreateInbound(w, m) ==
    /\ web[w].pc = "create"
    /\ account[web[w].account] = "live"
    /\ inbound[m].status = "none"
    /\ inbound' = [inbound EXCEPT ![m] =
                      Row("queued", web[w].account, web[w].expires, NextCreated)]
    /\ web' = [web EXCEPT ![w] = WebAt("publish", web[w].account, NULL, m)]
    /\ UNCHANGED <<now, account, held, link, wire, conn, buf, written, received,
                   missed>>

\* Mutant: the client is registered with the broker after the replay.
RegisteredAfterReplay(c) == conn[c].pc = "live"

\* Subscribe comes first, so the broker knows the client from then on.
Registered(c) == conn[c].pc # "offline"

\* The connections on the channel of m's account.
Audience(m) == {c \in Conns : Registered(c) /\ conn[c].account = inbound[m].account_id}

\* The event of m does not get to the connections C.  One that has yet to
\* make its query does not depend on it.
PassesBy(m, C) ==
    [c \in Conns |-> IF c \in C /\ conn[c].pc # "find" THEN missed[c] \cup {m}
                                                       ELSE missed[c]]

\* broker.Publish; the error is only logged.  No copy is made when Redis
\* fails or no subscription of this channel is up yet, which Subscribe does
\* not wait for.
Publish(w) ==
    /\ web[w].pc = "publish"
    /\ \E n \in 0 .. MaxCopies :
          /\ wire' = [wire EXCEPT ![web[w].msg] = n]
          /\ missed' = IF n = 0 THEN PassesBy(web[w].msg, Audience(web[w].msg))
                                ELSE missed
    /\ web' = [web EXCEPT ![w] = IdleWeb]
    /\ UNCHANGED <<now, account, held, link, inbound, conn, buf, written, received>>

\* A failed statement, a panic, the end of the process.
WebhookDies(w) ==
    /\ web[w].pc # "idle"
    /\ web' = [web EXCEPT ![w] = IdleWeb]
    /\ missed' = IF web[w].pc = "publish"
                 THEN PassesBy(web[w].msg, Audience(web[w].msg)) ELSE missed
    /\ UNCHANGED <<now, account, held, link, inbound, wire, conn, buf, written,
                   received>>

\* Mutant: a send into a buffer that is full.
BroadcastUnbounded(m) ==
    /\ wire[m] > 0
    /\ wire' = [wire EXCEPT ![m] = @ - 1]
    /\ buf' = [c \in Conns |-> IF c \in Audience(m) THEN Append(buf[c], m)
                                                    ELSE buf[c]]
    /\ UNCHANGED <<now, account, held, link, inbound, web, conn, written, received,
                   missed>>

\* The broker broadcasts one copy on the channel of the message's account.
Broadcast(m) ==
    LET here == Audience(m)
        full == {c \in here : Len(buf[c]) = BufCap}
    IN /\ wire[m] > 0
       /\ wire' = [wire EXCEPT ![m] = @ - 1]
       /\ buf' = [c \in Conns |-> IF c \in here \ full THEN Append(buf[c], m)
                                                       ELSE buf[c]]
       /\ missed' = PassesBy(m, full)
       /\ UNCHANGED <<now, account, held, link, inbound, web, conn, written, received>>

-----------------------------------------------------------------------------
(* The SSE handler.                                                        *)

\* The session behind the client's token is paired with account a.  (Module
\* Relay has the two look-ups and what may come between them.)
Authenticated(a) == a \in held

\* A client of account a passes authentication and is subscribed.
Connect(c, a) ==
    /\ conn[c].pc = "offline"
    /\ Authenticated(a)
    /\ conn' = [conn EXCEPT ![c] = ConnAt("find", a, {})]
    /\ UNCHANGED <<now, account, held, link, inbound, web, wire, buf, written,
                   received, missed>>

\* Mutant: the query without its account condition.
QueuedForAnyone(a) == {m \in Messages : inbound[m].status = "queued"}

\* Mutant: the query looks for messages that can still be answered.
QueuedWithCallback(a) == {m \in Messages : /\ inbound[m].status = "queued"
                                           /\ inbound[m].account_id = a
                                           /\ inbound[m].callback_expires_at # NULL}

QueuedFor(a) == {m \in Messages : /\ inbound[m].status = "queued"
                                  /\ inbound[m].account_id = a}

FindQueued(c) ==
    /\ conn[c].pc = "find"
    /\ conn' = [conn EXCEPT ![c] = ConnAt("replay", conn[c].account,
                                          QueuedFor(conn[c].account))]
    /\ UNCHANGED <<now, account, held, link, inbound, web, wire, buf, written,
                   received, missed>>

\* The event of m is still to come, from its webhook or from the broker.
ToCome(m) == wire[m] > 0 \/ \E w \in Webhooks : web[w].msg = m

\* The query fails: the handler goes on without a replay, and what was
\* published before passes this connection by.
FindQueuedFails(c) ==
    /\ conn[c].pc = "find"
    /\ conn' = [conn EXCEPT ![c] = ConnAt("live", conn[c].account, {})]
    /\ missed' = [missed EXCEPT ![c] =
                     {m \in QueuedFor(conn[c].account) : ~ToCome(m)}]
    /\ UNCHANGED <<now, account, held, link, inbound, web, wire, buf, written,
                   received>>

\* The rows were read with ORDER BY created_at.
IsNext(m, todo) == \A n \in todo : inbound[m].created <= inbound[n].created

Write(c, m) ==
    /\ written' = [written EXCEPT ![c] = @ \cup {m}]
    /\ received' = [received EXCEPT ![m] = @ \cup {conn[c].account}]

\* MarkDelivered: the WHERE clause names the id only.
MarkRow(m) == IF Exists(m) THEN [inbound EXCEPT ![m].status = "delivered"]
                           ELSE inbound

\* Mutant: rows are marked before they are sent.
SendQueuedMarked(c) ==
    \E m \in conn[c].todo :
        /\ conn[c].pc = "replay"
        /\ IsNext(m, conn[c].todo)
        /\ inbound' = MarkRow(m)
        /\ conn' = [conn EXCEPT ![c].pc = "mark"]
        /\ UNCHANGED <<now, account, held, link, web, wire, buf, written, received,
                       missed>>

\* sendRawEvent of the next row of the replay.
SendQueued(c) ==
    \E m \in conn[c].todo :
        /\ conn[c].pc = "replay"
        /\ IsNext(m, conn[c].todo)
        /\ Write(c, m)
        /\ conn' = [conn EXCEPT ![c].pc = "mark"]
        /\ UNCHANGED <<now, account, held, link, inbound, web, wire, buf, missed>>

\* The write fails: the rest of the replay is given up, and the handler goes
\* on to its loop with a connection that takes nothing any more.
SendQueuedFails(c) ==
    /\ conn[c].pc = "replay"
    /\ conn[c].todo # {}
    /\ conn' = [conn EXCEPT ![c] = ConnAt("broken", conn[c].account, {})]
    /\ UNCHANGED <<now, account, held, link, inbound, web, wire, buf, written,
                   received, missed>>

MarkDelivered(c) ==
    \E m \in conn[c].todo :
        /\ conn[c].pc = "mark"
        /\ IsNext(m, conn[c].todo)
        /\ inbound' = MarkRow(m)
        /\ conn' = [conn EXCEPT ![c] = ConnAt("replay", conn[c].account,
                                              conn[c].todo \ {m})]
        /\ UNCHANGED <<now, account, held, link, web, wire, buf, written, received,
                       missed>>

\* The error of MarkDelivered is only logged.
MarkDeliveredFails(c) ==
    \E m \in conn[c].todo :
        /\ conn[c].pc = "mark"
        /\ IsNext(m, conn[c].todo)
        /\ conn' = [conn EXCEPT ![c] = ConnAt("replay", conn[c].account,
                                              conn[c].todo \ {m})]
        /\ UNCHANGED <<now, account, held, link, inbound, web, wire, buf, written,
                       received, missed>>

\* "connected" is sent and the loop over client.Events begins.
ReplayDone(c) ==
    /\ conn[c].pc = "replay"
    /\ conn[c].todo = {}
    /\ conn' = [conn EXCEPT ![c].pc = "live"]
    /\ UNCHANGED <<now, account, held, link, inbound, web, wire, buf, written,
                   received, missed>>

\* An event of the buffer is written; the row keeps its status.
SendLive(c) ==
    /\ conn[c].pc = "live"
    /\ buf[c] # <<>>
    /\ Write(c, Head(buf[c]))
    /\ buf' = [buf EXCEPT ![c] = Tail(@)]
    /\ UNCHANGED <<now, account, held, link, inbound, web, wire, conn, missed>>

\* The client goes, the 60 s are over, a write of the loop fails, the process
\* ends: what the buffer holds goes with the connection.
Disconnect(c) ==
    /\ conn[c].pc # "offline"
    /\ conn' = [conn EXCEPT ![c] = Offline]
    /\ buf' = [buf EXCEPT ![c] = <<>>]
    /\ written' = [written EXCEPT ![c] = {}]
    /\ missed' = [missed EXCEPT ![c] = {}]
    /\ UNCHANGED <<now, account, held, link, inbound, web, wire, received>>

-----------------------------------------------------------------------------
(* The cleanup job, the dashboard, pairing.                                *)

\* Mutant: only what has run out since the last round.
OverdueSinceLast(m) == /\ inbound[m].status = "queued"
                       /\ inbound[m].callback_expires_at = now - 1

\* The WHERE clause of MarkExpired.
Overdue(m) == /\ inbound[m].status = "queued"
              /\ inbound[m].callback_expires_at # NULL
              /\ inbound[m].callback_expires_at < now

MarkExpired ==
    /\ \E m \in Messages : Overdue(m)
    /\ inbound' = [m \in Messages |-> IF Overdue(m)
                                      THEN [inbound[m] EXCEPT !.status = "expired"]
                                      ELSE inbound[m]]
    /\ UNCHANGED <<now, account, held, link, web, wire, conn, buf, written,
                   received, missed>>

\* ON DELETE CASCADE for the messages, SET NULL for conversations and sessions.
DeleteAccount(a) ==
    /\ account[a] = "live"
    /\ account' = [account EXCEPT ![a] = "deleted"]
    /\ inbound' = [m \in Messages |-> IF inbound[m].account_id = a
                                      THEN [inbound[m] EXCEPT !.status = "deleted"]
                                      ELSE inbound[m]]
    /\ held' = held \ {a}
    /\ link' = [k \in Convs |-> IF link[k] = a THEN NULL ELSE link[k]]
    /\ UNCHANGED <<now, web, wire, conn, buf, written, received, missed>>

\* The effects of /pair and /unpair (module Pairing): /pair makes a new
\* account, also for a conversation that a racing request has paired.  The
\* account of a request that lost the race for its code, or whose session is
\* gone by then, is not held by a session.
Pair(k, a) ==
    /\ account[a] = "none"
    /\ account' = [account EXCEPT ![a] = "live"]
    /\ held' \in {held, held \cup {a}}
    /\ link' = [link EXCEPT ![k] = a]
    /\ UNCHANGED <<now, inbound, web, wire, conn, buf, written, received, missed>>

Unpair(k) ==
    /\ link[k] # NULL
    /\ link' = [link EXCEPT ![k] = NULL]
    /\ UNCHANGED <<now, account, held, inbound, web, wire, conn, buf, written,
                   received, missed>>

\* The session of account a is disconnected, expired or deleted.  A session
\* is paired once, so no other will lead to the account.
RevokeSession(a) ==
    /\ a \in held
    /\ held' = held \ {a}
    /\ UNCHANGED <<now, account, link, inbound, web, wire, conn, buf, written,
                   received, missed>>

Tick ==
    /\ now < MaxTime
    /\ now' = now + 1
    /\ UNCHANGED <<account, held, link, inbound, web, wire, conn, buf, written,
                   received, missed>>

-----------------------------------------------------------------------------

Web(w) ==
    \/ \E k \in Convs, hasCallback \in BOOLEAN : Webhook(w, k, hasCallback)
    \/ \E m \in Messages : CreateInbound(w, m)
    \/ Publish(w)
    \/ WebhookDies(w)

Conn(c) ==
    \/ \E a \in Accounts : Connect(c, a)
    \/ FindQueued(c)
    \/ FindQueuedFails(c)
    \/ SendQueued(c)
    \/ SendQueuedFails(c)
    \/ MarkDelivered(c)
    \/ MarkDeliveredFails(c)
    \/ ReplayDone(c)
    \/ SendLive(c)
    \/ Disconnect(c)

Next ==
    \/ \E w \in Webhooks : Web(w)
    \/ \E m \in Messages : Broadcast(m)
    \/ \E c \in Conns : Conn(c)
    \/ MarkExpired
    \/ \E a \in Accounts : DeleteAccount(a) \/ RevokeSession(a)
    \/ \E k \in Convs, a \in Accounts : Pair(k, a)
    \/ \E k \in Convs : Unpair(k)
    \/ Tick

Spec == Init /\ [][Next]_vars

\* A step of c's handler on behalf of a client of account a.
For(a, c, A) == conn[c].account = a /\ A

\* Fairness.  The clock and the cleanup job go on; the request timeout ends
\* every connection; a client whose session is paired keeps coming back; a
\* connection is not cut, and a statement does not fail, at the same place
\* every time.
FairSpec ==
    /\ Spec
    /\ WF_vars(Tick) /\ WF_vars(MarkExpired)
    /\ \A c \in Conns : WF_vars(Disconnect(c))
    /\ \A c \in Conns, a \in Accounts :
          /\ SF_vars(Connect(c, a))
          /\ SF_vars(For(a, c, FindQueued(c)))
          /\ SF_vars(For(a, c, SendQueued(c)))
          /\ SF_vars(For(a, c, MarkDelivered(c)))

-----------------------------------------------------------------------------

\* callback_expires_at, NULL for a message without a callback.
Expiries == 0 .. (MaxTime + CallbackTTL) \cup {NULL}

InboundRows == [status : {"none", "queued", "delivered", "expired", "deleted"},
                account_id : Accounts \cup {NULL},
                callback_expires_at : Expiries,
                created : Nat]

WebRows == [pc : {"idle", "create", "publish"}, account : Accounts \cup {NULL},
            expires : Expiries, msg : Messages \cup {NULL}]

ConnRows == [pc : {"offline", "find", "replay", "mark", "live", "broken"},
             account : Accounts \cup {NULL}, todo : SUBSET Messages]

\* The type invariant.
TypeOK ==
    /\ now \in 0 .. MaxTime
    /\ account \in [Accounts -> {"none", "live", "deleted"}]
    /\ held \subseteq Accounts
    /\ link \in [Convs -> Accounts \cup {NULL}]
    /\ inbound \in [Messages -> InboundRows]
    /\ web \in [Webhooks -> WebRows]
    /\ \A w \in Webhooks :
          /\ web[w].pc # "idle" => web[w].account \in Accounts
          /\ web[w].pc = "publish" => web[w].msg \in Messages
    /\ wire \in [Messages -> 0 .. MaxCopies]
    /\ conn \in [Conns -> ConnRows]
    /\ \A c \in Conns : conn[c].pc # "offline" => conn[c].account \in Accounts
    /\ buf \in [Conns -> Seq(Messages)]
    /\ \A c \in Conns : Len(buf[c]) <= BufCap
    /\ written \in [Conns -> SUBSET Messages]
    /\ received \in [Messages -> SUBSET Accounts]
    /\ missed \in [Conns -> SUBSET Messages]

\* A message is written to clients of one account only, the one its
\* conversation was paired with when the webhook read it: by the replay and
\* by the broker, before and after an /unpair, a new /pair or the account's deletion.
OwnMessagesOnly ==
    \A m \in Messages : received[m] \subseteq {inbound[m].account_id}

\* A row says delivered only if the message was written to a client: what a
\* connection that broke, or a process that died, did not send stays queued
\* (sendQueuedMessages sends first and marks second).
DeliveredWasWritten ==
    \A m \in Messages : inbound[m].status = "delivered" => received[m] # {}

\* Between the replay and the live stream nothing falls through: when the
\* loop of a connection has begun, each queued message of its account was
\* written to it, is in its buffer or is still to come, unless this very
\* connection was passed by: by an event that Redis or its own full buffer
\* lost after its query, or by a query that failed (Subscribe comes before
\* the query of sendQueuedMessages).
NoGap ==
    \A c \in Conns, m \in Messages :
        /\ conn[c].pc = "live"
        /\ inbound[m].status = "queued"
        /\ inbound[m].account_id = conn[c].account
        /\ m \notin missed[c]
        /\ ~ToCome(m)
        => m \in written[c] \cup Range(buf[c])

\* Nobody can fetch m, and nothing will expire it.
Abandoned(m) ==
    /\ inbound[m].account_id \notin held
    /\ inbound[m].callback_expires_at = NULL

\* A message does not stay queued while a client may come for it, and one
\* that has a callback does not stay queued at all, even if its event is lost
\* and its session revoked: a later connection replays it, the cleanup job
\* expires it or its account is deleted.
QueuedIsResolved ==
    \A m \in Messages :
        inbound[m].status = "queued" ~> inbound[m].status # "queued" \/ Abandoned(m)

-----------------------------------------------------------------------------
(* What delivery promises, in module Mailbox.                              *)

M == INSTANCE Mailbox WITH
        state <- [m \in Messages |-> inbound[m].status],
        owner <- [m \in Messages |-> inbound[m].account_id],
        shown <- received,
        shut  <- {a \in Accounts : account[a] = "deleted"}

\* Webhooks, replays, broadcasts, the cleanup job and the deletion of
\* accounts implement a mailbox that delivers at least once: a row that was
\* delivered or has expired is never replayed again as queued, an account
\* that is gone receives no row, and what is marked was shown to its owner.
ImplementsMailbox == M!Spec

=============================================================================
