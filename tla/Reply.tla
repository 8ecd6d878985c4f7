-------------------------------- MODULE Reply --------------------------------
(***************************************************************************)
(* The way of a reply back to Kakao: POST /openclaw/reply looks up the     *)
(* inbound message, stores an outbound row, calls the callback URL and     *)
(* records the outcome.  The statements and the call all run under the     *)
(* context of the HTTP request, which ends when the client goes away or    *)
(* after the request timeout.  Kakao is external: it may accept a callback *)
(* and the answer may still not arrive.                                    *)
(***************************************************************************)
EXTENDS Integers, FiniteSets

CONSTANTS
    Accounts,
    Messages,     \* inbound messages, which the webhook has stored
    Outbounds,    \* ids of rows of table outbound_messages
    Requests,     \* reply requests in progress at one time
    NULL,
    CallbackTTL,  \* CALLBACK_TTL_SECONDS, in ticks
    MaxTime       \* bound: the clock stops here

ASSUME NullAssumption == NULL \notin Accounts \cup Messages \cup Outbounds
ASSUME TimeAssumption == CallbackTTL \in Nat \ {0} /\ MaxTime \in Nat

VARIABLES
    now,
    live,         \* the accounts that exist
    inbound,      \* table inbound_messages
    outbound,     \* table outbound_messages
    req,          \* request -> where its handler has got to
    over,         \* requests whose context is cancelled
    accepted      \* history: the callbacks that Kakao accepted

vars == <<now, live, inbound, outbound, req, over, accepted>>

-----------------------------------------------------------------------------

\* A callback URL is on an allowed Kakao host, elsewhere, or absent.
URLs == {"kakao", "elsewhere", NULL}

\* isValidCallbackURL
IsValidCallbackURL(url) == url = "kakao"

\* Mutant: the expiry is not stored.
InboundRowForever(a, url) ==
    [exists |-> TRUE, account_id |-> a, callback_url |-> url,
     callback_expires_at |-> NULL]

\* The webhook stores an expiry with every URL and NULL without one.
InboundRow(a, url) ==
    [exists |-> TRUE, account_id |-> a, callback_url |-> url,
     callback_expires_at |-> IF url = NULL THEN NULL ELSE CallbackTTL]

OutboundRow(status, a, m) ==
    [status |-> status, account_id |-> a, inbound_message_id |-> m]

NoOutbound == OutboundRow("none", NULL, NULL)

RequestAt(pc, a, m, o) == [pc |-> pc, account |-> a, msg |-> m, out |-> o]

IdleRequest == RequestAt("idle", NULL, NULL, NULL)

Init ==
    /\ now = 0
    /\ live = Accounts
    /\ \E owner \in [Messages -> Accounts], url \in [Messages -> URLs] :
          inbound = [m \in Messages |-> InboundRow(owner[m], url[m])]
    /\ outbound = [o \in Outbounds |-> NoOutbound]
    /\ req = [r \in Requests |-> IdleRequest]
    /\ over = {}
    /\ accepted = {}

-----------------------------------------------------------------------------

\* A request that authentication has tied to account a asks to answer m.
Reply(r, a, m) ==
    /\ req[r].pc = "idle"
    /\ a \in live
    /\ req' = [req EXCEPT ![r] = RequestAt("find", a, m, NULL)]
    /\ over' = over \ {r}
    /\ UNCHANGED <<now, live, inbound, outbound, accepted>>

\* Mutant: the look-up without the tenant check.
MayAnswerAny(a, m) ==
    /\ inbound[m].exists
    /\ inbound[m].callback_url # NULL
    /\ \/ inbound[m].callback_expires_at = NULL
       \/ inbound[m].callback_expires_at > now

\* The checks of Reply: the message exists, is the requester's, and has a
\* callback that has no expiry or has not expired.
MayAnswer(a, m) ==
    /\ inbound[m].exists
    /\ inbound[m].account_id = a
    /\ inbound[m].callback_url # NULL
    /\ \/ inbound[m].callback_expires_at = NULL
       \/ inbound[m].callback_expires_at > now

\* FindInboundByID and the checks; "not found", "callback expired" and a
\* failed query end the request.
FindInbound(r) ==
    /\ req[r].pc = "find"
    /\ req' = [req EXCEPT ![r] =
                  IF r \notin over /\ MayAnswer(req[r].account, req[r].msg)
                  THEN RequestAt("create", req[r].account, req[r].msg, NULL)
                  ELSE IdleRequest]
    /\ UNCHANGED <<now, live, inbound, outbound, over, accepted>>

\* Mutant: one outbound row for each inbound message, written again by a
\* second answer.
FreshOrSame(o, m) ==
    \/ outbound[o].inbound_message_id = m
    \/ /\ outbound[o].status = "none"
       /\ \A p \in Outbounds : outbound[p].inbound_message_id # m

\* gen_random_uuid()
Fresh(o, m) == outbound[o].status = "none"

\* CreateOutbound; the foreign keys need the account and the message.
CreateOutbound(r, o) ==
    /\ req[r].pc = "create"
    /\ r \notin over
    /\ req[r].account \in live
    /\ inbound[req[r].msg].exists
    /\ Fresh(o, req[r].msg)
    /\ outbound' = [outbound EXCEPT ![o] =
                       OutboundRow("pending", req[r].account, req[r].msg)]
    /\ req' = [req EXCEPT ![r] = RequestAt("send", req[r].account, req[r].msg, o)]
    /\ UNCHANGED <<now, live, inbound, over, accepted>>

\* A statement that fails makes the handler return.
CreateOutboundFails(r) ==
    /\ req[r].pc = "create"
    /\ req' = [req EXCEPT ![r] = IdleRequest]
    /\ UNCHANGED <<now, live, inbound, outbound, over, accepted>>

Callback(r) == [out |-> req[r].out, msg |-> req[r].msg, account |-> req[r].account,
                url |-> inbound[req[r].msg].callback_url]

\* Mutant: a status outside 2xx counts as success.
SendCallbackAnyStatus(r) ==
    /\ req[r].pc = "send"
    /\ \/ accepted' = accepted \cup {Callback(r)}
       \/ accepted' = accepted
    /\ req' = [req EXCEPT ![r].pc = "sent"]
    /\ UNCHANGED <<now, live, inbound, outbound, over>>

\* SendCallback: a 2xx answer in time, or an error.  An error may hide that
\* Kakao accepted: the 5 s timeout, a lost connection, a cancelled context.
SendCallback(r) ==
    /\ req[r].pc = "send"
    /\ \/ /\ IsValidCallbackURL(Callback(r).url)
          /\ r \notin over
          /\ accepted' = accepted \cup {Callback(r)}
          /\ req' = [req EXCEPT ![r].pc = "sent"]
       \/ /\ accepted' \in IF IsValidCallbackURL(Callback(r).url)
                           THEN {accepted, accepted \cup {Callback(r)}}
                           ELSE {accepted}
          /\ req' = [req EXCEPT ![r].pc = "failed"]
    /\ UNCHANGED <<now, live, inbound, outbound, over>>

\* UPDATE ... WHERE id: a row that the account took with it is not there.
SetStatus(o, status) ==
    IF outbound[o].status \in {"pending", "sent", "failed"}
    THEN [outbound EXCEPT ![o].status = status]
    ELSE outbound

\* MarkOutboundSent and MarkOutboundFailed run under the request's context;
\* their errors are ignored.
MarkOutbound(r) ==
    /\ req[r].pc \in {"sent", "failed"}
    /\ outbound' = IF r \in over THEN outbound
                   ELSE SetStatus(req[r].out, req[r].pc)
    /\ req' = [req EXCEPT ![r] = IdleRequest]
    /\ UNCHANGED <<now, live, inbound, over, accepted>>

\* The client goes away or the request timeout expires.
ContextDone(r) ==
    /\ req[r].pc # "idle"
    /\ r \notin over
    /\ over' = over \cup {r}
    /\ UNCHANGED <<now, live, inbound, outbound, req, accepted>>

\* The server process ends, or the handler panics.
RequestDies(r) ==
    /\ req[r].pc # "idle"
    /\ req' = [req EXCEPT ![r] = IdleRequest]
    /\ UNCHANGED <<now, live, inbound, outbound, over, accepted>>

\* ON DELETE CASCADE.
DeleteAccount(a) ==
    /\ a \in live
    /\ live' = live \ {a}
    /\ inbound' = [m \in Messages |-> IF inbound[m].account_id = a
                                      THEN [inbound[m] EXCEPT !.exists = FALSE]
                                      ELSE inbound[m]]
    /\ outbound' = [o \in Outbounds |-> IF outbound[o].account_id = a
                                        THEN [outbound[o] EXCEPT !.status = "deleted"]
                                        ELSE outbound[o]]
    /\ UNCHANGED <<now, req, over, accepted>>

Tick ==
    /\ now < MaxTime
    /\ now' = now + 1
    /\ UNCHANGED <<live, inbound, outbound, req, over, accepted>>

-----------------------------------------------------------------------------

Steps(r) ==
    \/ FindInbound(r)
    \/ \E o \in Outbounds : CreateOutbound(r, o)
    \/ CreateOutboundFails(r)
    \/ SendCallback(r)
    \/ MarkOutbound(r)

Serve ==
    \/ \E r \in Requests, a \in Accounts, m \in Messages : Reply(r, a, m)
    \/ \E r \in Requests : Steps(r)
    \/ \E r \in Requests : ContextDone(r)
    \/ \E a \in Accounts : DeleteAccount(a)
    \/ Tick

Next ==
    \/ Serve
    \/ \E r \in Requests : RequestDies(r)

Spec == Init /\ [][Next]_vars

\* A server that never dies, in which a handler that can go on does.
UpSpec ==
    /\ Init
    /\ [][Serve]_vars
    /\ \A r \in Requests : WF_vars(Steps(r))

-----------------------------------------------------------------------------

InboundRows == [exists : BOOLEAN, account_id : Accounts, callback_url : URLs,
                callback_expires_at : {CallbackTTL, NULL}]

OutboundRows == [status : {"none", "pending", "sent", "failed", "deleted"},
                 account_id : Accounts \cup {NULL},
                 inbound_message_id : Messages \cup {NULL}]

RequestRows == [pc : {"idle", "find", "create", "send", "sent", "failed"},
                account : Accounts \cup {NULL}, msg : Messages \cup {NULL},
                out : Outbounds \cup {NULL}]

\* The request has created its row.
HasRow(r) == req[r].pc \in {"send", "sent", "failed"}

\* The type invariant.
TypeOK ==
    /\ now \in 0 .. MaxTime
    /\ live \subseteq Accounts
    /\ inbound \in [Messages -> InboundRows]
    /\ \A m \in Messages : inbound[m].callback_url # NULL =>
          inbound[m].callback_expires_at = CallbackTTL
    /\ outbound \in [Outbounds -> OutboundRows]
    /\ req \in [Requests -> RequestRows]
    /\ \A r \in Requests :
          /\ req[r].pc # "idle" => req[r].account \in Accounts /\ req[r].msg \in Messages
          /\ HasRow(r) => req[r].out \in Outbounds
    /\ over \subseteq Requests
    /\ accepted \subseteq [out : Outbounds, msg : Messages, account : Accounts,
                           url : URLs]

\* A row says sent only if Kakao accepted this very reply, whatever fails,
\* times out or is cancelled (SendCallback before MarkOutboundSent).
SentWasAccepted ==
    \A o \in Outbounds : outbound[o].status = "sent" =>
        \E x \in accepted : x.out = o

\* Kakao hears from an account only about the account's own messages, also
\* when the account is deleted while the request runs (the tenant check of
\* Reply).
OwnRepliesOnly ==
    \A x \in accepted : inbound[x.msg].account_id = x.account

\* A recorded outcome stands: concurrent answers to one message have rows of
\* their own, and none rewrites what another has recorded.
OutcomeIsFinal ==
    [][\A o \in Outbounds :
          outbound[o].status \in {"sent", "failed"} =>
             outbound'[o].status \in {outbound[o].status, "deleted"}]_outbound

\* docs/architecture.md:54-55, a callback that succeeds makes the row sent and
\* one that fails makes it failed: no row stays pending.
PendingIsResolved ==
    \A o \in Outbounds : outbound[o].status = "pending" ~> outbound[o].status # "pending"

=============================================================================
