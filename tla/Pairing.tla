------------------------------ MODULE Pairing ------------------------------
(***************************************************************************)
(* Sessions, accounts and conversations of the relay, and the operations   *)
(* that tie them together: the dashboard and the OpenClaw client create    *)
(* sessions and poll their status, a Kakao user sends /pair and /unpair,   *)
(* the dashboard disconnects and deletes, the cleanup job purges.          *)
(*                                                                         *)
(* Every request handler runs concurrently with every other one, in one or *)
(* several server processes that share one PostgreSQL database.  A step of *)
(* a handler is one statement, or one transaction, of that database; what  *)
(* a handler holds in local variables between two statements is hnd[h] or  *)
(* poll[p].  Tables are functions from identifiers to rows, and a UUID     *)
(* that gen_random_uuid() draws is never drawn again.                      *)
(***************************************************************************)
EXTENDS Integers, FiniteSets

CONSTANTS
    Sessions,     \* ids of rows of table sessions
    Accounts,     \* ids of rows of table accounts
    Convs,        \* conversation keys, "channelID:userKey"
    Codes,        \* pairing codes
    Handlers,     \* /pair and /unpair requests in progress at one time
    Pollers,      \* status requests in progress at one time
    NULL,         \* SQL NULL, a nil pointer, no value
    PairingTTL,   \* sessionPairingExpiryMins, in ticks
    MaxTime,      \* bound: the clock stops here
    MaxTokens     \* bound: relay tokens drawn for one account

ASSUME NullAssumption ==
    /\ NULL \notin Sessions \cup Accounts \cup Convs \cup Codes
    /\ NULL \notin [session : Sessions, conv : Convs]
ASSUME TimeAssumption ==
    /\ PairingTTL \in Nat \ {0}
    /\ MaxTime \in Nat
    /\ MaxTokens \in Nat \ {0}

VARIABLES
    now,          \* NOW() of the database and time.Now() of the servers
    sessions,     \* table sessions
    accounts,     \* table accounts
    convs,        \* table conversation_mappings, by its unique key
    hnd,          \* handler -> where a /pair or /unpair request has got to
    poll,         \* poller -> the session GetStatus is about to expire
    published,    \* the pairing_complete events handed to the broker
    origin        \* history: who each account was created for

vars == <<now, sessions, accounts, convs, hnd, poll, published, origin>>

-----------------------------------------------------------------------------
(* The rows.                                                               *)

\* '9999-12-31 23:59:59+00': later than every time of a behaviour.
Forever == MaxTime + PairingTTL + 1

Times == 0 .. Forever

\* "none" is an id that was not drawn yet, "deleted" one whose row is gone.
SessionStatus == {"pending_pairing", "paired", "expired", "disconnected"}

\* Relay tokens are random; the n-th one drawn for account a is <<a, n>>.
RelayTokens == Accounts \X (1 .. MaxTokens)

\* util.HashToken is SHA-256, taken to be injective.
HashToken(token) == <<"sha256", token>>

UnpairedSession(status, code, expires_at) ==
    [status |-> status, pairing_code |-> code, expires_at |-> expires_at,
     account_id |-> NULL, paired_conversation_key |-> NULL,
     relayToken |-> NULL]

NoSession == UnpairedSession("none", NULL, 0)

DeletedSession == UnpairedSession("deleted", NULL, 0)

NoConv == [exists |-> FALSE, state |-> "unpaired", account_id |-> NULL]

NewConv == [exists |-> TRUE, state |-> "unpaired", account_id |-> NULL]

NoAccount == [status |-> "none", token |-> 0]

DeletedAccount == [status |-> "deleted", token |-> 0]

\* The local variables of a request that has got to pc.
HandlerAt(pc, k, c, s, a) ==
    [pc |-> pc, conv |-> k, code |-> c, session |-> s, account |-> a]

IdleHandler == HandlerAt("idle", NULL, NULL, NULL, NULL)

SessionExists(s) == sessions[s].status \in SessionStatus

Init ==
    /\ now = 0
    /\ sessions = [s \in Sessions |-> NoSession]
    /\ accounts = [a \in Accounts |-> NoAccount]
    /\ convs = [k \in Convs |-> NoConv]
    /\ hnd = [h \in Handlers |-> IdleHandler]
    /\ poll = [p \in Pollers |-> NULL]
    /\ published = {}
    /\ origin = [a \in Accounts |-> NULL]

-----------------------------------------------------------------------------
(* Creating a session and asking for its status.                           *)

\* The INSERT fails, and nothing changes, when the pairing code that was
\* drawn is the code of a row of any status (sessions.pairing_code UNIQUE).
\* Bound: the clock does not stop before the session can expire.
CreateSession(s, c) ==
    /\ sessions[s].status = "none"
    /\ \A t \in Sessions : SessionExists(t) => sessions[t].pairing_code # c
    /\ now + PairingTTL < MaxTime
    /\ sessions' = [sessions EXCEPT ![s] =
                       UnpairedSession("pending_pairing", c, now + PairingTTL)]
    /\ UNCHANGED <<now, accounts, convs, hnd, poll, published, origin>>

\* GetStatus reads the row (FindByTokenHash).  It goes on to write only when
\* what it read was pending and past its expiry.
GetStatus(p, s) ==
    /\ poll[p] = NULL
    /\ sessions[s].status = "pending_pairing"
    /\ now > sessions[s].expires_at
    /\ poll' = [poll EXCEPT ![p] = s]
    /\ UNCHANGED <<now, sessions, accounts, convs, hnd, published, origin>>

\* ... and this is its write.  The WHERE clause names the id only, and the
\* error is ignored (an error and a crash are PollerDies).
MarkExpired(p) ==
    /\ poll[p] # NULL
    /\ sessions' = IF SessionExists(poll[p])
                   THEN [sessions EXCEPT ![poll[p]].status = "expired"]
                   ELSE sessions
    /\ poll' = [poll EXCEPT ![p] = NULL]
    /\ UNCHANGED <<now, accounts, convs, hnd, published, origin>>

PollerDies(p) ==
    /\ poll[p] # NULL
    /\ poll' = [poll EXCEPT ![p] = NULL]
    /\ UNCHANGED <<now, sessions, accounts, convs, hnd, published, origin>>

-----------------------------------------------------------------------------
(* The webhook: every request upserts its conversation first.              *)

Upsert(k) == IF convs[k].exists THEN convs
                                ELSE [convs EXCEPT ![k] = NewConv]

\* Requests that only upsert: messages of an unpaired user, /status, /help,
\* /pair without a code, and the commands that are refused.
WebhookOther(k) ==
    /\ ~convs[k].exists
    /\ convs' = Upsert(k)
    /\ UNCHANGED <<now, sessions, accounts, hnd, poll, published, origin>>

\* "/pair c" of a user whose conversation is not paired at this moment.
WebhookPair(h, k, c) ==
    /\ hnd[h].pc = "idle"
    /\ convs[k].state # "paired"
    /\ convs' = Upsert(k)
    /\ hnd' = [hnd EXCEPT ![h] = HandlerAt("find", k, c, NULL, NULL)]
    /\ UNCHANGED <<now, sessions, accounts, poll, published, origin>>

\* "/unpair" of a user whose conversation is paired at this moment.
WebhookUnpair(h, k) ==
    /\ hnd[h].pc = "idle"
    /\ convs[k].state = "paired"
    /\ hnd' = [hnd EXCEPT ![h] = HandlerAt("unpair", k, NULL, NULL, NULL)]
    /\ UNCHANGED <<now, sessions, accounts, convs, poll, published, origin>>

\* FindByPairingCode, outside the transaction.
Redeemable(s, c) ==
    /\ sessions[s].status = "pending_pairing"
    /\ sessions[s].pairing_code = c
    /\ sessions[s].expires_at > now

FindByPairingCode(h) ==
    /\ hnd[h].pc = "find"
    /\ \/ \E s \in Sessions :
             /\ Redeemable(s, hnd[h].code)
             /\ hnd' = [hnd EXCEPT ![h] =
                           HandlerAt("tx", hnd[h].conv, NULL, s, NULL)]
       \/ /\ \A s \in Sessions : ~Redeemable(s, hnd[h].code)
          /\ hnd' = [hnd EXCEPT ![h] = IdleHandler]
    /\ UNCHANGED <<now, sessions, accounts, convs, poll, published, origin>>

\* MarkPaired changes a row that is still pending; UpdateMetadata changes
\* the row whatever its status; neither minds when no row matches.
\*
\* Mutant: MarkPaired without its status condition.
MarkPairedAnyStatus(row, a, k) ==
    IF row.status \in SessionStatus
    THEN [row EXCEPT !.status = "paired", !.account_id = a,
                     !.paired_conversation_key = k, !.expires_at = Forever]
    ELSE row

MarkPaired(row, a, k) ==
    IF row.status = "pending_pairing"
    THEN [status |-> "paired", pairing_code |-> row.pairing_code,
          expires_at |-> Forever, account_id |-> a,
          paired_conversation_key |-> k, relayToken |-> row.relayToken]
    ELSE row

\* Mutant: the hash is stored where the dashboard expects the token.
UpdateMetadataHashed(row, token) ==
    IF row.status \in SessionStatus
    THEN [row EXCEPT !.relayToken = HashToken(token)]
    ELSE row

UpdateMetadata(row, token) ==
    IF row.status \in SessionStatus THEN [row EXCEPT !.relayToken = token]
                                    ELSE row

\* The transaction of VerifyPairingCode, at its commit.  A row MarkPaired
\* matched stays locked until then, and a row that is not pending never
\* becomes pending again, so the statements take effect as if at once.  A
\* rollback is HandlerDies, a commit whose answer is lost is this step
\* followed by HandlerDies.
PairTx(h, a) ==
    LET s == hnd[h].session
        k == hnd[h].conv
    IN /\ hnd[h].pc = "tx"
       /\ accounts[a].status = "none"
       /\ accounts' = [accounts EXCEPT ![a] = [status |-> "live", token |-> 1]]
       /\ sessions' = [sessions EXCEPT ![s] =
                          UpdateMetadata(MarkPaired(sessions[s], a, k), <<a, 1>>)]
       /\ origin' = [origin EXCEPT ![a] = [session |-> s, conv |-> k]]
       /\ hnd' = [hnd EXCEPT ![h] = HandlerAt("update", k, NULL, s, a)]
       /\ UNCHANGED <<now, convs, poll, published>>

\* repository UpdateState: no row, no effect; an account that is gone makes
\* the foreign key fail, which leaves the row as it was.
\*
\* Mutant: the schema without that foreign key.
UpdateStateUnchecked(k, state, a) ==
    IF convs[k].exists
    THEN [convs EXCEPT ![k] = [exists |-> TRUE, state |-> state,
                               account_id |-> a]]
    ELSE convs

UpdateState(k, state, a) ==
    IF convs[k].exists /\ (a = NULL \/ accounts[a].status = "live")
    THEN [convs EXCEPT ![k] = [exists |-> TRUE, state |-> state,
                               account_id |-> a]]
    ELSE convs

\* handleCommand carries on whether UpdateState succeeds or fails.
\*
\* Mutant: the account is read back from the session row instead of taken
\* from the result of this request's own transaction.
UpdateConversationFromSession(h) ==
    /\ hnd[h].pc = "update"
    /\ convs' = UpdateState(hnd[h].conv, "paired",
                            sessions[hnd[h].session].account_id)
    /\ hnd' = [hnd EXCEPT ![h] =
                  HandlerAt("announce", hnd[h].conv, NULL, hnd[h].session, NULL)]
    /\ UNCHANGED <<now, sessions, accounts, poll, published, origin>>

UpdateConversation(h) ==
    /\ hnd[h].pc = "update"
    /\ convs' = UpdateState(hnd[h].conv, "paired", hnd[h].account)
    /\ hnd' = [hnd EXCEPT ![h] =
                  HandlerAt("announce", hnd[h].conv, NULL, hnd[h].session, NULL)]
    /\ UNCHANGED <<now, sessions, accounts, poll, published, origin>>

UpdateConversationFails(h) ==
    /\ hnd[h].pc = "update"
    /\ hnd' = [hnd EXCEPT ![h] =
                  HandlerAt("announce", hnd[h].conv, NULL, hnd[h].session, NULL)]
    /\ UNCHANGED <<now, sessions, accounts, convs, poll, published, origin>>

\* FindByID, then PublishPairingComplete, then the reply "connected".  The
\* event carries the account of the session row and the key of the caller.
\*
\* Mutant: the event carries the account of the conversation row.
AnnounceConversation(h) ==
    LET k == hnd[h].conv
        event == [session |-> hnd[h].session, account |-> convs[k].account_id,
                  conv |-> k]
    IN /\ hnd[h].pc = "announce"
       /\ published' = IF convs[k].account_id # NULL
                       THEN published \cup {event}
                       ELSE published
       /\ hnd' = [hnd EXCEPT ![h] = IdleHandler]
       /\ UNCHANGED <<now, sessions, accounts, convs, poll, origin>>

Announce(h) ==
    LET s == hnd[h].session
        event == [session |-> s, account |-> sessions[s].account_id,
                  conv |-> hnd[h].conv]
    IN /\ hnd[h].pc = "announce"
       /\ published' = IF SessionExists(s) /\ sessions[s].account_id # NULL
                       THEN published \cup {event}
                       ELSE published
       /\ hnd' = [hnd EXCEPT ![h] = IdleHandler]
       /\ UNCHANGED <<now, sessions, accounts, convs, poll, origin>>

Unpair(h) ==
    /\ hnd[h].pc = "unpair"
    /\ convs' = UpdateState(hnd[h].conv, "unpaired", NULL)
    /\ hnd' = [hnd EXCEPT ![h] = IdleHandler]
    /\ UNCHANGED <<now, sessions, accounts, poll, published, origin>>

\* A statement or a transaction that fails and makes the handler return, a
\* panic, and the end of the server process.
HandlerDies(h) ==
    /\ hnd[h].pc # "idle"
    /\ hnd' = [hnd EXCEPT ![h] = IdleHandler]
    /\ UNCHANGED <<now, sessions, accounts, convs, poll, published, origin>>

-----------------------------------------------------------------------------
(* The dashboard and the cleanup job.                                      *)

\* The n-th token of the account takes the place of the one before it.
RegenerateToken(a, n) ==
    /\ accounts[a].status = "live"
    /\ accounts[a].token = n - 1
    /\ accounts' = [accounts EXCEPT ![a].token = n]
    /\ UNCHANGED <<now, sessions, convs, hnd, poll, published, origin>>

\* ON DELETE SET NULL: the references go, status and state stay.
DeleteAccount(a) ==
    /\ accounts[a].status = "live"
    /\ accounts' = [accounts EXCEPT ![a] = DeletedAccount]
    /\ sessions' = [s \in Sessions |->
                       IF sessions[s].account_id = a
                       THEN [sessions[s] EXCEPT !.account_id = NULL]
                       ELSE sessions[s]]
    /\ convs' = [k \in Convs |->
                    IF convs[k].account_id = a
                    THEN [convs[k] EXCEPT !.account_id = NULL]
                    ELSE convs[k]]
    /\ UNCHANGED <<now, hnd, poll, published, origin>>

DisconnectSession(s) ==
    /\ SessionExists(s)
    /\ sessions' = [sessions EXCEPT ![s].status = "disconnected"]
    /\ UNCHANGED <<now, accounts, convs, hnd, poll, published, origin>>

DeleteSession(s) ==
    /\ SessionExists(s)
    /\ sessions' = [sessions EXCEPT ![s] = DeletedSession]
    /\ UNCHANGED <<now, accounts, convs, hnd, poll, published, origin>>

DeleteConversation(k) ==
    /\ convs[k].exists
    /\ convs' = [convs EXCEPT ![k] = NoConv]
    /\ UNCHANGED <<now, sessions, accounts, hnd, poll, published, origin>>

\* The WHERE clause of DeleteExpired.
\*
\* Mutant: the status list without 'disconnected'.
PurgeableIfExpired(s) ==
    \/ /\ sessions[s].status = "pending_pairing"
       /\ sessions[s].expires_at < now
    \/ sessions[s].status = "expired"

Purgeable(s) ==
    \/ /\ sessions[s].status = "pending_pairing"
       /\ sessions[s].expires_at < now
    \/ sessions[s].status \in {"expired", "disconnected"}

DeleteExpired ==
    /\ \E s \in Sessions : Purgeable(s)
    /\ sessions' = [s \in Sessions |-> IF Purgeable(s) THEN DeletedSession
                                                       ELSE sessions[s]]
    /\ UNCHANGED <<now, accounts, convs, hnd, poll, published, origin>>

\* Bound: MaxTime.
Tick ==
    /\ now < MaxTime
    /\ now' = now + 1
    /\ UNCHANGED <<sessions, accounts, convs, hnd, poll, published, origin>>

-----------------------------------------------------------------------------

Handler(h) ==
    \/ \E k \in Convs, c \in Codes : WebhookPair(h, k, c)
    \/ \E k \in Convs : WebhookUnpair(h, k)
    \/ FindByPairingCode(h)
    \/ \E a \in Accounts : PairTx(h, a)
    \/ UpdateConversation(h)
    \/ UpdateConversationFails(h)
    \/ Announce(h)
    \/ Unpair(h)
    \/ HandlerDies(h)

Poller(p) ==
    \/ \E s \in Sessions : GetStatus(p, s)
    \/ MarkExpired(p)
    \/ PollerDies(p)

Dashboard ==
    \/ \E s \in Sessions, c \in Codes : CreateSession(s, c)
    \/ \E s \in Sessions : DisconnectSession(s)
    \/ \E s \in Sessions : DeleteSession(s)
    \/ \E a \in Accounts, n \in 2 .. MaxTokens : RegenerateToken(a, n)
    \/ \E a \in Accounts : DeleteAccount(a)
    \/ \E k \in Convs : DeleteConversation(k)

Next ==
    \/ \E h \in Handlers : Handler(h)
    \/ \E p \in Pollers : Poller(p)
    \/ Dashboard
    \/ \E k \in Convs : WebhookOther(k)
    \/ DeleteExpired
    \/ Tick

Spec == Init /\ [][Next]_vars

-----------------------------------------------------------------------------
(* What must hold of the rows.                                             *)

SessionRows ==
    [status : SessionStatus \cup {"none", "deleted"},
     pairing_code : Codes \cup {NULL},
     expires_at : Times,
     account_id : Accounts \cup {NULL},
     paired_conversation_key : Convs \cup {NULL},
     relayToken : RelayTokens \cup {NULL}]

HandlerStates ==
    [pc : {"idle", "find", "tx", "update", "announce", "unpair"},
     conv : Convs \cup {NULL}, code : Codes \cup {NULL},
     session : Sessions \cup {NULL}, account : Accounts \cup {NULL}]

\* The type invariant: every row and every local variable has its type, and
\* a handler that holds a session or an account id holds one where its
\* next statement needs it.
TypeOK ==
    /\ now \in 0 .. MaxTime
    /\ sessions \in [Sessions -> SessionRows]
    /\ accounts \in [Accounts -> [status : {"none", "live", "deleted"},
                                  token : 0 .. MaxTokens]]
    /\ convs \in [Convs -> [exists : BOOLEAN, state : {"unpaired", "paired"},
                            account_id : Accounts \cup {NULL}]]
    /\ hnd \in [Handlers -> HandlerStates]
    /\ \A h \in Handlers :
          /\ hnd[h].pc # "idle" => hnd[h].conv \in Convs
          /\ hnd[h].pc \in {"tx", "update", "announce"} =>
                hnd[h].session \in Sessions
          /\ hnd[h].pc = "update" <=> hnd[h].account \in Accounts
    /\ poll \in [Pollers -> Sessions \cup {NULL}]
    /\ published \subseteq [session : Sessions, account : Accounts, conv : Convs]
    /\ origin \in [Accounts -> [session : Sessions, conv : Convs] \cup {NULL}]

\* An account is the unit of isolation: messages of a conversation go to the
\* clients whose session leads to the same account.  However /pair requests,
\* deletions and failures interleave, no two conversations and no two
\* sessions share an account, and a session and a conversation that do were
\* paired with one another (handleCommand, VerifyPairingCode).
TenantIsolation ==
    /\ \A k, l \in Convs :
          convs[k].account_id = convs[l].account_id /\ k # l
             => convs[k].account_id = NULL
    /\ \A s, t \in Sessions :
          sessions[s].account_id = sessions[t].account_id /\ s # t
             => sessions[s].account_id = NULL
    /\ \A k \in Convs, s \in Sessions :
          convs[k].account_id = sessions[s].account_id /\ convs[k].account_id # NULL
             => sessions[s].paired_conversation_key = k

\* What a session's owner is told stays within the accounts that were made
\* for this session: the relay token in the metadata (UpdateMetadata, read
\* by GetStatus) and the account id in pairing_complete events
\* (PublishPairingComplete), also when several requests redeem one code.
OwnAccountsOnly ==
    /\ \A s \in Sessions : sessions[s].relayToken # NULL =>
          /\ origin[sessions[s].relayToken[1]] # NULL
          /\ origin[sessions[s].relayToken[1]].session = s
    /\ \A e \in published :
          /\ origin[e.account] # NULL
          /\ origin[e.account].session = e.session

\* account_id of a session and of a conversation is the id of a row that
\* exists, although DeleteAccount may run between the transaction that
\* created the account and the UpdateState that refers to it.
ReferentialIntegrity ==
    /\ \A s \in Sessions : sessions[s].account_id # NULL =>
          accounts[sessions[s].account_id].status = "live"
    /\ \A k \in Convs : convs[k].account_id # NULL =>
          accounts[convs[k].account_id].status = "live"

\* A session is paired at most once and only from pending_pairing: no step
\* takes a paired, expired, disconnected or deleted session back, and the
\* account and the conversation it was paired with are never exchanged
\* (MarkPaired against MarkExpired, MarkDisconnected, Delete and itself).
PairedOnceStep(s) ==
    /\ sessions'[s].status = "paired" =>
          sessions[s].status \in {"pending_pairing", "paired"}
    /\ sessions'[s].status = "pending_pairing" =>
          sessions[s].status \in {"none", "pending_pairing"}
    /\ sessions[s].account_id # NULL =>
          sessions'[s].account_id \in {sessions[s].account_id, NULL}
    /\ sessions[s].status = "paired" /\ sessions'[s].status = "paired" =>
          sessions'[s].paired_conversation_key = sessions[s].paired_conversation_key

\* The account never comes back, is never replaced, and the session never
\* returns to an earlier status, in any step.
PairedOnce == [][\A s \in Sessions : PairedOnceStep(s)]_sessions

\* What makes TenantIsolation inductive: an account is drawn for one session
\* and one conversation, and every reference to it, in a row or in a local
\* variable of a handler, is in agreement with that.
OriginAgrees ==
    /\ \A a \in Accounts : accounts[a].status = "none" <=> origin[a] = NULL
    /\ \A k \in Convs : convs[k].account_id # NULL =>
          /\ origin[convs[k].account_id] # NULL
          /\ origin[convs[k].account_id].conv = k
    /\ \A s \in Sessions : sessions[s].account_id # NULL =>
          origin[sessions[s].account_id] =
             [session |-> s, conv |-> sessions[s].paired_conversation_key]
    /\ \A s \in Sessions :
          sessions[s].status = "pending_pairing" => sessions[s].account_id = NULL
    /\ \A h \in Handlers : hnd[h].pc = "update" =>
          origin[hnd[h].account] =
             [session |-> hnd[h].session, conv |-> hnd[h].conv]

PairingInv ==
    TypeOK /\ OriginAgrees /\ ReferentialIntegrity /\ OwnAccountsOnly

-----------------------------------------------------------------------------
(* What pairing promises, in module Ledger.                                *)

L == INSTANCE Ledger WITH
        owner  <- origin,
        holds  <- [s \in Sessions |-> sessions[s].account_id],
        feeds  <- [k \in Convs |-> convs[k].account_id],
        unused <- {s \in Sessions : sessions[s].status \in {"none", "pending_pairing"}},
        shut   <- {a \in Accounts : accounts[a].status = "deleted"}

\* The handlers, the dashboard and the cleanup job implement the ledger: an
\* account goes to the session and the conversation of the transaction that
\* created it and to no other, whichever requests race for a code; a session
\* that has lost its account never gets one again, and a deleted account
\* never comes back.
ImplementsLedger == L!Spec

-----------------------------------------------------------------------------
(* What the documents say and the code does not do.                        *)

\* docs/architecture.md:92, a pairing code is good for one use: no two
\* accounts are created from one session (VerifyPairingCode).
OneTimeCode ==
    \A a, b \in Accounts :
        origin[a] # NULL /\ origin[b] # NULL /\ a # b
           => origin[a].session # origin[b].session

\* GetStatus expires sessions that are pending ("Check if pending session
\* has expired"): a step never expires a paired one.
OnlyPendingExpire ==
    [][\A s \in Sessions :
          sessions[s].status = "paired" => sessions'[s].status # "expired"]_sessions

=============================================================================
