---------------------------- MODULE LedgerProofs ----------------------------
(***************************************************************************)
(* Pairing implements Ledger, for every number of sessions, accounts,      *)
(* conversations and concurrent requests.  Beside PairingInv the proof     *)
(* needs that a transaction in progress is about a session that exists or  *)
(* has existed: FindByPairingCode found its row.                           *)
(***************************************************************************)
EXTENDS PairingProofs

USE NullAssumption

-----------------------------------------------------------------------------

\* A session that a /pair request has found was created before.
Found == \A h \in Handlers :
            hnd[h].pc = "tx" => sessions[hnd[h].session].status # "none"

\* The id of a session is never drawn again, and only FindByPairingCode
\* brings a handler to its transaction.
LEMMA FoundStep ==
    ASSUME PairingInv, Found, [Next]_vars
    PROVE  Found'
  <1>. SUFFICES ASSUME NEW h \in Handlers, hnd'[h].pc = "tx"
                PROVE  sessions'[hnd'[h].session].status # "none"
    BY DEF Found
  <1>1. ASSUME NEW s \in Sessions, sessions[s].status # "none"
        PROVE  sessions'[s].status # "none"
    <2>. sessions[s] \in SessionRows
      BY DEF PairingInv, TypeOK
    <2>1. ASSUME NEW g \in Handlers, NEW a \in Accounts, PairTx(g, a)
          PROVE  sessions'[s].status # "none"
      <3>1. \/ sessions'[s] = sessions[s]
            \/ sessions'[s] = UpdateMetadata(
                                 MarkPaired(sessions[s], a, hnd[g].conv), <<a, 1>>)
        BY <2>1 DEF PairTx, PairingInv, TypeOK
      <3>. QED
        BY <1>1, <3>1 DEF UpdateMetadata, MarkPaired, SessionRows
    <2>2. ASSUME NEW p \in Pollers, MarkExpired(p)
          PROVE  sessions'[s].status # "none"
      BY <1>1, <2>2 DEF MarkExpired, PairingInv, TypeOK, SessionRows
    <2>3. ASSUME NEW t \in Sessions, NEW c \in Codes, CreateSession(t, c)
          PROVE  sessions'[s].status # "none"
      BY <1>1, <2>3 DEF CreateSession, UnpairedSession, PairingInv, TypeOK
    <2>4. ASSUME NEW t \in Sessions, DisconnectSession(t) \/ DeleteSession(t)
          PROVE  sessions'[s].status # "none"
      BY <1>1, <2>4 DEF DisconnectSession, DeleteSession, DeletedSession,
             UnpairedSession, PairingInv, TypeOK, SessionRows
    <2>5. ASSUME NEW a \in Accounts, DeleteAccount(a)
          PROVE  sessions'[s].status # "none"
      BY <1>1, <2>5 DEF DeleteAccount, SessionRows
    <2>6. CASE DeleteExpired
      BY <1>1, <2>6 DEF DeleteExpired, DeletedSession, UnpairedSession
    <2>7. CASE UNCHANGED sessions
      BY <1>1, <2>7
    <2>. QED
      BY <2>1, <2>2, <2>3, <2>4, <2>5, <2>6, <2>7
         DEF vars, Next, Handler, Poller, Dashboard, WebhookPair, WebhookUnpair,
             FindByPairingCode, UpdateConversation, UpdateConversationFails,
             Announce, Unpair, HandlerDies, GetStatus, PollerDies,
             RegenerateToken, DeleteConversation, WebhookOther, Tick
  <1>2. CASE hnd'[h] = hnd[h]
    BY <1>1, <1>2 DEF Found, PairingInv, TypeOK
  <1>3. CASE FindByPairingCode(h)
    <2>. hnd'[h].session \in Sessions /\ sessions[hnd'[h].session].status # "none"
      BY <1>3 DEF FindByPairingCode, Redeemable, IdleHandler, HandlerAt,
             PairingInv, TypeOK
    <2>. QED
      BY <1>1
  <1>4. ASSUME NEW g \in Handlers, g # h, Handler(g)
        PROVE  hnd'[h] = hnd[h]
    BY <1>4 DEF Handler, WebhookPair, WebhookUnpair, FindByPairingCode, PairTx,
           UpdateConversation, UpdateConversationFails, Announce, Unpair,
           HandlerDies, PairingInv, TypeOK
  <1>5. Handler(h) => FindByPairingCode(h)
    <2>. hnd \in [Handlers -> HandlerStates]
      BY DEF PairingInv, TypeOK
    <2>1. ASSUME NEW k \in Convs, NEW c \in Codes, WebhookPair(h, k, c)
          PROVE  FALSE
      BY <2>1 DEF WebhookPair, HandlerAt
    <2>2. ASSUME NEW k \in Convs, WebhookUnpair(h, k)
          PROVE  FALSE
      BY <2>2 DEF WebhookUnpair, HandlerAt
    <2>3. ASSUME NEW a \in Accounts, PairTx(h, a)
          PROVE  FALSE
      BY <2>3 DEF PairTx, HandlerAt
    <2>4. ~(UpdateConversation(h) \/ UpdateConversationFails(h))
      BY DEF UpdateConversation, UpdateConversationFails, HandlerAt
    <2>5. ~(Announce(h) \/ Unpair(h) \/ HandlerDies(h))
      BY DEF Announce, Unpair, HandlerDies, IdleHandler, HandlerAt
    <2>. QED
      BY <2>1, <2>2, <2>3, <2>4, <2>5 DEF Handler
  <1>6. UNCHANGED hnd \/ \E g \in Handlers : Handler(g)
    BY DEF vars, Next, Poller, Dashboard, GetStatus, MarkExpired, PollerDies,
           CreateSession, DisconnectSession, DeleteSession, RegenerateToken,
           DeleteAccount, DeleteConversation, WebhookOther, DeleteExpired, Tick
  <1>. QED
    BY <1>2, <1>3, <1>4, <1>5, <1>6

\* PairingInv and Found hold together in every reachable state.
LEMMA FoundInvariant == Spec => []Found
  <1>1. Init => Found
    BY DEF Init, Found, IdleHandler, HandlerAt
  <1>2. PairingInv /\ Found /\ [Next]_vars => Found'
    BY FoundStep
  <1>. QED
    BY <1>1, <1>2, PairingInvariant, PTL DEF Spec

-----------------------------------------------------------------------------
(* The steps.                                                              *)

\* The transaction of VerifyPairingCode opens an account, and its session
\* holds it if MarkPaired found the session pending.
LEMMA OpenStep ==
    ASSUME PairingInv, Found, NEW h \in Handlers, NEW a \in Accounts, PairTx(h, a)
    PROVE  \E s \in Sessions, k \in Convs : L!Open(a, s, k)
  <1>. DEFINE s == hnd[h].session
              k == hnd[h].conv
  <1>1. s \in Sessions /\ k \in Convs
    BY DEF PairingInv, TypeOK, PairTx
  <1>2. sessions[s] \in SessionRows /\ sessions[s].status # "none"
    BY <1>1 DEF PairingInv, TypeOK, PairTx, Found
  <1>3. sessions'[s] = UpdateMetadata(MarkPaired(sessions[s], a, k), <<a, 1>>)
    BY <1>1 DEF PairingInv, TypeOK, PairTx
  <1>4. \A t \in Sessions : t # s => sessions'[t] = sessions[t]
    BY <1>1 DEF PairingInv, TypeOK, PairTx
  <1>5. /\ sessions[s].status = "pending_pairing" =>
              sessions'[s].account_id = a /\ sessions'[s].status = "paired"
        /\ sessions[s].status # "pending_pairing" =>
              /\ sessions'[s].account_id = sessions[s].account_id
              /\ sessions'[s].status = sessions[s].status
    BY <1>2, <1>3 DEF MarkPaired, UpdateMetadata, SessionRows, SessionStatus
  <1>6. origin[a] = NULL /\ accounts[a].status = "none" /\ accounts'[a].status = "live"
    BY DEF PairingInv, OriginAgrees, TypeOK, PairTx
  <1>7. /\ {b \in Accounts : accounts'[b].status = "deleted"}
              = {b \in Accounts : accounts[b].status = "deleted"}
        /\ a \notin {b \in Accounts : accounts[b].status = "deleted"}
    BY <1>6 DEF PairingInv, TypeOK, PairTx
  <1>8. {t \in Sessions : sessions'[t].status \in {"none", "pending_pairing"}}
           = {t \in Sessions : sessions[t].status \in {"none", "pending_pairing"}} \ {s}
    BY <1>2, <1>4, <1>5
  <1>9. [t \in Sessions |-> sessions'[t].account_id]
           = IF s \in {t \in Sessions : sessions[t].status \in {"none", "pending_pairing"}}
             THEN [[t \in Sessions |-> sessions[t].account_id] EXCEPT ![s] = a]
             ELSE [t \in Sessions |-> sessions[t].account_id]
    BY <1>1, <1>2, <1>4, <1>5
  <1>10. origin' = [origin EXCEPT ![a] = [session |-> s, conv |-> k]]
    BY DEF PairTx
  <1>11. convs' = convs
    BY DEF PairTx
  <1>. HIDE DEF s, k
  <1>. QED
    BY <1>1, <1>6, <1>7, <1>8, <1>9, <1>10, <1>11 DEF L!Open

\* The rows as the ledger sees them.
Holds == [s \in Sessions |-> sessions[s].account_id]
Feeds == [k \in Convs |-> convs[k].account_id]
Unused == {s \in Sessions : sessions[s].status \in {"none", "pending_pairing"}}
Gone == {a \in Accounts : accounts[a].status = "deleted"}

\* A step that leaves sessions, accounts and origins alone and gives at most
\* one conversation another account: UpdateState, Upsert, DeleteConversation.
LEMMA FeedStep ==
    ASSUME TypeOK, NEW k \in Convs, NEW a \in Accounts \cup {NULL},
           Feeds' \in {Feeds, [Feeds EXCEPT ![k] = a]},
           UNCHANGED <<sessions, accounts, origin>>,
           a # NULL => /\ accounts[a].status = "live"
                       /\ origin[a] # NULL
                       /\ origin[a].conv = k
    PROVE  [L!Next]_(L!vars)
  <1>1. UNCHANGED <<Holds, Unused, Gone, origin>>
    BY DEF Holds, Unused, Gone
  <1>2. CASE UNCHANGED Feeds
    BY <1>1, <1>2 DEF L!vars, Holds, Feeds, Unused, Gone
  <1>3. CASE Feeds' = [Feeds EXCEPT ![k] = a] /\ a = NULL
    <2>1. L!Stop(k)
      BY <1>1, <1>3 DEF L!Stop, Holds, Feeds, Unused, Gone
    <2>. QED
      BY <2>1 DEF L!Next
  <1>4. CASE Feeds' = [Feeds EXCEPT ![k] = a] /\ a # NULL
    <2>1. a \in Accounts /\ a \notin Gone
      BY <1>4 DEF Gone
    <2>2. L!Feed(k, a)
      BY <1>1, <1>4, <2>1 DEF L!Feed, Holds, Feeds, Unused, Gone
    <2>. QED
      BY <2>1, <2>2 DEF L!Next
  <1>. QED
    BY <1>2, <1>3, <1>4

\* A step of the life of sessions: accounts are at most taken away, and no
\* session becomes fit for use that was not.
LEMMA RetireStep ==
    ASSUME TypeOK, TypeOK', UNCHANGED <<convs, accounts, origin>>,
           \A s \in Sessions :
              /\ sessions'[s].account_id \in {sessions[s].account_id, NULL}
              /\ sessions'[s].status \in {"none", "pending_pairing"}
                    => sessions[s].status \in {"none", "pending_pairing"}
    PROVE  [L!Next]_(L!vars)
  <1>1. UNCHANGED <<Feeds, Gone, origin>>
    BY DEF Feeds, Gone
  <1>2. /\ Holds' \in [Sessions -> Accounts \cup {NULL}]
        /\ \A s \in Sessions : Holds'[s] \in {Holds[s], NULL}
    BY DEF Holds, TypeOK, SessionRows
  <1>3. Unused' \in SUBSET Unused
    BY DEF Unused
  <1>4. L!Retire
    BY <1>1, <1>2, <1>3 DEF L!Retire, Holds, Feeds, Unused, Gone
  <1>. QED
    BY <1>4 DEF L!Next

\* DeleteAccount and ON DELETE SET NULL shut the account.
LEMMA ShutStep ==
    ASSUME PairingInv, NEW a \in Accounts, DeleteAccount(a)
    PROVE  L!Shut(a)
  <1>1. origin[a] # NULL /\ a \notin Gone
    BY DEF DeleteAccount, PairingInv, OriginAgrees, Gone
  <1>2. Gone' = Gone \cup {a}
    BY DEF DeleteAccount, DeletedAccount, PairingInv, TypeOK, Gone
  <1>3. Holds' = [s \in Sessions |-> IF Holds[s] = a THEN NULL ELSE Holds[s]]
    BY DEF DeleteAccount, PairingInv, TypeOK, SessionRows, Holds
  <1>4. Feeds' = [k \in Convs |-> IF Feeds[k] = a THEN NULL ELSE Feeds[k]]
    BY DEF DeleteAccount, PairingInv, TypeOK, Feeds
  <1>5. Unused' = Unused
    BY DEF DeleteAccount, PairingInv, TypeOK, SessionRows, Unused
  <1>6. UNCHANGED origin
    BY DEF DeleteAccount
  <1>. QED
    BY <1>1, <1>2, <1>3, <1>4, <1>5, <1>6 DEF L!Shut, Holds, Feeds, Unused, Gone

-----------------------------------------------------------------------------

\* Every step of Pairing is a step of the ledger or leaves it as it is.
LEMMA LedgerStep ==
    ASSUME PairingInv, PairingInv', Found, [Next]_vars
    PROVE  [L!Next]_(L!vars)
  <1>. TypeOK /\ TypeOK'
    BY DEF PairingInv
  <1>1. ASSUME UNCHANGED <<sessions, accounts, convs, origin>>
        PROVE  [L!Next]_(L!vars)
    BY <1>1 DEF L!vars
  <1>2. ASSUME NEW k \in Convs, convs' = Upsert(k),
               UNCHANGED <<sessions, accounts, origin>>
        PROVE  [L!Next]_(L!vars)
    <2>1. Feeds' \in {Feeds, [Feeds EXCEPT ![k] = NULL]}
      BY <1>2 DEF Upsert, NewConv, Feeds, TypeOK
    <2>. QED
      BY <1>2, <2>1, FeedStep
  <1>3. ASSUME NEW h \in Handlers, NEW a \in Accounts, PairTx(h, a)
        PROVE  [L!Next]_(L!vars)
    BY <1>3, OpenStep DEF L!Next
  <1>4. ASSUME NEW h \in Handlers, UpdateConversation(h)
        PROVE  [L!Next]_(L!vars)
    <2>. DEFINE k == hnd[h].conv
                a == hnd[h].account
    <2>1. k \in Convs /\ a \in Accounts
      BY <1>4 DEF UpdateConversation, TypeOK
    <2>2. origin[a] = [session |-> hnd[h].session, conv |-> k]
      BY <1>4 DEF UpdateConversation, PairingInv, OriginAgrees
    <2>3. origin[a].conv = k
      BY <2>2
    <2>4. origin[a] # NULL
      <3>1. hnd[h].session \in Sessions
        BY <1>4 DEF UpdateConversation, TypeOK
      <3>2. origin[a] \in [session : Sessions, conv : Convs]
        BY <2>1, <2>2, <3>1
      <3>. QED
        BY <3>2
    <2>5. \/ UNCHANGED convs
          \/ /\ accounts[a].status = "live"
             /\ Feeds' = [Feeds EXCEPT ![k] = a]
      <3>1. convs' = UpdateState(k, "paired", a) /\ a # NULL
        BY <1>4, <2>1 DEF UpdateConversation
      <3>. HIDE DEF k, a
      <3>2. \/ UNCHANGED convs
            \/ /\ accounts[a].status = "live"
               /\ convs' = [convs EXCEPT ![k] = [exists |-> TRUE, state |-> "paired",
                                                 account_id |-> a]]
        BY <3>1 DEF UpdateState
      <3>3. ASSUME convs' = [convs EXCEPT ![k] = [exists |-> TRUE, state |-> "paired",
                                                   account_id |-> a]]
            PROVE  Feeds' = [Feeds EXCEPT ![k] = a]
        BY <2>1, <3>3 DEF Feeds, TypeOK
      <3>. QED
        BY <3>2, <3>3
    <2>6. UNCHANGED <<sessions, accounts, origin>>
      BY <1>4 DEF UpdateConversation
    <2>. HIDE DEF k, a
    <2>. QED
      BY <2>1, <2>3, <2>4, <2>5, <2>6, <1>1, FeedStep
  <1>5. ASSUME NEW h \in Handlers, Unpair(h)
        PROVE  [L!Next]_(L!vars)
    <2>1. hnd[h].conv \in Convs
      BY <1>5 DEF Unpair, TypeOK
    <2>2. Feeds' \in {Feeds, [Feeds EXCEPT ![hnd[h].conv] = NULL]}
      BY <1>5, <2>1 DEF Unpair, UpdateState, Feeds, TypeOK
    <2>. QED
      BY <1>5, <2>1, <2>2, FeedStep DEF Unpair
  <1>6. ASSUME NEW k \in Convs, DeleteConversation(k)
        PROVE  [L!Next]_(L!vars)
    <2>1. Feeds' = [Feeds EXCEPT ![k] = NULL]
      BY <1>6 DEF DeleteConversation, NoConv, Feeds, TypeOK
    <2>. QED
      BY <1>6, <2>1, FeedStep DEF DeleteConversation
  <1>7. ASSUME NEW a \in Accounts, NEW n \in 2 .. MaxTokens, RegenerateToken(a, n)
        PROVE  [L!Next]_(L!vars)
    <2>1. \A b \in Accounts : accounts'[b].status = accounts[b].status
      BY <1>7 DEF RegenerateToken, TypeOK
    <2>. QED
      BY <1>7, <2>1 DEF RegenerateToken, L!vars
  <1>8. ASSUME NEW a \in Accounts, DeleteAccount(a)
        PROVE  [L!Next]_(L!vars)
    BY <1>8, ShutStep DEF L!Next
  <1>9. ASSUME NEW p \in Pollers, MarkExpired(p)
        PROVE  [L!Next]_(L!vars)
    BY <1>9, RetireStep DEF MarkExpired, TypeOK, SessionRows
  <1>10. ASSUME NEW s \in Sessions, NEW c \in Codes, CreateSession(s, c)
         PROVE  [L!Next]_(L!vars)
    BY <1>10, RetireStep DEF CreateSession, UnpairedSession, TypeOK, SessionRows
  <1>11. ASSUME NEW s \in Sessions, DisconnectSession(s) \/ DeleteSession(s)
         PROVE  [L!Next]_(L!vars)
    <2>1. CASE DisconnectSession(s)
      BY <2>1, RetireStep DEF DisconnectSession, TypeOK, SessionRows
    <2>2. CASE DeleteSession(s)
      BY <2>2, RetireStep DEF DeleteSession, DeletedSession, UnpairedSession,
             TypeOK, SessionRows
    <2>. QED
      BY <1>11, <2>1, <2>2
  <1>12. CASE DeleteExpired
    BY <1>12, RetireStep DEF DeleteExpired, DeletedSession, UnpairedSession,
           TypeOK, SessionRows
  <1>. QED
    BY <1>1, <1>2, <1>3, <1>4, <1>5, <1>6, <1>7, <1>8, <1>9, <1>10, <1>11, <1>12
       DEF vars, Next, Handler, Poller, Dashboard, WebhookPair, WebhookUnpair,
           FindByPairingCode, UpdateConversationFails, Announce, HandlerDies,
           GetStatus, PollerDies, WebhookOther, Tick

\* The tables are empty and so is the ledger.
LEMMA LedgerInit == Init => L!Init
  BY DEF Init, L!Init, NoSession, UnpairedSession, NoConv, NoAccount

\* Pairing implements the ledger: whichever requests race for a code, fail or
\* are overtaken by deletions and by the cleanup job, an account goes to the
\* session and the conversation it was created for, at most once, and to
\* nobody else.
THEOREM PairingRefinesLedger == Spec => ImplementsLedger
  <1>1. PairingInv /\ PairingInv' /\ Found /\ [Next]_vars => [L!Next]_(L!vars)
    BY LedgerStep
  <1>. QED
    BY <1>1, LedgerInit, PairingInvariant, FoundInvariant, PTL
       DEF Spec, ImplementsLedger, L!Spec

=============================================================================
