--------------------------- MODULE PairingProofs ---------------------------
(***************************************************************************)
(* Proofs about Pairing for every set of sessions, accounts, conversations *)
(* and concurrent requests.  PairingInv is the inductive invariant.        *)
(***************************************************************************)
EXTENDS Pairing, TLAPS

USE NullAssumption, TimeAssumption

-----------------------------------------------------------------------------
(* The rows that the statements write are rows.                            *)

\* MarkExpired and MarkDisconnected change the status only.
LEMMA StatusRow ==
    ASSUME NEW row \in SessionRows, NEW status \in SessionStatus
    PROVE  [row EXCEPT !.status = status] \in SessionRows
  BY DEF SessionRows

\* ON DELETE SET NULL changes the account only.
LEMMA DetachedRow ==
    ASSUME NEW row \in SessionRows
    PROVE  [row EXCEPT !.account_id = NULL] \in SessionRows
  BY DEF SessionRows

\* It does so in the table of conversations, too.
LEMMA DetachedConv ==
    ASSUME NEW row \in [exists : BOOLEAN, state : {"unpaired", "paired"},
                        account_id : Accounts \cup {NULL}]
    PROVE  [row EXCEPT !.account_id = NULL] \in
              [exists : BOOLEAN, state : {"unpaired", "paired"},
               account_id : Accounts \cup {NULL}]
  OBVIOUS

\* What CreateSession inserts and what a deletion leaves.
LEMMA UnpairedRow ==
    ASSUME NEW status \in SessionStatus \cup {"none", "deleted"},
           NEW c \in Codes \cup {NULL}, NEW t \in Times
    PROVE  UnpairedSession(status, c, t) \in SessionRows
  BY DEF SessionRows, UnpairedSession

\* What is left of a session whose row is deleted is a row of the model.
LEMMA DeletedRow == DeletedSession \in SessionRows
  <1>. 0 \in Times
    BY DEF Times, Forever
  <1>. QED
    BY UnpairedRow DEF DeletedSession

\* What the transaction of VerifyPairingCode makes of a row.
LEMMA PairedRow ==
    ASSUME NEW row \in SessionRows, NEW a \in Accounts, NEW k \in Convs
    PROVE  UpdateMetadata(MarkPaired(row, a, k), <<a, 1>>) \in SessionRows
  <1>1. MarkPaired(row, a, k) \in SessionRows
    BY DEF MarkPaired, SessionRows, SessionStatus, Times, Forever
  <1>2. <<a, 1>> \in RelayTokens
    BY DEF RelayTokens
  <1>. QED
    BY <1>1, <1>2 DEF UpdateMetadata, SessionRows

\* What a handler keeps between two statements.
LEMMA HandlerRow ==
    ASSUME NEW pc \in {"find", "tx", "update", "announce", "unpair"},
           NEW k \in Convs, NEW c \in Codes \cup {NULL},
           NEW s \in Sessions \cup {NULL}, NEW a \in Accounts \cup {NULL}
    PROVE  /\ HandlerAt(pc, k, c, s, a) \in HandlerStates
           /\ HandlerAt(pc, k, c, s, a).pc = pc
           /\ HandlerAt(pc, k, c, s, a).conv = k
           /\ HandlerAt(pc, k, c, s, a).session = s
           /\ HandlerAt(pc, k, c, s, a).account = a
  BY DEF HandlerAt, HandlerStates

\* A handler that has returned holds nothing.
LEMMA IdleRow ==
    /\ IdleHandler \in HandlerStates
    /\ IdleHandler.pc = "idle"
    /\ IdleHandler.account = NULL
  BY DEF IdleHandler, HandlerAt, HandlerStates

\* The event of PublishPairingComplete.
LEMMA AnnouncedRow ==
    ASSUME TypeOK, NEW s \in Sessions, sessions[s].account_id # NULL
    PROVE  sessions[s].account_id \in Accounts
  BY DEF TypeOK, SessionRows

-----------------------------------------------------------------------------
(* Types.                                                                  *)

\* The empty tables have their types.
LEMMA TypeInit == Init => TypeOK
  <1>1. NoSession \in SessionRows
    <2>. 0 \in Times
      BY DEF Times, Forever
    <2>. QED
      BY UnpairedRow DEF NoSession
  <1>2. NoAccount \in [status : {"none", "live", "deleted"}, token : 0 .. MaxTokens]
    BY DEF NoAccount
  <1>. QED
    BY <1>1, <1>2, IdleRow DEF Init, TypeOK, NoConv

\* Every statement of every handler keeps the types of the rows and of the
\* local variables.
LEMMA TypeStep == TypeOK /\ [Next]_vars => TypeOK'
  <1> SUFFICES ASSUME TypeOK, [Next]_vars PROVE TypeOK'
    OBVIOUS
  <1>1. ASSUME NEW h \in Handlers, NEW k \in Convs, NEW c \in Codes,
               WebhookPair(h, k, c)
        PROVE  TypeOK'
    BY <1>1, HandlerRow DEF TypeOK, WebhookPair, Upsert, NewConv
  <1>2. ASSUME NEW h \in Handlers, NEW k \in Convs, WebhookUnpair(h, k)
        PROVE  TypeOK'
    BY <1>2, HandlerRow DEF TypeOK, WebhookUnpair
  <1>3. ASSUME NEW h \in Handlers, FindByPairingCode(h)
        PROVE  TypeOK'
    <2>. /\ hnd[h].conv \in Convs
         /\ hnd' = [hnd EXCEPT ![h] = IdleHandler]
            \/ \E s \in Sessions :
                  hnd' = [hnd EXCEPT ![h] =
                             HandlerAt("tx", hnd[h].conv, NULL, s, NULL)]
      BY <1>3 DEF TypeOK, FindByPairingCode
    <2>1. CASE hnd' = [hnd EXCEPT ![h] = IdleHandler]
      BY <2>1, <1>3, IdleRow DEF TypeOK, FindByPairingCode
    <2>2. ASSUME NEW s \in Sessions,
                 hnd' = [hnd EXCEPT ![h] =
                            HandlerAt("tx", hnd[h].conv, NULL, s, NULL)]
          PROVE  TypeOK'
      BY <2>2, <1>3, HandlerRow DEF TypeOK, FindByPairingCode
    <2>. QED
      BY <2>1, <2>2
  <1>4. ASSUME NEW h \in Handlers, NEW a \in Accounts, PairTx(h, a)
        PROVE  TypeOK'
    BY <1>4, HandlerRow, PairedRow DEF TypeOK, PairTx
  <1>5. ASSUME NEW h \in Handlers, UpdateConversation(h)
        PROVE  TypeOK'
    BY <1>5, HandlerRow DEF TypeOK, UpdateConversation, UpdateState
  <1>6. ASSUME NEW h \in Handlers, UpdateConversationFails(h)
        PROVE  TypeOK'
    BY <1>6, HandlerRow DEF TypeOK, UpdateConversationFails
  <1>7. ASSUME NEW h \in Handlers, Announce(h)
        PROVE  TypeOK'
    BY <1>7, IdleRow, AnnouncedRow DEF TypeOK, Announce
  <1>8. ASSUME NEW h \in Handlers, Unpair(h)
        PROVE  TypeOK'
    BY <1>8, IdleRow DEF TypeOK, Unpair, UpdateState
  <1>9. ASSUME NEW h \in Handlers, HandlerDies(h)
        PROVE  TypeOK'
    BY <1>9, IdleRow DEF TypeOK, HandlerDies
  <1>10. ASSUME NEW p \in Pollers, NEW s \in Sessions, GetStatus(p, s)
        PROVE  TypeOK'
    BY <1>10 DEF TypeOK, GetStatus
  <1>11. ASSUME NEW p \in Pollers, MarkExpired(p)
        PROVE  TypeOK'
    BY <1>11, StatusRow DEF TypeOK, MarkExpired, SessionStatus
  <1>12. ASSUME NEW p \in Pollers, PollerDies(p)
        PROVE  TypeOK'
    BY <1>12 DEF TypeOK, PollerDies
  <1>13. ASSUME NEW s \in Sessions, NEW c \in Codes, CreateSession(s, c)
        PROVE  TypeOK'
    <2>1. now + PairingTTL \in Times
      BY <1>13 DEF TypeOK, CreateSession, Times, Forever
    <2>2. UnpairedSession("pending_pairing", c, now + PairingTTL) \in SessionRows
      BY <2>1, UnpairedRow DEF SessionStatus
    <2>. QED
      BY <1>13, <2>2 DEF TypeOK, CreateSession
  <1>14. ASSUME NEW s \in Sessions, DisconnectSession(s)
        PROVE  TypeOK'
    BY <1>14, StatusRow DEF TypeOK, DisconnectSession, SessionStatus
  <1>15. ASSUME NEW s \in Sessions, DeleteSession(s)
        PROVE  TypeOK'
    BY <1>15, DeletedRow DEF TypeOK, DeleteSession
  <1>16. ASSUME NEW a \in Accounts, NEW n \in 2 .. MaxTokens, RegenerateToken(a, n)
        PROVE  TypeOK'
    BY <1>16 DEF TypeOK, RegenerateToken
  <1>17. ASSUME NEW a \in Accounts, DeleteAccount(a)
        PROVE  TypeOK'
    <2>1. sessions' \in [Sessions -> SessionRows]
      BY <1>17, DetachedRow DEF TypeOK, DeleteAccount, DeletedAccount
    <2>2. accounts' \in [Accounts -> [status : {"none", "live", "deleted"},
                                      token : 0 .. MaxTokens]]
      BY <1>17 DEF TypeOK, DeleteAccount, DeletedAccount
    <2>3. convs' \in [Convs -> [exists : BOOLEAN, state : {"unpaired", "paired"},
                                account_id : Accounts \cup {NULL}]]
      <3>1. convs' = [k \in Convs |->
                         IF convs[k].account_id = a
                         THEN [convs[k] EXCEPT !.account_id = NULL]
                         ELSE convs[k]]
        BY <1>17 DEF DeleteAccount
      <3>. QED
        BY <3>1, DetachedConv DEF TypeOK
    <2>. QED
      BY <1>17, <2>1, <2>2, <2>3 DEF TypeOK, DeleteAccount, DeletedAccount
  <1>18. ASSUME NEW k \in Convs, DeleteConversation(k)
        PROVE  TypeOK'
    BY <1>18 DEF TypeOK, DeleteConversation, NoConv
  <1>19. ASSUME NEW k \in Convs, WebhookOther(k)
        PROVE  TypeOK'
    BY <1>19 DEF TypeOK, WebhookOther, Upsert, NewConv
  <1>20. ASSUME DeleteExpired
        PROVE  TypeOK'
    BY <1>20, DeletedRow DEF TypeOK, DeleteExpired
  <1>21. ASSUME Tick
        PROVE  TypeOK'
    BY <1>21 DEF TypeOK, Tick
  <1>22. CASE UNCHANGED vars
    BY <1>22 DEF TypeOK, vars
  <1>. QED
    BY <1>1, <1>2, <1>3, <1>4, <1>5, <1>6, <1>7, <1>8, <1>9, <1>10, <1>11,
       <1>12, <1>13, <1>14, <1>15, <1>16, <1>17, <1>18, <1>19, <1>20,
       <1>21, <1>22
       DEF Next, Handler, Poller, Dashboard

-----------------------------------------------------------------------------
(* The inductive invariant.                                                *)

\* The account of a session that is paired was created for a request.
LEMMA LiveHasOrigin ==
    ASSUME OriginAgrees, ReferentialIntegrity, TypeOK,
           NEW s \in Sessions, sessions[s].account_id # NULL
    PROVE  origin[sessions[s].account_id] # NULL
  BY AnnouncedRow DEF OriginAgrees, ReferentialIntegrity

\* Every statement keeps the inductive invariant; one step per action.
LEMMA InvStep == PairingInv /\ [Next]_vars => PairingInv'
  <1> SUFFICES ASSUME PairingInv, [Next]_vars, TypeOK'
               PROVE  OriginAgrees' /\ ReferentialIntegrity' /\ OwnAccountsOnly'
    BY TypeStep DEF PairingInv
  <1>1. ASSUME NEW h \in Handlers, NEW k \in Convs, NEW c \in Codes,
               WebhookPair(h, k, c)
        PROVE  OriginAgrees' /\ ReferentialIntegrity' /\ OwnAccountsOnly'
    BY <1>1 DEF PairingInv, TypeOK, OriginAgrees, ReferentialIntegrity,
           OwnAccountsOnly, SessionRows, HandlerStates, HandlerAt,
           IdleHandler, WebhookPair, Upsert, NewConv
  <1>2. ASSUME NEW h \in Handlers, NEW k \in Convs, WebhookUnpair(h, k)
        PROVE  OriginAgrees' /\ ReferentialIntegrity' /\ OwnAccountsOnly'
    BY <1>2 DEF PairingInv, TypeOK, OriginAgrees, ReferentialIntegrity,
           OwnAccountsOnly, SessionRows, HandlerStates, HandlerAt,
           IdleHandler, WebhookUnpair
  <1>3. ASSUME NEW h \in Handlers, FindByPairingCode(h)
        PROVE  OriginAgrees' /\ ReferentialIntegrity' /\ OwnAccountsOnly'
    <2>1. \A g \in Handlers : hnd'[g].pc = "update" => hnd'[g] = hnd[g]
      BY <1>3, HandlerRow, IdleRow DEF PairingInv, TypeOK, FindByPairingCode
    <2>2. UNCHANGED <<sessions, accounts, convs, published, origin>>
      BY <1>3 DEF FindByPairingCode
    <2>. QED
      BY <2>1, <2>2
         DEF PairingInv, OriginAgrees, ReferentialIntegrity, OwnAccountsOnly
  <1>4. ASSUME NEW h \in Handlers, NEW a \in Accounts, PairTx(h, a)
        PROVE  OriginAgrees' /\ ReferentialIntegrity' /\ OwnAccountsOnly'
    <2>. DEFINE s == hnd[h].session
                k == hnd[h].conv
                o == [session |-> s, conv |-> k]
    <2>1. s \in Sessions /\ k \in Convs
      BY <1>4 DEF PairingInv, TypeOK, PairTx
    <2>2. /\ origin[a] = NULL
          /\ origin' = [origin EXCEPT ![a] = o]
          /\ UNCHANGED <<convs, published>>
      BY <1>4 DEF PairingInv, OriginAgrees, PairTx
    <2>3. o # NULL /\ origin'[a] = o
      BY <2>1, <2>2 DEF PairingInv, TypeOK
    <2>4. \A b \in Accounts : b # a =>
             origin'[b] = origin[b] /\ accounts'[b] = accounts[b]
      BY <1>4, <2>2 DEF PairingInv, TypeOK, PairTx
    <2>5. accounts'[a].status = "live"
      BY <1>4 DEF PairingInv, TypeOK, PairTx
    <2>6. \A g \in Handlers : hnd'[g].pc = "update" =>
             \/ /\ hnd'[g] = hnd[g] /\ hnd[g].account \in Accounts \ {a}
             \/ /\ hnd'[g].account = a
                /\ hnd'[g].session = s /\ hnd'[g].conv = k
      <3>1. \A g \in Handlers \ {h} : hnd'[g] = hnd[g]
        BY <1>4 DEF PairingInv, TypeOK, PairTx
      <3>2. /\ hnd'[h].account = a /\ hnd'[h].session = s
            /\ hnd'[h].conv = k
        BY <1>4, <2>1, HandlerRow DEF PairingInv, TypeOK, PairTx
      <3>3. ASSUME NEW g \in Handlers, hnd[g].pc = "update"
            PROVE  hnd[g].account \in Accounts \ {a}
        <4>1. /\ hnd[g].account \in Accounts /\ hnd[g].session \in Sessions
              /\ hnd[g].conv \in Convs
          BY <3>3 DEF PairingInv, TypeOK
        <4>2. origin[hnd[g].account] =
                 [session |-> hnd[g].session, conv |-> hnd[g].conv]
          BY <3>3 DEF PairingInv, OriginAgrees
        <4>. QED
          BY <4>1, <4>2, <2>2
      <3>. QED
        BY <3>1, <3>2, <3>3
    <2>7. \A t \in Sessions :
             \/ /\ sessions'[t].account_id = sessions[t].account_id
                /\ sessions'[t].paired_conversation_key
                      = sessions[t].paired_conversation_key
                /\ sessions'[t].status = sessions[t].status
                /\ sessions[t].account_id # a
             \/ /\ t = s /\ sessions'[t].account_id = a
                /\ sessions'[t].paired_conversation_key = k
                /\ sessions'[t].status = "paired"
      <3>1. \A t \in Sessions : sessions[t].account_id # a
        BY <1>4, LiveHasOrigin, <2>2 DEF PairingInv
      <3>2. \A t \in Sessions \ {s} : sessions'[t] = sessions[t]
        BY <1>4 DEF PairingInv, TypeOK, PairTx
      <3>3. sessions'[s] = UpdateMetadata(MarkPaired(sessions[s], a, k), <<a, 1>>)
        BY <1>4, <2>1 DEF PairingInv, TypeOK, PairTx
      <3>4. sessions[s] \in SessionRows
        BY <2>1 DEF PairingInv, TypeOK
      <3>. QED
        BY <3>1, <3>2, <3>3, <3>4 DEF MarkPaired, UpdateMetadata, SessionRows
    <2>8. \A t \in Sessions : sessions'[t].relayToken \in
             {sessions[t].relayToken} \cup (IF t = s THEN {<<a, 1>>} ELSE {})
      <3>2. \A t \in Sessions \ {s} : sessions'[t] = sessions[t]
        BY <1>4 DEF PairingInv, TypeOK, PairTx
      <3>3. sessions'[s] = UpdateMetadata(MarkPaired(sessions[s], a, k), <<a, 1>>)
        BY <1>4, <2>1 DEF PairingInv, TypeOK, PairTx
      <3>4. sessions[s] \in SessionRows
        BY <2>1 DEF PairingInv, TypeOK
      <3>. QED
        BY <3>2, <3>3, <3>4 DEF MarkPaired, UpdateMetadata, SessionRows
    <2>9. OriginAgrees'
      <3>1. \A b \in Accounts : accounts'[b].status = "none" <=> origin'[b] = NULL
        BY <2>3, <2>4, <2>5 DEF PairingInv, OriginAgrees
      <3>2. \A l \in Convs : convs'[l].account_id # NULL =>
               /\ origin'[convs'[l].account_id] # NULL
               /\ origin'[convs'[l].account_id].conv = l
        BY <2>2, <2>4 DEF PairingInv, TypeOK, OriginAgrees
      <3>3. \A t \in Sessions : sessions'[t].account_id # NULL =>
               origin'[sessions'[t].account_id] =
                  [session |-> t, conv |-> sessions'[t].paired_conversation_key]
        BY <2>3, <2>4, <2>7 DEF PairingInv, TypeOK, SessionRows, OriginAgrees
      <3>4. \A t \in Sessions : sessions'[t].status = "pending_pairing" =>
               sessions'[t].account_id = NULL
        BY <2>7 DEF PairingInv, OriginAgrees
      <3>5. \A g \in Handlers : hnd'[g].pc = "update" =>
               origin'[hnd'[g].account] =
                  [session |-> hnd'[g].session, conv |-> hnd'[g].conv]
        BY <2>3, <2>4, <2>6 DEF PairingInv, OriginAgrees
      <3>. QED
        BY <3>1, <3>2, <3>3, <3>4, <3>5 DEF OriginAgrees
    <2>10. ReferentialIntegrity'
      <3>1. ASSUME NEW t \in Sessions, sessions'[t].account_id # NULL
            PROVE  accounts'[sessions'[t].account_id].status = "live"
        BY <2>4, <2>5, <2>7, <3>1, AnnouncedRow DEF PairingInv, ReferentialIntegrity
      <3>2. ASSUME NEW l \in Convs, convs'[l].account_id # NULL
            PROVE  accounts'[convs'[l].account_id].status = "live"
        BY <2>2, <2>4, <2>5, <3>2 DEF PairingInv, TypeOK, ReferentialIntegrity
      <3>. QED
        BY <3>1, <3>2 DEF ReferentialIntegrity
    <2>11. OwnAccountsOnly'
      <3>1. ASSUME NEW t \in Sessions, sessions'[t].relayToken # NULL
            PROVE  /\ origin'[sessions'[t].relayToken[1]] # NULL
                   /\ origin'[sessions'[t].relayToken[1]].session = t
        <4>1. CASE sessions'[t].relayToken = sessions[t].relayToken
          <5>1. /\ origin[sessions[t].relayToken[1]] # NULL
                /\ origin[sessions[t].relayToken[1]].session = t
            BY <3>1, <4>1 DEF PairingInv, OwnAccountsOnly
          <5>2. sessions[t].relayToken \in RelayTokens
            BY <3>1, <4>1 DEF PairingInv, TypeOK, SessionRows
          <5>3. sessions[t].relayToken[1] \in Accounts
            BY <5>2 DEF RelayTokens
          <5>. QED
            BY <4>1, <5>1, <5>3, <2>2, <2>4
        <4>2. CASE t = s /\ sessions'[t].relayToken = <<a, 1>>
          BY <4>2, <2>3
        <4>. QED
          BY <2>8, <4>1, <4>2
      <3>2. \A e \in published' :
               origin'[e.account] # NULL /\ origin'[e.account].session = e.session
        BY <2>2, <2>4 DEF PairingInv, TypeOK, OwnAccountsOnly
      <3>. QED
        BY <3>1, <3>2 DEF OwnAccountsOnly
    <2>. QED
      BY <2>9, <2>10, <2>11
  <1>5. ASSUME NEW h \in Handlers, UpdateConversation(h)
        PROVE  OriginAgrees' /\ ReferentialIntegrity' /\ OwnAccountsOnly'
    <2>. DEFINE k == hnd[h].conv
                a == hnd[h].account
    <2>1. /\ k \in Convs /\ a \in Accounts
          /\ origin[a] # NULL /\ origin[a].conv = k
      <3>1. k \in Convs /\ a \in Accounts /\ hnd[h].session \in Sessions
        BY <1>5 DEF PairingInv, TypeOK, UpdateConversation
      <3>2. origin[a] = [session |-> hnd[h].session, conv |-> k]
        BY <1>5 DEF PairingInv, OriginAgrees, UpdateConversation
      <3>. QED
        BY <3>1, <3>2
    <2>2. \A g \in Handlers : hnd'[g].pc = "update" => hnd'[g] = hnd[g]
      <3>1. hnd[h].session \in Sessions
        BY <1>5 DEF PairingInv, TypeOK, UpdateConversation
      <3>2. HandlerAt("announce", k, NULL, hnd[h].session, NULL).pc = "announce"
        BY <2>1, <3>1, HandlerRow
      <3>. QED
        BY <1>5, <3>2 DEF PairingInv, TypeOK, UpdateConversation
    <2>3. UNCHANGED <<sessions, accounts, published, origin>>
      BY <1>5 DEF UpdateConversation
    <2>4. \A l \in Convs :
             \/ convs'[l].account_id = convs[l].account_id
             \/ /\ l = k /\ accounts[a].status = "live"
                /\ convs'[l].account_id = a
      BY <1>5, <2>1 DEF PairingInv, TypeOK, UpdateConversation, UpdateState
    <2>5. OriginAgrees'
      BY <2>1, <2>2, <2>3, <2>4 DEF PairingInv, OriginAgrees
    <2>6. ReferentialIntegrity'
      BY <2>3, <2>4 DEF PairingInv, ReferentialIntegrity
    <2>7. OwnAccountsOnly'
      BY <2>3 DEF PairingInv, OwnAccountsOnly
    <2>. QED
      BY <2>5, <2>6, <2>7
  <1>6. ASSUME NEW h \in Handlers, UpdateConversationFails(h)
        PROVE  OriginAgrees' /\ ReferentialIntegrity' /\ OwnAccountsOnly'
    BY <1>6 DEF PairingInv, TypeOK, OriginAgrees, ReferentialIntegrity,
           OwnAccountsOnly, SessionRows, HandlerStates, HandlerAt,
           IdleHandler, UpdateConversationFails
  <1>7. ASSUME NEW h \in Handlers, Announce(h)
        PROVE  OriginAgrees' /\ ReferentialIntegrity' /\ OwnAccountsOnly'
    <2>. DEFINE s == hnd[h].session
    <2>1. s \in Sessions
      BY <1>7 DEF PairingInv, TypeOK, Announce
    <2>2. \A g \in Handlers : hnd'[g].pc = "update" => hnd'[g] = hnd[g]
      BY <1>7, IdleRow DEF PairingInv, TypeOK, Announce
    <2>3. UNCHANGED <<sessions, accounts, convs, origin>>
      BY <1>7 DEF Announce
    <2>4. OriginAgrees' /\ ReferentialIntegrity'
      BY <2>2, <2>3 DEF PairingInv, OriginAgrees, ReferentialIntegrity
    <2>5. ASSUME NEW e \in published'
          PROVE  origin[e.account] # NULL /\ origin[e.account].session = e.session
      <3>1. CASE e \in published
        BY <3>1 DEF PairingInv, OwnAccountsOnly
      <3>2. CASE e \notin published
        <4>1. /\ e.session = s /\ e.account = sessions[s].account_id
              /\ sessions[s].account_id # NULL
          BY <1>7, <2>5, <3>2 DEF Announce
        <4>2. origin[e.account] =
                 [session |-> s, conv |-> sessions[s].paired_conversation_key]
          BY <2>1, <4>1 DEF PairingInv, OriginAgrees
        <4>3. e.account \in Accounts
          BY <2>1, <4>1, AnnouncedRow DEF PairingInv
        <4>4. origin[e.account].session = s
          BY <4>2
        <4>5. origin[e.account] # NULL
          BY <4>1, <4>3, <2>1, LiveHasOrigin DEF PairingInv
        <4>. QED
          BY <4>1, <4>4, <4>5
      <3>. QED
        BY <3>1, <3>2
    <2>6. OwnAccountsOnly'
      BY <2>3, <2>5 DEF PairingInv, OwnAccountsOnly
    <2>. QED
      BY <2>4, <2>6
  <1>8. ASSUME NEW h \in Handlers, Unpair(h)
        PROVE  OriginAgrees' /\ ReferentialIntegrity' /\ OwnAccountsOnly'
    BY <1>8 DEF PairingInv, TypeOK, OriginAgrees, ReferentialIntegrity,
           OwnAccountsOnly, SessionRows, HandlerStates, HandlerAt,
           IdleHandler, Unpair, UpdateState
  <1>9. ASSUME NEW h \in Handlers, HandlerDies(h)
        PROVE  OriginAgrees' /\ ReferentialIntegrity' /\ OwnAccountsOnly'
    BY <1>9 DEF PairingInv, TypeOK, OriginAgrees, ReferentialIntegrity,
           OwnAccountsOnly, SessionRows, HandlerStates, HandlerAt,
           IdleHandler, HandlerDies
  <1>10. ASSUME NEW p \in Pollers, NEW s \in Sessions, GetStatus(p, s)
        PROVE  OriginAgrees' /\ ReferentialIntegrity' /\ OwnAccountsOnly'
    BY <1>10 DEF PairingInv, TypeOK, OriginAgrees, ReferentialIntegrity,
           OwnAccountsOnly, SessionRows, HandlerStates, HandlerAt,
           IdleHandler, GetStatus
  <1>11. ASSUME NEW p \in Pollers, MarkExpired(p)
        PROVE  OriginAgrees' /\ ReferentialIntegrity' /\ OwnAccountsOnly'
    <2>1. UNCHANGED <<hnd, accounts, convs, published, origin>>
      BY <1>11 DEF MarkExpired
    <2>2. \A s \in Sessions :
             /\ sessions'[s].account_id = sessions[s].account_id
             /\ sessions'[s].relayToken = sessions[s].relayToken
             /\ sessions'[s].paired_conversation_key
                   = sessions[s].paired_conversation_key
             /\ sessions'[s].status = "pending_pairing" => sessions'[s] = sessions[s]
      BY <1>11 DEF MarkExpired, PairingInv, TypeOK, SessionRows
    <2>. QED
      BY <2>1, <2>2
         DEF PairingInv, OriginAgrees, ReferentialIntegrity, OwnAccountsOnly
  <1>12. ASSUME NEW p \in Pollers, PollerDies(p)
        PROVE  OriginAgrees' /\ ReferentialIntegrity' /\ OwnAccountsOnly'
    BY <1>12 DEF PairingInv, TypeOK, OriginAgrees, ReferentialIntegrity,
           OwnAccountsOnly, SessionRows, HandlerStates, HandlerAt,
           IdleHandler, PollerDies
  <1>13. ASSUME NEW s \in Sessions, NEW c \in Codes, CreateSession(s, c)
        PROVE  OriginAgrees' /\ ReferentialIntegrity' /\ OwnAccountsOnly'
    BY <1>13 DEF PairingInv, TypeOK, OriginAgrees, ReferentialIntegrity,
           OwnAccountsOnly, SessionRows, HandlerStates, HandlerAt,
           IdleHandler, CreateSession, UnpairedSession
  <1>14. ASSUME NEW s \in Sessions, DisconnectSession(s)
        PROVE  OriginAgrees' /\ ReferentialIntegrity' /\ OwnAccountsOnly'
    BY <1>14 DEF PairingInv, TypeOK, OriginAgrees, ReferentialIntegrity,
           OwnAccountsOnly, SessionRows, HandlerStates, HandlerAt,
           IdleHandler, DisconnectSession
  <1>15. ASSUME NEW s \in Sessions, DeleteSession(s)
        PROVE  OriginAgrees' /\ ReferentialIntegrity' /\ OwnAccountsOnly'
    BY <1>15 DEF PairingInv, TypeOK, OriginAgrees, ReferentialIntegrity,
           OwnAccountsOnly, SessionRows, HandlerStates, HandlerAt,
           IdleHandler, DeleteSession, DeletedSession, UnpairedSession
  <1>16. ASSUME NEW a \in Accounts, NEW n \in 2 .. MaxTokens, RegenerateToken(a, n)
        PROVE  OriginAgrees' /\ ReferentialIntegrity' /\ OwnAccountsOnly'
    BY <1>16 DEF PairingInv, TypeOK, OriginAgrees, ReferentialIntegrity,
           OwnAccountsOnly, SessionRows, HandlerStates, HandlerAt,
           IdleHandler, RegenerateToken
  <1>17. ASSUME NEW a \in Accounts, DeleteAccount(a)
        PROVE  OriginAgrees' /\ ReferentialIntegrity' /\ OwnAccountsOnly'
    BY <1>17 DEF PairingInv, TypeOK, OriginAgrees, ReferentialIntegrity,
           OwnAccountsOnly, SessionRows, HandlerStates, HandlerAt,
           IdleHandler, DeleteAccount, DeletedAccount
  <1>18. ASSUME NEW k \in Convs, DeleteConversation(k)
        PROVE  OriginAgrees' /\ ReferentialIntegrity' /\ OwnAccountsOnly'
    BY <1>18 DEF PairingInv, TypeOK, OriginAgrees, ReferentialIntegrity,
           OwnAccountsOnly, SessionRows, HandlerStates, HandlerAt,
           IdleHandler, DeleteConversation, NoConv
  <1>19. ASSUME NEW k \in Convs, WebhookOther(k)
        PROVE  OriginAgrees' /\ ReferentialIntegrity' /\ OwnAccountsOnly'
    BY <1>19 DEF PairingInv, TypeOK, OriginAgrees, ReferentialIntegrity,
           OwnAccountsOnly, SessionRows, HandlerStates, HandlerAt,
           IdleHandler, WebhookOther, Upsert, NewConv
  <1>20. ASSUME DeleteExpired
        PROVE  OriginAgrees' /\ ReferentialIntegrity' /\ OwnAccountsOnly'
    BY <1>20 DEF PairingInv, TypeOK, OriginAgrees, ReferentialIntegrity,
           OwnAccountsOnly, SessionRows, HandlerStates, HandlerAt,
           IdleHandler, DeleteExpired, DeletedSession, UnpairedSession
  <1>21. ASSUME Tick
        PROVE  OriginAgrees' /\ ReferentialIntegrity' /\ OwnAccountsOnly'
    BY <1>21 DEF PairingInv, TypeOK, OriginAgrees, ReferentialIntegrity,
           OwnAccountsOnly, SessionRows, HandlerStates, HandlerAt,
           IdleHandler, Tick
  <1>22. CASE UNCHANGED vars
    BY <1>22 DEF PairingInv, TypeOK, OriginAgrees, ReferentialIntegrity,
           OwnAccountsOnly, SessionRows, HandlerStates, HandlerAt,
           IdleHandler, vars
  <1>. QED
    BY <1>1, <1>2, <1>3, <1>4, <1>5, <1>6, <1>7, <1>8, <1>9, <1>10, <1>11,
       <1>12, <1>13, <1>14, <1>15, <1>16, <1>17, <1>18, <1>19, <1>20,
       <1>21, <1>22
       DEF Next, Handler, Poller, Dashboard

\* Nothing refers to an account in the empty tables.
LEMMA InvInit == Init => PairingInv
  <1> SUFFICES ASSUME Init PROVE PairingInv
    OBVIOUS
  <1>1. TypeOK
    BY TypeInit
  <1>2. OriginAgrees /\ ReferentialIntegrity /\ OwnAccountsOnly
    BY DEF Init, OriginAgrees, ReferentialIntegrity, OwnAccountsOnly,
           NoSession, UnpairedSession, NoAccount, NoConv, IdleHandler, HandlerAt
  <1>. QED
    BY <1>1, <1>2 DEF PairingInv

\* Every reachable state has the inductive invariant: whatever the number of
\* sessions, accounts, conversations and concurrent requests of the server.
THEOREM PairingInvariant == Spec => []PairingInv
  BY InvInit, InvStep, PTL DEF Spec

\* Rows and local variables keep their types.
THEOREM PairingTypes == Spec => []TypeOK
  BY PairingInvariant, PTL DEF PairingInv

\* References to accounts are references to rows that exist: UpdateState and
\* DeleteAccount in any order.
THEOREM PairingReferences == Spec => []ReferentialIntegrity
  BY PairingInvariant, PTL DEF PairingInv

\* A session's owner is told of the session's own accounts only.
THEOREM PairingOwnAccounts == Spec => []OwnAccountsOnly
  BY PairingInvariant, PTL DEF PairingInv

\* Rows that agree with the origin of their account are isolated: a shared
\* account has one origin, which names one session and one conversation.
LEMMA OriginIsolates == PairingInv => TenantIsolation
  <1> SUFFICES ASSUME PairingInv PROVE TenantIsolation
    OBVIOUS
  <1>1. ASSUME NEW k \in Convs, NEW l \in Convs, k # l,
               convs[k].account_id = convs[l].account_id
        PROVE  convs[k].account_id = NULL
    BY <1>1 DEF PairingInv, OriginAgrees
  <1>2. ASSUME NEW s \in Sessions, NEW t \in Sessions, s # t,
               sessions[s].account_id = sessions[t].account_id
        PROVE  sessions[s].account_id = NULL
    <2>1. ASSUME NEW r \in Sessions, sessions[r].account_id # NULL
          PROVE  origin[sessions[r].account_id].session = r
      <3>1. origin[sessions[r].account_id] =
               [session |-> r, conv |-> sessions[r].paired_conversation_key]
        BY <2>1 DEF PairingInv, OriginAgrees
      <3>. QED
        BY <3>1
    <2>. QED
      BY <1>2, <2>1
  <1>3. ASSUME NEW k \in Convs, NEW s \in Sessions,
               convs[k].account_id = sessions[s].account_id,
               convs[k].account_id # NULL
        PROVE  sessions[s].paired_conversation_key = k
    <2>1. origin[sessions[s].account_id].conv = k
      BY <1>3 DEF PairingInv, OriginAgrees
    <2>2. origin[sessions[s].account_id] =
             [session |-> s, conv |-> sessions[s].paired_conversation_key]
      BY <1>3 DEF PairingInv, OriginAgrees
    <2>. QED
      BY <2>1, <2>2
  <1>. QED
    BY <1>1, <1>2, <1>3 DEF TenantIsolation

\* Tenants are isolated: no interleaving of /pair, /unpair, deletions, status
\* requests, failures and the cleanup job lets two conversations or two
\* sessions share an account, or joins a session and a conversation that were
\* not paired with one another.
THEOREM PairingIsolation == Spec => []TenantIsolation
  BY PairingInvariant, OriginIsolates, PTL

-----------------------------------------------------------------------------
(* The life of a session.                                                  *)

\* No statement takes a session back or exchanges its account: MarkPaired
\* looks for a pending row, and the other updates leave the account alone.
LEMMA OnceStep ==
    PairingInv /\ [Next]_vars =>
       \A s \in Sessions : PairedOnceStep(s)
  <1> SUFFICES ASSUME PairingInv, [Next]_vars, NEW r \in Sessions
               PROVE  PairedOnceStep(r)
    OBVIOUS
  <1>1. ASSUME NEW h \in Handlers, NEW k \in Convs, NEW c \in Codes,
               WebhookPair(h, k, c)
        PROVE  PairedOnceStep(r)
    BY <1>1 DEF PairedOnceStep, WebhookPair
  <1>2. ASSUME NEW h \in Handlers, NEW k \in Convs, WebhookUnpair(h, k)
        PROVE  PairedOnceStep(r)
    BY <1>2 DEF PairedOnceStep, WebhookUnpair
  <1>3. ASSUME NEW h \in Handlers, FindByPairingCode(h)
        PROVE  PairedOnceStep(r)
    BY <1>3 DEF PairedOnceStep, FindByPairingCode
  <1>4. ASSUME NEW h \in Handlers, NEW a \in Accounts, PairTx(h, a)
        PROVE  PairedOnceStep(r)
    <2>1. sessions[r] \in SessionRows /\ hnd[h].session \in Sessions
      BY <1>4 DEF PairingInv, TypeOK, PairTx
    <2>2. sessions[r].status = "pending_pairing" => sessions[r].account_id = NULL
      BY DEF PairingInv, OriginAgrees
    <2>3. CASE r # hnd[h].session
      BY <1>4, <2>1, <2>3 DEF PairingInv, TypeOK, PairTx, PairedOnceStep
    <2>4. CASE r = hnd[h].session
      <3>1. sessions'[r] =
               UpdateMetadata(MarkPaired(sessions[r], a, hnd[h].conv), <<a, 1>>)
        BY <1>4, <2>1, <2>4 DEF PairingInv, TypeOK, PairTx
      <3>. QED
        BY <3>1, <2>1, <2>2
           DEF PairedOnceStep, MarkPaired, UpdateMetadata, SessionRows
    <2>. QED
      BY <2>3, <2>4
  <1>5. ASSUME NEW h \in Handlers, UpdateConversation(h)
        PROVE  PairedOnceStep(r)
    BY <1>5 DEF PairedOnceStep, UpdateConversation
  <1>6. ASSUME NEW h \in Handlers, UpdateConversationFails(h)
        PROVE  PairedOnceStep(r)
    BY <1>6 DEF PairedOnceStep, UpdateConversationFails
  <1>7. ASSUME NEW h \in Handlers, Announce(h)
        PROVE  PairedOnceStep(r)
    BY <1>7 DEF PairedOnceStep, Announce
  <1>8. ASSUME NEW h \in Handlers, Unpair(h)
        PROVE  PairedOnceStep(r)
    BY <1>8 DEF PairedOnceStep, Unpair
  <1>9. ASSUME NEW h \in Handlers, HandlerDies(h)
        PROVE  PairedOnceStep(r)
    BY <1>9 DEF PairedOnceStep, HandlerDies
  <1>10. ASSUME NEW p \in Pollers, NEW s \in Sessions, GetStatus(p, s)
        PROVE  PairedOnceStep(r)
    BY <1>10 DEF PairedOnceStep, GetStatus
  <1>11. ASSUME NEW p \in Pollers, MarkExpired(p)
        PROVE  PairedOnceStep(r)
    BY <1>11 DEF PairedOnceStep, MarkExpired, PairingInv, TypeOK, SessionRows,
           SessionStatus, SessionExists
  <1>12. ASSUME NEW p \in Pollers, PollerDies(p)
        PROVE  PairedOnceStep(r)
    BY <1>12 DEF PairedOnceStep, PollerDies
  <1>13. ASSUME NEW s \in Sessions, NEW c \in Codes, CreateSession(s, c)
        PROVE  PairedOnceStep(r)
    BY <1>13 DEF PairedOnceStep, CreateSession, UnpairedSession, PairingInv,
           TypeOK, SessionRows
  <1>14. ASSUME NEW s \in Sessions, DisconnectSession(s)
        PROVE  PairedOnceStep(r)
    BY <1>14 DEF PairedOnceStep, DisconnectSession, PairingInv, TypeOK,
           SessionRows, SessionStatus, SessionExists
  <1>15. ASSUME NEW s \in Sessions, DeleteSession(s)
        PROVE  PairedOnceStep(r)
    BY <1>15 DEF PairedOnceStep, DeleteSession, DeletedSession, UnpairedSession,
           PairingInv, TypeOK, SessionRows
  <1>16. ASSUME NEW a \in Accounts, NEW n \in 2 .. MaxTokens, RegenerateToken(a, n)
        PROVE  PairedOnceStep(r)
    BY <1>16 DEF PairedOnceStep, RegenerateToken
  <1>17. ASSUME NEW a \in Accounts, DeleteAccount(a)
        PROVE  PairedOnceStep(r)
    BY <1>17 DEF PairedOnceStep, DeleteAccount, DeletedAccount, PairingInv, TypeOK, SessionRows
  <1>18. ASSUME NEW k \in Convs, DeleteConversation(k)
        PROVE  PairedOnceStep(r)
    BY <1>18 DEF PairedOnceStep, DeleteConversation
  <1>19. ASSUME NEW k \in Convs, WebhookOther(k)
        PROVE  PairedOnceStep(r)
    BY <1>19 DEF PairedOnceStep, WebhookOther
  <1>20. ASSUME DeleteExpired
        PROVE  PairedOnceStep(r)
    BY <1>20 DEF PairedOnceStep, DeleteExpired, DeletedSession, UnpairedSession,
           PairingInv, TypeOK, SessionRows
  <1>21. ASSUME Tick
        PROVE  PairedOnceStep(r)
    BY <1>21 DEF PairedOnceStep, Tick
  <1>22. CASE UNCHANGED vars
    BY <1>22 DEF PairedOnceStep, vars
  <1>. QED
    BY <1>1, <1>2, <1>3, <1>4, <1>5, <1>6, <1>7, <1>8, <1>9, <1>10, <1>11,
       <1>12, <1>13, <1>14, <1>15, <1>16, <1>17, <1>18, <1>19, <1>20,
       <1>21, <1>22
       DEF Next, Handler, Poller, Dashboard


\* A session is paired once, from pending_pairing, with one account and one
\* conversation, whatever requests race for it.
THEOREM PairingOnce == Spec => PairedOnce
  <1>1. PairingInv /\ [Next]_vars => [\A s \in Sessions : PairedOnceStep(s)]_sessions
    BY OnceStep
  <1>. QED
    BY <1>1, PairingInvariant, PTL DEF Spec, PairedOnce

=============================================================================
