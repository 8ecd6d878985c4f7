--------------------------- MODULE DeliveryProofs ---------------------------
(***************************************************************************)
(* Proofs about Delivery for every set of accounts, messages, webhooks and *)
(* connections, every buffer size and every number of duplicate copies.    *)
(*                                                                         *)
(* DeliveryInv is the inductive invariant.  Its parts: the rows that exist *)
(* are finitely many and created_at tells them apart, so that the row a    *)
(* replay marks is the row it wrote (Created, Marking); whatever is under  *)
(* way to a client is a row of the client's account (UnderWay); and a      *)
(* message is missing from a connection that has made its query only while *)
(* its event is still to come or after it passed that connection by        *)
(* (Accounted).                                                            *)
(***************************************************************************)
EXTENDS Delivery, QueueLemmas, FiniteSetTheorems

USE NullAssumption, BoundAssumption

-----------------------------------------------------------------------------

\* The rows that were ever stored.
Stored == {m \in Messages : inbound[m].status # "none"}

\* created_at orders the rows strictly.
Created ==
    /\ IsFiniteSet(Stored)
    /\ \A m \in Stored : inbound[m].created <= Cardinality(Stored)
    /\ \A m, n \in Stored : inbound[m].created = inbound[n].created => m = n

\* An id has an account from the moment its row is stored, and nobody has
\* heard of it before.
Owned ==
    \A m \in Messages :
        /\ m \in Stored <=> inbound[m].account_id \in Accounts
        /\ m \notin Stored => wire[m] = 0 /\ received[m] = {}

\* What the replay and the buffer of a connection hold is the account's own.
Carries(c) ==
    /\ conn[c].pc = "offline" => buf[c] = <<>>
    /\ \A m \in conn[c].todo \cup Range(buf[c]) :
          m \in Stored /\ inbound[m].account_id = conn[c].account

\* A webhook names a message when it has stored it and not published it yet.
Naming ==
    \A w \in Webhooks : IF web[w].pc = "publish" THEN web[w].msg \in Stored
                                                 ELSE web[w].msg = NULL

UnderWay == Naming /\ \A c \in Conns : Carries(c)

\* The row that MarkDelivered is about to mark has been written.
Marking ==
    \A c \in Conns : conn[c].pc = "mark" =>
        \A m \in conn[c].todo : IsNext(m, conn[c].todo) =>
            m \in written[c] /\ received[m] # {}

\* No event of m is to come, and none has passed c by.
Settled(c, m) == m \notin missed[c] /\ ~ToCome(m)

\* NoGap from the query on: what is not written yet is in the replay or in
\* the buffer.
Accounted ==
    \A c \in Conns, m \in Messages :
        /\ conn[c].pc \in {"replay", "mark", "live"}
        /\ inbound[m].status = "queued"
        /\ inbound[m].account_id = conn[c].account
        /\ Settled(c, m)
        => m \in conn[c].todo \cup written[c] \cup Range(buf[c])

\* A connection that streams has nothing left to replay.
Replayed == \A c \in Conns : conn[c].pc = "live" => conn[c].todo = {}

DeliveryInv ==
    /\ TypeOK /\ Created /\ Owned /\ UnderWay /\ Marking /\ Accounted /\ Replayed
    /\ OwnMessagesOnly /\ DeliveredWasWritten

-----------------------------------------------------------------------------
(* The rows.                                                               *)

\* A message without a callback.
LEMMA NoExpiry == NULL \in Expiries
  BY DEF Expiries

\* What a webhook keeps between two statements.
LEMMA WebRow ==
    ASSUME NEW pc \in {"idle", "create", "publish"},
           NEW a \in Accounts \cup {NULL}, NEW m \in Messages \cup {NULL},
           NEW t \in Expiries
    PROVE  /\ WebAt(pc, a, t, m) \in WebRows
           /\ WebAt(pc, a, t, m).pc = pc
           /\ WebAt(pc, a, t, m).account = a
           /\ WebAt(pc, a, t, m).msg = m
  BY DEF WebAt, WebRows

\* A webhook that has returned holds nothing.
LEMMA IdleWebRow == IdleWeb \in WebRows /\ IdleWeb.pc = "idle" /\ IdleWeb.msg = NULL
  BY WebRow, NoExpiry DEF IdleWeb

\* What a connection keeps.
LEMMA ConnRow ==
    ASSUME NEW pc \in {"offline", "find", "replay", "mark", "live", "broken"},
           NEW a \in Accounts \cup {NULL}, NEW todo \in SUBSET Messages
    PROVE  /\ ConnAt(pc, a, todo) \in ConnRows
           /\ ConnAt(pc, a, todo).pc = pc
           /\ ConnAt(pc, a, todo).account = a
           /\ ConnAt(pc, a, todo).todo = todo
  BY DEF ConnAt, ConnRows

\* ... and one that is no more.
LEMMA OfflineRow ==
    Offline \in ConnRows /\ Offline.pc = "offline" /\ Offline.todo = {}
  BY ConnRow DEF Offline

\* An INSERT.
LEMMA StoredRow ==
    ASSUME NEW status \in {"none", "queued"}, NEW a \in Accounts \cup {NULL},
           NEW t \in Expiries, NEW n \in Nat
    PROVE  /\ Row(status, a, t, n) \in InboundRows
           /\ Row(status, a, t, n).status = status
           /\ Row(status, a, t, n).account_id = a
           /\ Row(status, a, t, n).created = n
  BY DEF Row, InboundRows

\* An UPDATE of the status.
LEMMA StatusRow ==
    ASSUME NEW row \in InboundRows, NEW status \in {"delivered", "expired", "deleted"}
    PROVE  /\ [row EXCEPT !.status = status] \in InboundRows
           /\ [row EXCEPT !.status = status].status = status
           /\ [row EXCEPT !.status = status].account_id = row.account_id
           /\ [row EXCEPT !.status = status].created = row.created
  BY DEF InboundRows

\* The handler of c goes on: nothing else of any connection changes.
LEMMA Advance ==
    ASSUME TypeOK, NEW c \in Conns, NEW pc \in {"mark", "live"},
           conn' = [conn EXCEPT ![c].pc = pc]
    PROVE  /\ conn' \in [Conns -> ConnRows]
           /\ conn'[c].pc = pc
           /\ \A d \in Conns : /\ conn'[d].account = conn[d].account
                               /\ conn'[d].todo = conn[d].todo
                               /\ d # c => conn'[d].pc = conn[d].pc
  <1>1. conn \in [Conns -> ConnRows]
    BY DEF TypeOK
  <1>. DEFINE row == [conn[c] EXCEPT !.pc = pc]
  <1>2. conn' = [conn EXCEPT ![c] = row]
    OBVIOUS
  <1>3. /\ row \in ConnRows /\ row.pc = pc
        /\ row.account = conn[c].account /\ row.todo = conn[c].todo
    <2>1. conn[c] \in ConnRows
      BY <1>1
    <2>. QED
      BY ONLY <2>1, pc \in {"mark", "live"} DEF ConnRows
  <1>. HIDE DEF row
  <1>. QED
    BY <1>1, <1>2, <1>3

\* The handler of c has rows to replay.
LEMMA MoveReplay ==
    ASSUME TypeOK, NEW c \in Conns, NEW a \in Accounts, NEW todo \in SUBSET Messages,
           conn' = [conn EXCEPT ![c] = ConnAt("replay", a, todo)]
    PROVE  /\ conn' \in [Conns -> ConnRows]
           /\ conn'[c].pc = "replay" /\ conn'[c].account = a /\ conn'[c].todo = todo
           /\ \A d \in Conns : conn'[d].pc # "offline" => conn'[d].account \in Accounts
  <1>. DEFINE row == ConnAt("replay", a, todo)
  <1>1. row \in ConnRows /\ row.pc = "replay" /\ row.account = a /\ row.todo = todo
    BY ConnRow
  <1>2. conn' = [conn EXCEPT ![c] = row]
    OBVIOUS
  <1>. HIDE DEF row
  <1>. QED
    BY <1>1, <1>2 DEF TypeOK

\* The handler of c has nothing to replay, or nothing any more.
LEMMA MoveEmpty ==
    ASSUME TypeOK, NEW c \in Conns, NEW pc \in {"find", "live", "broken"},
           NEW a \in Accounts,
           conn' = [conn EXCEPT ![c] = ConnAt(pc, a, {})]
    PROVE  /\ conn' \in [Conns -> ConnRows]
           /\ conn'[c].pc = pc /\ conn'[c].account = a /\ conn'[c].todo = {}
           /\ \A d \in Conns : conn'[d].pc # "offline" => conn'[d].account \in Accounts
  <1>. DEFINE row == ConnAt(pc, a, {})
  <1>1. row \in ConnRows /\ row.pc = pc /\ row.account = a /\ row.todo = {}
    BY DEF ConnAt, ConnRows
  <1>2. conn' = [conn EXCEPT ![c] = row]
    OBVIOUS
  <1>. HIDE DEF row
  <1>. QED
    BY <1>1, <1>2 DEF TypeOK

\* MarkDelivered changes the status of one row, if that is there.
LEMMA Mark ==
    ASSUME TypeOK, NEW m \in Messages
    PROVE  /\ MarkRow(m) \in [Messages -> InboundRows]
           /\ \A n \in Messages \ {m} : MarkRow(m)[n] = inbound[n]
           /\ MarkRow(m)[m].account_id = inbound[m].account_id
           /\ MarkRow(m)[m].created = inbound[m].created
           /\ MarkRow(m)[m].status = IF Exists(m) THEN "delivered" ELSE inbound[m].status
  <1>1. inbound \in [Messages -> InboundRows]
    BY DEF TypeOK
  <1>. DEFINE row == [inbound[m] EXCEPT !.status = "delivered"]
  <1>2. MarkRow(m) = IF Exists(m) THEN [inbound EXCEPT ![m] = row] ELSE inbound
    BY DEF MarkRow
  <1>3. /\ row \in InboundRows /\ row.status = "delivered"
        /\ row.account_id = inbound[m].account_id /\ row.created = inbound[m].created
    BY <1>1, StatusRow
  <1>. HIDE DEF row
  <1>. QED
    BY <1>1, <1>2, <1>3

\* What an event that does not arrive adds to the histories.
LEMMA Passed ==
    ASSUME TypeOK, NEW m \in Messages, NEW C
    PROVE  /\ PassesBy(m, C) \in [Conns -> SUBSET Messages]
           /\ \A c \in Conns : missed[c] \subseteq PassesBy(m, C)[c]
           /\ \A c \in Conns : c \in C /\ conn[c].pc # "find" => m \in PassesBy(m, C)[c]
  BY DEF PassesBy, TypeOK

-----------------------------------------------------------------------------
(* Types.                                                                  *)

\* Empty tables have their types.
LEMMA TypeInit == Init => TypeOK
  <1>1. NoRow \in InboundRows
    BY StoredRow, NoExpiry DEF NoRow
  <1>. QED
    BY <1>1, IdleWebRow, OfflineRow, QueueEmpty DEF Init, TypeOK

\* created_at of the next row.
LEMMA NextCreatedType ==
    ASSUME IsFiniteSet(Stored)
    PROVE  NextCreated = Cardinality(Stored) + 1 /\ Cardinality(Stored) \in Nat
  BY FS_CardinalityType DEF NextCreated, Stored

\* Every statement, write, broadcast and failure keeps the types.
LEMMA TypeStep == TypeOK /\ Created /\ [Next]_vars => TypeOK'
  <1> SUFFICES ASSUME TypeOK, Created, [Next]_vars PROVE TypeOK'
    OBVIOUS
  <1>1. ASSUME NEW w \in Webhooks, NEW k \in Convs, NEW b \in BOOLEAN,
               Webhook(w, k, b)
        PROVE  TypeOK'
    <2>. DEFINE t == IF b THEN now + CallbackTTL ELSE NULL
    <2>1. link[k] \in Accounts
      BY <1>1 DEF TypeOK, Webhook
    <2>2. t \in Expiries
      BY DEF TypeOK, Expiries
    <2>3. web' = [web EXCEPT ![w] = WebAt("create", link[k], t, NULL)]
      BY <1>1 DEF Webhook
    <2>. HIDE DEF t
    <2>. QED
      BY <1>1, <2>1, <2>2, <2>3, WebRow DEF TypeOK, Webhook
  <1>2. ASSUME NEW w \in Webhooks, NEW m \in Messages, CreateInbound(w, m)
        PROVE  TypeOK'
    <2>1. web[w].account \in Accounts
      BY <1>2 DEF TypeOK, CreateInbound
    <2>2. web[w].expires \in Expiries
      BY DEF TypeOK, WebRows
    <2>3. NextCreated \in Nat
      BY NextCreatedType DEF Created
    <2>4. inbound' = [inbound EXCEPT ![m] = Row("queued", web[w].account,
                                                web[w].expires, NextCreated)]
      BY <1>2 DEF CreateInbound
    <2>5. inbound' \in [Messages -> InboundRows]
      BY <2>1, <2>2, <2>3, <2>4, StoredRow DEF TypeOK
    <2>. QED
      BY <1>2, <2>1, <2>5, WebRow, NoExpiry DEF TypeOK, CreateInbound
  <1>3. ASSUME NEW w \in Webhooks, Publish(w)
        PROVE  TypeOK'
    <2>1. missed' \in [Conns -> SUBSET Messages]
      BY <1>3, Passed DEF TypeOK, Publish
    <2>. QED
      BY <1>3, <2>1, IdleWebRow DEF TypeOK, Publish
  <1>4. ASSUME NEW w \in Webhooks, WebhookDies(w)
        PROVE  TypeOK'
    <2>1. missed' \in [Conns -> SUBSET Messages]
      BY <1>4, Passed DEF TypeOK, WebhookDies
    <2>. QED
      BY <1>4, <2>1, IdleWebRow DEF TypeOK, WebhookDies
  <1>5. ASSUME NEW m \in Messages, Broadcast(m)
        PROVE  TypeOK'
    <2>1. /\ buf' \in [Conns -> Seq(Messages)]
          /\ \A c \in Conns : Len(buf'[c]) <= BufCap
      <3>1. PICK X \in SUBSET Conns :
               /\ \A c \in X : Len(buf[c]) # BufCap
               /\ buf' = [c \in Conns |-> IF c \in X THEN Append(buf[c], m) ELSE buf[c]]
        <4>. USE DEF Audience
        <4>. DEFINE X == Audience(m) \ {c \in Audience(m) : Len(buf[c]) = BufCap}
        <4>. WITNESS X \in SUBSET Conns
        <4>. QED
          BY <1>5 DEF Broadcast, Audience
      <3>2. ASSUME NEW c \in Conns
            PROVE  buf'[c] \in Seq(Messages) /\ Len(buf'[c]) <= BufCap
        BY <3>1, QueueAppend, QueueType DEF TypeOK
      <3>. QED
        BY <3>1, <3>2
    <2>2. wire' \in [Messages -> 0 .. MaxCopies]
      BY <1>5 DEF TypeOK, Broadcast
    <2>3. missed' \in [Conns -> SUBSET Messages]
      BY <1>5, Passed DEF Broadcast
    <2>. QED
      BY <1>5, <2>1, <2>2, <2>3 DEF TypeOK, Broadcast
  <1>6. ASSUME NEW c \in Conns, NEW a \in Accounts, Connect(c, a)
        PROVE  TypeOK'
    <2>1. conn' = [conn EXCEPT ![c] = ConnAt("find", a, {})]
      BY <1>6 DEF Connect
    <2>2. /\ conn' \in [Conns -> ConnRows]
          /\ \A d \in Conns : conn'[d].pc # "offline" => conn'[d].account \in Accounts
      BY <2>1, MoveEmpty
    <2>. QED
      BY <1>6, <2>2 DEF TypeOK, Connect
  <1>7. ASSUME NEW c \in Conns, FindQueued(c)
        PROVE  TypeOK'
    <2>1. conn[c].account \in Accounts /\ QueuedFor(conn[c].account) \in SUBSET Messages
      BY <1>7 DEF TypeOK, FindQueued, QueuedFor
    <2>2. /\ conn' \in [Conns -> ConnRows]
          /\ \A d \in Conns : conn'[d].pc # "offline" => conn'[d].account \in Accounts
      BY <1>7, <2>1, MoveReplay DEF FindQueued
    <2>. QED
      BY <1>7, <2>2 DEF TypeOK, FindQueued
  <1>8. ASSUME NEW c \in Conns, FindQueuedFails(c)
        PROVE  TypeOK'
    <2>1. conn[c].account \in Accounts /\ QueuedFor(conn[c].account) \in SUBSET Messages
      BY <1>8 DEF TypeOK, FindQueuedFails, QueuedFor
    <2>2. missed' \in [Conns -> SUBSET Messages]
      BY <1>8, <2>1 DEF TypeOK, FindQueuedFails
    <2>3. /\ conn' \in [Conns -> ConnRows]
          /\ \A d \in Conns : conn'[d].pc # "offline" => conn'[d].account \in Accounts
      BY <1>8, <2>1, MoveEmpty DEF FindQueuedFails
    <2>. QED
      BY <1>8, <2>2, <2>3 DEF TypeOK, FindQueuedFails
  <1>9. ASSUME NEW c \in Conns, SendQueued(c)
        PROVE  TypeOK'
    <2>1. PICK m \in conn[c].todo :
             /\ conn[c].pc = "replay"
             /\ Write(c, m)
             /\ conn' = [conn EXCEPT ![c].pc = "mark"]
             /\ UNCHANGED <<now, account, held, link, inbound, web, wire, buf, missed>>
      BY <1>9 DEF SendQueued
    <2>2. m \in Messages /\ conn[c].account \in Accounts
      BY <2>1 DEF TypeOK, ConnRows
    <2>3. /\ conn' \in [Conns -> ConnRows]
          /\ \A d \in Conns : conn'[d].pc # "offline" => conn'[d].account \in Accounts
      BY <2>1, <2>2, Advance DEF TypeOK
    <2>. QED
      BY <2>1, <2>2, <2>3 DEF TypeOK, Write
  <1>10. ASSUME NEW c \in Conns, MarkDelivered(c)
         PROVE  TypeOK'
    <2>1. PICK m \in conn[c].todo :
             /\ conn[c].pc = "mark"
             /\ inbound' = MarkRow(m)
             /\ conn' = [conn EXCEPT ![c] = ConnAt("replay", conn[c].account,
                                                   conn[c].todo \ {m})]
             /\ UNCHANGED <<now, account, held, link, web, wire, buf, written, received,
                            missed>>
      BY <1>10 DEF MarkDelivered
    <2>2. /\ m \in Messages /\ conn[c].account \in Accounts
          /\ conn[c].todo \ {m} \in SUBSET Messages
      BY <2>1 DEF TypeOK, ConnRows
    <2>3. inbound' \in [Messages -> InboundRows]
      BY <2>1, <2>2, Mark
    <2>4. /\ conn' \in [Conns -> ConnRows]
          /\ \A d \in Conns : conn'[d].pc # "offline" => conn'[d].account \in Accounts
      BY <2>1, <2>2, MoveReplay
    <2>. QED
      BY <2>1, <2>3, <2>4 DEF TypeOK
  <1>11. ASSUME NEW c \in Conns, MarkDeliveredFails(c)
         PROVE  TypeOK'
    <2>1. PICK m \in conn[c].todo :
             /\ conn[c].pc = "mark"
             /\ conn' = [conn EXCEPT ![c] = ConnAt("replay", conn[c].account,
                                                   conn[c].todo \ {m})]
             /\ UNCHANGED <<now, account, held, link, inbound, web, wire, buf, written,
                            received, missed>>
      BY <1>11 DEF MarkDeliveredFails
    <2>2. /\ m \in Messages /\ conn[c].account \in Accounts
          /\ conn[c].todo \ {m} \in SUBSET Messages
      BY <2>1 DEF TypeOK, ConnRows
    <2>3. /\ conn' \in [Conns -> ConnRows]
          /\ \A d \in Conns : conn'[d].pc # "offline" => conn'[d].account \in Accounts
      BY <2>1, <2>2, MoveReplay
    <2>. QED
      BY <2>1, <2>3 DEF TypeOK
  <1>12. ASSUME NEW c \in Conns, ReplayDone(c)
         PROVE  TypeOK'
    <2>1. conn[c].account \in Accounts
      BY <1>12 DEF TypeOK, ReplayDone
    <2>2. /\ conn' \in [Conns -> ConnRows]
          /\ \A d \in Conns : conn'[d].pc # "offline" => conn'[d].account \in Accounts
      BY <1>12, <2>1, Advance DEF TypeOK, ReplayDone
    <2>. QED
      BY <1>12, <2>2 DEF TypeOK, ReplayDone
  <1>13. ASSUME NEW c \in Conns, SendLive(c)
         PROVE  TypeOK'
    <2>1. /\ Head(buf[c]) \in Messages /\ Tail(buf[c]) \in Seq(Messages)
          /\ Len(Tail(buf[c])) <= BufCap
          /\ conn[c].account \in Accounts
      BY <1>13, QueueTail, QueueType DEF TypeOK, SendLive
    <2>. QED
      BY <1>13, <2>1 DEF TypeOK, SendLive, Write
  <1>14. ASSUME NEW c \in Conns, Disconnect(c)
         PROVE  TypeOK'
    BY <1>14, OfflineRow, QueueEmpty DEF TypeOK, Disconnect
  <1>15. CASE MarkExpired
    <2>1. inbound' \in [Messages -> InboundRows]
      BY <1>15, StatusRow DEF TypeOK, MarkExpired
    <2>. QED
      BY <1>15, <2>1 DEF TypeOK, MarkExpired
  <1>16. ASSUME NEW a \in Accounts, DeleteAccount(a)
         PROVE  TypeOK'
    <2>1. inbound' \in [Messages -> InboundRows]
      BY <1>16, StatusRow DEF TypeOK, DeleteAccount
    <2>. QED
      BY <1>16, <2>1 DEF TypeOK, DeleteAccount
  <1>17. ASSUME NEW k \in Convs, NEW a \in Accounts, Pair(k, a)
         PROVE  TypeOK'
    BY <1>17 DEF TypeOK, Pair
  <1>18. ASSUME NEW k \in Convs, Unpair(k)
         PROVE  TypeOK'
    BY <1>18 DEF TypeOK, Unpair
  <1>19. CASE Tick
    BY <1>19 DEF TypeOK, Tick
  <1>20. CASE UNCHANGED vars
    BY <1>20 DEF TypeOK, vars
  <1>21. ASSUME NEW c \in Conns, SendQueuedFails(c)
         PROVE  TypeOK'
    <2>1. conn[c].account \in Accounts
      BY <1>21 DEF TypeOK, SendQueuedFails
    <2>2. /\ conn' \in [Conns -> ConnRows]
          /\ \A d \in Conns : conn'[d].pc # "offline" => conn'[d].account \in Accounts
      BY <1>21, <2>1, MoveEmpty DEF SendQueuedFails
    <2>. QED
      BY <1>21, <2>2 DEF TypeOK, SendQueuedFails
  <1>22. ASSUME NEW a \in Accounts, RevokeSession(a)
         PROVE  TypeOK'
    BY <1>22 DEF TypeOK, RevokeSession
  <1>. QED
    BY <1>1, <1>2, <1>3, <1>4, <1>5, <1>6, <1>7, <1>8, <1>9, <1>10, <1>11, <1>12,
       <1>13, <1>14, <1>15, <1>16, <1>17, <1>18, <1>19, <1>20, <1>21, <1>22
       DEF Next, Web, Conn

-----------------------------------------------------------------------------
(* The table of messages.                                                  *)

\* A step that stores no row keeps owners, order and existence, and queues
\* nothing.
SameRows ==
    \A m \in Messages :
        /\ inbound'[m].account_id = inbound[m].account_id
        /\ inbound'[m].created = inbound[m].created
        /\ inbound'[m].status = "none" <=> inbound[m].status = "none"
        /\ inbound'[m].status = "queued" => inbound[m].status = "queued"

\* CreateInbound stores one row, which is queued.
LEMMA Inserted ==
    ASSUME TypeOK, Created,
           NEW w \in Webhooks, NEW m \in Messages, CreateInbound(w, m)
    PROVE  /\ m \notin Stored /\ Stored' = Stored \cup {m}
           /\ \A n \in Messages \ {m} : inbound'[n] = inbound[n]
           /\ inbound'[m].status = "queued"
           /\ inbound'[m].account_id = web[w].account /\ web[w].account \in Accounts
           /\ inbound'[m].created = Cardinality(Stored) + 1
           /\ web'[w].msg = m
           /\ \A v \in Webhooks \ {w} : web'[v] = web[v]
           /\ UNCHANGED <<wire, conn, buf, written, received, missed>>
  <1>. DEFINE row == Row("queued", web[w].account, web[w].expires, NextCreated)
  <1>1. web[w].account \in Accounts
    BY DEF TypeOK, CreateInbound
  <1>2. web[w].expires \in Expiries
    BY DEF TypeOK, WebRows
  <1>3. NextCreated = Cardinality(Stored) + 1 /\ NextCreated \in Nat
    BY NextCreatedType DEF Created
  <1>4. inbound' = [inbound EXCEPT ![m] = row]
    BY DEF CreateInbound
  <1>5. /\ row.status = "queued" /\ row.account_id = web[w].account
        /\ row.created = NextCreated
    BY <1>1, <1>2, <1>3, StoredRow
  <1>. HIDE DEF row
  <1>6. /\ \A n \in Messages \ {m} : inbound'[n] = inbound[n]
        /\ inbound'[m] = row
    BY <1>4 DEF TypeOK
  <1>7. inbound[m].status = "none"
    BY DEF CreateInbound
  <1>8. m \notin Stored /\ Stored' = Stored \cup {m}
    BY <1>5, <1>6, <1>7 DEF Stored
  <1>9. /\ web'[w].msg = m
        /\ \A v \in Webhooks \ {w} : web'[v] = web[v]
    BY DEF WebAt, TypeOK, CreateInbound
  <1>. QED
    BY <1>1, <1>3, <1>5, <1>6, <1>8, <1>9 DEF CreateInbound

\* MarkDelivered, MarkExpired and the deletion of an account change the
\* status of rows that exist.
LEMMA RowStep ==
    ASSUME TypeOK, Owned, [Next]_vars
    PROVE  \/ SameRows
           \/ \E w \in Webhooks, m \in Messages : CreateInbound(w, m)
  <1>1. ASSUME NEW c \in Conns, MarkDelivered(c)
        PROVE  SameRows
    <2>1. PICK m \in conn[c].todo : inbound' = MarkRow(m)
      BY <1>1 DEF MarkDelivered
    <2>2. m \in Messages
      BY <2>1 DEF TypeOK, ConnRows
    <2>. QED
      BY <2>1, <2>2, Mark DEF SameRows, Exists
  <1>2. ASSUME MarkExpired
        PROVE  SameRows
    BY <1>2, StatusRow DEF TypeOK, MarkExpired, Overdue, SameRows
  <1>3. ASSUME NEW a \in Accounts, DeleteAccount(a)
        PROVE  SameRows
    BY <1>3, StatusRow DEF TypeOK, DeleteAccount, SameRows, Owned, Stored
  <1>4. ASSUME inbound' = inbound
        PROVE  SameRows
    BY <1>4 DEF SameRows
  <1>5. \/ inbound' = inbound
        \/ \E w \in Webhooks, m \in Messages : CreateInbound(w, m)
        \/ \E c \in Conns : MarkDelivered(c)
        \/ MarkExpired
        \/ \E a \in Accounts : DeleteAccount(a)
    BY DEF Next, Web, Conn, Webhook, Publish, WebhookDies, Broadcast, Connect,
           FindQueued, FindQueuedFails, SendQueued, SendQueuedFails,
           MarkDeliveredFails, ReplayDone, SendLive, Disconnect, Pair, Unpair,
           RevokeSession, Tick, vars
  <1>. QED
    BY <1>1, <1>2, <1>3, <1>4, <1>5

\* The rows that exist are the same ones.
LEMMA SameStored == ASSUME SameRows PROVE Stored' = Stored
  BY DEF SameRows, Stored

\* created_at of a new row is larger than that of every other.
LEMMA CreatedStep == TypeOK /\ Created /\ Owned /\ [Next]_vars => Created'
  <1> SUFFICES ASSUME TypeOK, Created, Owned, [Next]_vars PROVE Created'
    OBVIOUS
  <1>1. CASE SameRows
    <2>1. Stored' = Stored
      BY <1>1, SameStored
    <2>2. \A m \in Stored : inbound'[m].created = inbound[m].created
      BY <1>1 DEF SameRows, Stored
    <2>. QED
      BY <2>1, <2>2 DEF Created
  <1>2. ASSUME NEW w \in Webhooks, NEW m \in Messages, CreateInbound(w, m)
        PROVE  Created'
    <2>1. /\ m \notin Stored /\ Stored' = Stored \cup {m}
          /\ inbound'[m].created = Cardinality(Stored) + 1
      BY <1>2, Inserted
    <2>2. \A n \in Stored : inbound'[n] = inbound[n] /\ inbound[n].created \in Nat
      BY <1>2, <2>1, Inserted DEF Stored, TypeOK, InboundRows
    <2>3. /\ IsFiniteSet(Stored') /\ Cardinality(Stored') = Cardinality(Stored) + 1
          /\ Cardinality(Stored) \in Nat
      BY <2>1, FS_AddElement, FS_CardinalityType DEF Created
    <2>4. \A n \in Stored : inbound[n].created <= Cardinality(Stored)
      BY DEF Created
    <2>5. \A n \in Stored' : inbound'[n].created <= Cardinality(Stored')
      BY <2>1, <2>2, <2>3, <2>4
    <2>6. \A n, l \in Stored' : inbound'[n].created = inbound'[l].created => n = l
      BY <2>1, <2>2, <2>3, <2>4 DEF Created
    <2>. QED
      BY <2>3, <2>5, <2>6 DEF Created
  <1>. QED
    BY <1>1, <1>2, RowStep

\* A row that was stored stays, and stays with its account.
LEMMA StoredKept ==
    ASSUME TypeOK, Created, Owned, [Next]_vars, NEW m \in Stored
    PROVE  /\ m \in Stored' /\ inbound'[m].account_id = inbound[m].account_id
           /\ inbound'[m].created = inbound[m].created
  <1>1. m \in Messages
    BY DEF Stored
  <1>2. CASE SameRows
    BY <1>1, <1>2, SameStored DEF SameRows
  <1>3. ASSUME NEW w \in Webhooks, NEW n \in Messages, CreateInbound(w, n)
        PROVE  m \in Stored' /\ inbound'[m] = inbound[m]
    BY <1>1, <1>3, Inserted
  <1>. QED
    BY <1>2, <1>3, RowStep

-----------------------------------------------------------------------------
(* What is under way.                                                      *)

\* A message is written by the replay or by the loop over the buffer, and
\* in both cases it is the account's own.
LEMMA WriteStep ==
    ASSUME TypeOK, UnderWay, [Next]_vars
    PROVE  \/ received' = received
           \/ /\ inbound' = inbound
              /\ account' = account
              /\ \E c \in Conns, m \in Stored :
                    /\ inbound[m].account_id = conn[c].account
                    /\ conn[c].account \in Accounts
                    /\ Write(c, m)
  <1>1. ASSUME NEW c \in Conns, SendQueued(c)
        PROVE  /\ inbound' = inbound
               /\ account' = account
               /\ \E m \in Stored : /\ inbound[m].account_id = conn[c].account
                                    /\ conn[c].account \in Accounts
                                    /\ Write(c, m)
    BY <1>1 DEF SendQueued, UnderWay, Carries, TypeOK
  <1>2. ASSUME NEW c \in Conns, SendLive(c)
        PROVE  /\ inbound' = inbound
               /\ account' = account
               /\ \E m \in Stored : /\ inbound[m].account_id = conn[c].account
                                    /\ conn[c].account \in Accounts
                                    /\ Write(c, m)
    <2>1. Head(buf[c]) \in Range(buf[c])
      BY <1>2, QueueTail DEF SendLive, TypeOK
    <2>. QED
      BY <1>2, <2>1 DEF SendLive, UnderWay, Carries, TypeOK
  <1>3. \/ received' = received
        \/ \E c \in Conns : SendQueued(c) \/ SendLive(c)
    BY DEF Next, Web, Conn, Webhook, CreateInbound, Publish, WebhookDies, Broadcast,
           Connect, FindQueued, FindQueuedFails, SendQueuedFails, MarkDelivered,
           MarkDeliveredFails, ReplayDone, Disconnect, MarkExpired, DeleteAccount,
           Pair, Unpair, RevokeSession, Tick, vars
  <1>. QED
    BY <1>1, <1>2, <1>3

\* Events are about rows that were stored.
LEMMA WireStep ==
    ASSUME TypeOK, Owned, Naming, [Next]_vars, NEW m \in Messages \ Stored
    PROVE  wire'[m] = wire[m]
  <1>1. ASSUME NEW w \in Webhooks, Publish(w)
        PROVE  wire'[m] = wire[m]
    BY <1>1 DEF Publish, Naming, TypeOK
  <1>2. ASSUME NEW n \in Messages, Broadcast(n)
        PROVE  wire'[m] = wire[m]
    <2>1. n # m
      BY <1>2 DEF Broadcast, Owned, TypeOK
    <2>. QED
      BY <1>2, <2>1 DEF Broadcast, TypeOK
  <1>3. \/ wire' = wire
        \/ \E w \in Webhooks : Publish(w)
        \/ \E n \in Messages : Broadcast(n)
    BY DEF Next, Web, Conn, Webhook, CreateInbound, WebhookDies, Connect, FindQueued,
           FindQueuedFails, SendQueued, SendQueuedFails, MarkDelivered,
           MarkDeliveredFails, ReplayDone, SendLive, Disconnect, MarkExpired,
           DeleteAccount, Pair, Unpair, RevokeSession, Tick, vars
  <1>. QED
    BY <1>1, <1>2, <1>3

\* Before a row is stored nothing is known of its id.
LEMMA OwnedStep == TypeOK /\ Created /\ Owned /\ UnderWay /\ [Next]_vars => Owned'
  <1> SUFFICES ASSUME TypeOK, Created, Owned, UnderWay, [Next]_vars,
                      NEW m \in Messages
               PROVE  /\ m \in Stored' <=> inbound'[m].account_id \in Accounts
                      /\ m \notin Stored' => wire'[m] = 0 /\ received'[m] = {}
    BY DEF Owned
  <1>1. Stored \subseteq Stored'
    BY StoredKept
  <1>2. m \in Stored' <=> inbound'[m].account_id \in Accounts
    <2>1. CASE SameRows
      BY <2>1, SameStored DEF SameRows, Owned
    <2>2. ASSUME NEW w \in Webhooks, NEW n \in Messages, CreateInbound(w, n)
          PROVE  m \in Stored' <=> inbound'[m].account_id \in Accounts
      BY <2>2, Inserted DEF Owned
    <2>. QED
      BY <2>1, <2>2, RowStep
  <1>3. m \notin Stored => wire'[m] = 0
    BY WireStep DEF UnderWay, Owned
  <1>4. m \notin Stored => received'[m] = {}
    BY WriteStep DEF Write, Owned, TypeOK, Stored
  <1>. QED
    BY <1>1, <1>2, <1>3, <1>4

\* The clients a message is written to are those of its account.
LEMMA OwnStep ==
    ASSUME TypeOK, Created, Owned, UnderWay, OwnMessagesOnly, [Next]_vars
    PROVE  OwnMessagesOnly'
  <1> SUFFICES ASSUME NEW m \in Messages
               PROVE  received'[m] \subseteq {inbound'[m].account_id}
    BY DEF OwnMessagesOnly
  <1>1. CASE m \in Stored
    <2>1. inbound'[m].account_id = inbound[m].account_id
      BY <1>1, StoredKept
    <2>. QED
      BY <2>1, WriteStep DEF Write, OwnMessagesOnly, TypeOK
  <1>2. CASE m \notin Stored
    BY <1>2, WriteStep DEF Write, Owned, TypeOK, Stored
  <1>. QED
    BY <1>1, <1>2

\* A webhook that publishes has stored its message.
LEMMA NamingStep == TypeOK /\ Created /\ Owned /\ Naming /\ [Next]_vars => Naming'
  <1> SUFFICES ASSUME TypeOK, Created, Owned, Naming, [Next]_vars PROVE Naming'
    OBVIOUS
  <1>1. Stored \subseteq Stored'
    BY StoredKept
  <1>2. ASSUME NEW w \in Webhooks, NEW k \in Convs, NEW b \in BOOLEAN,
               Webhook(w, k, b)
        PROVE  Naming'
    <2>1. web'[w].pc = "create" /\ web'[w].msg = NULL
      BY <1>2 DEF Webhook, WebAt, TypeOK
    <2>2. \A v \in Webhooks \ {w} : web'[v] = web[v]
      BY <1>2 DEF Webhook, TypeOK
    <2>. QED
      BY <1>1, <2>1, <2>2 DEF Naming
  <1>3. ASSUME NEW w \in Webhooks, NEW m \in Messages, CreateInbound(w, m)
        PROVE  Naming'
    <2>1. web'[w].pc = "publish"
      BY <1>3 DEF WebAt, CreateInbound, TypeOK
    <2>. QED
      BY <1>1, <1>3, <2>1, Inserted DEF Naming
  <1>4. ASSUME NEW w \in Webhooks, Publish(w) \/ WebhookDies(w)
        PROVE  Naming'
    <2>1. web'[w].pc = "idle" /\ web'[w].msg = NULL
      BY <1>4, IdleWebRow DEF Publish, WebhookDies, TypeOK
    <2>2. \A v \in Webhooks \ {w} : web'[v] = web[v]
      BY <1>4 DEF Publish, WebhookDies, TypeOK
    <2>. QED
      BY <1>1, <2>1, <2>2 DEF Naming
  <1>5. CASE web' = web
    BY <1>1, <1>5 DEF Naming
  <1>. QED
    BY <1>2, <1>3, <1>4, <1>5
       DEF Next, Web, Conn, Broadcast, Connect, FindQueued, FindQueuedFails,
           SendQueued, SendQueuedFails, MarkDelivered, MarkDeliveredFails,
           ReplayDone, SendLive, Disconnect, MarkExpired, DeleteAccount, Pair,
           Unpair, RevokeSession, Tick, vars

\* What a connection may come to carry, given what it carried.
LEMMA CarriesKept ==
    ASSUME TypeOK, Created, Owned, [Next]_vars, NEW c \in Conns, Carries(c),
           conn'[c].pc = "offline" => buf'[c] = <<>>,
           \A m \in conn'[c].todo \cup Range(buf'[c]) :
              \/ /\ m \in conn[c].todo \cup Range(buf[c])
                 /\ conn'[c].account = conn[c].account
              \/ m \in Stored /\ inbound[m].account_id = conn'[c].account
    PROVE  Carries(c)'
  <1>1. \A m \in conn'[c].todo \cup Range(buf'[c]) :
           m \in Stored /\ inbound[m].account_id = conn'[c].account
    BY DEF Carries
  <1>. QED
    BY <1>1, StoredKept DEF Carries

\* The replay and the buffer are filled from the account's own rows.
LEMMA CarriesStep ==
    ASSUME TypeOK, Created, Owned, UnderWay, [Next]_vars, NEW d \in Conns
    PROVE  Carries(d)'
  <1>. Carries(d)
    BY DEF UnderWay
  <1>1. CASE conn'[d] = conn[d] /\ buf'[d] = buf[d]
    BY <1>1, CarriesKept DEF Carries
  <1>2. ASSUME NEW m \in Messages, Broadcast(m)
        PROVE  Carries(d)'
    <2>1. /\ conn' = conn
          /\ \/ buf'[d] = buf[d]
             \/ /\ Registered(d) /\ conn[d].account = inbound[m].account_id
                /\ wire[m] > 0
                /\ buf'[d] = Append(buf[d], m)
      BY <1>2 DEF Broadcast, Audience
    <2>2. CASE buf'[d] = buf[d]
      BY <1>1, <2>1, <2>2
    <2>3. CASE buf'[d] = Append(buf[d], m) /\ Registered(d) /\ wire[m] > 0
               /\ conn[d].account = inbound[m].account_id
      <3>1. m \in Stored
        BY <2>3 DEF Owned
      <3>2. Range(buf'[d]) = Range(buf[d]) \cup {m}
        BY <2>3, QueueAppend DEF TypeOK
      <3>. QED
        BY <2>1, <2>3, <3>1, <3>2, CarriesKept DEF Registered
    <2>. QED
      BY <2>1, <2>2, <2>3
  <1>3. ASSUME NEW a \in Accounts, Connect(d, a)
        PROVE  Carries(d)'
    <2>1. conn'[d].pc = "find" /\ conn'[d].todo = {} /\ buf'[d] = <<>>
      <3>1. conn' = [conn EXCEPT ![d] = ConnAt("find", a, {})]
        BY <1>3 DEF Connect
      <3>2. conn'[d].pc = "find" /\ conn'[d].todo = {}
        BY <3>1, MoveEmpty
      <3>. QED
        BY <1>3, <3>2 DEF Connect, Carries
    <2>. QED
      BY <2>1, QueueEmpty, CarriesKept
  <1>4. ASSUME FindQueued(d)
        PROVE  Carries(d)'
    <2>1. QueuedFor(conn[d].account) \in SUBSET Messages /\ conn[d].account \in Accounts
      BY <1>4 DEF QueuedFor, FindQueued, TypeOK
    <2>2. /\ conn'[d].pc = "replay" /\ conn'[d].account = conn[d].account
          /\ conn'[d].todo = QueuedFor(conn[d].account) /\ buf'[d] = buf[d]
      BY <1>4, <2>1, MoveReplay DEF FindQueued
    <2>3. \A m \in QueuedFor(conn[d].account) :
             m \in Stored /\ inbound[m].account_id = conn[d].account
      BY DEF QueuedFor, Stored
    <2>. QED
      BY <2>2, <2>3, CarriesKept
  <1>5. ASSUME FindQueuedFails(d) \/ SendQueuedFails(d)
        PROVE  Carries(d)'
    <2>1. conn[d].account \in Accounts
      BY <1>5 DEF FindQueuedFails, SendQueuedFails, TypeOK
    <2>2. /\ conn'[d].pc # "offline" /\ conn'[d].account = conn[d].account
          /\ conn'[d].todo = {} /\ buf'[d] = buf[d]
      <3>1. PICK pc \in {"live", "broken"} :
               conn' = [conn EXCEPT ![d] = ConnAt(pc, conn[d].account, {})]
        BY <1>5 DEF FindQueuedFails, SendQueuedFails
      <3>2. /\ conn'[d].pc = pc /\ conn'[d].account = conn[d].account
            /\ conn'[d].todo = {}
        BY <2>1, <3>1, MoveEmpty
      <3>. QED
        BY <1>5, <3>2 DEF FindQueuedFails, SendQueuedFails
    <2>. QED
      BY <2>2, CarriesKept
  <1>6. ASSUME SendQueued(d) \/ ReplayDone(d)
        PROVE  Carries(d)'
    <2>1. \E pc \in {"mark", "live"} : conn' = [conn EXCEPT ![d].pc = pc]
      BY <1>6 DEF SendQueued, ReplayDone
    <2>2. /\ conn'[d].pc # "offline" /\ conn'[d].account = conn[d].account
          /\ conn'[d].todo = conn[d].todo
      BY <2>1, Advance
    <2>3. buf' = buf
      BY <1>6 DEF SendQueued, ReplayDone
    <2>. QED
      BY <2>2, <2>3, CarriesKept
  <1>7. ASSUME MarkDelivered(d) \/ MarkDeliveredFails(d)
        PROVE  Carries(d)'
    <2>1. PICK m \in conn[d].todo :
             /\ conn[d].pc = "mark"
             /\ conn' = [conn EXCEPT ![d] = ConnAt("replay", conn[d].account,
                                                   conn[d].todo \ {m})]
             /\ buf' = buf
      BY <1>7 DEF MarkDelivered, MarkDeliveredFails
    <2>2. conn[d].account \in Accounts /\ conn[d].todo \ {m} \in SUBSET Messages
      BY <2>1 DEF TypeOK, ConnRows
    <2>3. /\ conn'[d].pc = "replay" /\ conn'[d].account = conn[d].account
          /\ conn'[d].todo = conn[d].todo \ {m}
      BY <2>1, <2>2, MoveReplay
    <2>. QED
      BY <2>1, <2>3, CarriesKept
  <1>8. ASSUME SendLive(d)
        PROVE  Carries(d)'
    <2>1. Range(buf'[d]) \subseteq Range(buf[d]) /\ conn' = conn /\ conn[d].pc = "live"
      BY <1>8, QueueTail DEF SendLive, TypeOK
    <2>. QED
      BY <2>1, CarriesKept
  <1>9. ASSUME Disconnect(d)
        PROVE  Carries(d)'
    <2>1. conn'[d].todo = {} /\ buf'[d] = <<>>
      BY <1>9, OfflineRow DEF Disconnect, TypeOK
    <2>. QED
      BY <2>1, QueueEmpty, CarriesKept
  <1>10. ASSUME NEW c \in Conns, Conn(c), c # d
         PROVE  conn'[d] = conn[d] /\ buf'[d] = buf[d]
    BY <1>10 DEF Conn, Connect, FindQueued, FindQueuedFails, SendQueued,
           SendQueuedFails, MarkDelivered, MarkDeliveredFails, ReplayDone, SendLive,
           Disconnect, TypeOK
  <1>11. \/ \E c \in Conns : Conn(c)
         \/ \E m \in Messages : Broadcast(m)
         \/ conn' = conn /\ buf' = buf
    BY DEF Next, Web, Webhook, CreateInbound, Publish, WebhookDies, MarkExpired,
           DeleteAccount, Pair, Unpair, RevokeSession, Tick, vars
  <1>. QED
    BY <1>1, <1>2, <1>3, <1>4, <1>5, <1>6, <1>7, <1>8, <1>9, <1>10, <1>11 DEF Conn

-----------------------------------------------------------------------------
(* The replay.                                                             *)

\* The handlers of other connections.
LEMMA OthersKept ==
    ASSUME TypeOK, [Next]_vars, NEW d \in Conns, ~Conn(d)
    PROVE  conn'[d] = conn[d] /\ written'[d] = written[d]
  <1>1. ASSUME NEW c \in Conns, Conn(c)
        PROVE  conn'[d] = conn[d] /\ written'[d] = written[d]
    <2>1. c # d
      BY <1>1
    <2>. QED
      BY <1>1, <2>1 DEF Conn, Connect, FindQueued, FindQueuedFails, SendQueued,
             SendQueuedFails, MarkDelivered, MarkDeliveredFails, ReplayDone,
             SendLive, Disconnect, Write, TypeOK
  <1>2. (\E c \in Conns : Conn(c)) \/ (conn' = conn /\ written' = written)
    BY DEF Next, Web, Webhook, CreateInbound, Publish, WebhookDies, Broadcast,
           MarkExpired, DeleteAccount, Pair, Unpair, RevokeSession, Tick, vars
  <1>. QED
    BY <1>1, <1>2

\* received is a history.
LEMMA ReceivedGrows ==
    ASSUME TypeOK, UnderWay, [Next]_vars, NEW m \in Messages
    PROVE  received[m] \subseteq received'[m]
  <1>1. ASSUME NEW c \in Conns, NEW n \in Stored, Write(c, n)
        PROVE  received[m] \subseteq received'[m]
    <2>1. received' = [received EXCEPT ![n] = @ \cup {conn[c].account}]
      BY <1>1 DEF Write
    <2>2. received'[m] = received[m] \/ received'[m] = received[m] \cup {conn[c].account}
      BY <2>1 DEF TypeOK
    <2>. QED
      BY <2>2
  <1>. QED
    BY <1>1, WriteStep

\* Two rows of a replay are not both next.
LEMMA OneNext ==
    ASSUME TypeOK, Created, UnderWay, NEW c \in Conns,
           NEW m \in conn[c].todo, NEW n \in conn[c].todo,
           IsNext(m, conn[c].todo), IsNext(n, conn[c].todo)
    PROVE  m = n
  <1>1. m \in Stored /\ n \in Stored
    BY DEF UnderWay, Carries
  <1>2. inbound[m].created \in Nat /\ inbound[n].created \in Nat
    BY <1>1 DEF Stored, TypeOK, InboundRows
  <1>3. inbound[m].created = inbound[n].created
    BY <1>2 DEF IsNext
  <1>. QED
    BY <1>1, <1>3 DEF Created

\* The order of a replay stays as it was read.
LEMMA NextKept ==
    ASSUME TypeOK, Created, Owned, UnderWay, [Next]_vars, NEW c \in Conns,
           conn'[c].todo = conn[c].todo, NEW m \in conn[c].todo
    PROVE  IsNext(m, conn[c].todo)' <=> IsNext(m, conn[c].todo)
  <1>1. \A n \in conn[c].todo : inbound'[n].created = inbound[n].created
    BY StoredKept DEF UnderWay, Carries
  <1>. QED
    BY <1>1 DEF IsNext

\* MarkDelivered comes after sendRawEvent and is about the same row.
LEMMA MarkingStep ==
    ASSUME TypeOK, Created, Owned, UnderWay, Marking, [Next]_vars
    PROVE  Marking'
  <1> SUFFICES ASSUME NEW d \in Conns, conn'[d].pc = "mark",
                      NEW m \in conn'[d].todo, IsNext(m, conn[d].todo)'
               PROVE  m \in written'[d] /\ received'[m] # {}
    BY DEF Marking
  <1>1. ASSUME conn'[d] = conn[d], written'[d] = written[d]
        PROVE  m \in written'[d] /\ received'[m] # {}
    <2>1. IsNext(m, conn[d].todo)
      BY <1>1, NextKept
    <2>2. m \in written[d] /\ received[m] # {}
      BY <1>1, <2>1 DEF Marking
    <2>3. m \in Messages
      BY <1>1 DEF TypeOK, ConnRows
    <2>. QED
      BY <1>1, <2>2, <2>3, ReceivedGrows
  <1>2. ASSUME SendQueued(d)
        PROVE  m \in written'[d] /\ received'[m] # {}
    <2>1. PICK n \in conn[d].todo :
             /\ IsNext(n, conn[d].todo) /\ Write(d, n)
             /\ conn' = [conn EXCEPT ![d].pc = "mark"]
      BY <1>2 DEF SendQueued
    <2>2. conn'[d].todo = conn[d].todo
      BY <2>1, Advance
    <2>3. m = n
      BY <2>1, <2>2, NextKept, OneNext
    <2>4. n \in Messages
      BY DEF TypeOK, ConnRows
    <2>. QED
      BY <2>1, <2>3, <2>4 DEF Write, TypeOK
  <1>3. ASSUME \/ \E a \in Accounts : Connect(d, a)
               \/ FindQueued(d) \/ FindQueuedFails(d) \/ SendQueuedFails(d)
               \/ MarkDelivered(d) \/ MarkDeliveredFails(d)
               \/ ReplayDone(d) \/ Disconnect(d)
        PROVE  FALSE
    <2>1. ASSUME NEW pc \in {"offline", "find", "replay", "live", "broken"},
                 NEW a, NEW todo,
                 conn' = [conn EXCEPT ![d] = ConnAt(pc, a, todo)]
          PROVE  FALSE
      <3>. DEFINE row == ConnAt(pc, a, todo)
      <3>1. row.pc = pc
        BY DEF ConnAt
      <3>2. conn'[d] = row
        BY <2>1 DEF TypeOK
      <3>. QED
        BY <3>1, <3>2
    <2>2. ReplayDone(d) => FALSE
      <3>1. ReplayDone(d) => conn' = [conn EXCEPT ![d].pc = "live"]
        BY DEF ReplayDone
      <3>. QED
        BY <3>1, Advance
    <2>. QED
      BY <1>3, <2>1, <2>2
         DEF Connect, FindQueued, FindQueuedFails, SendQueuedFails, MarkDelivered,
             MarkDeliveredFails, Disconnect, Offline
  <1>4. ASSUME SendLive(d)
        PROVE  FALSE
    BY <1>4 DEF SendLive
  <1>. QED
    BY <1>1, <1>2, <1>3, <1>4, OthersKept DEF Conn

\* Only MarkDelivered makes a row delivered, and that row was written.
LEMMA DeliveredStep ==
    ASSUME TypeOK, Created, Owned, UnderWay, Marking, DeliveredWasWritten, [Next]_vars
    PROVE  DeliveredWasWritten'
  <1> SUFFICES ASSUME NEW m \in Messages, inbound'[m].status = "delivered"
               PROVE  received'[m] # {}
    BY DEF DeliveredWasWritten
  <1>1. CASE inbound[m].status = "delivered"
    BY <1>1, ReceivedGrows DEF DeliveredWasWritten
  <1>2. ASSUME NEW c \in Conns, MarkDelivered(c), inbound[m].status # "delivered"
        PROVE  received'[m] # {}
    <2>1. PICK n \in conn[c].todo :
             conn[c].pc = "mark" /\ IsNext(n, conn[c].todo) /\ inbound' = MarkRow(n)
      BY <1>2 DEF MarkDelivered
    <2>2. n \in Messages
      BY DEF TypeOK, ConnRows
    <2>3. m = n
      BY <1>2, <2>1, <2>2, Mark
    <2>4. received[m] # {}
      BY <2>1, <2>3 DEF Marking
    <2>. QED
      BY <2>4, ReceivedGrows
  <1>3. ASSUME MarkExpired
        PROVE  inbound[m].status = "delivered"
    BY <1>3, StatusRow DEF MarkExpired, TypeOK
  <1>4. ASSUME NEW a \in Accounts, DeleteAccount(a)
        PROVE  inbound[m].status = "delivered"
    BY <1>4, StatusRow DEF DeleteAccount, TypeOK
  <1>5. ASSUME NEW w \in Webhooks, NEW n \in Messages, CreateInbound(w, n)
        PROVE  inbound[m].status = "delivered"
    BY <1>5, Inserted
  <1>6. \/ inbound' = inbound
        \/ \E w \in Webhooks, n \in Messages : CreateInbound(w, n)
        \/ \E c \in Conns : MarkDelivered(c)
        \/ MarkExpired
        \/ \E a \in Accounts : DeleteAccount(a)
    BY DEF Next, Web, Conn, Webhook, Publish, WebhookDies, Broadcast, Connect,
           FindQueued, FindQueuedFails, SendQueued, SendQueuedFails,
           MarkDeliveredFails, ReplayDone, SendLive, Disconnect, Pair, Unpair,
           RevokeSession, Tick, vars
  <1>. QED
    BY <1>1, <1>2, <1>3, <1>4, <1>5, <1>6

-----------------------------------------------------------------------------
(* Nothing falls through.                                                  *)

\* An event that will still come does so until it is broadcast, or else it
\* passes by the connections of its account that have made their query.
LEMMA SettledStep ==
    ASSUME TypeOK, Naming, [Next]_vars, NEW d \in Conns, NEW m \in Messages,
           conn[d].pc \in {"replay", "mark", "live"}, conn'[d].pc # "offline",
           inbound[m].account_id = conn[d].account, Settled(d, m)'
    PROVE  Settled(d, m) \/ Broadcast(m)
  <1>1. ASSUME NEW w \in Webhooks, NEW k \in Convs, NEW b \in BOOLEAN,
               Webhook(w, k, b)
        PROVE  Settled(d, m)
    <2>1. web[w].msg = NULL /\ \A v \in Webhooks \ {w} : web'[v] = web[v]
      BY <1>1 DEF Webhook, Naming, TypeOK
    <2>. QED
      BY <1>1, <2>1 DEF Webhook, Settled, ToCome
  <1>2. ASSUME NEW w \in Webhooks, NEW n \in Messages, CreateInbound(w, n)
        PROVE  Settled(d, m)
    <2>1. web[w].msg = NULL /\ \A v \in Webhooks \ {w} : web'[v] = web[v]
      BY <1>2 DEF CreateInbound, Naming, TypeOK
    <2>. QED
      BY <1>2, <2>1 DEF CreateInbound, Settled, ToCome
  <1>3. d \in Audience(m)
    BY DEF Audience, Registered
  <1>4. ASSUME NEW w \in Webhooks, Publish(w)
        PROVE  Settled(d, m)
    <2>1. PICK n \in 0 .. MaxCopies :
             /\ wire' = [wire EXCEPT ![web[w].msg] = n]
             /\ missed' = IF n = 0 THEN PassesBy(web[w].msg, Audience(web[w].msg))
                                   ELSE missed
      BY <1>4 DEF Publish
    <2>2. web[w].msg \in Messages /\ \A v \in Webhooks \ {w} : web'[v] = web[v]
      BY <1>4 DEF Publish, TypeOK
    <2>3. wire'[m] = 0 /\ m \notin missed'[d]
      <3>1. wire'[m] \in Nat
        BY <2>1, <2>2 DEF TypeOK
      <3>. QED
        BY <3>1 DEF Settled, ToCome
    <2>4. web[w].msg # m
      <3>1. wire'[web[w].msg] = n
        BY <2>1, <2>2 DEF TypeOK
      <3>. QED
        BY <1>3, <2>1, <2>2, <2>3, <3>1, Passed
    <2>5. m \notin missed[d] /\ wire[m] = 0
      BY <2>1, <2>2, <2>3, <2>4, Passed DEF TypeOK
    <2>. QED
      BY <2>2, <2>4, <2>5 DEF Settled, ToCome
  <1>5. ASSUME NEW w \in Webhooks, WebhookDies(w)
        PROVE  Settled(d, m)
    <2>1. /\ \A v \in Webhooks \ {w} : web'[v] = web[v]
          /\ wire' = wire
          /\ missed' = IF web[w].pc = "publish"
                       THEN PassesBy(web[w].msg, Audience(web[w].msg)) ELSE missed
      BY <1>5 DEF WebhookDies, TypeOK
    <2>2. m \notin missed'[d]
      BY DEF Settled
    <2>3. web[w].pc = "publish" => web[w].msg \in Messages
      BY DEF TypeOK
    <2>4. web[w].msg # m
      <3>1. web[w].pc # "publish" => web[w].msg = NULL
        BY DEF Naming
      <3>. QED
        BY <1>3, <2>1, <2>2, <2>3, <3>1, Passed
    <2>5. m \notin missed[d]
      BY <2>1, <2>2, <2>3, Passed
    <2>. QED
      BY <2>1, <2>4, <2>5 DEF Settled, ToCome
  <1>6. ASSUME NEW n \in Messages, Broadcast(n), n # m
        PROVE  Settled(d, m)
    <2>1. m \notin missed[d]
      BY <1>6, Passed DEF Broadcast, Settled
    <2>2. wire'[m] = wire[m] /\ web' = web
      BY <1>6 DEF Broadcast, TypeOK
    <2>. QED
      BY <2>1, <2>2 DEF Settled, ToCome
  <1>7. ASSUME NEW c \in Conns, FindQueuedFails(c) \/ Disconnect(c)
        PROVE  Settled(d, m)
    <2>1. c # d
      BY <1>7, OfflineRow DEF FindQueuedFails, Disconnect, TypeOK
    <2>2. missed'[d] = missed[d] /\ wire' = wire /\ web' = web
      BY <1>7, <2>1 DEF FindQueuedFails, Disconnect, TypeOK
    <2>. QED
      BY <2>2 DEF Settled, ToCome
  <1>8. CASE UNCHANGED <<web, wire, missed>>
    BY <1>8 DEF Settled, ToCome
  <1>. QED
    BY <1>1, <1>2, <1>4, <1>5, <1>6, <1>7, <1>8
       DEF Next, Web, Conn, Connect, FindQueued, SendQueued, SendQueuedFails,
           MarkDelivered, MarkDeliveredFails, ReplayDone, SendLive, MarkExpired,
           DeleteAccount, Pair, Unpair, RevokeSession, Tick, vars

\* A queued row without an event to come was queued before.
LEMMA QueuedBefore ==
    ASSUME TypeOK, Created, Owned, [Next]_vars, NEW m \in Messages, ~ToCome(m)',
           inbound'[m].status = "queued"
    PROVE  inbound[m].status = "queued" /\ inbound'[m].account_id = inbound[m].account_id
  <1>1. ASSUME NEW w \in Webhooks, NEW n \in Messages, CreateInbound(w, n)
        PROVE  inbound'[m] = inbound[m]
    BY <1>1, Inserted DEF ToCome
  <1>. QED
    BY <1>1, RowStep DEF SameRows

\* The buffer of a connection is drained by its own handler only.
LEMMA BufferGrows ==
    ASSUME TypeOK, [Next]_vars, NEW d \in Conns, ~Conn(d)
    PROVE  Range(buf[d]) \subseteq Range(buf'[d])
  <1>1. ASSUME NEW c \in Conns, Conn(c)
        PROVE  buf'[d] = buf[d]
    <2>1. c # d
      BY <1>1
    <2>. QED
      BY <1>1, <2>1 DEF Conn, Connect, FindQueued, FindQueuedFails, SendQueued,
             SendQueuedFails, MarkDelivered, MarkDeliveredFails, ReplayDone,
             SendLive, Disconnect, TypeOK
  <1>2. ASSUME NEW n \in Messages, Broadcast(n)
        PROVE  Range(buf[d]) \subseteq Range(buf'[d])
    <2>1. buf'[d] = buf[d] \/ buf'[d] = Append(buf[d], n)
      BY <1>2 DEF Broadcast
    <2>2. Range(Append(buf[d], n)) = Range(buf[d]) \cup {n}
      BY QueueAppend DEF TypeOK
    <2>. QED
      BY <2>1, <2>2
  <1>3. \/ \E c \in Conns : Conn(c)
        \/ \E n \in Messages : Broadcast(n)
        \/ buf' = buf
    BY DEF Next, Web, Webhook, CreateInbound, Publish, WebhookDies, MarkExpired,
           DeleteAccount, Pair, Unpair, RevokeSession, Tick, vars
  <1>. QED
    BY <1>1, <1>2, <1>3

\* The last copy of an event goes to every connection that is registered, or
\* passes it by.
LEMMA BroadcastReaches ==
    ASSUME TypeOK, NEW m \in Messages, Broadcast(m), NEW d \in Conns,
           conn[d].pc \in {"replay", "mark", "live"},
           conn[d].account = inbound[m].account_id, m \notin missed'[d]
    PROVE  m \in Range(buf'[d])
  <1>1. buf'[d] = Append(buf[d], m)
    <2>. DEFINE full == {c \in Audience(m) : Len(buf[c]) = BufCap}
    <2>1. d \in Audience(m)
      BY DEF Audience, Registered
    <2>2. /\ missed' = PassesBy(m, full)
          /\ buf' = [c \in Conns |-> IF c \in Audience(m) \ full THEN Append(buf[c], m)
                                                                  ELSE buf[c]]
      BY DEF Broadcast
    <2>. HIDE DEF full
    <2>3. d \notin full
      BY <2>2, Passed
    <2>. QED
      BY <2>1, <2>2, <2>3
  <1>. QED
    BY <1>1, QueueAppend DEF TypeOK

\* Replay and stream leave no gap between them.
LEMMA AccountedStep ==
    ASSUME TypeOK, Created, Owned, UnderWay, Marking, Accounted, [Next]_vars
    PROVE  Accounted'
  <1> SUFFICES ASSUME NEW d \in Conns, NEW m \in Messages,
                      conn'[d].pc \in {"replay", "mark", "live"},
                      inbound'[m].status = "queued",
                      inbound'[m].account_id = conn'[d].account,
                      Settled(d, m)'
               PROVE  m \in conn'[d].todo \cup written'[d] \cup Range(buf'[d])
    BY DEF Accounted
  <1>1. inbound[m].status = "queued" /\ inbound'[m].account_id = inbound[m].account_id
    BY QueuedBefore DEF Settled
  <1>2. ASSUME Broadcast(m)
        PROVE  m \in Range(buf'[d])
    <2>1. conn' = conn /\ inbound' = inbound
      BY <1>2 DEF Broadcast
    <2>. QED
      BY <1>2, <2>1, BroadcastReaches DEF Settled
  <1>3. ASSUME ~Broadcast(m), conn[d].pc \in {"replay", "mark", "live"},
               conn'[d].account = conn[d].account
        PROVE  m \in conn[d].todo \cup written[d] \cup Range(buf[d])
    <2>1. Settled(d, m)
      BY <1>1, <1>3, SettledStep DEF UnderWay
    <2>. QED
      BY <1>1, <1>3, <2>1 DEF Accounted
  <1>4. ASSUME ~Broadcast(m), ~Conn(d)
        PROVE  m \in conn'[d].todo \cup written'[d] \cup Range(buf'[d])
    BY <1>3, <1>4, OthersKept, BufferGrows
  <1>5. ASSUME NEW a \in Accounts, Connect(d, a)
        PROVE  FALSE
    <2>1. conn' = [conn EXCEPT ![d] = ConnAt("find", a, {})]
      BY <1>5 DEF Connect
    <2>. QED
      BY <2>1, MoveEmpty
  <1>6. ASSUME FindQueued(d)
        PROVE  m \in conn'[d].todo
    <2>1. QueuedFor(conn[d].account) \in SUBSET Messages /\ conn[d].account \in Accounts
      BY <1>6 DEF QueuedFor, FindQueued, TypeOK
    <2>2. /\ conn'[d].pc = "replay" /\ conn'[d].account = conn[d].account
          /\ conn'[d].todo = QueuedFor(conn[d].account)
      <3>1. conn' = [conn EXCEPT ![d] = ConnAt("replay", conn[d].account,
                                               QueuedFor(conn[d].account))]
        BY <1>6 DEF FindQueued
      <3>. QED
        BY ONLY TypeOK, d \in Conns, <2>1, <3>1, MoveReplay
    <2>. QED
      BY <1>1, <2>2 DEF QueuedFor
  <1>7. ASSUME FindQueuedFails(d)
        PROVE  FALSE
    <2>1. /\ conn[d].account \in Accounts
          /\ conn' = [conn EXCEPT ![d] = ConnAt("live", conn[d].account, {})]
          /\ missed' = [missed EXCEPT ![d] =
                           {n \in QueuedFor(conn[d].account) : ~ToCome(n)}]
          /\ wire' = wire /\ web' = web
      BY <1>7 DEF FindQueuedFails, TypeOK
    <2>2. conn'[d].account = conn[d].account
      BY <2>1, MoveEmpty
    <2>3. ~ToCome(m)
      BY <2>1 DEF Settled, ToCome
    <2>4. m \in missed'[d]
      BY <1>1, <2>1, <2>2, <2>3 DEF QueuedFor, TypeOK
    <2>. QED
      BY <2>4 DEF Settled
  <1>8. ASSUME SendQueued(d), ~Broadcast(m)
        PROVE  m \in conn'[d].todo \cup written'[d] \cup Range(buf'[d])
    <2>1. PICK n \in conn[d].todo :
             /\ conn[d].pc = "replay" /\ Write(d, n) /\ buf' = buf
             /\ conn' = [conn EXCEPT ![d].pc = "mark"]
      BY <1>8 DEF SendQueued
    <2>2. conn'[d].todo = conn[d].todo /\ conn'[d].account = conn[d].account
      BY <2>1, Advance
    <2>3. written[d] \subseteq written'[d]
      BY <2>1 DEF Write, TypeOK
    <2>. QED
      BY <1>3, <1>8, <2>1, <2>2, <2>3
  <1>9. ASSUME MarkDelivered(d) \/ MarkDeliveredFails(d), ~Broadcast(m)
        PROVE  m \in conn'[d].todo \cup written'[d] \cup Range(buf'[d])
    <2>1. PICK n \in conn[d].todo :
             /\ conn[d].pc = "mark"
             /\ IsNext(n, conn[d].todo)
             /\ conn' = [conn EXCEPT ![d] = ConnAt("replay", conn[d].account,
                                                   conn[d].todo \ {n})]
             /\ buf' = buf /\ written' = written
      BY <1>9 DEF MarkDelivered, MarkDeliveredFails
    <2>2. conn[d].account \in Accounts /\ conn[d].todo \ {n} \in SUBSET Messages
      BY <2>1 DEF TypeOK, ConnRows
    <2>3. /\ conn'[d].pc = "replay" /\ conn'[d].account = conn[d].account
          /\ conn'[d].todo = conn[d].todo \ {n}
      <3>. DEFINE rest == conn[d].todo \ {n}
      <3>1. conn' = [conn EXCEPT ![d] = ConnAt("replay", conn[d].account, rest)]
        BY <2>1
      <3>2. rest \in SUBSET Messages
        BY <2>2
      <3>. HIDE DEF rest
      <3>3. /\ conn'[d].pc = "replay" /\ conn'[d].account = conn[d].account
            /\ conn'[d].todo = rest
        BY <2>2, <3>1, <3>2, MoveReplay
      <3>. QED
        BY <3>3 DEF rest
    <2>4. n \in written[d]
      BY <2>1 DEF Marking
    <2>. QED
      BY <1>3, <1>9, <2>1, <2>3, <2>4
  <1>10. ASSUME ReplayDone(d), ~Broadcast(m)
         PROVE  m \in conn'[d].todo \cup written'[d] \cup Range(buf'[d])
    <2>1. /\ conn' = [conn EXCEPT ![d].pc = "live"] /\ conn[d].pc = "replay"
          /\ buf' = buf /\ written' = written
      BY <1>10 DEF ReplayDone
    <2>2. conn'[d].todo = conn[d].todo /\ conn'[d].account = conn[d].account
      BY <2>1, Advance
    <2>. QED
      BY <1>3, <1>10, <2>1, <2>2
  <1>11. ASSUME SendLive(d), ~Broadcast(m)
         PROVE  m \in conn'[d].todo \cup written'[d] \cup Range(buf'[d])
    <2>1. /\ conn' = conn /\ conn[d].pc = "live"
          /\ Range(buf[d]) = {Head(buf[d])} \cup Range(buf'[d])
      <3>1. buf[d] \in Seq(Messages) /\ buf[d] # <<>> /\ buf'[d] = Tail(buf[d])
        BY <1>11 DEF SendLive, TypeOK
      <3>2. Range(buf[d]) = {Head(buf[d])} \cup Range(Tail(buf[d]))
        BY <3>1, QueueTail
      <3>. QED
        BY <1>11, <3>1, <3>2 DEF SendLive
    <2>2. written'[d] = written[d] \cup {Head(buf[d])}
      BY <1>11 DEF SendLive, Write, TypeOK
    <2>. QED
      BY <1>3, <1>11, <2>1, <2>2
  <1>12. ASSUME Disconnect(d)
         PROVE  FALSE
    BY <1>12, OfflineRow DEF Disconnect, TypeOK
  <1>13. ASSUME SendQueuedFails(d)
         PROVE  FALSE
    <2>1. /\ conn[d].account \in Accounts
          /\ conn' = [conn EXCEPT ![d] = ConnAt("broken", conn[d].account, {})]
      BY <1>13 DEF SendQueuedFails, TypeOK
    <2>. QED
      BY <2>1, MoveEmpty
  <1>. QED
    BY <1>2, <1>4, <1>5, <1>6, <1>7, <1>8, <1>9, <1>10, <1>11, <1>12, <1>13 DEF Conn

\* The loop begins when the replay is over.
LEMMA ReplayedStep == TypeOK /\ Replayed /\ [Next]_vars => Replayed'
  <1> SUFFICES ASSUME TypeOK, Replayed, [Next]_vars,
                      NEW d \in Conns, conn'[d].pc = "live"
               PROVE  conn'[d].todo = {}
    BY DEF Replayed
  <1>1. CASE conn'[d] = conn[d]
    BY <1>1 DEF Replayed
  <1>2. ASSUME FindQueuedFails(d)
        PROVE  conn'[d].todo = {}
    <2>1. /\ conn[d].account \in Accounts
          /\ conn' = [conn EXCEPT ![d] = ConnAt("live", conn[d].account, {})]
      BY <1>2 DEF FindQueuedFails, TypeOK
    <2>. QED
      BY <2>1, MoveEmpty
  <1>3. ASSUME ReplayDone(d)
        PROVE  conn'[d].todo = {}
    <2>1. conn' = [conn EXCEPT ![d].pc = "live"] /\ conn[d].todo = {}
      BY <1>3 DEF ReplayDone
    <2>. QED
      BY <2>1, Advance
  <1>4. ASSUME SendQueued(d)
        PROVE  FALSE
    <2>1. conn' = [conn EXCEPT ![d].pc = "mark"]
      BY <1>4 DEF SendQueued
    <2>. QED
      BY <2>1, Advance
  <1>5. ASSUME \/ \E a \in Accounts : Connect(d, a)
               \/ FindQueued(d) \/ SendQueuedFails(d)
               \/ MarkDelivered(d) \/ MarkDeliveredFails(d) \/ Disconnect(d)
        PROVE  FALSE
    <2>1. ASSUME NEW pc \in {"offline", "find", "replay", "broken"}, NEW a, NEW todo,
                 conn' = [conn EXCEPT ![d] = ConnAt(pc, a, todo)]
          PROVE  FALSE
      <3>. DEFINE row == ConnAt(pc, a, todo)
      <3>1. row.pc = pc
        BY DEF ConnAt
      <3>2. conn'[d] = row
        BY <2>1 DEF TypeOK
      <3>. QED
        BY <3>1, <3>2
    <2>. QED
      BY <1>5, <2>1
         DEF Connect, FindQueued, SendQueuedFails, MarkDelivered, MarkDeliveredFails,
             Disconnect, Offline
  <1>6. ASSUME SendLive(d)
        PROVE  conn' = conn
    BY <1>6 DEF SendLive
  <1>. QED
    BY <1>1, <1>2, <1>3, <1>4, <1>5, <1>6, OthersKept DEF Conn

-----------------------------------------------------------------------------
(* The theorems.                                                           *)

\* Nothing is stored, connected or under way at the start.
LEMMA DeliveryInit == Init => DeliveryInv
  <1> SUFFICES ASSUME Init PROVE DeliveryInv
    OBVIOUS
  <1>1. \A m \in Messages : inbound[m].status = "none" /\ inbound[m].account_id = NULL
    <2>1. NoRow.status = "none" /\ NoRow.account_id = NULL
      BY DEF NoRow, Row
    <2>. QED
      BY <2>1 DEF Init
  <1>2. Stored = {}
    BY <1>1 DEF Stored
  <1>3. Created
    BY <1>2, FS_EmptySet DEF Created
  <1>4. \A w \in Webhooks : web[w].pc = "idle" /\ web[w].msg = NULL
    BY IdleWebRow DEF Init
  <1>5. \A c \in Conns : /\ conn[c].pc = "offline" /\ conn[c].todo = {}
                         /\ buf[c] = <<>>
    BY OfflineRow DEF Init
  <1>6. UnderWay
    BY <1>4, <1>5, QueueEmpty DEF UnderWay, Naming, Carries
  <1>7. Owned
    BY <1>1, <1>2 DEF Owned, Init
  <1>8. Marking /\ Accounted /\ Replayed
    BY <1>5 DEF Marking, Accounted, Replayed
  <1>9. OwnMessagesOnly /\ DeliveredWasWritten
    BY <1>1 DEF Init, OwnMessagesOnly, DeliveredWasWritten
  <1>. QED
    BY <1>3, <1>6, <1>7, <1>8, <1>9, TypeInit DEF DeliveryInv

\* Each step keeps the invariant.
LEMMA DeliveryStep == DeliveryInv /\ [Next]_vars => DeliveryInv'
  <1> SUFFICES ASSUME DeliveryInv, [Next]_vars PROVE DeliveryInv'
    OBVIOUS
  <1> USE DEF DeliveryInv
  <1>1. TypeOK' /\ Created' /\ Owned'
    BY TypeStep, CreatedStep, OwnedStep
  <1>2. UnderWay'
    BY NamingStep, CarriesStep DEF UnderWay
  <1>3. Marking' /\ Accounted' /\ Replayed'
    BY MarkingStep, AccountedStep, ReplayedStep
  <1>4. OwnMessagesOnly' /\ DeliveredWasWritten'
    BY OwnStep, DeliveredStep
  <1>. QED
    BY <1>1, <1>2, <1>3, <1>4

\* The invariant of the way of a message, for every size of the system.
THEOREM DeliveryInvariant == Spec => []DeliveryInv
  BY DeliveryInit, DeliveryStep, PTL DEF Spec

\* Rows, local variables and buffers keep their types, and no buffer exceeds
\* its capacity (the default branch of broadcast).
THEOREM DeliveryTypes == Spec => []TypeOK
  <1>1. DeliveryInv => TypeOK
    BY DEF DeliveryInv
  <1>. QED
    BY <1>1, DeliveryInvariant, PTL

\* No message reaches a client of another account, by replay or by stream.
THEOREM DeliveryTenants == Spec => []OwnMessagesOnly
  <1>1. DeliveryInv => OwnMessagesOnly
    BY DEF DeliveryInv
  <1>. QED
    BY <1>1, DeliveryInvariant, PTL

\* No row is marked delivered that was not written (sendQueuedMessages).
THEOREM DeliveryMarks == Spec => []DeliveredWasWritten
  <1>1. DeliveryInv => DeliveredWasWritten
    BY DEF DeliveryInv
  <1>. QED
    BY <1>1, DeliveryInvariant, PTL

\* Between the replay and the live stream nothing falls through (Subscribe
\* before FindQueuedByAccountID).
THEOREM DeliveryNoGap == Spec => []NoGap
  <1>1. DeliveryInv => NoGap
    <2>. SUFFICES ASSUME DeliveryInv, NEW c \in Conns, NEW m \in Messages,
                         conn[c].pc = "live",
                         inbound[m].status = "queued",
                         inbound[m].account_id = conn[c].account,
                         Settled(c, m)
                  PROVE  m \in written[c] \cup Range(buf[c])
      BY DEF NoGap, Settled
    <2>1. m \in conn[c].todo \cup written[c] \cup Range(buf[c])
      BY DEF DeliveryInv, Accounted
    <2>. QED
      BY <2>1 DEF DeliveryInv, Replayed
  <1>. QED
    BY <1>1, DeliveryInvariant, PTL

-----------------------------------------------------------------------------
(* The mailbox.                                                            *)

States == [m \in Messages |-> inbound[m].status]

Owners == [m \in Messages |-> inbound[m].account_id]

Gone == {a \in Accounts : account[a] = "deleted"}

\* A step that leaves rows, accounts and clients alone is a stutter.
LEMMA MailboxStutters ==
    ASSUME UNCHANGED <<inbound, account, received>>
    PROVE  [M!Next]_(M!vars)
  BY DEF M!vars

\* CreateInbound puts a message into the mailbox of an account that exists.
LEMMA CreateInboundPuts ==
    ASSUME TypeOK, Created,
           NEW w \in Webhooks, NEW m \in Messages, CreateInbound(w, m)
    PROVE  \E a \in Accounts : M!Put(m, a)
  <1>1. PICK a \in Accounts : a = web[w].account
    BY DEF CreateInbound, TypeOK
  <1>2. account[a] = "live" /\ account' = account /\ inbound[m].status = "none"
    BY <1>1 DEF CreateInbound
  <1>3. /\ \A n \in Messages \ {m} : inbound'[n] = inbound[n]
        /\ inbound'[m].status = "queued" /\ inbound'[m].account_id = a
        /\ received' = received
    BY <1>1, Inserted
  <1>4. States' = [States EXCEPT ![m] = "queued"] /\ Owners' = [Owners EXCEPT ![m] = a]
    BY <1>3 DEF States, Owners
  <1>5. Gone' = Gone /\ a \notin Gone /\ States[m] = "none"
    BY <1>2 DEF Gone, States
  <1>6. M!Put(m, a)
    BY <1>3, <1>4, <1>5 DEF M!Put, States, Owners, Gone
  <1>. QED
    BY <1>6

\* A write, of the replay or of the stream, shows a message to its owner.
LEMMA WriteShows ==
    ASSUME TypeOK, NEW c \in Conns, NEW m \in Stored,
           inbound[m].account_id = conn[c].account,
           conn[c].account \in Accounts,
           Write(c, m), inbound' = inbound, account' = account
    PROVE  M!Show(m)
  <1>1. m \in Messages
    BY DEF Stored
  <1>2. Owners[m] # NULL /\ Owners[m] = conn[c].account
    BY <1>1 DEF Owners
  <1>3. received' = [received EXCEPT ![m] = @ \cup {Owners[m]}]
    BY <1>2 DEF Write
  <1>. QED
    BY <1>2, <1>3 DEF M!Show, Owners

\* MarkDelivered takes a message that was shown, or does nothing to a row
\* that another connection has marked or that is gone.
LEMMA MarkDeliveredTakes ==
    ASSUME TypeOK, Marking, NEW c \in Conns, MarkDelivered(c)
    PROVE  [M!Next]_(M!vars)
  <1>1. PICK m \in conn[c].todo :
           conn[c].pc = "mark" /\ IsNext(m, conn[c].todo) /\ inbound' = MarkRow(m)
    BY DEF MarkDelivered
  <1>2. m \in Messages
    BY DEF TypeOK, ConnRows
  <1>3. received' = received /\ account' = account
    BY DEF MarkDelivered
  <1>4. received[m] # {}
    BY <1>1 DEF Marking
  <1>5. Owners' = Owners /\ Gone' = Gone
    BY <1>1, <1>2, <1>3, Mark DEF Owners, Gone
  <1>6. CASE inbound[m].status \in {"queued", "expired"}
    <2>1. States' = [States EXCEPT ![m] = "delivered"]
      BY <1>1, <1>2, <1>6, Mark DEF States, Exists
    <2>2. M!Take(m)
      BY <1>2, <1>3, <1>4, <1>5, <1>6, <2>1 DEF M!Take, States, Owners, Gone
    <2>. QED
      BY <1>2, <2>2 DEF M!Next
  <1>7. CASE inbound[m].status \notin {"queued", "expired"}
    <2>1. States' = States
      BY <1>1, <1>2, <1>7, Mark DEF States, Exists
    <2>. QED
      BY <1>3, <1>5, <2>1 DEF M!vars, States, Owners, Gone
  <1>. QED
    BY <1>6, <1>7

\* The cleanup job expires messages that are waiting.
LEMMA MarkExpiredExpires ==
    ASSUME TypeOK, MarkExpired
    PROVE  M!Expire
  <1>. DEFINE due == {m \in Messages : Overdue(m)}
  <1>1. /\ inbound' = [m \in Messages |-> IF m \in due
                                          THEN [inbound[m] EXCEPT !.status = "expired"]
                                          ELSE inbound[m]]
        /\ received' = received /\ account' = account
    BY DEF MarkExpired
  <1>2. due \in SUBSET {m \in Messages : States[m] = "queued"}
    BY DEF States, Overdue
  <1>. HIDE DEF due
  <1>3. \A m \in Messages :
           /\ inbound'[m].status = IF m \in due THEN "expired" ELSE inbound[m].status
           /\ inbound'[m].account_id = inbound[m].account_id
    BY <1>1, StatusRow DEF TypeOK
  <1>4. States' = [m \in Messages |-> IF m \in due THEN "expired" ELSE States[m]]
    BY <1>3 DEF States
  <1>5. Owners' = Owners /\ Gone' = Gone
    BY <1>1, <1>3 DEF Owners, Gone
  <1>. QED
    BY <1>1, <1>2, <1>4, <1>5 DEF M!Expire, States, Owners, Gone

\* The deletion of an account shuts its mailbox.
LEMMA DeleteAccountShuts ==
    ASSUME TypeOK, NEW a \in Accounts, DeleteAccount(a)
    PROVE  M!Shut(a)
  <1>1. \A m \in Messages :
           /\ inbound'[m].status = IF inbound[m].account_id = a THEN "deleted"
                                                                ELSE inbound[m].status
           /\ inbound'[m].account_id = inbound[m].account_id
    BY StatusRow DEF TypeOK, DeleteAccount
  <1>2. States' = [m \in Messages |-> IF Owners[m] = a THEN "deleted" ELSE States[m]]
    BY <1>1 DEF States, Owners
  <1>3. Owners' = Owners
    BY <1>1 DEF Owners
  <1>4. a \notin Gone /\ Gone' = Gone \cup {a}
    BY DEF Gone, DeleteAccount, TypeOK
  <1>. QED
    BY <1>2, <1>3, <1>4 DEF M!Shut, States, Owners, Gone, DeleteAccount

\* A new account comes with an open mailbox.
LEMMA PairStutters ==
    ASSUME TypeOK, NEW k \in Convs, NEW a \in Accounts, Pair(k, a)
    PROVE  [M!Next]_(M!vars)
  <1>1. Gone' = Gone
    BY DEF Gone, Pair, TypeOK
  <1>. QED
    BY <1>1 DEF M!vars, Gone, Pair

\* Every step of Delivery is a step of the mailbox or none.
LEMMA MailboxStep ==
    ASSUME DeliveryInv, [Next]_vars
    PROVE  [M!Next]_(M!vars)
  <1> USE DEF DeliveryInv
  <1>1. CASE received' # received
    <2>1. PICK c \in Conns, m \in Stored :
             /\ inbound[m].account_id = conn[c].account
             /\ conn[c].account \in Accounts
             /\ Write(c, m) /\ inbound' = inbound /\ account' = account
      BY <1>1, WriteStep
    <2>2. M!Show(m) /\ m \in Messages
      BY <2>1, WriteShows DEF Stored
    <2>. QED
      BY <2>2 DEF M!Next
  <1>2. ASSUME NEW w \in Webhooks, NEW m \in Messages, CreateInbound(w, m)
        PROVE  [M!Next]_(M!vars)
    BY <1>2, CreateInboundPuts DEF M!Next
  <1>3. ASSUME MarkExpired
        PROVE  [M!Next]_(M!vars)
    BY <1>3, MarkExpiredExpires DEF M!Next
  <1>4. ASSUME NEW a \in Accounts, DeleteAccount(a)
        PROVE  [M!Next]_(M!vars)
    BY <1>4, DeleteAccountShuts DEF M!Next
  <1>5. \/ received' # received
        \/ UNCHANGED <<inbound, account, received>>
        \/ \E w \in Webhooks, m \in Messages : CreateInbound(w, m)
        \/ \E c \in Conns : MarkDelivered(c)
        \/ MarkExpired
        \/ \E a \in Accounts : DeleteAccount(a)
        \/ \E k \in Convs, a \in Accounts : Pair(k, a)
    BY DEF Next, Web, Conn, Webhook, Publish, WebhookDies, Broadcast, Connect,
           FindQueued, FindQueuedFails, SendQueued, SendQueuedFails,
           MarkDeliveredFails, ReplayDone, SendLive, Disconnect, Unpair,
           RevokeSession, Tick, vars
  <1>. QED
    BY <1>1, <1>2, <1>3, <1>4, <1>5, MarkDeliveredTakes, PairStutters, MailboxStutters

\* Every mailbox is open and empty at the start.
LEMMA MailboxInit == Init => M!Init
  <1> SUFFICES ASSUME Init PROVE M!Init
    OBVIOUS
  <1>1. NoRow.status = "none" /\ NoRow.account_id = NULL
    BY DEF NoRow, Row
  <1>2. \A m \in Messages : inbound[m].status = "none" /\ inbound[m].account_id = NULL
    BY <1>1 DEF Init
  <1>. QED
    BY <1>2 DEF Init, M!Init

\* Delivery implements the mailbox: whatever is lost, duplicated, replayed,
\* expired or deleted on the way, a message goes to one account, is shown to
\* that account's clients only, and is taken only after it was shown.
THEOREM DeliveryRefinesMailbox == Spec => ImplementsMailbox
  <1>1. DeliveryInv /\ [Next]_vars => [M!Next]_(M!vars)
    BY MailboxStep
  <1>. QED
    BY <1>1, MailboxInit, DeliveryInvariant, PTL DEF Spec, ImplementsMailbox, M!Spec

=============================================================================
