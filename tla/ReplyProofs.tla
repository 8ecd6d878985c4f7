---------------------------- MODULE ReplyProofs ----------------------------
(***************************************************************************)
(* Proofs about Reply for every set of accounts, messages, rows and        *)
(* concurrent requests.  ReplyInv is the inductive invariant: a request    *)
(* that passed the tenant check is about a message of its own account, and *)
(* the outbound row it has created is its own until it returns.            *)
(***************************************************************************)
EXTENDS Reply, TLAPS

USE NullAssumption, TimeAssumption

-----------------------------------------------------------------------------

\* The tenant check of FindInbound is not undone.
Checked ==
    \A r \in Requests :
        req[r].pc \in {"create", "send", "sent", "failed"} =>
            inbound[req[r].msg].account_id = req[r].account

\* A row belongs to the request that created it, which alone may record the
\* outcome; the account's deletion may take it away.
OwnRow ==
    /\ \A r \in Requests : HasRow(r) =>
          outbound[req[r].out].status \in {"pending", "deleted"}
    /\ \A r, q \in Requests : HasRow(r) /\ HasRow(q) /\ req[r].out = req[q].out
                                 => r = q

\* A request that is about to record success has an answer of Kakao.
Answered ==
    \A r \in Requests : req[r].pc = "sent" => \E x \in accepted : x.out = req[r].out

ReplyInv ==
    TypeOK /\ Checked /\ OwnRow /\ Answered /\ SentWasAccepted /\ OwnRepliesOnly

-----------------------------------------------------------------------------
(* The rows.                                                               *)

\* What a request keeps between two statements.
LEMMA RequestRow ==
    ASSUME NEW pc \in {"idle", "find", "create", "send", "sent", "failed"},
           NEW a \in Accounts \cup {NULL}, NEW m \in Messages \cup {NULL},
           NEW o \in Outbounds \cup {NULL}
    PROVE  /\ RequestAt(pc, a, m, o) \in RequestRows
           /\ RequestAt(pc, a, m, o).pc = pc
           /\ RequestAt(pc, a, m, o).account = a
           /\ RequestAt(pc, a, m, o).msg = m
           /\ RequestAt(pc, a, m, o).out = o
  BY DEF RequestAt, RequestRows

\* A request that has returned is idle.
LEMMA IdleRow == IdleRequest \in RequestRows /\ IdleRequest.pc = "idle"
  BY RequestRow DEF IdleRequest

\* The rows the webhook has stored.
LEMMA StoredRow ==
    ASSUME NEW a \in Accounts, NEW url \in URLs
    PROVE  /\ InboundRow(a, url) \in InboundRows
           /\ InboundRow(a, url).callback_url # NULL =>
                 InboundRow(a, url).callback_expires_at = CallbackTTL
  BY DEF InboundRow, InboundRows

\* A new outbound row.
LEMMA CreatedRow ==
    ASSUME NEW status \in {"none", "pending"},
           NEW a \in Accounts \cup {NULL}, NEW m \in Messages \cup {NULL}
    PROVE  /\ OutboundRow(status, a, m) \in OutboundRows
           /\ OutboundRow(status, a, m).status = status
  BY DEF OutboundRow, OutboundRows

\* An UPDATE of the status of an outbound row.
LEMMA StatusRow ==
    ASSUME NEW row \in OutboundRows, NEW status \in {"sent", "failed", "deleted"}
    PROVE  /\ [row EXCEPT !.status = status] \in OutboundRows
           /\ [row EXCEPT !.status = status].status = status
  BY DEF OutboundRows

\* Deleting an account takes an inbound row away and leaves what it said.
LEMMA TakenRow ==
    ASSUME NEW row \in InboundRows
    PROVE  /\ [row EXCEPT !.exists = FALSE] \in InboundRows
           /\ [row EXCEPT !.exists = FALSE].account_id = row.account_id
           /\ [row EXCEPT !.exists = FALSE].callback_url = row.callback_url
           /\ [row EXCEPT !.exists = FALSE].callback_expires_at = row.callback_expires_at
  BY DEF InboundRows

-----------------------------------------------------------------------------
(* Types.                                                                  *)

\* The tables at the start have their types.
LEMMA TypeInit == Init => TypeOK
  <1> SUFFICES ASSUME Init PROVE TypeOK
    OBVIOUS
  <1>1. PICK owner \in [Messages -> Accounts], url \in [Messages -> URLs] :
           inbound = [m \in Messages |-> InboundRow(owner[m], url[m])]
    BY DEF Init
  <1>2. /\ inbound \in [Messages -> InboundRows]
        /\ \A m \in Messages : inbound[m].callback_url # NULL =>
              inbound[m].callback_expires_at = CallbackTTL
    BY <1>1, StoredRow
  <1>3. NoOutbound \in OutboundRows
    BY CreatedRow DEF NoOutbound
  <1>. QED
    BY <1>2, <1>3, IdleRow DEF Init, TypeOK, HasRow

\* Every statement, call and failure keeps the types.
LEMMA TypeStep == TypeOK /\ [Next]_vars => TypeOK'
  <1> SUFFICES ASSUME TypeOK, [Next]_vars PROVE TypeOK'
    OBVIOUS
  <1>1. ASSUME NEW r \in Requests, NEW a \in Accounts, NEW m \in Messages,
               Reply(r, a, m)
        PROVE  TypeOK'
    BY <1>1, RequestRow DEF TypeOK, Reply, HasRow
  <1>2. ASSUME NEW r \in Requests, FindInbound(r)
        PROVE  TypeOK'
    <2>1. /\ RequestAt("create", req[r].account, req[r].msg, NULL) \in RequestRows
          /\ RequestAt("create", req[r].account, req[r].msg, NULL).pc = "create"
          /\ RequestAt("create", req[r].account, req[r].msg, NULL).account \in Accounts
          /\ RequestAt("create", req[r].account, req[r].msg, NULL).msg \in Messages
      BY <1>2, RequestRow DEF TypeOK, FindInbound
    <2>. QED
      BY <1>2, <2>1, IdleRow DEF TypeOK, FindInbound, HasRow
  <1>3. ASSUME NEW r \in Requests, NEW o \in Outbounds, CreateOutbound(r, o)
        PROVE  TypeOK'
    <2>1. req[r].account \in Accounts /\ req[r].msg \in Messages
      BY <1>3 DEF TypeOK, CreateOutbound
    <2>2. outbound' \in [Outbounds -> OutboundRows]
      BY <1>3, <2>1, CreatedRow DEF TypeOK, CreateOutbound
    <2>. QED
      BY <1>3, <2>1, <2>2, RequestRow DEF TypeOK, CreateOutbound, HasRow
  <1>4. ASSUME NEW r \in Requests, CreateOutboundFails(r)
        PROVE  TypeOK'
    BY <1>4, IdleRow DEF TypeOK, CreateOutboundFails, HasRow
  <1>5. ASSUME NEW r \in Requests, SendCallback(r)
        PROVE  TypeOK'
    <2>1. Callback(r) \in [out : Outbounds, msg : Messages, account : Accounts,
                           url : URLs]
      BY <1>5 DEF TypeOK, SendCallback, Callback, HasRow, InboundRows
    <2>2. accepted' = accepted \/ accepted' = accepted \cup {Callback(r)}
      BY <1>5 DEF SendCallback
    <2>3. \E pc \in {"sent", "failed"} : req' = [req EXCEPT ![r].pc = pc]
      BY <1>5 DEF SendCallback
    <2>. QED
      BY <1>5, <2>1, <2>2, <2>3 DEF TypeOK, SendCallback, HasRow, RequestRows
  <1>6. ASSUME NEW r \in Requests, MarkOutbound(r)
        PROVE  TypeOK'
    <2>1. outbound' \in [Outbounds -> OutboundRows]
      BY <1>6, StatusRow DEF TypeOK, MarkOutbound, SetStatus, HasRow
    <2>. QED
      BY <1>6, <2>1, IdleRow DEF TypeOK, MarkOutbound, HasRow
  <1>7. ASSUME NEW r \in Requests, ContextDone(r)
        PROVE  TypeOK'
    BY <1>7 DEF TypeOK, ContextDone, HasRow
  <1>8. ASSUME NEW r \in Requests, RequestDies(r)
        PROVE  TypeOK'
    BY <1>8, IdleRow DEF TypeOK, RequestDies, HasRow
  <1>9. ASSUME NEW a \in Accounts, DeleteAccount(a)
        PROVE  TypeOK'
    <2>1. /\ inbound' \in [Messages -> InboundRows]
          /\ \A m \in Messages : inbound'[m].callback_url # NULL =>
                inbound'[m].callback_expires_at = CallbackTTL
      BY <1>9, TakenRow DEF TypeOK, DeleteAccount
    <2>2. outbound' \in [Outbounds -> OutboundRows]
      BY <1>9, StatusRow DEF TypeOK, DeleteAccount
    <2>. QED
      BY <1>9, <2>1, <2>2 DEF TypeOK, DeleteAccount, HasRow
  <1>10. CASE Tick
    BY <1>10 DEF TypeOK, Tick, HasRow
  <1>11. CASE UNCHANGED vars
    BY <1>11 DEF TypeOK, vars, HasRow
  <1>. QED
    BY <1>1, <1>2, <1>3, <1>4, <1>5, <1>6, <1>7, <1>8, <1>9, <1>10, <1>11
       DEF Next, Serve, Steps

\* Rows and local variables keep their types (handler and repository of
\* outbound messages).
THEOREM ReplyTypes == Spec => []TypeOK
  BY TypeInit, TypeStep, PTL DEF Spec

-----------------------------------------------------------------------------
(* Tenants, rows and answers.                                              *)

\* What the webhook has stored about a message outlives the message.
LEMMA OwnersKept ==
    ASSUME TypeOK, [Next]_vars, NEW m \in Messages
    PROVE  inbound'[m].account_id = inbound[m].account_id
  <1>1. ASSUME NEW a \in Accounts, DeleteAccount(a)
        PROVE  inbound'[m].account_id = inbound[m].account_id
    BY <1>1, TakenRow DEF TypeOK, DeleteAccount
  <1>2. inbound' = inbound \/ \E a \in Accounts : DeleteAccount(a)
    BY DEF Next, Serve, Steps, Reply, FindInbound, CreateOutbound,
           CreateOutboundFails, SendCallback, MarkOutbound, ContextDone, Tick,
           RequestDies, vars
  <1>. QED
    BY <1>1, <1>2

\* The tenant check holds for as long as the request runs.
LEMMA CheckedStep == TypeOK /\ Checked /\ [Next]_vars => Checked'
  <1> SUFFICES ASSUME TypeOK, Checked, [Next]_vars PROVE Checked'
    OBVIOUS
  <1> USE DEF Checked
  <1>1. ASSUME NEW r \in Requests, NEW a \in Accounts, NEW m \in Messages,
               Reply(r, a, m)
        PROVE  Checked'
    BY <1>1, RequestRow DEF TypeOK, Reply
  <1>2. ASSUME NEW r \in Requests, FindInbound(r)
        PROVE  Checked'
    <2>1. /\ RequestAt("create", req[r].account, req[r].msg, NULL).account = req[r].account
          /\ RequestAt("create", req[r].account, req[r].msg, NULL).msg = req[r].msg
      BY <1>2, RequestRow DEF TypeOK, FindInbound
    <2>2. CASE MayAnswer(req[r].account, req[r].msg)
      BY <1>2, <2>1, <2>2, IdleRow DEF TypeOK, FindInbound, MayAnswer
    <2>3. CASE ~MayAnswer(req[r].account, req[r].msg)
      BY <1>2, <2>3, IdleRow DEF TypeOK, FindInbound
    <2>. QED
      BY <2>2, <2>3
  <1>3. ASSUME NEW r \in Requests, NEW o \in Outbounds, CreateOutbound(r, o)
        PROVE  Checked'
    <2>1. req[r].account \in Accounts /\ req[r].msg \in Messages
      BY <1>3 DEF TypeOK, CreateOutbound
    <2>. QED
      BY <1>3, <2>1, RequestRow DEF TypeOK, CreateOutbound
  <1>4. ASSUME NEW r \in Requests, SendCallback(r)
        PROVE  Checked'
    <2>1. \E pc \in {"sent", "failed"} : req' = [req EXCEPT ![r].pc = pc]
      BY <1>4 DEF SendCallback
    <2>. QED
      BY <1>4, <2>1 DEF TypeOK, SendCallback, RequestRows
  <1>5. ASSUME NEW r \in Requests,
               CreateOutboundFails(r) \/ MarkOutbound(r) \/ RequestDies(r)
        PROVE  Checked'
    BY <1>5, IdleRow DEF TypeOK, CreateOutboundFails, MarkOutbound, RequestDies
  <1>6. ASSUME req' = req
        PROVE  Checked'
    <2>. SUFFICES ASSUME NEW r \in Requests,
                         req[r].pc \in {"create", "send", "sent", "failed"}
                  PROVE  inbound'[req[r].msg].account_id = req[r].account
      BY <1>6
    <2>1. req[r].msg \in Messages
      BY DEF TypeOK
    <2>. QED
      BY <2>1, OwnersKept
  <1>7. \/ req' = req
        \/ \E r \in Requests :
              \/ \E a \in Accounts, m \in Messages : Reply(r, a, m)
              \/ FindInbound(r)
              \/ \E o \in Outbounds : CreateOutbound(r, o)
              \/ SendCallback(r)
              \/ CreateOutboundFails(r) \/ MarkOutbound(r) \/ RequestDies(r)
    BY DEF Next, Serve, Steps, ContextDone, DeleteAccount, Tick, vars
  <1>. QED
    BY <1>1, <1>2, <1>3, <1>4, <1>5, <1>6, <1>7

\* A row has one writer: ids are drawn fresh, and a request that returns
\* gives its row up.
LEMMA OwnRowStep == TypeOK /\ OwnRow /\ [Next]_vars => OwnRow'
  <1> SUFFICES ASSUME TypeOK, OwnRow, [Next]_vars PROVE OwnRow'
    OBVIOUS
  <1> USE DEF OwnRow, HasRow
  <1>1. ASSUME NEW r \in Requests, NEW a \in Accounts, NEW m \in Messages,
               Reply(r, a, m)
        PROVE  OwnRow'
    BY <1>1, RequestRow DEF TypeOK, Reply
  <1>2. ASSUME NEW r \in Requests, FindInbound(r)
        PROVE  OwnRow'
    <2>1. RequestAt("create", req[r].account, req[r].msg, NULL).pc = "create"
      BY <1>2, RequestRow DEF TypeOK, FindInbound
    <2>. QED
      BY <1>2, <2>1, IdleRow DEF TypeOK, FindInbound
  <1>3. ASSUME NEW r \in Requests, NEW o \in Outbounds, CreateOutbound(r, o)
        PROVE  OwnRow'
    <2>1. req[r].account \in Accounts /\ req[r].msg \in Messages
      BY <1>3 DEF TypeOK, CreateOutbound
    <2>2. /\ req'[r].pc = "send" /\ req'[r].out = o
          /\ \A q \in Requests \ {r} : req'[q] = req[q]
      BY <1>3, <2>1, RequestRow DEF TypeOK, CreateOutbound
    <2>3. /\ outbound'[o].status = "pending"
          /\ \A p \in Outbounds \ {o} : outbound'[p] = outbound[p]
      BY <1>3, <2>1, CreatedRow DEF TypeOK, CreateOutbound
    <2>4. \A q \in Requests \ {r} : HasRow(q) => req[q].out # o
      BY <1>3 DEF CreateOutbound, Fresh
    <2>. QED
      BY <2>2, <2>3, <2>4 DEF TypeOK
  <1>4. ASSUME NEW r \in Requests, SendCallback(r)
        PROVE  OwnRow'
    <2>1. \E pc \in {"sent", "failed"} : req' = [req EXCEPT ![r].pc = pc]
      BY <1>4 DEF SendCallback
    <2>2. /\ \A q \in Requests : req'[q].out = req[q].out /\ (HasRow(q)' => HasRow(q))
      BY <1>4, <2>1 DEF TypeOK, SendCallback, RequestRows
    <2>. QED
      BY <1>4, <2>2 DEF SendCallback
  <1>5. ASSUME NEW r \in Requests, MarkOutbound(r)
        PROVE  OwnRow'
    <2>1. /\ req'[r].pc = "idle"
          /\ \A q \in Requests \ {r} : req'[q] = req[q]
      BY <1>5, IdleRow DEF TypeOK, MarkOutbound
    <2>2. \A o \in Outbounds : o # req[r].out => outbound'[o] = outbound[o]
      BY <1>5 DEF TypeOK, MarkOutbound, SetStatus
    <2>3. \A q \in Requests \ {r} : HasRow(q) => req[q].out # req[r].out
      BY <1>5 DEF MarkOutbound
    <2>. QED
      BY <2>1, <2>2, <2>3 DEF TypeOK
  <1>6. ASSUME NEW r \in Requests, CreateOutboundFails(r) \/ RequestDies(r)
        PROVE  OwnRow'
    BY <1>6, IdleRow DEF TypeOK, CreateOutboundFails, RequestDies
  <1>7. ASSUME NEW a \in Accounts, DeleteAccount(a)
        PROVE  OwnRow'
    <2>1. \A o \in Outbounds : outbound'[o].status \in {outbound[o].status, "deleted"}
      BY <1>7, StatusRow DEF TypeOK, DeleteAccount
    <2>. QED
      BY <1>7, <2>1 DEF TypeOK, DeleteAccount
  <1>8. CASE UNCHANGED <<req, outbound>>
    BY <1>8
  <1>. QED
    BY <1>1, <1>2, <1>3, <1>4, <1>5, <1>6, <1>7, <1>8
       DEF Next, Serve, Steps, ContextDone, Tick, vars

\* A request says sent after SendCallback saw an answer.
LEMMA AnsweredStep == TypeOK /\ Answered /\ [Next]_vars => Answered'
  <1> SUFFICES ASSUME TypeOK, Answered, [Next]_vars PROVE Answered'
    OBVIOUS
  <1> USE DEF Answered
  <1>1. ASSUME NEW r \in Requests, SendCallback(r)
        PROVE  Answered'
    <2>1. accepted \subseteq accepted'
      BY <1>1 DEF SendCallback
    <2>2. \A q \in Requests \ {r} : req'[q] = req[q]
      BY <1>1 DEF TypeOK, SendCallback
    <2>3. req'[r].out = req[r].out
      BY <1>1 DEF TypeOK, SendCallback, RequestRows
    <2>4. req'[r].pc = "sent" => Callback(r) \in accepted'
      BY <1>1 DEF TypeOK, SendCallback, RequestRows
    <2>5. Callback(r).out = req[r].out
      BY DEF Callback
    <2>. QED
      BY <2>1, <2>2, <2>3, <2>4, <2>5
  <1>2. ASSUME NEW r \in Requests, NEW a \in Accounts, NEW m \in Messages,
               Reply(r, a, m)
        PROVE  Answered'
    BY <1>2, RequestRow DEF TypeOK, Reply
  <1>3. ASSUME NEW r \in Requests, FindInbound(r)
        PROVE  Answered'
    <2>1. RequestAt("create", req[r].account, req[r].msg, NULL).pc = "create"
      BY <1>3, RequestRow DEF TypeOK, FindInbound
    <2>. QED
      BY <1>3, <2>1, IdleRow DEF TypeOK, FindInbound
  <1>4. ASSUME NEW r \in Requests, NEW o \in Outbounds, CreateOutbound(r, o)
        PROVE  Answered'
    <2>1. RequestAt("send", req[r].account, req[r].msg, o).pc = "send"
      BY <1>4, RequestRow DEF TypeOK, CreateOutbound
    <2>. QED
      BY <1>4, <2>1 DEF TypeOK, CreateOutbound
  <1>5. ASSUME NEW r \in Requests,
               CreateOutboundFails(r) \/ MarkOutbound(r) \/ RequestDies(r)
        PROVE  Answered'
    BY <1>5, IdleRow DEF TypeOK, CreateOutboundFails, MarkOutbound, RequestDies
  <1>6. CASE UNCHANGED <<req, accepted>>
    BY <1>6
  <1>. QED
    BY <1>1, <1>2, <1>3, <1>4, <1>5, <1>6
       DEF Next, Serve, Steps, ContextDone, DeleteAccount, Tick, vars

\* What a step may do to the status of a row: a fresh row becomes pending, a
\* request records its own outcome in a row that is pending, an account
\* takes its rows along.
LEMMA StatusStep ==
    ASSUME TypeOK, OwnRow, [Next]_vars, NEW o \in Outbounds
    PROVE  \/ outbound'[o].status \in {outbound[o].status, "deleted"}
           \/ outbound[o].status = "none" /\ outbound'[o].status = "pending"
           \/ /\ outbound[o].status = "pending"
              /\ \E r \in Requests : /\ req[r].out = o
                                     /\ req[r].pc \in {"sent", "failed"}
                                     /\ outbound'[o].status = req[r].pc
  <1>1. ASSUME NEW r \in Requests, NEW p \in Outbounds, CreateOutbound(r, p)
        PROVE  \/ outbound'[o] = outbound[o]
               \/ outbound[o].status = "none" /\ outbound'[o].status = "pending"
    <2>1. OutboundRow("pending", req[r].account, req[r].msg).status = "pending"
      BY <1>1, CreatedRow DEF TypeOK, CreateOutbound
    <2>. QED
      BY <1>1, <2>1 DEF TypeOK, CreateOutbound, Fresh
  <1>2. ASSUME NEW r \in Requests, MarkOutbound(r)
        PROVE  \/ outbound'[o] = outbound[o]
               \/ /\ outbound[o].status = "pending"
                  /\ req[r].out = o
                  /\ req[r].pc \in {"sent", "failed"}
                  /\ outbound'[o].status = req[r].pc
    <2>1. /\ req[r].pc \in {"sent", "failed"}
          /\ req[r].out \in Outbounds
          /\ outbound[req[r].out].status \in {"pending", "deleted"}
      BY <1>2 DEF TypeOK, MarkOutbound, OwnRow, HasRow
    <2>2. [outbound[req[r].out] EXCEPT !.status = req[r].pc].status = req[r].pc
      BY <2>1, StatusRow DEF TypeOK
    <2>. QED
      BY <1>2, <2>1, <2>2 DEF TypeOK, MarkOutbound, SetStatus
  <1>3. ASSUME NEW a \in Accounts, DeleteAccount(a)
        PROVE  outbound'[o].status \in {outbound[o].status, "deleted"}
    BY <1>3, StatusRow DEF TypeOK, DeleteAccount
  <1>4. \/ outbound' = outbound
        \/ \E r \in Requests, p \in Outbounds : CreateOutbound(r, p)
        \/ \E r \in Requests : MarkOutbound(r)
        \/ \E a \in Accounts : DeleteAccount(a)
    BY DEF Next, Serve, Steps, Reply, FindInbound, CreateOutboundFails,
           SendCallback, ContextDone, Tick, RequestDies, vars
  <1>. QED
    BY <1>1, <1>2, <1>3, <1>4

\* Kakao's answers are only added to, and a new one is about a message that
\* passed the tenant check.
LEMMA AcceptedStep ==
    ASSUME TypeOK, Checked, [Next]_vars
    PROVE  /\ accepted \subseteq accepted'
           /\ \A x \in accepted' \ accepted :
                 x.msg \in Messages /\ inbound[x.msg].account_id = x.account
  <1>1. ASSUME NEW r \in Requests, SendCallback(r)
        PROVE  /\ accepted \subseteq accepted'
               /\ accepted' \ accepted \subseteq {Callback(r)}
               /\ req[r].msg \in Messages
               /\ inbound[req[r].msg].account_id = req[r].account
    BY <1>1 DEF TypeOK, SendCallback, Checked
  <1>2. \A r \in Requests : /\ Callback(r).msg = req[r].msg
                            /\ Callback(r).account = req[r].account
    BY DEF Callback
  <1>3. accepted' = accepted \/ \E r \in Requests : SendCallback(r)
    BY DEF Next, Serve, Steps, Reply, FindInbound, CreateOutbound,
           CreateOutboundFails, MarkOutbound, DeleteAccount, ContextDone, Tick,
           RequestDies, vars
  <1>. QED
    BY <1>1, <1>2, <1>3

-----------------------------------------------------------------------------

\* At the start no request is in progress.
LEMMA ReplyInit == Init => ReplyInv
  <1> SUFFICES ASSUME Init PROVE ReplyInv
    OBVIOUS
  <1>1. \A r \in Requests : req[r].pc = "idle"
    BY IdleRow DEF Init
  <1>2. \A o \in Outbounds : outbound[o].status = "none"
    BY CreatedRow DEF Init, NoOutbound
  <1>3. accepted = {}
    BY DEF Init
  <1>. QED
    BY <1>1, <1>2, <1>3, TypeInit
       DEF ReplyInv, Checked, OwnRow, HasRow, Answered, SentWasAccepted,
           OwnRepliesOnly

\* Each step keeps the invariant: StatusStep and AcceptedStep say what it may
\* do to the rows and to the answers.
LEMMA ReplyStep == ReplyInv /\ [Next]_vars => ReplyInv'
  <1> SUFFICES ASSUME ReplyInv, [Next]_vars PROVE ReplyInv'
    OBVIOUS
  <1> USE DEF ReplyInv
  <1>1. TypeOK' /\ Checked' /\ OwnRow' /\ Answered'
    BY TypeStep, CheckedStep, OwnRowStep, AnsweredStep
  <1>2. SentWasAccepted'
    <2>. SUFFICES ASSUME NEW o \in Outbounds, outbound'[o].status = "sent"
                  PROVE  \E x \in accepted' : x.out = o
      BY DEF SentWasAccepted
    <2>1. CASE outbound[o].status = "sent"
      BY <2>1, AcceptedStep DEF SentWasAccepted
    <2>2. CASE \E r \in Requests : req[r].out = o /\ req[r].pc = "sent"
      BY <2>2, AcceptedStep DEF Answered
    <2>. QED
      BY <2>1, <2>2, StatusStep
  <1>3. OwnRepliesOnly'
    <2>. SUFFICES ASSUME NEW x \in accepted'
                  PROVE  inbound'[x.msg].account_id = x.account
      BY DEF OwnRepliesOnly
    <2>1. x.msg \in Messages /\ inbound[x.msg].account_id = x.account
      BY AcceptedStep DEF OwnRepliesOnly, TypeOK
    <2>. QED
      BY <2>1, OwnersKept
  <1>. QED
    BY <1>1, <1>2, <1>3

\* The invariant that ties a request to its message and to its row.
THEOREM ReplyInvariant == Spec => []ReplyInv
  BY ReplyInit, ReplyStep, PTL DEF Spec

\* A row says sent only if Kakao accepted that reply, whatever interleaves
\* with SendCallback and MarkOutboundSent.
THEOREM ReplySentAccepted == Spec => []SentWasAccepted
  <1>1. ReplyInv => SentWasAccepted
    BY DEF ReplyInv
  <1>. QED
    BY <1>1, ReplyInvariant, PTL

\* No reply of one account ever answers a message of another (the tenant
\* check of Reply, deletions included).
THEOREM ReplyTenants == Spec => []OwnRepliesOnly
  <1>1. ReplyInv => OwnRepliesOnly
    BY DEF ReplyInv
  <1>. QED
    BY <1>1, ReplyInvariant, PTL

\* A recorded outcome is never replaced, although UPDATE outbound_messages
\* names the id only.
THEOREM ReplyOutcomes == Spec => OutcomeIsFinal
  <1>1. ASSUME ReplyInv, [Next]_vars
        PROVE  \A o \in Outbounds : outbound[o].status \in {"sent", "failed"} =>
                  outbound'[o].status \in {outbound[o].status, "deleted"}
    BY <1>1, StatusStep DEF ReplyInv
  <1>2. ReplyInv /\ [Next]_vars =>
           [\A o \in Outbounds : outbound[o].status \in {"sent", "failed"} =>
               outbound'[o].status \in {outbound[o].status, "deleted"}]_outbound
    BY <1>1
  <1>. QED
    BY <1>2, ReplyInvariant, PTL DEF Spec, OutcomeIsFinal

=============================================================================
