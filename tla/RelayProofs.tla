---------------------------- MODULE RelayProofs ----------------------------
(***************************************************************************)
(* Proofs about Relay for every number of sessions, accounts and streams.  *)
(* The steps of Relay are steps of Pairing, or leave its variables alone,  *)
(* so what PairingProofs shows holds here; StreamsAreOwn then follows from *)
(* OriginAgrees and from the fact that the origin of an account, once it   *)
(* is known, never changes.                                                *)
(***************************************************************************)
EXTENDS Relay, PairingProofs

-----------------------------------------------------------------------------
(* Relay and Pairing.                                                      *)

\* A step of the relay is one of Pairing or changes no row: AnnounceToStreams
\* is an Announce, and a request for events only reads.
LEMMA RelayStep == [RelayNext]_relayVars => [Next]_vars
  <1> SUFFICES ASSUME [RelayNext]_relayVars PROVE [Next]_vars
    OBVIOUS
  <1>1. CASE Next /\ UNCHANGED stream
    BY <1>1
  <1>2. ASSUME NEW h \in Handlers, AnnounceToStreams(h) PROVE Next
    <2>1. Announce(h)
      BY <1>2 DEF AnnounceToStreams
    <2>. QED
      BY <2>1 DEF Next, Handler
  <1>3. ASSUME NEW x \in Streams, Stream(x) PROVE UNCHANGED vars
    BY <1>3 DEF Stream, FindByTokenHash, FindAccount, FindAccountFails,
           RateLimited, ServeHTTP, RequestOver
  <1>4. CASE UNCHANGED relayVars
    BY <1>4 DEF relayVars
  <1>. QED
    BY <1>1, <1>2, <1>3, <1>4 DEF RelayNext

\* Streams do not disturb pairing: every behaviour of the composition is one
\* of Pairing, and has the properties proved of that.
THEOREM RelayIsPairing == RelaySpec => Spec
  <1>1. RelayInit => Init
    BY DEF RelayInit
  <1>. QED
    BY <1>1, RelayStep, PTL DEF RelaySpec, Spec

\* The account that VerifyPairingCode creates is new; whom an account was
\* created for is settled then.
LEMMA OriginKept ==
    ASSUME PairingInv, [Next]_vars,
           NEW a \in Accounts, origin[a] # NULL
    PROVE  origin'[a] = origin[a]
  <1>1. ASSUME NEW h \in Handlers, NEW b \in Accounts, PairTx(h, b)
        PROVE  origin'[a] = origin[a]
    <2>1. a # b
      BY <1>1 DEF PairTx, PairingInv, OriginAgrees
    <2>. QED
      BY <1>1, <2>1 DEF PairTx, PairingInv, TypeOK
  <1>2. origin' = origin \/ \E h \in Handlers, b \in Accounts : PairTx(h, b)
    BY DEF vars, Next, Handler, Poller, Dashboard, WebhookPair, WebhookUnpair,
           FindByPairingCode, UpdateConversation, UpdateConversationFails,
           Announce, Unpair, HandlerDies, GetStatus, MarkExpired, PollerDies,
           CreateSession, DisconnectSession, DeleteSession, RegenerateToken,
           DeleteAccount, DeleteConversation, WebhookOther, DeleteExpired, Tick
  <1>. QED
    BY <1>1, <1>2

-----------------------------------------------------------------------------
(* Types.                                                                  *)

StreamRows == [pc : {"closed", "account", "limit", "open"},
               session : Sessions \cup {NULL},
               account : Accounts \cup {NULL},
               told : SUBSET Accounts]

\* What a request keeps between two statements.
LEMMA StreamRow ==
    ASSUME NEW pc \in {"closed", "account", "limit", "open"},
           NEW s \in Sessions \cup {NULL}, NEW a \in Accounts \cup {NULL}
    PROVE  /\ StreamAt(pc, s, a) \in StreamRows
           /\ StreamAt(pc, s, a).pc = pc
           /\ StreamAt(pc, s, a).session = s
           /\ StreamAt(pc, s, a).account = a
           /\ StreamAt(pc, s, a).told = {}
  BY DEF StreamAt, StreamRows

\* Every step of a request for events keeps its types.
LEMMA StreamTypes ==
    ASSUME RelayTypeOK, TypeOK', [RelayNext]_relayVars
    PROVE  RelayTypeOK'
  <1>. DEFINE T == /\ stream \in [Streams -> StreamRows]
                   /\ \A x \in Streams : stream[x].pc = "account"
                                            => stream[x].account \in Accounts
  <1>. /\ T
       /\ T' => RelayTypeOK'
       /\ TypeOK
    BY DEF RelayTypeOK, StreamRows
  <1>. SUFFICES T'
    OBVIOUS
  <1>. HIDE DEF T
  <1>1. CASE UNCHANGED stream
    BY <1>1 DEF T
  <1>2. ASSUME NEW h \in Handlers, AnnounceToStreams(h) PROVE T'
    <2>. DEFINE s == hnd[h].session
                a == sessions[s].account_id
    <2>1. a \in Accounts
      BY <1>2, AnnouncedRow DEF AnnounceToStreams, Announce, TypeOK
    <2>2. PICK X \in SUBSET Streams :
             stream' = [x \in Streams |->
                           IF x \in X THEN [stream[x] EXCEPT !.told = @ \cup {a}]
                                      ELSE stream[x]]
      BY <1>2 DEF AnnounceToStreams
    <2>. HIDE DEF a
    <2>. QED
      BY <2>1, <2>2 DEF T, StreamRows
  <1>3. ASSUME NEW x \in Streams, NEW s \in Sessions, FindByTokenHash(x, s)
        PROVE  T'
    <2>1. sessions[s].account_id \in Accounts \cup {NULL}
      BY DEF TypeOK, SessionRows
    <2>. QED
      BY <1>3, <2>1, StreamRow DEF T, FindByTokenHash
  <1>4. ASSUME NEW x \in Streams, FindAccount(x) PROVE T'
    BY <1>4, StreamRow DEF T, FindAccount, StreamRows
  <1>5. ASSUME NEW x \in Streams, FindAccountFails(x) PROVE T'
    BY <1>5, StreamRow DEF T, FindAccountFails, StreamRows
  <1>6. ASSUME NEW x \in Streams, ServeHTTP(x) PROVE T'
    BY <1>6 DEF T, ServeHTTP, StreamRows
  <1>7. ASSUME NEW x \in Streams, RateLimited(x) \/ RequestOver(x) PROVE T'
    BY <1>7, StreamRow DEF T, RateLimited, RequestOver, NoStream
  <1>. QED
    BY <1>1, <1>2, <1>3, <1>4, <1>5, <1>6, <1>7 DEF RelayNext, Stream, relayVars

-----------------------------------------------------------------------------
(* Isolation.                                                              *)

\* The accounts that the client of request x may learn of.
Known(x) == stream[x].told \cup ({stream[x].account} \ {NULL})

\* A session's account was created for that session.
LEMMA AccountOfSession ==
    ASSUME PairingInv, NEW s \in Sessions, sessions[s].account_id # NULL
    PROVE  /\ sessions[s].account_id \in Accounts
           /\ origin[sessions[s].account_id] # NULL
           /\ origin[sessions[s].account_id].session = s
  <1>1. origin[sessions[s].account_id] =
           [session |-> s, conv |-> sessions[s].paired_conversation_key]
    BY DEF PairingInv, OriginAgrees
  <1>2. sessions[s].account_id \in Accounts
    BY AnnouncedRow DEF PairingInv
  <1>3. accounts[sessions[s].account_id].status = "live"
    BY DEF PairingInv, ReferentialIntegrity
  <1>. QED
    BY <1>1, <1>2, <1>3 DEF PairingInv, OriginAgrees

\* A step that adds nothing to what a request knows, or starts it again,
\* keeps it to the accounts of its session.
LEMMA OwnStep ==
    ASSUME PairingInv, RelayTypeOK, StreamsAreOwn, [RelayNext]_relayVars
    PROVE  StreamsAreOwn'
  <1>. [Next]_vars
    BY RelayStep
  <1>. SUFFICES ASSUME NEW x \in Streams, NEW a \in Known(x)'
                PROVE  /\ origin'[a] # NULL
                       /\ origin'[a].session = stream'[x].session
    BY DEF StreamsAreOwn, Known
  <1>. DEFINE Own(b, s) == b \in Accounts /\ origin[b] # NULL /\ origin[b].session = s
  <1>1. ASSUME NEW b, NEW s, Own(b, s)
        PROVE  origin'[b] # NULL /\ origin'[b].session = s
    BY <1>1, OriginKept
  <1>2. ASSUME NEW b \in Known(x) PROVE Own(b, stream[x].session)
    BY <1>2 DEF Known, RelayTypeOK, StreamsAreOwn
  <1>. SUFFICES Own(a, stream'[x].session)
    BY <1>1
  <1>3. CASE stream'[x] = stream[x]
    BY <1>2, <1>3 DEF Known
  <1>4. ASSUME NEW h \in Handlers, AnnounceToStreams(h)
        PROVE  Own(a, stream'[x].session)
    <2>. DEFINE s == hnd[h].session
                b == sessions[s].account_id
    <2>1. s \in Sessions /\ b # NULL
      BY <1>4 DEF AnnounceToStreams, Announce, RelayTypeOK, TypeOK
    <2>2. Own(b, s)
      BY <2>1, AccountOfSession
    <2>3. CASE stream'[x] = [stream[x] EXCEPT !.told = @ \cup {b}]
               /\ (OnSession(x, s) \/ OnAccount(x, b))
      <3>. stream[x] \in StreamRows
        BY DEF RelayTypeOK, StreamRows
      <3>1. a \in Known(x) \/ a = b
        BY <2>3 DEF Known, StreamRows
      <3>2. stream'[x].session = stream[x].session
        BY <2>3 DEF StreamRows
      <3>3. OnAccount(x, b) => b \in Known(x)
        BY <2>1 DEF OnAccount, Known
      <3>4. Own(b, stream[x].session)
        BY <2>2, <2>3, <3>3, <1>2 DEF OnSession
      <3>. QED
        BY <3>1, <3>2, <3>4, <1>2
    <2>. QED
      BY <1>3, <1>4, <2>3 DEF AnnounceToStreams
  <1>5. ASSUME NEW s \in Sessions, FindByTokenHash(x, s)
        PROVE  Own(a, stream'[x].session)
    <2>1. \/ stream'[x] = StreamAt("limit", s, NULL)
          \/ /\ stream'[x] = StreamAt("account", s, sessions[s].account_id)
             /\ sessions[s].account_id # NULL
      BY <1>5 DEF FindByTokenHash, RelayTypeOK
    <2>. QED
      BY <2>1, AccountOfSession DEF Known, StreamAt
  <1>6. CASE FindAccount(x) \/ FindAccountFails(x)
    <2>1. \/ stream'[x] = StreamAt("limit", stream[x].session, stream[x].account)
          \/ stream'[x] = StreamAt("limit", stream[x].session, NULL)
      BY <1>6 DEF FindAccount, FindAccountFails, RelayTypeOK
    <2>. QED
      BY <2>1, <1>2 DEF Known, StreamAt
  <1>7. CASE ServeHTTP(x)
    <2>1. stream'[x] = [stream[x] EXCEPT !.pc = "open"]
      BY <1>7 DEF ServeHTTP, RelayTypeOK
    <2>. QED
      BY <2>1, <1>2 DEF Known, RelayTypeOK
  <1>8. CASE RateLimited(x) \/ RequestOver(x)
    <2>1. stream'[x] = NoStream
      BY <1>8 DEF RateLimited, RequestOver, RelayTypeOK
    <2>. QED
      BY <2>1 DEF Known, NoStream, StreamAt
  <1>9. ASSUME NEW y \in Streams, y # x, Stream(y)
        PROVE  stream'[x] = stream[x]
    BY <1>9 DEF Stream, FindByTokenHash, FindAccount, FindAccountFails,
           RateLimited, ServeHTTP, RequestOver, RelayTypeOK
  <1>. HIDE DEF Own
  <1>. QED
    BY <1>3, <1>4, <1>5, <1>6, <1>7, <1>8, <1>9 DEF RelayNext, Stream, relayVars

\* What makes StreamsAreOwn inductive is PairingInv and the types.
LEMMA RelayInvariant == RelaySpec => [](PairingInv /\ RelayTypeOK /\ StreamsAreOwn)
  <1>. DEFINE I == RelayTypeOK /\ StreamsAreOwn
  <1>1. RelayInit => I
    <2>. SUFFICES ASSUME RelayInit PROVE I
      OBVIOUS
    <2>1. TypeOK
      BY TypeInit DEF RelayInit
    <2>2. \A x \in Streams : stream[x] = NoStream
      BY DEF RelayInit
    <2>3. RelayTypeOK
      BY <2>1, <2>2, StreamRow DEF RelayInit, RelayTypeOK, NoStream, StreamRows
    <2>. QED
      BY <2>2, <2>3 DEF StreamsAreOwn, NoStream, StreamAt
  <1>2. PairingInv /\ PairingInv' /\ I /\ [RelayNext]_relayVars => I'
    <2>. SUFFICES ASSUME PairingInv, PairingInv', I, [RelayNext]_relayVars PROVE I'
      OBVIOUS
    <2>1. TypeOK'
      BY DEF PairingInv
    <2>. QED
      BY <2>1, StreamTypes, OwnStep
  <1>. HIDE DEF I
  <1>3. RelaySpec => []PairingInv
    BY RelayIsPairing, PairingInvariant, PTL
  <1>4. RelaySpec => []I
    BY <1>1, <1>2, <1>3, PTL DEF RelaySpec
  <1>5. I => RelayTypeOK /\ StreamsAreOwn
    BY DEF I
  <1>. QED
    BY <1>3, <1>4, <1>5, PTL

\* The rows, the handlers and the requests for events keep their types.
THEOREM RelayTypes == RelaySpec => []RelayTypeOK
  BY RelayInvariant, PTL

\* Isolation from the token to the stream, for any number of sessions,
\* accounts, handlers and streams: whatever changes between the two look-ups
\* of the middleware, between them and Subscribe, or while the stream is
\* open, a stream leads to the accounts of its own session.
THEOREM RelayIsolation == RelaySpec => []StreamsAreOwn
  BY RelayInvariant, PTL

=============================================================================
