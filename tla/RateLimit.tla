----------------------------- MODULE RateLimit -----------------------------
(***************************************************************************)
(* The rate limiters of accounts and of IP addresses: a sliding window     *)
(* kept in a Redis sorted set per key.  A server reads its clock, then     *)
(* sends a script that Redis runs as one step, later and perhaps after the *)
(* scripts of requests that read the clock after it.  The two limiters run *)
(* the same script.                                                        *)
(***************************************************************************)
EXTENDS Integers, FiniteSets

CONSTANTS
    Keys,         \* account ids, and IP addresses with a prefix
    Requests,     \* requests; each is checked once
    Randoms,      \* what math.random() may return
    NULL,
    Limit,        \* requests per window
    Window,       \* length of the window, in ticks
    Slack,        \* what EXPIRE adds to the window, 10 s in the code
    MaxTime       \* bound: the clock stops here

ASSUME NullAssumption == NULL \notin Keys
ASSUME NumberAssumption ==
    /\ Limit \in Nat \ {0} /\ Window \in Nat \ {0}
    /\ Slack \in Nat /\ MaxTime \in Nat

VARIABLES
    now,          \* the clock of the servers and of Redis
    zset,         \* key -> its sorted set
    expire,       \* key -> when Redis drops the set
    req           \* request -> where its check has got to

vars == <<now, zset, expire, req>>

-----------------------------------------------------------------------------
(* The script.                                                             *)

Scores(z) == {e.score : e \in z}

Oldest(z) == CHOOSE t \in Scores(z) : \A u \in Scores(z) : t <= u

\* Mutant: the window is never moved.
PurgedNever(z, t) == z

\* Mutant: the bound of the range is exclusive.
PurgedBefore(z, t) == {e \in z : e.score >= t - Window}

\* ZREMRANGEBYSCORE key -inf windowStart, which includes windowStart.
Purged(z, t) == {e \in z : e.score > t - Window}

\* Mutant: the limit itself is let through.
AllowsOneMore(z, t) == Cardinality(Purged(z, t)) <= Limit

Allows(z, t) == Cardinality(Purged(z, t)) < Limit

\* When a request that is refused at t may come back.
ResetAt(z, t) == Oldest(Purged(z, t)) + Window

\* Mutant: the score is the end of the window.
AddedAtEnd(z, t, r) == Purged(z, t) \cup {[score |-> t + Window, random |-> r]}

\* ZADD: a member that is there already is not added again.
Added(z, t, r) == Purged(z, t) \cup {[score |-> t, random |-> r]}

-----------------------------------------------------------------------------

NewRequest == [pc |-> "new", key |-> NULL, at |-> 0, resetAt |-> 0]

Init ==
    /\ now = 0
    /\ zset = [k \in Keys |-> {}]
    /\ expire = [k \in Keys |-> 0]
    /\ req = [q \in Requests |-> NewRequest]

\* Check and CheckLimit read the clock.
Check(q, k) ==
    /\ req[q].pc = "new"
    /\ req' = [req EXCEPT ![q] = [pc |-> "checking", key |-> k, at |-> now,
                                  resetAt |-> now + Window]]
    /\ UNCHANGED <<now, zset, expire>>

\* The script finds room.  The answer may be lost, and the request is then
\* refused although it was counted.
Allow(q, r) ==
    LET k == req[q].key
        t == req[q].at
    IN /\ req[q].pc = "checking"
       /\ Allows(zset[k], t)
       /\ zset' = [zset EXCEPT ![k] = Added(@, t, r)]
       /\ expire' = [expire EXCEPT ![k] = now + Window + Slack]
       /\ \E pc \in {"allowed", "lost"} : req' = [req EXCEPT ![q].pc = pc]
       /\ UNCHANGED now

\* The script finds no room.
Deny(q) ==
    LET k == req[q].key
        t == req[q].at
    IN /\ req[q].pc = "checking"
       /\ ~Allows(zset[k], t)
       /\ zset' = [zset EXCEPT ![k] = Purged(@, t)]
       /\ req' = [req EXCEPT ![q] = [pc |-> "limited", key |-> k, at |-> t,
                                     resetAt |-> ResetAt(zset[k], t)]]
       /\ UNCHANGED <<now, expire>>

\* Redis does not answer and did not run the script: the request is refused.
RedisFails(q) ==
    /\ req[q].pc = "checking"
    /\ req' = [req EXCEPT ![q].pc = "failed"]
    /\ UNCHANGED <<now, zset, expire>>

\* Mutant: EXPIRE is given the slack instead of the window and the slack.
DueBySlack(k) == now >= expire[k] - Window

\* The time to live of the key is over.
Due(k) == now >= expire[k]

ExpireKey(k) ==
    /\ zset[k] # {}
    /\ Due(k)
    /\ zset' = [zset EXCEPT ![k] = {}]
    /\ UNCHANGED <<now, expire, req>>

Tick ==
    /\ now < MaxTime
    /\ now' = now + 1
    /\ UNCHANGED <<zset, expire, req>>

Next ==
    \/ \E q \in Requests, k \in Keys : Check(q, k)
    \/ \E q \in Requests, r \in Randoms : Allow(q, r)
    \/ \E q \in Requests : Deny(q)
    \/ \E q \in Requests : RedisFails(q)
    \/ \E k \in Keys : ExpireKey(k)
    \/ Tick

Spec == Init /\ [][Next]_vars

-----------------------------------------------------------------------------

Times == 0 .. MaxTime

Types ==
    /\ now \in Times
    /\ zset \in [Keys -> SUBSET [score : Times, random : Randoms]]
    /\ expire \in [Keys -> 0 .. (MaxTime + Window + Slack)]
    /\ req \in [Requests ->
          [pc : {"new", "checking", "allowed", "lost", "limited", "failed"},
           key : Keys \cup {NULL}, at : Times,
           resetAt : 0 .. (MaxTime + Window)]]
    /\ \A q \in Requests : req[q].pc # "new" => req[q].key \in Keys

\* The type invariant; a set holds no more than Limit members.
TypeOK ==
    /\ Types
    /\ \A k \in Keys : Cardinality(zset[k]) <= Limit

\* The requests the limiter has counted for key k since time t.
CountedSince(k, t) ==
    {q \in Requests : /\ req[q].pc \in {"allowed", "lost"}
                      /\ req[q].key = k
                      /\ req[q].at > t}

\* The bound the limiter really keeps, although requests of one second may
\* share a member and be counted once, scripts run late and keys run out:
\* within a window, requests are let through in at most Limit different
\* seconds.
SecondsLimited ==
    \A k \in Keys :
        Cardinality({req[q].at : q \in CountedSince(k, now - Window)}) <= Limit

\* A request is limited for a reason: Limit requests of its own key were
\* counted less than a window before it, whatever the order in which Redis
\* ran their scripts and whatever other keys do.
DeniedForCause ==
    \A q \in Requests : req[q].pc = "limited" =>
        Cardinality(CountedSince(req[q].key, req[q].at - Window)) >= Limit

\* The reset time in the answer is later than the request and is true: a
\* request that comes at that time, and finds the set as it was, is let
\* through (X-RateLimit-Reset; ZREMRANGEBYSCORE includes its bound).
ResetIsHonest ==
    \A k \in Keys, t \in Times : ~Allows(zset[k], t) =>
        /\ ResetAt(zset[k], t) > t
        /\ Allows(zset[k], ResetAt(zset[k], t))

\* What leaves a set, by a script that was delayed or by the key's time to
\* live, is out of the window for every request that is still to come.
NothingForgottenEarly ==
    [][\A k \in Keys : \A e \in zset[k] \ zset'[k] : e.score <= now - Window]_zset


\* What makes NothingForgottenEarly provable: no clock reading and no score is
\* ahead of the clock, and a key outlives its members by the slack.
WindowInv ==
    /\ Types
    /\ \A q \in Requests : req[q].at <= now
    /\ \A k \in Keys : \A e \in zset[k] :
          /\ e.score <= now
          /\ e.score + Window + Slack <= expire[k]

=============================================================================
