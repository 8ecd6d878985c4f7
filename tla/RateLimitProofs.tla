-------------------------- MODULE RateLimitProofs --------------------------
(***************************************************************************)
(* Proofs about RateLimit for every set of keys and requests and every     *)
(* limit and window.  WindowInv is the inductive invariant.                *)
(***************************************************************************)
EXTENDS RateLimit, FiniteSetTheorems, WellFoundedInduction, TLAPS

USE NullAssumption, NumberAssumption

Members == [score : Times, random : Randoms]

\* ZREMRANGEBYSCORE only removes members.
LEMMA PurgedPart ==
    ASSUME NEW z, NEW t
    PROVE  Purged(z, t) \subseteq z
  BY DEF Purged

\* ZADD keeps members whose score is in the window and adds one.
LEMMA AddedMembers ==
    ASSUME NEW z \in SUBSET Members, NEW t \in Times, NEW r \in Randoms
    PROVE  /\ Added(z, t, r) \in SUBSET Members
           /\ \A e \in Added(z, t, r) : e \in z \/ e.score = t
           /\ \A e \in z : e \notin Added(z, t, r) => e.score <= t - Window
  BY DEF Added, Purged, Members, Times

\* A set that is not empty has an oldest score.
LEMMA OldestScore ==
    ASSUME NEW z \in SUBSET Members, z # {}
    PROVE  Oldest(z) \in Scores(z) /\ Oldest(z) \in Times
  <1>1. Scores(z) \subseteq Nat /\ Scores(z) \subseteq Times
    BY DEF Scores, Members, Times
  <1>2. Scores(z) # {}
    BY DEF Scores
  <1>. DEFINE R == {ss \in Nat \X Nat : ss[1] < ss[2]}
  <1>3. IsWellFoundedOn(R, Nat)
    BY NatLessThanWellFounded DEF OpToRel
  <1>4. \E m \in Scores(z) : \A u \in Scores(z) : m <= u
    <2>. HIDE DEF R
    <2>1. PICK m \in Scores(z) : \A u \in Scores(z) : ~(<<u, m>> \in R)
      BY <1>1, <1>2, <1>3, WFMin
    <2>2. ASSUME NEW u \in Nat, NEW v \in Nat, ~(<<u, v>> \in R)
          PROVE  v <= u
      <3>1. <<u, v>> \in Nat \X Nat /\ <<u, v>>[1] = u /\ <<u, v>>[2] = v
        OBVIOUS
      <3>. QED
        BY <2>2, <3>1 DEF R
    <2>. QED
      BY <1>1, <2>1, <2>2
  <1>. QED
    BY <1>1, <1>4 DEF Oldest

\* A set that is full within the window has members there.
LEMMA FullIsNotEmpty ==
    ASSUME NEW z, NEW t, ~Allows(z, t)
    PROVE  Purged(z, t) # {}
  BY FS_EmptySet DEF Allows

\* The reset time is a time.
LEMMA ResetIsTime ==
    ASSUME NEW z \in SUBSET Members, NEW t \in Times, ~Allows(z, t)
    PROVE  ResetAt(z, t) \in 0 .. (MaxTime + Window)
  <1>1. Oldest(Purged(z, t)) \in Times
    BY FullIsNotEmpty, PurgedPart, OldestScore
  <1>. QED
    BY <1>1 DEF ResetAt, Times

\* The reset time is after the request, and by then the oldest member has
\* left the window, which makes room.
LEMMA ResetMakesRoom ==
    ASSUME NEW z \in SUBSET Members, IsFiniteSet(z), Cardinality(z) <= Limit,
           NEW t \in Times, ~Allows(z, t)
    PROVE  ResetAt(z, t) > t /\ Allows(z, ResetAt(z, t))
  <1>. DEFINE o == Oldest(Purged(z, t))
              u == ResetAt(z, t)
  <1>1. o \in Times /\ o \in Scores(Purged(z, t))
    BY FullIsNotEmpty, PurgedPart, OldestScore
  <1>2. PICK e \in Purged(z, t) : e.score = o
    BY <1>1 DEF Scores
  <1>3. e \in z /\ o > t - Window
    BY <1>2 DEF Purged
  <1>4. u = o + Window
    BY DEF ResetAt
  <1>. o \in Nat /\ t \in Nat
    BY <1>1 DEF Times
  <1>. HIDE DEF o, u
  <1>5. u > t
    BY <1>3, <1>4
  <1>6. u - Window = o
    BY <1>4
  <1>7. e \notin Purged(z, u) /\ Purged(z, u) \in SUBSET z
    BY <1>2, <1>6, PurgedPart DEF Purged
  <1>8. /\ Cardinality(Purged(z, u)) <= Cardinality(z)
        /\ Cardinality(Purged(z, u)) # Cardinality(z)
        /\ IsFiniteSet(Purged(z, u))
    BY <1>3, <1>7, FS_Subset
  <1>9. Cardinality(z) \in Nat /\ Cardinality(Purged(z, u)) \in Nat
    BY <1>8, FS_CardinalityType
  <1>10. Allows(z, u)
    BY <1>8, <1>9 DEF Allows
  <1>. QED
    BY <1>5, <1>10 DEF u

-----------------------------------------------------------------------------

\* The empty sets have the invariant.
LEMMA WindowInit == Init => WindowInv
  BY DEF Init, WindowInv, Types, Times, NewRequest

\* Every step keeps the invariant: scores come from the clock, and each ZADD
\* comes with an EXPIRE.
LEMMA WindowStep == WindowInv /\ [Next]_vars => WindowInv'
  <1>. SUFFICES ASSUME WindowInv, [Next]_vars
                PROVE  WindowInv'
    OBVIOUS
  <1>. USE DEF Types, Members
  <1>1. ASSUME NEW q \in Requests, NEW k \in Keys, Check(q, k)
        PROVE  WindowInv'
    BY <1>1 DEF Check, WindowInv, Times
  <1>2. ASSUME NEW q \in Requests, NEW r \in Randoms, Allow(q, r)
        PROVE  WindowInv'
    <2>. DEFINE k == req[q].key
                t == req[q].at
    <2>1. k \in Keys /\ t \in Times /\ zset[k] \in SUBSET Members
      BY <1>2 DEF Allow, WindowInv
    <2>2. zset'[k] = Added(zset[k], t, r) /\ expire'[k] = now + Window + Slack
      BY <1>2, <2>1 DEF Allow, WindowInv
    <2>3. \A l \in Keys \ {k} : zset'[l] = zset[l] /\ expire'[l] = expire[l]
      BY <1>2, <2>1 DEF Allow, WindowInv
    <2>4. Types'
      <3>1. zset' \in [Keys -> SUBSET Members]
        BY <1>2, <2>1, AddedMembers DEF Allow, WindowInv
      <3>2. expire' \in [Keys -> 0 .. (MaxTime + Window + Slack)]
        BY <1>2 DEF Allow, WindowInv, Times
      <3>3. PICK pc \in {"allowed", "lost"} : req' = [req EXCEPT ![q].pc = pc]
        BY <1>2 DEF Allow
      <3>. QED
        BY <1>2, <2>1, <3>1, <3>2, <3>3 DEF Allow, WindowInv
    <2>5. \A p \in Requests : req'[p].at <= now'
      BY <1>2 DEF Allow, WindowInv
    <2>6. \A e \in zset'[k] : e.score \in Times /\ e.score <= now
      BY <2>1, <2>2, AddedMembers DEF WindowInv
    <2>7. \A l \in Keys : \A e \in zset'[l] :
             e.score <= now' /\ e.score + Window + Slack <= expire'[l]
      <3>. SUFFICES ASSUME NEW l \in Keys, NEW e \in zset'[l]
                    PROVE  e.score <= now' /\ e.score + Window + Slack <= expire'[l]
        OBVIOUS
      <3>0. now' = now /\ now \in Nat
        BY <1>2 DEF Allow, WindowInv, Times
      <3>1. CASE l = k
        BY <2>2, <2>6, <3>0, <3>1 DEF Times
      <3>2. CASE l # k
        BY <2>3, <3>0, <3>2 DEF WindowInv
      <3>. QED
        BY <3>1, <3>2
    <2>. QED
      BY <2>4, <2>5, <2>7 DEF WindowInv
  <1>3. ASSUME NEW q \in Requests, Deny(q)
        PROVE  WindowInv'
    <2>. DEFINE k == req[q].key
                t == req[q].at
    <2>1. k \in Keys /\ t \in Times /\ zset[k] \in SUBSET Members
      BY <1>3 DEF Deny, WindowInv
    <2>2. ResetAt(zset[k], t) \in 0 .. (MaxTime + Window)
      BY <1>3, <2>1, ResetIsTime DEF Deny
    <2>3. \A l \in Keys : zset'[l] \subseteq zset[l]
      BY <1>3, <2>1, PurgedPart DEF Deny, WindowInv
    <2>4. zset' \in [Keys -> SUBSET Members]
      BY <1>3, <2>1, PurgedPart DEF Deny, WindowInv
    <2>5. req' = [req EXCEPT ![q] = [pc |-> "limited", key |-> k, at |-> t,
                                     resetAt |-> ResetAt(zset[k], t)]]
      BY <1>3 DEF Deny
    <2>6. now' = now /\ expire' = expire
      BY <1>3 DEF Deny
    <2>7. Types'
      <3>1. req' \in [Requests ->
               [pc : {"new", "checking", "allowed", "lost", "limited", "failed"},
                key : Keys \cup {NULL}, at : Times,
                resetAt : 0 .. (MaxTime + Window)]]
        BY <2>1, <2>2, <2>5 DEF WindowInv
      <3>2. \A p \in Requests : req'[p].pc # "new" => req'[p].key \in Keys
        BY <2>1, <2>5 DEF WindowInv
      <3>. QED
        BY <2>4, <2>6, <3>1, <3>2 DEF WindowInv
    <2>8. \A p \in Requests : req'[p].at <= now'
      BY <2>5, <2>6 DEF WindowInv
    <2>9. \A l \in Keys : \A e \in zset'[l] :
             e.score <= now' /\ e.score + Window + Slack <= expire'[l]
      BY <2>3, <2>6 DEF WindowInv
    <2>. QED
      BY <2>7, <2>8, <2>9 DEF WindowInv
  <1>4. ASSUME NEW q \in Requests, RedisFails(q)
        PROVE  WindowInv'
    BY <1>4 DEF RedisFails, WindowInv
  <1>5. ASSUME NEW k \in Keys, ExpireKey(k)
        PROVE  WindowInv'
    BY <1>5 DEF ExpireKey, WindowInv
  <1>6. CASE Tick
    <2>1. now \in Nat /\ now' = now + 1 /\ now' \in Times
      BY <1>6 DEF Tick, WindowInv, Times
    <2>2. \A q \in Requests : req[q].at \in Nat
      BY DEF WindowInv, Times
    <2>3. \A k \in Keys : \A e \in zset[k] : e.score \in Nat
      BY DEF WindowInv, Times
    <2>. QED
      BY <1>6, <2>1, <2>2, <2>3 DEF Tick, WindowInv
  <1>7. CASE UNCHANGED vars
    BY <1>7 DEF vars, WindowInv
  <1>. QED
    BY <1>1, <1>2, <1>3, <1>4, <1>5, <1>6, <1>7 DEF Next

\* Every reachable state has the invariant.
THEOREM WindowInvariant == Spec => []WindowInv
  BY WindowInit, WindowStep, PTL DEF Spec

\* What a step removes from a set is out of the window: a script removes what
\* is older than its clock reading, which is not ahead of the clock, and the
\* key's time to live ends after the last of its members.
LEMMA ForgottenStep ==
    ASSUME WindowInv, [Next]_vars
    PROVE  \A k \in Keys : \A e \in zset[k] \ zset'[k] : e.score <= now - Window
  <1>. SUFFICES ASSUME NEW k \in Keys, NEW e \in zset[k], e \notin zset'[k]
                PROVE  e.score <= now - Window
    OBVIOUS
  <1>. USE DEF Types, Members
  <1>0. e.score \in Nat /\ now \in Nat
    BY DEF WindowInv, Times
  <1>1. ASSUME NEW q \in Requests, NEW l \in Keys, Check(q, l)
        PROVE  e.score <= now - Window
    BY <1>1 DEF Check
  <1>2. ASSUME NEW q \in Requests, NEW r \in Randoms, Allow(q, r)
        PROVE  e.score <= now - Window
    <2>1. req[q].key = k /\ req[q].at \in Times /\ req[q].at <= now
      BY <1>2 DEF Allow, WindowInv
    <2>2. e \notin Added(zset[k], req[q].at, r) /\ zset[k] \in SUBSET Members
      BY <1>2, <2>1 DEF Allow, WindowInv
    <2>3. e.score <= req[q].at - Window
      BY <2>1, <2>2, AddedMembers
    <2>. QED
      BY <1>0, <2>1, <2>3 DEF Times
  <1>3. ASSUME NEW q \in Requests, Deny(q)
        PROVE  e.score <= now - Window
    <2>1. req[q].key = k /\ req[q].at \in Times /\ req[q].at <= now
      BY <1>3 DEF Deny, WindowInv
    <2>2. e \notin Purged(zset[k], req[q].at)
      BY <1>3, <2>1 DEF Deny, WindowInv
    <2>3. ~(e.score > req[q].at - Window)
      BY <2>2 DEF Purged
    <2>. QED
      BY <1>0, <2>1, <2>3 DEF Times
  <1>4. ASSUME NEW q \in Requests, RedisFails(q)
        PROVE  e.score <= now - Window
    BY <1>4 DEF RedisFails
  <1>5. ASSUME NEW l \in Keys, ExpireKey(l)
        PROVE  e.score <= now - Window
    <2>1. l = k /\ now >= expire[k]
      BY <1>5 DEF ExpireKey, Due, WindowInv
    <2>2. e.score + Window + Slack <= expire[k] /\ expire[k] \in Nat
      BY DEF WindowInv, Times
    <2>. QED
      BY <1>0, <2>1, <2>2
  <1>6. CASE Tick
    BY <1>6 DEF Tick
  <1>7. CASE UNCHANGED vars
    BY <1>7 DEF vars
  <1>. QED
    BY <1>1, <1>2, <1>3, <1>4, <1>5, <1>6, <1>7 DEF Next

\* No limiter forgets a request that is in the window of a request still to
\* come, however long scripts are delayed and in whatever order they run.
THEOREM WindowKept == Spec => NothingForgottenEarly
  <1>1. WindowInv /\ [Next]_vars =>
           [\A k \in Keys : \A e \in zset[k] \ zset'[k] : e.score <= now - Window]_zset
    BY ForgottenStep
  <1>. QED
    BY <1>1, WindowInvariant, PTL DEF Spec, NothingForgottenEarly

-----------------------------------------------------------------------------
(* The limit.                                                              *)

\* A set is never larger than the limit, and as long as a request that was
\* counted is in the window, its second is among the scores of its set.
LimitInv ==
    /\ \A k \in Keys : IsFiniteSet(zset[k]) /\ Cardinality(zset[k]) <= Limit
    /\ \A q \in Requests :
          req[q].pc \in {"allowed", "lost"} /\ req[q].at > now - Window
             => req[q].at \in Scores(zset[req[q].key])

\* A part of a set that is within the limit is within the limit.
LEMMA PartLimited ==
    ASSUME NEW z, IsFiniteSet(z), Cardinality(z) <= Limit, NEW y \in SUBSET z
    PROVE  IsFiniteSet(y) /\ Cardinality(y) <= Limit
  <1>1. Cardinality(z) \in Nat /\ IsFiniteSet(y) /\ Cardinality(y) \in Nat
    BY FS_Subset, FS_CardinalityType
  <1>2. Cardinality(y) <= Cardinality(z)
    BY FS_Subset
  <1>. QED
    BY <1>1, <1>2

\* The script adds a member only where there is room for one.
LEMMA AddedLimited ==
    ASSUME NEW z, IsFiniteSet(z), NEW t, NEW r, Allows(z, t)
    PROVE  IsFiniteSet(Added(z, t, r)) /\ Cardinality(Added(z, t, r)) <= Limit
  <1>1. IsFiniteSet(Purged(z, t))
    BY FS_Subset, PurgedPart
  <1>2. Cardinality(Purged(z, t)) \in Nat /\ Cardinality(Purged(z, t)) < Limit
    BY <1>1, FS_CardinalityType DEF Allows
  <1>. DEFINE P == Purged(z, t)
              x == [score |-> t, random |-> r]
  <1>3. Added(z, t, r) = P \cup {x}
    BY DEF Added
  <1>. HIDE DEF P, x
  <1>4. /\ IsFiniteSet(P \cup {x})
        /\ Cardinality(P \cup {x}) = IF x \in P THEN Cardinality(P) ELSE Cardinality(P) + 1
    BY <1>1, FS_AddElement DEF P
  <1>. QED
    BY <1>2, <1>3, <1>4 DEF P

\* Every step keeps the sets within the limit.
LEMMA LimitStep ==
    ASSUME WindowInv, LimitInv, [Next]_vars
    PROVE  \A k \in Keys : IsFiniteSet(zset'[k]) /\ Cardinality(zset'[k]) <= Limit
  <1>. SUFFICES ASSUME NEW k \in Keys
                PROVE  IsFiniteSet(zset'[k]) /\ Cardinality(zset'[k]) <= Limit
    OBVIOUS
  <1>0. IsFiniteSet(zset[k]) /\ Cardinality(zset[k]) <= Limit
    BY DEF LimitInv
  <1>1. CASE zset'[k] \subseteq zset[k]
    BY <1>0, <1>1, PartLimited
  <1>2. ASSUME NEW q \in Requests, NEW r \in Randoms, Allow(q, r)
        PROVE  \/ zset'[k] = zset[k]
               \/ IsFiniteSet(zset'[k]) /\ Cardinality(zset'[k]) <= Limit
    <2>1. CASE req[q].key = k
      <3>1. zset'[k] = Added(zset[k], req[q].at, r) /\ Allows(zset[k], req[q].at)
        BY <1>2, <2>1 DEF Allow, WindowInv, Types
      <3>. QED
        BY <1>0, <3>1, AddedLimited
    <2>2. CASE req[q].key # k
      BY <1>2, <2>2 DEF Allow, WindowInv, Types
    <2>. QED
      BY <2>1, <2>2
  <1>3. ASSUME NEW q \in Requests, Deny(q)
        PROVE  zset'[k] \subseteq zset[k]
    BY <1>3, PurgedPart DEF Deny, WindowInv, Types
  <1>4. ASSUME NEW l \in Keys, ExpireKey(l)
        PROVE  zset'[k] \subseteq zset[k]
    BY <1>4 DEF ExpireKey, WindowInv, Types
  <1>5. CASE UNCHANGED zset
    BY <1>1, <1>5
  <1>. QED
    BY <1>1, <1>2, <1>3, <1>4, <1>5 DEF Next, vars, Check, RedisFails, Tick

\* A request is counted by adding its second, which is not forgotten while it
\* is in the window.
LEMMA CountedStep ==
    ASSUME WindowInv, LimitInv, [Next]_vars, NEW q \in Requests,
           req'[q].pc \in {"allowed", "lost"}, req'[q].at > now' - Window
    PROVE  req'[q].at \in Scores(zset'[req'[q].key])
  <1>. USE DEF Types, Members
  <1>1. /\ now \in Nat /\ now' \in Nat /\ now' >= now
        /\ req[q].at \in Nat
    BY DEF WindowInv, Times, Next, vars, Check, Allow, Deny, RedisFails,
           ExpireKey, Tick
  <1>2. ASSUME NEW r \in Randoms, Allow(q, r)
        PROVE  req'[q].at \in Scores(zset'[req'[q].key])
    <2>1. /\ req'[q].key = req[q].key
          /\ req'[q].at = req[q].at
          /\ req[q].key \in Keys
      BY <1>2 DEF Allow, WindowInv
    <2>2. zset'[req[q].key] = Added(zset[req[q].key], req[q].at, r)
      BY <1>2, <2>1 DEF Allow, WindowInv
    <2>3. [score |-> req[q].at, random |-> r] \in zset'[req[q].key]
      BY <2>2 DEF Added
    <2>4. [score |-> req[q].at, random |-> r].score = req[q].at
      OBVIOUS
    <2>. QED
      BY <2>1, <2>3, <2>4 DEF Scores
  <1>3. ASSUME req'[q] = req[q]
        PROVE  req'[q].at \in Scores(zset'[req'[q].key])
    <2>0. req[q].at > now' - Window /\ req[q].pc \in {"allowed", "lost"}
      BY <1>3
    <2>1. req[q].at > now - Window /\ req[q].key \in Keys
      BY <1>1, <2>0 DEF WindowInv
    <2>2. PICK e \in zset[req[q].key] : e.score = req[q].at
      BY <2>0, <2>1 DEF LimitInv, Scores
    <2>3. e \in zset'[req[q].key]
      BY <1>1, <2>1, <2>2, ForgottenStep
    <2>. QED
      BY <1>3, <2>2, <2>3 DEF Scores
  <1>4. ASSUME NEW p \in Requests, NEW r \in Randoms, Allow(p, r), p # q
        PROVE  req'[q] = req[q]
    BY <1>4 DEF Allow, WindowInv
  <1>5. ASSUME NEW p \in Requests,
               Deny(p) \/ RedisFails(p) \/ \E k \in Keys : Check(p, k)
        PROVE  req'[q] = req[q]
    BY <1>5 DEF Deny, RedisFails, Check, WindowInv
  <1>. QED
    BY <1>2, <1>3, <1>4, <1>5 DEF Next, vars, ExpireKey, Tick

\* Every reachable state is within the limit.
LEMMA LimitInvariant == Spec => []LimitInv
  <1>1. Init => LimitInv
    BY FS_EmptySet DEF Init, LimitInv, NewRequest
  <1>2. WindowInv /\ LimitInv /\ [Next]_vars => LimitInv'
    BY LimitStep, CountedStep DEF LimitInv
  <1>. QED
    BY <1>1, <1>2, WindowInvariant, PTL DEF Spec

\* Clock readings, sets and requests keep their types, and no sorted set grows
\* past the limit of its key.
THEOREM LimiterTypes == Spec => []TypeOK
  <1>1. WindowInv /\ LimitInv => TypeOK
    BY DEF WindowInv, LimitInv, TypeOK
  <1>. QED
    BY <1>1, WindowInvariant, LimitInvariant, PTL

\* A set has at most as many scores as members.
LEMMA ScoresLimited ==
    ASSUME NEW z, IsFiniteSet(z), Cardinality(z) <= Limit
    PROVE  IsFiniteSet(Scores(z)) /\ Cardinality(Scores(z)) <= Limit
  <1>. DEFINE f == [e \in z |-> e.score]
  <1>1. f \in Surjection(z, Scores(z))
    BY DEF Surjection, Scores
  <1>. HIDE DEF f
  <1>2. IsFiniteSet(Scores(z)) /\ Cardinality(Scores(z)) <= Cardinality(z)
    BY <1>1, FS_Surjection
  <1>3. Cardinality(z) \in Nat /\ Cardinality(Scores(z)) \in Nat
    BY <1>2, FS_CardinalityType
  <1>. QED
    BY <1>2, <1>3

\* Whatever the limit, the window, the requests and their order: within a
\* window, a key's requests are let through in at most Limit seconds.
THEOREM LimiterLimits == Spec => []SecondsLimited
  <1>1. ASSUME WindowInv, LimitInv PROVE SecondsLimited
    <2>. SUFFICES ASSUME NEW k \in Keys
                  PROVE  Cardinality({req[q].at : q \in CountedSince(k, now - Window)})
                            <= Limit
      BY DEF SecondsLimited
    <2>1. {req[q].at : q \in CountedSince(k, now - Window)} \subseteq Scores(zset[k])
      BY <1>1 DEF CountedSince, LimitInv
    <2>2. IsFiniteSet(Scores(zset[k])) /\ Cardinality(Scores(zset[k])) <= Limit
      BY <1>1, ScoresLimited DEF LimitInv
    <2>. QED
      BY <2>1, <2>2, PartLimited
  <1>. QED
    BY <1>1, WindowInvariant, LimitInvariant, PTL

\* The time a refused client is told is true: it is in the future, and a
\* request that comes then and finds the set as it was is let through.
THEOREM LimiterResets == Spec => []ResetIsHonest
  <1>1. ASSUME WindowInv, LimitInv PROVE ResetIsHonest
    <2>1. \A k \in Keys : zset[k] \in SUBSET Members
      BY <1>1 DEF WindowInv, Types, Members
    <2>. QED
      BY <1>1, <2>1, ResetMakesRoom DEF LimitInv, ResetIsHonest
  <1>. QED
    BY <1>1, WindowInvariant, LimitInvariant, PTL

-----------------------------------------------------------------------------
(* The cause of a refusal.                                                 *)

Counted == {q \in Requests : req[q].pc \in {"allowed", "lost"}}

\* Each member of a set was put there by a request of its own: w names it.
Backed(k) ==
    \E w \in [zset[k] -> Counted] :
        /\ \A e, f \in zset[k] : w[e] = w[f] => e = f
        /\ \A e \in zset[k] : req[w[e]].key = k /\ req[w[e]].at = e.score

\* What makes DeniedForCause inductive.
CauseInv ==
    /\ IsFiniteSet(Counted)
    /\ \A k \in Keys : Backed(k)
    /\ DeniedForCause

\* A request that was counted stays so, with its key and its clock reading.
LEMMA CountedKept ==
    ASSUME WindowInv, [Next]_vars, NEW q \in Counted
    PROVE  /\ q \in Counted'
           /\ req'[q].key = req[q].key /\ req'[q].at = req[q].at
  <1>. USE DEF Types, Counted
  <1>1. ASSUME NEW p \in Requests,
               RedisFails(p) \/ Deny(p) \/ (\E k \in Keys : Check(p, k))
                  \/ (\E r \in Randoms : Allow(p, r))
        PROVE  req'[q] = req[q]
    <2>1. p # q
      BY <1>1 DEF Check, Allow, Deny, RedisFails
    <2>. QED
      BY <1>1, <2>1 DEF WindowInv, Check, Allow, Deny, RedisFails
  <1>2. req'[q] = req[q]
    BY <1>1 DEF Next, vars, ExpireKey, Tick
  <1>. QED
    BY <1>2

\* At most one more request is counted in a step.
LEMMA CountedFinite ==
    ASSUME WindowInv, [Next]_vars, IsFiniteSet(Counted)
    PROVE  IsFiniteSet(Counted')
  <1>1. ASSUME NEW q \in Requests, NEW r \in Randoms, Allow(q, r)
        PROVE  Counted' \subseteq Counted \cup {q}
    BY <1>1 DEF Allow, Counted, WindowInv, Types
  <1>2. ASSUME NEW q \in Requests,
               RedisFails(q) \/ Deny(q) \/ (\E k \in Keys : Check(q, k))
        PROVE  Counted' \subseteq Counted
    BY <1>2 DEF RedisFails, Deny, Check, Counted, WindowInv, Types
  <1>3. \/ Counted' \subseteq Counted
        \/ \E q \in Requests : Counted' \subseteq Counted \cup {q}
    BY <1>1, <1>2 DEF Next, vars, ExpireKey, Tick, Counted
  <1>. QED
    BY <1>3, FS_Subset, FS_AddElement

\* A member that stays keeps its request; a new one has the request whose
\* script has added it.
LEMMA BackedStep ==
    ASSUME WindowInv, [Next]_vars, NEW k \in Keys, Backed(k)
    PROVE  Backed(k)'
  <1>1. PICK w \in [zset[k] -> Counted] :
           /\ \A e, f \in zset[k] : w[e] = w[f] => e = f
           /\ \A e \in zset[k] : req[w[e]].key = k /\ req[w[e]].at = e.score
    BY DEF Backed
  <1>2. \A e \in zset[k] : /\ w[e] \in Counted'
                           /\ req'[w[e]].key = k /\ req'[w[e]].at = e.score
    BY <1>1, CountedKept
  <1>3. ASSUME zset'[k] \subseteq zset[k]
        PROVE  Backed(k)'
    <2>. DEFINE v == [e \in zset'[k] |-> w[e]]
    <2>1. v \in [zset'[k] -> Counted']
      BY <1>2, <1>3
    <2>2. \A e, f \in zset'[k] : v[e] = v[f] => e = f
      BY <1>1, <1>3
    <2>3. \A e \in zset'[k] : req'[v[e]].key = k /\ req'[v[e]].at = e.score
      BY <1>2, <1>3
    <2>. HIDE DEF v
    <2>. QED
      BY <2>1, <2>2, <2>3 DEF Backed
  <1>4. ASSUME NEW q \in Requests, NEW r \in Randoms, Allow(q, r), req[q].key = k
        PROVE  Backed(k)'
    <2>. DEFINE x == [score |-> req[q].at, random |-> r]
    <2>1. zset'[k] \subseteq zset[k] \cup {x} /\ x.score = req[q].at
      BY <1>4 DEF Allow, Added, Purged, WindowInv, Types
    <2>2. q \notin Counted
      BY <1>4 DEF Allow, Counted
    <2>3. q \in Counted' /\ req'[q].key = k /\ req'[q].at = req[q].at
      BY <1>4 DEF Allow, Counted, WindowInv, Types
    <2>. HIDE DEF x
    <2>. DEFINE v == [e \in zset'[k] |-> IF e \in zset[k] THEN w[e] ELSE q]
    <2>4. v \in [zset'[k] -> Counted']
      BY <1>2, <2>3
    <2>5. ASSUME NEW e \in zset'[k], NEW f \in zset'[k], v[e] = v[f]
          PROVE  e = f
      BY <1>1, <2>1, <2>2, <2>5
    <2>6. \A e \in zset'[k] : req'[v[e]].key = k /\ req'[v[e]].at = e.score
      BY <1>2, <2>1, <2>3
    <2>. HIDE DEF v
    <2>. QED
      BY <2>4, <2>5, <2>6 DEF Backed
  <1>5. ASSUME NEW q \in Requests, NEW r \in Randoms, Allow(q, r), req[q].key # k
        PROVE  zset'[k] \subseteq zset[k]
    BY <1>5 DEF Allow, WindowInv, Types
  <1>6. ASSUME NEW q \in Requests, Deny(q)
        PROVE  zset'[k] \subseteq zset[k]
    BY <1>6, PurgedPart DEF Deny, WindowInv, Types
  <1>7. ASSUME NEW l \in Keys, ExpireKey(l)
        PROVE  zset'[k] \subseteq zset[k]
    BY <1>7 DEF ExpireKey, WindowInv, Types
  <1>. QED
    BY <1>3, <1>4, <1>5, <1>6, <1>7 DEF Next, vars, Check, RedisFails, Tick

\* The members a script counts were put there by as many requests.
LEMMA MembersWereCounted ==
    ASSUME WindowInv, IsFiniteSet(Counted), NEW k \in Keys, Backed(k), NEW t \in Times
    PROVE  /\ Cardinality(Purged(zset[k], t)) <= Cardinality(CountedSince(k, t - Window))
           /\ IsFiniteSet(CountedSince(k, t - Window))
           /\ Cardinality(Purged(zset[k], t)) \in Nat
           /\ Cardinality(CountedSince(k, t - Window)) \in Nat
  <1>. DEFINE P == Purged(zset[k], t)
              C == CountedSince(k, t - Window)
  <1>1. PICK w \in [zset[k] -> Counted] :
           /\ \A e, f \in zset[k] : w[e] = w[f] => e = f
           /\ \A e \in zset[k] : req[w[e]].key = k /\ req[w[e]].at = e.score
    BY DEF Backed
  <1>2. C \subseteq Counted
    BY DEF CountedSince, Counted
  <1>3. IsFiniteSet(C)
    BY <1>2, FS_Subset
  <1>4. \A e \in P : e \in zset[k] /\ e.score > t - Window
    BY DEF Purged
  <1>5. \A e \in P : w[e] \in C
    BY <1>1, <1>4 DEF CountedSince, Counted
  <1>. DEFINE v == [e \in P |-> w[e]]
  <1>. HIDE DEF P, C
  <1>6. v \in Injection(P, C)
    BY <1>1, <1>4, <1>5 DEF Injection, IsInjective
  <1>. HIDE DEF v
  <1>7. IsFiniteSet(P) /\ Cardinality(P) <= Cardinality(C)
    BY <1>3, <1>6, FS_Injection
  <1>8. Cardinality(P) \in Nat /\ Cardinality(C) \in Nat
    BY <1>3, <1>7, FS_CardinalityType
  <1>. QED
    BY <1>3, <1>7, <1>8 DEF P, C

\* A script refuses a request only in a window that is full.
LEMMA CauseStep ==
    ASSUME WindowInv, CauseInv, [Next]_vars, NEW q \in Requests,
           req'[q].pc = "limited"
    PROVE  (Cardinality(CountedSince(req[q].key, req[q].at - Window)) >= Limit)'
  <1>0. IsFiniteSet(Counted')
    BY CountedFinite DEF CauseInv
  <1>1. ASSUME NEW k \in Keys, NEW t \in Times,
               Cardinality(CountedSince(k, t - Window)) >= Limit
        PROVE  Cardinality(CountedSince(k, t - Window)') >= Limit
    <2>1. CountedSince(k, t - Window) \subseteq CountedSince(k, t - Window)'
      BY CountedKept DEF CountedSince, Counted
    <2>2. IsFiniteSet(CountedSince(k, t - Window)')
      <3>1. CountedSince(k, t - Window)' \subseteq Counted'
        BY DEF CountedSince, Counted
      <3>. QED
        BY <1>0, <3>1, FS_Subset
    <2>3. /\ Cardinality(CountedSince(k, t - Window)) <= Cardinality(CountedSince(k, t - Window)')
          /\ IsFiniteSet(CountedSince(k, t - Window))
      BY <2>1, <2>2, FS_Subset
    <2>4. /\ Cardinality(CountedSince(k, t - Window)) \in Nat
          /\ Cardinality(CountedSince(k, t - Window)') \in Nat
      BY <2>2, <2>3, FS_CardinalityType
    <2>. QED
      BY <1>1, <2>3, <2>4
  <1>2. CASE Deny(q)
    <2>1. PICK k \in Keys, t \in Times : k = req[q].key /\ t = req[q].at
      BY <1>2 DEF Deny, WindowInv, Types
    <2>2. req'[q].key = k /\ req'[q].at = t
      BY <1>2, <2>1 DEF Deny, WindowInv, Types
    <2>3. ~ Allows(zset[k], t)
      BY <1>2, <2>1 DEF Deny
    <2>4. Cardinality(CountedSince(k, t - Window)) >= Limit
      BY <2>3, MembersWereCounted DEF Allows, CauseInv
    <2>5. Cardinality(CountedSince(k, t - Window)') >= Limit
      BY <1>1, <2>4
    <2>. QED
      BY <2>2, <2>5
  <1>3. CASE ~Deny(q)
    <2>1. ASSUME NEW p \in Requests,
                 RedisFails(p) \/ (Deny(p) /\ p # q) \/ (\E k \in Keys : Check(p, k))
                    \/ (\E r \in Randoms : Allow(p, r))
          PROVE  req'[q] = req[q]
      BY <2>1 DEF WindowInv, Types, Check, Allow, Deny, RedisFails
    <2>2. req'[q] = req[q]
      BY <1>3, <2>1 DEF Next, vars, ExpireKey, Tick
    <2>3. PICK k \in Keys, t \in Times : k = req[q].key /\ t = req[q].at
      BY <2>2 DEF WindowInv, Types
    <2>4. Cardinality(CountedSince(k, t - Window)) >= Limit
      BY <2>2, <2>3 DEF CauseInv, DeniedForCause
    <2>5. Cardinality(CountedSince(k, t - Window)') >= Limit
      BY <1>1, <2>4
    <2>. QED
      BY <2>2, <2>3, <2>5
  <1>. QED
    BY <1>2, <1>3

\* Whatever the limit, the window and the order of scripts: who is refused
\* has competed with Limit requests of the same key that were counted within
\* the window.
THEOREM LimiterRefusesForCause == Spec => []DeniedForCause
  <1>1. Init => CauseInv
    <2>. SUFFICES ASSUME Init PROVE CauseInv
      OBVIOUS
    <2>1. \A q \in Requests : req[q].pc = "new"
      BY DEF Init, NewRequest
    <2>2. Counted = {}
      BY <2>1 DEF Counted
    <2>3. ASSUME NEW k \in Keys PROVE Backed(k)
      <3>1. zset[k] = {}
        BY DEF Init
      <3>. DEFINE w == [e \in zset[k] |-> e]
      <3>2. w \in [zset[k] -> Counted]
        BY <3>1
      <3>. HIDE DEF w
      <3>. QED
        BY <3>1, <3>2 DEF Backed
    <2>. QED
      BY <2>1, <2>2, <2>3, FS_EmptySet DEF CauseInv, DeniedForCause
  <1>2. WindowInv /\ CauseInv /\ [Next]_vars => CauseInv'
    <2>. SUFFICES ASSUME WindowInv, CauseInv, [Next]_vars PROVE CauseInv'
      OBVIOUS
    <2>1. IsFiniteSet(Counted') /\ \A k \in Keys : Backed(k)'
      BY CountedFinite, BackedStep DEF CauseInv
    <2>2. DeniedForCause'
      BY CauseStep DEF DeniedForCause
    <2>. QED
      BY <2>1, <2>2 DEF CauseInv
  <1>3. CauseInv => DeniedForCause
    BY DEF CauseInv
  <1>. QED
    BY <1>1, <1>2, <1>3, WindowInvariant, PTL DEF Spec

=============================================================================
