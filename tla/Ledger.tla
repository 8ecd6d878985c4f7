------------------------------- MODULE Ledger -------------------------------
(***************************************************************************)
(* What pairing promises, without requests, statements or time.  An        *)
(* account is opened once, for one session and one conversation.  From     *)
(* then on its session may hold it (and read what it receives) and its     *)
(* conversation may feed it; nobody else ever does.  A session is granted  *)
(* at most one account in its life, and only when the account is opened.   *)
(***************************************************************************)
CONSTANTS Sessions, Accounts, Convs, NULL

VARIABLES
    owner,        \* account -> the session and conversation it was opened for
    holds,        \* session -> the account it leads to, or NULL
    feeds,        \* conversation -> the account its messages go to, or NULL
    unused,       \* sessions that may still be granted an account
    shut          \* accounts that are gone

vars == <<owner, holds, feeds, unused, shut>>

Init ==
    /\ owner = [a \in Accounts |-> NULL]
    /\ holds = [s \in Sessions |-> NULL]
    /\ feeds = [k \in Convs |-> NULL]
    /\ unused = Sessions
    /\ shut = {}

\* A new account for s and k; s holds it if s was not used before.
Open(a, s, k) ==
    /\ owner[a] = NULL
    /\ a \notin shut
    /\ owner' = [owner EXCEPT ![a] = [session |-> s, conv |-> k]]
    /\ holds' = IF s \in unused THEN [holds EXCEPT ![s] = a] ELSE holds
    /\ unused' = unused \ {s}
    /\ UNCHANGED <<feeds, shut>>

\* k begins to feed the account that was opened for it.
Feed(k, a) ==
    /\ owner[a] # NULL
    /\ owner[a].conv = k
    /\ a \notin shut
    /\ feeds' = [feeds EXCEPT ![k] = a]
    /\ UNCHANGED <<owner, holds, unused, shut>>

Stop(k) ==
    /\ feeds' = [feeds EXCEPT ![k] = NULL]
    /\ UNCHANGED <<owner, holds, unused, shut>>

\* Some sessions are no longer for use, some lose their account.
Retire ==
    /\ unused' \in SUBSET unused
    /\ holds' \in [Sessions -> Accounts \cup {NULL}]
    /\ \A s \in Sessions : holds'[s] \in {holds[s], NULL}
    /\ UNCHANGED <<owner, feeds, shut>>

Shut(a) ==
    /\ owner[a] # NULL
    /\ a \notin shut
    /\ shut' = shut \cup {a}
    /\ holds' = [s \in Sessions |-> IF holds[s] = a THEN NULL ELSE holds[s]]
    /\ feeds' = [k \in Convs |-> IF feeds[k] = a THEN NULL ELSE feeds[k]]
    /\ UNCHANGED <<owner, unused>>

Next ==
    \/ \E a \in Accounts, s \in Sessions, k \in Convs : Open(a, s, k)
    \/ \E k \in Convs, a \in Accounts : Feed(k, a)
    \/ \E k \in Convs : Stop(k)
    \/ Retire
    \/ \E a \in Accounts : Shut(a)

Spec == Init /\ [][Next]_vars

=============================================================================
