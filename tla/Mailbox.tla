------------------------------ MODULE Mailbox ------------------------------
(***************************************************************************)
(* What the delivery of messages promises, without requests, connections,  *)
(* events or time: a mailbox for each account, at least once.  A message   *)
(* is put into one mailbox for good.  It is shown to the owner of that     *)
(* mailbox, any number of times, and to nobody else.  It counts as taken   *)
(* only after it was shown, and is never waiting again once it was taken   *)
(* or has expired.  A mailbox that is closed loses its messages and        *)
(* receives no more.                                                       *)
(***************************************************************************)
CONSTANTS Accounts, Messages, NULL

VARIABLES
    state,        \* message -> what has become of it
    owner,        \* message -> the account whose mailbox it is in
    shown,        \* message -> the accounts it was shown to
    shut          \* mailboxes that are closed

vars == <<state, owner, shown, shut>>

Init ==
    /\ state = [m \in Messages |-> "none"]
    /\ owner = [m \in Messages |-> NULL]
    /\ shown = [m \in Messages |-> {}]
    /\ shut = {}

Put(m, a) ==
    /\ state[m] = "none"
    /\ a \notin shut
    /\ state' = [state EXCEPT ![m] = "queued"]
    /\ owner' = [owner EXCEPT ![m] = a]
    /\ UNCHANGED <<shown, shut>>

\* Also a message that was taken, has expired or was deleted: it may have
\* been on its way.
Show(m) ==
    /\ owner[m] # NULL
    /\ shown' = [shown EXCEPT ![m] = @ \cup {owner[m]}]
    /\ UNCHANGED <<state, owner, shut>>

\* Showing and taking are two steps, between which the message may expire.
Take(m) ==
    /\ state[m] \in {"queued", "expired"}
    /\ shown[m] # {}
    /\ state' = [state EXCEPT ![m] = "delivered"]
    /\ UNCHANGED <<owner, shown, shut>>

Expire ==
    \E M \in SUBSET {m \in Messages : state[m] = "queued"} :
        /\ state' = [m \in Messages |-> IF m \in M THEN "expired" ELSE state[m]]
        /\ UNCHANGED <<owner, shown, shut>>

Shut(a) ==
    /\ a \notin shut
    /\ shut' = shut \cup {a}
    /\ state' = [m \in Messages |-> IF owner[m] = a THEN "deleted" ELSE state[m]]
    /\ UNCHANGED <<owner, shown>>

Next ==
    \/ \E m \in Messages, a \in Accounts : Put(m, a)
    \/ \E m \in Messages : Show(m) \/ Take(m)
    \/ Expire
    \/ \E a \in Accounts : Shut(a)

Spec == Init /\ [][Next]_vars

=============================================================================
