---------------------------- MODULE OrderPromise ----------------------------
(***************************************************************************)
(* What the daemon promises of the ordering it offers, whoever asks for    *)
(* one and however long its steps take: one reconciliation or command at a *)
(* time touches the offer; a command leaves it, makes it what was asked,   *)
(* or withdraws it, in one step, however many its own are; and what was    *)
(* withdrawn only a reconciliation offers again.                           *)
(***************************************************************************)
CONSTANTS Client, OrderMode

VARIABLES
    offer,      \* the ordering on the snapshot
    holder,     \* who has the operation lock
    wanted      \* the ordering its command asks for, if it asks for one

vars == <<offer, holder, wanted>>

Offers == [available : BOOLEAN, mode : OrderMode]
Offered(m) == [available |-> TRUE, mode |-> m]
NoOffer == [available |-> FALSE, mode |-> "grouped"]

Init == offer = NoOffer /\ holder = "free" /\ wanted = "none"

Reconcile ==
    /\ holder = "free" /\ holder' = "loop"
    /\ UNCHANGED <<offer, wanted>>

Reconciled ==
    /\ holder = "loop" /\ holder' = "free"
    /\ offer' \in Offers
    /\ UNCHANGED wanted

\* A command whose effects come step by step, with the lock held over them.
Take(c, m) ==
    /\ holder = "free" /\ holder' = c
    /\ wanted' = m
    /\ UNCHANGED offer

\* A command whose effect comes with the lock: a preference that only the daemon
\* has, or a switch to the other manager.
TakesEffect(c) ==
    /\ holder = "free" /\ holder' = c
    /\ \/ \E m \in OrderMode : offer.available /\ offer' = Offered(m)
       \/ offer' = NoOffer
    /\ UNCHANGED wanted

Done(c) ==
    /\ holder = c /\ holder' = "free" /\ wanted' = "none"
    /\ \/ UNCHANGED offer
       \/ wanted # "none" /\ offer.available /\ offer' \in {Offered(wanted), NoOffer}

\* Another daemon run.
Restart == offer' = NoOffer /\ holder' = "free" /\ wanted' = "none"

Next ==
    \/ Reconcile \/ Reconciled \/ Restart
    \/ \E c \in Client : TakesEffect(c) \/ Done(c) \/ \E m \in OrderMode : Take(c, m)

Spec == Init /\ [][Next]_vars
=============================================================================
