----------------------------- MODULE AgentOrder -----------------------------
(***************************************************************************)
(* Ordering the agents of every Herdr session (process_agent_order_command *)
(* in runtime.rs, get_agent_order and set_agent_order in herdr.rs).  Herdr *)
(* keeps the setting per session and anyone may change it; the portal      *)
(* offers one value, while all running sessions agree on it.  A command    *)
(* sets it session by session.  When one call fails it sets back every     *)
(* session it tried, looks at all of them, and withdraws the offer unless  *)
(* each is as it was found.                                                *)
(*                                                                         *)
(* Left out: T3 Code's ordering (AgentDaemon), the order of the cards, and *)
(* the sequence the command is gated on: a command may be stale whenever   *)
(* it is looked at.  A failed call has acted when it fails or never acts.  *)
(***************************************************************************)
EXTENDS ClientSession

CONSTANTS
    Session,    \* Herdr session names
    Touchable,  \* bound: the sessions changed otherwise than by the daemon
    MaxTouch    \* bound: how often

ASSUME OrderAssumption ==
    /\ Touchable \subseteq Session /\ MaxTouch \in Nat
    /\ {"free", "loop"} \cap Client = {}

Mode == {"grouped", "priority"}
OrderSnapshot == [available : BOOLEAN, mode : Mode]
NoOrder == [available |-> FALSE, mode |-> "grouped"]
Orderings == {"order_grouped", "order_priority"}
ModeOf(step) == IF step = "order_grouped" THEN "grouped" ELSE "priority"

VARIABLES
    up,         \* the Herdr sessions that run
    mode,       \* the ordering of each
    order,      \* agent_order of the snapshot
    guard,      \* order_operation: free, the loop's, or a client's
    heard,      \* the orderings the reconciliation has read
    touches,    \* changes in Herdr still to come
    touched     \* ghost: Herdr changed since the last reconciliation began

ordering == <<up, mode, order, guard, heard, touches, touched>>

OrderTypeOK ==
    /\ up \subseteq Session /\ mode \in [Session -> Mode]
    /\ order \in OrderSnapshot
    /\ guard \in {"free", "loop"} \cup Client
    /\ DOMAIN heard \subseteq Session
    /\ \A s \in DOMAIN heard : heard[s] \in Mode \cup {"due", "unread"}
    /\ touches \in 0..MaxTouch /\ touched \in BOOLEAN

OrderInit ==
    /\ up \in SUBSET Session
    /\ mode \in [Session -> Mode]
    /\ order = NoOrder
    /\ guard = "free"
    /\ heard = [s \in {} |-> "due"]
    /\ touches \in 0..MaxTouch /\ touched = TRUE

-----------------------------------------------------------------------------
\* The reconciliation, as far as it reads the ordering.

RefreshBegins ==
    /\ guard = "free"
    /\ guard' = "loop" /\ touched' = FALSE
    /\ heard' = [s \in up |-> "due"]
    /\ UNCHANGED <<up, mode, order, touches>>

RefreshReads(s) ==
    /\ guard = "loop" /\ s \in DOMAIN heard /\ heard[s] = "due"
    /\ \E m \in {"unread"} \cup (IF s \in up THEN {mode[s]} ELSE {}) :
          heard' = [heard EXCEPT ![s] = m]
    /\ UNCHANGED <<up, mode, order, guard, touches, touched>>

\* The ordering is offered while all sessions were read and agree.
Agreed == {m \in Mode : DOMAIN heard # {} /\ \A s \in DOMAIN heard : heard[s] = m}

RefreshCommits ==
    /\ guard = "loop" /\ \A s \in DOMAIN heard : heard[s] # "due"
    /\ order' \in IF Agreed = {} THEN {NoOrder} ELSE [available : {TRUE}, mode : Agreed]
    /\ guard' = "free" /\ heard' = [s \in {} |-> "due"]
    /\ UNCHANGED <<up, mode, touches, touched>>

Refresh ==
    /\ \/ RefreshBegins \/ RefreshCommits
       \/ \E s \in Session : RefreshReads(s)
    /\ UNCHANGED sessions

-----------------------------------------------------------------------------
\* The command.

Release == guard' = "free"

\* Answers an error and changes nothing.
GivesUp(c) ==
    /\ Release /\ Answers(c)
    /\ UNCHANGED <<up, mode, order, heard, touches, touched>>

\* The operation lock, then the gate: the command may be stale or the offer
\* withdrawn.
TakeGuard(c) ==
    /\ reader[c] = "busy" /\ op[c].step \in Orderings
    /\ guard = "free"
    /\ guard' = c
    /\ Proceeds(c, [step |-> "discover", to |-> ModeOf(op[c].step)])
    /\ UNCHANGED <<up, mode, order, heard, touches, touched>>

Gated(c) == At(c, "discover") /\ GivesUp(c)

Discover(c) ==
    /\ At(c, "discover") /\ order.available /\ up # {}
    /\ Proceeds(c, [step |-> "get", to |-> op[c].to, todo |-> up,
                    prior |-> [s \in {} |-> "grouped"]])
    /\ UNCHANGED ordering

\* Preflight: what each session has now.
Get(c, s) ==
    /\ At(c, "get") /\ s \in op[c].todo \cap up
    /\ Proceeds(c, [op[c] EXCEPT !.todo = @ \ {s},
                       !.prior = [x \in DOMAIN @ \cup {s} |->
                                     IF x = s THEN mode[s] ELSE @[x]]])
    /\ UNCHANGED ordering

GetFails(c) == At(c, "get") /\ op[c].todo # {} /\ GivesUp(c)

\* Every session must have what the portal offers, or the command is stale.
Preflight(c) ==
    /\ At(c, "get") /\ op[c].todo = {}
    /\ LET prior == op[c].prior IN
       \/ /\ \E s \in DOMAIN prior : prior[s] # order.mode
          /\ GivesUp(c)
       \/ /\ \A s \in DOMAIN prior : prior[s] = order.mode
          /\ Proceeds(c, [step |-> "set", to |-> op[c].to, prior |-> prior, tried |-> {},
                          todo |-> {s \in DOMAIN prior : prior[s] # op[c].to}])
          /\ UNCHANGED ordering

\* A call that fails may have acted; one to a session that is gone has not.
Call(s, m, done) ==
    /\ done => s \in up
    /\ \/ s \in up /\ mode' = [mode EXCEPT ![s] = m]
       \/ ~done /\ UNCHANGED mode
    /\ UNCHANGED <<up, order, guard, heard, touches, touched>>

Set(c, s) ==
    /\ At(c, "set") /\ s \in op[c].todo
    /\ Call(s, op[c].to, TRUE)
    /\ Proceeds(c, [op[c] EXCEPT !.todo = @ \ {s}, !.tried = @ \cup {s}])

\* The session that failed is set back with the others.
SetFails(c, s) ==
    /\ At(c, "set") /\ s \in op[c].todo
    /\ Call(s, op[c].to, FALSE)
    /\ Proceeds(c, [step |-> "undo", to |-> op[c].to, prior |-> op[c].prior,
                    todo |-> op[c].tried \cup {s}, clean |-> TRUE])

Undo(c, s, done) ==
    /\ At(c, "undo") /\ s \in op[c].todo
    /\ Call(s, op[c].prior[s], done)
    /\ LET clean == op[c].clean /\ done
           todo == op[c].todo \ {s}
       IN Proceeds(c, [op[c] EXCEPT !.todo = IF todo = {} THEN DOMAIN op[c].prior ELSE todo,
                                    !.step = IF todo = {} THEN "verify" ELSE "undo",
                                    !.clean = clean])

\* Every session is read again, those that were not tried too.
Verify(c, s, asFound) ==
    /\ At(c, "verify") /\ s \in op[c].todo
    /\ asFound => s \in up /\ mode[s] = op[c].prior[s]
    /\ Proceeds(c, [op[c] EXCEPT !.todo = @ \ {s}, !.clean = @ /\ asFound])
    /\ UNCHANGED ordering

\* Mutant: the offer stays whatever the sessions have.
OfferKept(c) == order

\* The offer is withdrawn unless every session is as it was found.
OfferLeft(c) == IF op[c].clean THEN order ELSE NoOrder

Unwind(c) ==
    /\ At(c, "verify") /\ op[c].todo = {}
    /\ order' = OfferLeft(c)
    /\ Release /\ Answers(c)
    /\ UNCHANGED <<up, mode, heard, touches, touched>>

Commit(c) ==
    /\ At(c, "set") /\ op[c].todo = {}
    /\ order' = [available |-> TRUE, mode |-> op[c].to]
    /\ Release /\ Answers(c)
    /\ UNCHANGED <<up, mode, heard, touches, touched>>

Order(c) ==
    \/ TakeGuard(c) \/ Gated(c) \/ Discover(c) \/ GetFails(c)
    \/ Preflight(c) \/ Unwind(c) \/ Commit(c)
    \/ \E s \in Session :
          Get(c, s) \/ Set(c, s) \/ SetFails(c, s)
    \/ \E s \in Session, ok \in BOOLEAN : Undo(c, s, ok) \/ Verify(c, s, ok)

-----------------------------------------------------------------------------
\* Herdr's own side: a user changes the setting, a session stops or starts.

Touch == touches > 0 /\ touches' = touches - 1 /\ touched' = TRUE

UserOrders(s, m) ==
    /\ Touch /\ s \in up /\ mode[s] # m
    /\ mode' = [mode EXCEPT ![s] = m]
    /\ UNCHANGED <<up, order, guard, heard>>

SessionTurns(s) ==
    /\ Touch
    /\ up' = IF s \in up THEN up \ {s} ELSE up \cup {s}
    /\ UNCHANGED <<mode, order, guard, heard>>

Herdr ==
    /\ \E s \in Touchable : SessionTurns(s) \/ \E m \in Mode : UserOrders(s, m)
    /\ UNCHANGED sessions

-----------------------------------------------------------------------------
\* While no reconciliation or ordering is under way, an offered ordering is
\* the one every running session has, unless Herdr was changed from elsewhere
\* since the last reconciliation began: a command that failed in part has set
\* its sessions back or withdrawn the offer, whichever of its calls failed
\* and whatever those did.
OfferedModeIsHerdrs ==
    guard = "free" /\ order.available /\ ~touched =>
        \A s \in up : mode[s] = order.mode

\* An ordering under way shows nothing of its steps: the offer is what it was until the
\* command ends, and then OrderPromise says what it may be.
Lock == INSTANCE OrderPromise WITH
    OrderMode <- Mode, offer <- order, holder <- guard,
    wanted <- IF guard \in Client THEN op[guard].to ELSE "none"
OrdersAsPromised == Lock!Spec
=============================================================================
