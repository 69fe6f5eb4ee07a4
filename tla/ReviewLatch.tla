---------------------------- MODULE ReviewLatch ----------------------------
(***************************************************************************)
(* The review-ready latch of the portal: what one reconciliation makes of  *)
(* the agents it has just seen, the latches it holds from earlier          *)
(* reconciliations and the focus it last knew of each session              *)
(* (apply_agent_observations and next_review_ready in runtime.rs).         *)
(*                                                                         *)
(* An observation `seen` maps the agents found to records with             *)
(*   status, seq   the manager's state and its state_change_seq            *)
(*   acked         the manager itself recorded an acknowledgement          *)
(*   focused       the manager's focus is on the agent                     *)
(*   live          the agent came with an action target                    *)
(*   review        the latch on the card that was carried over, if any     *)
(* Labels, durations and the order of the cards are left out.              *)
(***************************************************************************)
CONSTANTS
    HerdrSession,   \* names of the Herdr sessions
    HerdrAgent,     \* agents that run in a Herdr session
    T3Thread,       \* threads of T3 Code
    HomeOf,         \* the Herdr session of each Herdr agent
    T3Session,      \* the one session name of T3 Code cards
    NoAgent         \* no agent has the focus

ASSUME SessionsAssumption ==
    /\ HomeOf \in [HerdrAgent -> HerdrSession]
    /\ T3Session \notin HerdrSession
    /\ HerdrAgent \cap T3Thread = {}
    /\ NoAgent \notin HerdrAgent \cup T3Thread

AgentStatus == {"blocked", "done", "working", "idle", "unknown"}
Agent == HerdrAgent \cup T3Thread
Session == HerdrSession \cup {T3Session}

SessionOf(a) == IF a \in HerdrAgent THEN HomeOf[a] ELSE T3Session

\* The states in which a latch means something: the agent has stopped working.
Finished == {"done", "idle"}

----------------------------------------------------------------------------
NextReviewReady(before, wasReady, now) ==
    \/ now = "done"
    \/ now = "idle" /\ (wasReady \/ before = "working")

Live(seen) == {a \in DOMAIN seen : seen[a].live}
ConnectedSessions(seen) == {SessionOf(a) : a \in Live(seen)}

\* A session reports at most one focused agent.
FocusIn(seen, s) ==
    LET at == {a \in Live(seen) : SessionOf(a) = s /\ seen[a].focused}
    IN  IF at = {} THEN NoAgent ELSE CHOOSE a \in at : TRUE

NextFocused(seen) == [s \in ConnectedSessions(seen) |-> FocusIn(seen, s)]

\* Mutant: merely remaining focused acknowledges.
FocusedAcknowledges(seen, focused, a) ==
    SessionOf(a) \in DOMAIN focused /\ FocusIn(seen, SessionOf(a)) = a

\* Only a change of focus acknowledges, and only against a focus that was known.
FocusAcknowledges(seen, focused, a) ==
    LET s == SessionOf(a)
    IN  /\ s \in DOMAIN focused
        /\ FocusIn(seen, s) = a
        /\ focused[s] # a

\* Mutant: every reconciliation treats the state it sees as new.
NeverUnchanged(seen, observed, a) == FALSE

Unchanged(seen, observed, a) ==
    /\ a \in DOMAIN observed
    /\ observed[a].status = seen[a].status
    /\ observed[a].seq = seen[a].seq

\* The latch of an agent with a target after the reconciliation.
Latch(seen, observed, focused, a) ==
    /\ ~FocusAcknowledges(seen, focused, a)
    /\ ~seen[a].acked
    /\ IF Unchanged(seen, observed, a)
       THEN observed[a].review
       ELSE NextReviewReady(IF a \in DOMAIN observed THEN observed[a].status ELSE "none",
                            a \in DOMAIN observed /\ observed[a].review,
                            seen[a].status)

\* Agents that left the roster are forgotten; agents on it without a target keep theirs.
NextObserved(seen, observed, focused) ==
    [a \in Live(seen) \cup (DOMAIN observed \cap DOMAIN seen) |->
        IF a \in Live(seen)
        THEN [status |-> seen[a].status, seq |-> seen[a].seq,
              review |-> Latch(seen, observed, focused, a)]
        ELSE observed[a]]

NextCards(seen, observed, focused) ==
    [a \in DOMAIN seen |->
        [status |-> seen[a].status,
         live   |-> seen[a].live,
         review |-> CASE a \in Live(seen) -> Latch(seen, observed, focused, a)
                      [] a \in DOMAIN observed \ Live(seen) -> observed[a].review
                      [] OTHER -> seen[a].review]]
=============================================================================
