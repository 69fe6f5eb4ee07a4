----------------------------- MODULE T3Threads -----------------------------
(***************************************************************************)
(* What the portal makes of a T3 Code thread (t3code.rs): the row read of  *)
(* it from the metadata feed or from either version of T3 Code's database, *)
(* the row's classification, and the review latch over a sequence of       *)
(* observations (ReviewLatch).  T3 Code itself is external: its threads    *)
(* run, ask, finish, are visited, settled and snoozed in any order.        *)
(*                                                                         *)
(* Left out: labels and identifiers, threads archived, deleted or run by   *)
(* another thread, the order and the number of the rows, and queued runs   *)
(* that are held, which no row mentions.  A run that has ended has its     *)
(* time of completion, and a reading is of one moment, although the first  *)
(* version's turns are read one by one after its threads.                  *)
(***************************************************************************)
EXTENDS Naturals, ReviewLatch, AttentionOrder

CONSTANTS
    Sources,    \* where the instance may read from
    None,       \* no row, no turn, no observation
    MaxTime     \* bound: what T3 Code and its user do

ASSUME ThreadsAssumption ==
    Sources \subseteq {"feed", "v2", "v1"} /\ MaxTime \in Nat

VARIABLES
    source,     \* what is installed: the feed, or a version of the database
    time,       \* T3 Code's clock, one step per change
    fact,       \* T3 Code's own record of each thread
    read,       \* the records behind the last roster that was read
    cards,      \* the cards shown
    observed    \* what the last reconciliation knew of each thread

t3 == <<source, time, fact>>
vars == <<t3, read, cards, observed>>

----------------------------------------------------------------------------
(* T3 Code's records                                                        *)

\* Beside its ends a run may be what only the feed calls "blocked", or in a state that
\* no source knows.
RunState ==
    {"none", "queued", "running", "completed", "interrupted", "error", "blocked", "other"}
Ended == {"completed", "interrupted", "error"}
Fact == [run : RunState, started : Nat, finished : Nat, updated : Nat,
         work : BOOLEAN,                                \* background work
         asks : {"nothing", "request", "plan"},         \* a plan only in the first version
         visited : Nat,
         settled : {"no", "auto", "settled", "reopened"}, settledAt : Nat,
         snoozed : BOOLEAN,
         session : {"running", "ready", "stopped", "error"}]

New == [run |-> "none", started |-> 0, finished |-> 0, updated |-> 0, work |-> FALSE,
        asks |-> "nothing", visited |-> 0, settled |-> "no", settledAt |-> 0,
        snoozed |-> FALSE, session |-> "ready"]

----------------------------------------------------------------------------
(* Rows                                                                     *)

TurnRow == [state : RunState \cup {"pending"}, started : Nat, finished : Nat]
Row == [asks : BOOLEAN, plan : BOOLEAN, work : BOOLEAN, snoozed : BOOLEAN, visited : Nat,
        settled : BOOLEAN, settledAt : Nat, created : Nat,
        session : {"running", "ready", "stopped", "error"}, turn : TurnRow \cup {None}]

Turn(f, state, started) ==
    [state |-> state, started |-> started,
     finished |-> IF f.run \in Ended THEN f.finished ELSE started]

\* What a row calls the state of a run.
StateName(run) ==
    CASE run = "queued" -> "pending" [] run = "blocked" -> "error" [] OTHER -> run
Busy(f) == f.work \/ f.run \in {"queued", "running"}

\* The feed lists every thread with its last update for most of its times.
FeedRow(f) ==
    [asks |-> f.asks = "request", plan |-> FALSE, work |-> Busy(f),
     snoozed |-> f.snoozed, visited |-> f.visited,
     settled |-> f.settled \in {"auto", "settled"}, settledAt |-> f.updated,
     created |-> f.updated, session |-> "ready",
     turn |-> IF f.run = "none" THEN None ELSE Turn(f, StateName(f.run), f.updated)]

\* Mutant: a settled thread that asks is not listed.
V2RowSettledAway(f) ==
    IF f.settled = "settled" /\ ~Busy(f) THEN None ELSE
    [asks |-> f.asks = "request", plan |-> FALSE, work |-> Busy(f),
     snoozed |-> f.snoozed, visited |-> f.visited,
     settled |-> f.settled \in {"auto", "settled"}, settledAt |-> f.settledAt,
     created |-> 0, session |-> IF Busy(f) THEN "running" ELSE "ready",
     turn |-> IF f.run = "none" THEN None ELSE Turn(f, StateName(f.run), f.started)]

\* A thread its user settled is listed only while it asks or works.
V2Row(f) ==
    IF f.settled = "settled" /\ f.asks # "request" /\ ~Busy(f) THEN None ELSE
    [asks |-> f.asks = "request", plan |-> FALSE, work |-> Busy(f),
     snoozed |-> f.snoozed, visited |-> f.visited,
     settled |-> f.settled \in {"auto", "settled"}, settledAt |-> f.settledAt,
     created |-> 0, session |-> IF Busy(f) THEN "running" ELSE "ready",
     turn |-> IF f.run = "none" THEN None ELSE Turn(f, StateName(f.run), f.started)]

\* The first version knows neither background work nor visits.
V1Row(f) ==
    [asks |-> f.asks = "request", plan |-> f.asks = "plan", work |-> FALSE,
     snoozed |-> f.snoozed, visited |-> 0,
     settled |-> f.settled \in {"auto", "settled"}, settledAt |-> f.settledAt,
     created |-> 0, session |-> f.session,
     turn |-> IF f.run = "none" THEN None ELSE Turn(f, StateName(f.run), f.started)]

RowOf(src, f) ==
    CASE src = "feed" -> FeedRow(f) [] src = "v2" -> V2Row(f) [] OTHER -> V1Row(f)

----------------------------------------------------------------------------
(* Classification                                                           *)

Hidden(row) == row.snoozed /\ ~row.work /\ ~row.asks

Dormant(row) ==
    row.session \notin {"running", "ready"} /\ (row.settled \/ row.turn = None)

\* Mutant: a thread without a turn has no time.
StartedTurn(row) == IF row.turn = None THEN None ELSE row.turn.started

Started(row) == IF row.turn = None THEN row.created ELSE row.turn.started
Finish(row) == IF row.turn = None THEN row.created ELSE row.turn.finished
StateOf(row) == IF row.turn = None THEN "none" ELSE row.turn.state

\* Mutant: a visit during the run counts.
VisitedSinceStart(row) == row.visited > 0 /\ row.visited >= Started(row)

\* No visit, or one before the run ended, is no visit of its outcome.
Visited(row) == row.visited > 0 /\ row.visited >= Finish(row)

Standing == [status : AgentStatus, seq : Nat, acked : BOOLEAN]
As(status, seq, acked) == [status |-> status, seq |-> seq, acked |-> acked]

\* Mutant: only settling acknowledges.
OutcomeSettled(row) ==
    IF row.settled \/ Visited(row)
    THEN As("idle", IF row.settled THEN row.settledAt ELSE Finish(row), row.settled)
    ELSE As("done", Finish(row), FALSE)

\* A run that ended is done until its user has seen the outcome or settled the thread.
Outcome(row) ==
    IF row.settled \/ Visited(row)
    THEN As("idle", IF row.settled THEN row.settledAt ELSE Finish(row), TRUE)
    ELSE As("done", Finish(row), FALSE)

\* What a thread is on the portal; the first case that applies.
Classify(row) ==
    CASE Hidden(row) \/ Dormant(row) -> None
      [] OTHER ->
    CASE row.asks \/ row.plan -> As("blocked", Started(row), FALSE)
      [] OTHER ->
    CASE row.work \/ StateOf(row) = "running" -> As("working", Started(row), FALSE)
      [] row.session = "running" /\ StateOf(row) \in {"none", "pending"} ->
            As("working", Started(row), FALSE)
      [] OTHER ->
    CASE row.session = "error" \/ StateOf(row) = "error" -> As("blocked", Finish(row), FALSE)
      [] OTHER ->
    CASE StateOf(row) \in {"completed", "interrupted"} -> Outcome(row)
      [] StateOf(row) = "none" -> As("idle", row.created, row.settled)
      [] OTHER ->
            As(IF row.session = "running" THEN "working" ELSE "unknown", Started(row), FALSE)

Class(src, f) == LET row == RowOf(src, f) IN IF row = None THEN None ELSE Classify(row)

ASSUME NoneAssumption ==
    None \notin TurnRow /\ None \notin Row /\ None \notin Standing /\ None \notin [T3Thread -> Fact]

----------------------------------------------------------------------------
(* Reconciliations                                                          *)

Empty == [x \in {} |-> x]

Init ==
    /\ source \in Sources /\ time = 0
    /\ fact = [t \in T3Thread |-> New]
    /\ read = None /\ cards = Empty /\ observed = Empty

Found ==
    LET class == [t \in T3Thread |-> Class(source, fact[t])]
    IN  [t \in {u \in T3Thread : class[u] # None} |->
            [status |-> class[t].status, seq |-> class[t].seq, acked |-> class[t].acked,
             focused |-> FALSE, live |-> TRUE, review |-> FALSE]]

\* The last cards stay, without targets.
Kept ==
    [t \in DOMAIN cards |->
        [status |-> cards[t].status, seq |-> 0, acked |-> FALSE, focused |-> FALSE,
         live |-> FALSE, review |-> cards[t].review]]

Reconcile(found) ==
    /\ cards' = NextCards(found, observed, Empty)
    /\ observed' = NextObserved(found, observed, Empty)
    /\ UNCHANGED t3

\* The feed is fresh and whole, or T3 Code runs and its database can be read.
Reads == Reconcile(Found) /\ read' = fact

\* The feed is missing, old or another's; the database cannot be opened.
Unreadable == Reconcile(Kept) /\ UNCHANGED read

\* T3 Code does not run, or its descriptor or schema is not understood.
Gone == source # "feed" /\ Reconcile(Empty) /\ read' = None

----------------------------------------------------------------------------
(* T3 Code and its user                                                     *)

Update(t, f) ==
    /\ time < MaxTime /\ time' = time + 1
    /\ fact' = [fact EXCEPT ![t] = [f EXCEPT !.updated = time + 1]]
    /\ UNCHANGED <<source, read, cards, observed>>

RunStarts(t) ==
    /\ fact[t].run # "running"
    /\ \E state \in {"queued", "running"} :
        Update(t, [fact[t] EXCEPT !.run = state, !.started = time + 1, !.session = "running"])

RunEnds(t) ==
    /\ fact[t].run = "running"
    /\ \E state \in Ended :
        Update(t, [fact[t] EXCEPT !.run = state, !.finished = time + 1,
                                  !.session = IF state = "error" THEN "error" ELSE "ready"])

RunTurns(t) ==
    /\ fact[t].run = "running"
    /\ \E state \in {"other"} \cup (IF source = "feed" THEN {"blocked"} ELSE {}) :
        Update(t, [fact[t] EXCEPT !.run = state])

Asks(t) ==
    \E asks \in {"nothing", "request"} \cup (IF source = "v1" THEN {"plan"} ELSE {}) :
        asks # fact[t].asks /\ Update(t, [fact[t] EXCEPT !.asks = asks])

WorksBehind(t) == Update(t, [fact[t] EXCEPT !.work = ~@])

Visits(t) == Update(t, [fact[t] EXCEPT !.visited = time + 1])

\* Settled by its user or after a while, and taken up again.
Settles(t) ==
    \/ /\ fact[t].settled \in {"no", "reopened"}
       /\ \E how \in {"auto", "settled"} :
            Update(t, [fact[t] EXCEPT !.settled = how, !.settledAt = time + 1])
    \/ /\ fact[t].settled \in {"auto", "settled"}
       /\ Update(t, [fact[t] EXCEPT !.settled = "reopened"])

Snoozes(t) == Update(t, [fact[t] EXCEPT !.snoozed = ~@])

SessionChanges(t) ==
    /\ source = "v1"
    /\ \E session \in {"running", "ready", "stopped", "error"} :
        session # fact[t].session /\ Update(t, [fact[t] EXCEPT !.session = session])

T3Code ==
    \E t \in T3Thread :
        \/ RunStarts(t) \/ RunEnds(t) \/ RunTurns(t) \/ Asks(t) \/ WorksBehind(t)
        \/ Visits(t) \/ Settles(t) \/ Snoozes(t) \/ SessionChanges(t)

Next == Reads \/ Unreadable \/ Gone \/ T3Code

Spec == Init /\ [][Next]_vars

----------------------------------------------------------------------------
(* What the portal promises about threads                                   *)

TypeOK ==
    /\ source \in Sources /\ time \in 0 .. MaxTime
    /\ fact \in [T3Thread -> Fact]
    /\ read = None \/ read \in [T3Thread -> Fact]
    /\ DOMAIN cards \subseteq T3Thread
    /\ cards \in [DOMAIN cards -> [status : AgentStatus, live : BOOLEAN, review : BOOLEAN]]
    /\ DOMAIN observed \subseteq DOMAIN cards
    /\ observed \in [DOMAIN observed -> [status : AgentStatus, seq : Nat, review : BOOLEAN]]

\* Of the roster that was read last: what T3 Code's records say of each thread.
Known(P(_, _)) == read # None => \A t \in T3Thread : P(t, read[t])

\* The first version's records of a thread without a session speak for it only while it
\* has an outcome that was not settled.
NoSession(f) ==
    /\ source = "v1" /\ f.session \notin {"running", "ready"}
    /\ f.settled \in {"auto", "settled"} \/ f.run \notin Ended

\* Ordered by attention, the card comes before every card of these states.
Ahead(card, states) ==
    \A other \in states : AttentionRank(card) < AttentionRank(other)
States(status, review) == [status : status, review : review]

\* A request a person has to answer is on the portal, before every card that waits
\* for nobody, whatever else is going on with the thread, settled ones included.  Of
\* snoozed ones nothing is claimed: classify keeps them, architecture.md leaves them out.
RequestsAreShown ==
    Known(LAMBDA t, f :
        f.asks = "request" /\ ~f.snoozed /\ ~NoSession(f) =>
            t \in DOMAIN cards /\ Ahead(cards[t], States(Status \ {"blocked"}, BOOLEAN)))

\* The run ended, and nothing else of the thread stands before its outcome: no request,
\* no work, and no session that failed or runs (of a running one architecture.md says that
\* it is working, while classify goes by the outcome).
Quiet(f) ==
    /\ f.run \in {"completed", "interrupted"} /\ f.asks = "nothing"
    /\ IF source = "v1" THEN f.session \in {"ready", "stopped"} ELSE ~f.work
Seen(f) ==
    \/ f.settled \in {"auto", "settled"}
    \/ source # "v1" /\ f.visited >= f.finished

\* A run that ended and that nobody has looked at or settled asks for review, on
\* every reading of T3 Code, also when the end itself was never observed or T3 Code
\* was unreadable in between, and comes before every card that asks for nothing.
UnseenOutcomeAsks ==
    Known(LAMBDA t, f :
        Quiet(f) /\ ~Seen(f) /\ ~f.snoozed =>
            /\ t \in DOMAIN cards /\ cards[t].review
            /\ Ahead(cards[t], States(Status \ {"blocked"}, {FALSE})))

\* README.md: T3's own visit or settlement clears the review state.  Such an outcome asks
\* no more, does not come back by itself, and stands behind the threads at work, although
\* architecture.md ends it by a settlement alone.
SeenOutcomeIsQuiet ==
    Known(LAMBDA t, f :
        Quiet(f) /\ Seen(f) /\ t \in DOMAIN cards =>
            ~cards[t].review /\ Ahead([status |-> "working", review |-> FALSE], {cards[t]}))
=============================================================================
