----------------------------- MODULE AgentLoop -----------------------------
(***************************************************************************)
(* What wakes the agent loop (collect_agent_loop, refresh_agents,          *)
(* refresh_herdr, update_subscription in runtime.rs; spawn_subscription    *)
(* and watch_events in herdr.rs).  Herdr announces changes on one event    *)
(* connection per session, which a task turns into wake-ups on a bounded   *)
(* channel; the loop pops one, lets the burst settle, drains the rest and  *)
(* reconciles.  T3 Code announces nothing: its projection sequence is      *)
(* polled.  AgentDaemon says what a reconciliation makes of what it sees;  *)
(* here only which version of each pane it saw matters.                    *)
(*                                                                         *)
(* Left out: the cards, the latches, the ordering, and the durations: a    *)
(* step happens between two awaits, whenever it happens.                   *)
(***************************************************************************)
EXTENDS Naturals

CONSTANTS
    Session,    \* Herdr session names
    Pane,       \* panes an agent may run in
    HomeOf,     \* the session of each pane
    Capacity,   \* of the invalidation channel
    NoSeq,      \* no projection sequence is known
    MaxEvent    \* bound: what the managers do

ASSUME LoopAssumption ==
    /\ HomeOf \in [Pane -> Session]
    /\ Capacity \in Nat \ {0} /\ MaxEvent \in Nat
    /\ NoSeq \notin Nat

VARIABLES
    \* the managers
    running,    \* the Herdr sessions that run
    open,       \* the panes there are
    ver,        \* how often the agent of each pane has changed
    rev,        \* T3 Code's projection sequence
    events,     \* changes so far
    \* the event connections
    sub,        \* the subscription the loop holds for each session
    wire,       \* lines its task has not read
    chan,       \* wake-ups queued
    \* the loop and the state it writes
    backend,    \* the selected manager
    guard,      \* who holds order_operation
    pc,         \* where the loop stands
    todo,       \* sessions still to observe
    cur,        \* the session being subscribed and what was seen of it
    heard,      \* what was observed of each session
    rows,       \* the projection sequence, and the revision of the rows, just read
    by,         \* the manager whose reconciliation the snapshot shows
    shown,      \* the sessions on the snapshot and the panes seen there
    threads,    \* the revision of the thread rows on the snapshot
    rec         \* t3code_sequence

herdr == <<running, open, ver>>
world == <<herdr, rev, events>>
queue == <<sub, wire, chan>>
work == <<todo, cur, heard, rows>>
snapshot == <<by, shown, threads, rec>>
vars == <<world, queue, backend, guard, pc, work, snapshot>>

----------------------------------------------------------------------------
Backend == {"herdr", "t3code"}
Phase == {"none", "opening", "registered", "live", "broken", "ended"}
Subscription == [phase : Phase, panes : SUBSET Pane]
NoSub == [phase |-> "none", panes |-> {}]
States == {"connected", "stale", "incompatible"}
Sequence == Nat \cup {NoSeq}
Empty == [x \in {} |-> x]

\* The version of each pane seen, for some sessions.
Versions(v) == DOMAIN v \subseteq Pane /\ v \in [DOMAIN v -> Nat]
Seen(f) == DOMAIN f \subseteq Session /\ \A s \in DOMAIN f : Versions(f[s])

\* What is known of some sessions.
Roster(r) ==
    /\ DOMAIN r \subseteq Session
    /\ \A s \in DOMAIN r :
          /\ r[s] = [state |-> r[s].state, seen |-> r[s].seen]
          /\ r[s].state \in States /\ Versions(r[s].seen)

TypeOK ==
    /\ running \in SUBSET Session /\ open \in SUBSET Pane
    /\ ver \in [Pane -> Nat] /\ rev \in Nat /\ events \in Nat
    /\ sub \in [Session -> Subscription] /\ wire \in [Session -> Nat]
    /\ chan \in 0 .. Capacity
    /\ backend \in Backend /\ guard \in {"free", "loop", "client"}
    /\ pc \in {"idle", "coalesce", "dispatch", "herdr", "discover", "observe", "subscribe",
               "again", "t3code", "sequence", "rows", "commit"}
    /\ todo \in SUBSET Session /\ Seen(cur)
    /\ Roster(heard) /\ Roster(shown)
    /\ rows \in [seq : Sequence, rev : Sequence]
    /\ by \in Backend \cup {"none"}
    /\ threads \in Sequence /\ rec \in Sequence

\* The first tick of an interval is immediate.
Init ==
    /\ running \in SUBSET Session /\ open = {p \in Pane : HomeOf[p] \in running}
    /\ ver = [p \in Pane |-> 0] /\ rev = 0 /\ events = 0
    /\ sub = [s \in Session |-> NoSub] /\ wire = [s \in Session |-> 0] /\ chan = 0
    /\ backend \in Backend /\ guard = "free" /\ pc = "dispatch"
    /\ todo = {} /\ cur = Empty /\ heard = Empty /\ rows = [seq |-> NoSeq, rev |-> NoSeq]
    /\ by = "none" /\ shown = Empty /\ threads = NoSeq /\ rec = NoSeq

\* Mutant: the channel has no bound.
Unbounded(n) == n + 1

\* try_send: a full channel drops the wake-up, and is a wake-up itself.
Queued(n) == IF n < Capacity THEN n + 1 ELSE n

----------------------------------------------------------------------------
(* Waking up                                                                *)

RepairTick ==
    /\ pc = "idle" /\ pc' = "dispatch"
    /\ UNCHANGED <<world, queue, backend, guard, work, snapshot>>

\* The poll of T3 Code reads its sequence now, or fails to.
T3Tick ==
    /\ pc = "idle" /\ backend = "t3code"
    /\ \E current \in {rev, NoSeq} : current # rec
    /\ pc' = "dispatch"
    /\ UNCHANGED <<world, queue, backend, guard, work, snapshot>>

Recv ==
    /\ pc = "idle" /\ chan > 0
    /\ chan' = chan - 1 /\ pc' = "coalesce"
    /\ UNCHANGED <<world, sub, wire, backend, guard, work, snapshot>>

Drain ==
    /\ pc = "coalesce" /\ pc' = "dispatch"
    /\ chan' = 0
    /\ UNCHANGED <<world, sub, wire, backend, guard, work, snapshot>>

\* Mutant: T3 Code is reconciled with Herdr's subscriptions still open.
KeepAll == UNCHANGED <<sub, wire>>

\* The subscriptions end before the lock is awaited.
DropAll ==
    /\ sub' = [s \in Session |-> NoSub]
    /\ wire' = [s \in Session |-> 0]

Dispatch ==
    /\ pc = "dispatch" /\ pc' = backend
    /\ IF backend = "t3code" THEN DropAll ELSE UNCHANGED <<sub, wire>>
    /\ UNCHANGED <<world, chan, backend, guard, work, snapshot>>

\* The reconciliation ends: its locals and its guard are gone.
Finish ==
    /\ pc' = "idle" /\ guard' = "free"
    /\ todo' = {} /\ cur' = Empty /\ heard' = Empty /\ rows' = [seq |-> NoSeq, rev |-> NoSeq]

----------------------------------------------------------------------------
(* A Herdr reconciliation                                                   *)

EnterHerdr ==
    /\ pc = "herdr" /\ guard = "free"
    /\ IF backend = "herdr"
       THEN guard' = "loop" /\ pc' = "discover" /\ UNCHANGED work
       ELSE Finish
    /\ UNCHANGED <<world, queue, backend, snapshot>>

\* The subscriptions stay; the sessions on the snapshot are stale from now on.
DiscoveryFails ==
    /\ pc = "discover" /\ Finish
    /\ by' = "herdr"
    /\ shown' = [s \in DOMAIN shown |-> [shown[s] EXCEPT !.state = "stale"]]
    /\ UNCHANGED <<world, queue, backend, threads, rec>>

Discover ==
    /\ pc = "discover" /\ pc' = "observe"
    /\ todo' = running
    /\ UNCHANGED <<world, queue, backend, guard, cur, heard, rows, snapshot>>

\* What session.snapshot lists of a session now.
Sighting(s) == [p \in {q \in open : HomeOf[q] = s} |-> ver[p]]

\* A session is done with: its outcome is on the roster being collected.
Conclude(s, state, seen) ==
    /\ heard' = [x \in DOMAIN heard \cup {s} |->
                    IF x = s THEN [state |-> state, seen |-> seen] ELSE heard[x]]
    /\ todo' = todo \ {s} /\ cur' = Empty /\ pc' = "observe"
    /\ UNCHANGED <<world, backend, guard, rows, snapshot>>

\* A subscription is aborted: its task, its connection and its lines are gone.
Abort(s) ==
    /\ sub' = [sub EXCEPT ![s] = NoSub]
    /\ wire' = [wire EXCEPT ![s] = 0]

\* A task that has not finished follows the session, if it subscribed to these panes.
Follows(s, panes) == sub[s].phase \notin {"none", "ended"} /\ sub[s].panes = panes

Observe(s) ==
    /\ pc = "observe" /\ s \in todo /\ s \in running
    /\ LET seen == Sighting(s) IN
       IF Follows(s, DOMAIN seen)
       THEN Conclude(s, "connected", seen) /\ UNCHANGED queue
       ELSE /\ sub' = [sub EXCEPT ![s] = [phase |-> "opening", panes |-> DOMAIN seen]]
            /\ wire' = [wire EXCEPT ![s] = 0]
            /\ cur' = [x \in {s} |-> seen] /\ pc' = "subscribe"
            /\ UNCHANGED <<world, chan, backend, guard, todo, heard, rows, snapshot>>

\* The session does not answer, or speaks another protocol.
ObserveFails(s) ==
    /\ pc = "observe" /\ s \in todo
    /\ \E state \in {"stale", "incompatible"} : Conclude(s, state, Empty)
    /\ Abort(s) /\ UNCHANGED chan

\* Mutant: what was seen before the subscription is good enough.
SubscribedAsSeen(s) ==
    /\ pc = "subscribe" /\ s \in DOMAIN cur /\ sub[s].phase = "registered"
    /\ sub' = [sub EXCEPT ![s].phase = "live"]
    /\ Conclude(s, "connected", cur[s])
    /\ UNCHANGED <<wire, chan>>

\* The acknowledgement arrives; the session has to be observed again.
Subscribed(s) ==
    /\ pc = "subscribe" /\ s \in DOMAIN cur /\ sub[s].phase = "registered"
    /\ sub' = [sub EXCEPT ![s].phase = "live"]
    /\ pc' = "again"
    /\ UNCHANGED <<world, wire, chan, backend, guard, work, snapshot>>

\* The task may queue its wake-up before it is aborted.
SubscribeFails(s) ==
    /\ pc = "subscribe" /\ s \in DOMAIN cur
    /\ Conclude(s, "stale", Empty) /\ Abort(s)
    /\ chan' \in {chan, Queued(chan)}

ObserveAgain(s) ==
    /\ pc = "again" /\ s \in DOMAIN cur /\ s \in running
    /\ Conclude(s, "connected", Sighting(s))
    /\ UNCHANGED queue

ObserveAgainFails(s) ==
    /\ pc = "again" /\ s \in DOMAIN cur
    /\ \E state \in {"stale", "incompatible"} : Conclude(s, state, Empty)
    /\ Abort(s) /\ UNCHANGED chan

\* The sessions that were not discovered lose their subscription.
CommitHerdr ==
    /\ pc = "observe" /\ todo = {} /\ Finish
    /\ sub' = [s \in Session |-> IF s \in DOMAIN heard THEN sub[s] ELSE NoSub]
    /\ wire' = [s \in Session |-> IF s \in DOMAIN heard THEN wire[s] ELSE 0]
    /\ by' = "herdr" /\ shown' = heard
    /\ UNCHANGED <<world, chan, backend, threads, rec>>

----------------------------------------------------------------------------
(* A T3 Code reconciliation                                                 *)

EnterThreads ==
    /\ pc = "t3code" /\ guard = "free"
    /\ guard' = "loop" /\ pc' = "sequence"
    /\ UNCHANGED <<world, queue, backend, work, snapshot>>

\* The sequence is read first; without one the poll asks again.
ReadSequence ==
    /\ pc = "sequence" /\ pc' = "rows"
    /\ \E seq \in {rev, NoSeq} : rows' = [rows EXCEPT !.seq = seq]
    /\ UNCHANGED <<world, queue, backend, guard, todo, cur, heard, snapshot>>

\* The rows are read later, in a transaction of their own; or nothing can be read.
ReadRows ==
    /\ pc = "rows" /\ pc' = "commit"
    /\ \/ rows' = [rows EXCEPT !.rev = rev]
       \/ rows' = [seq |-> NoSeq, rev |-> NoSeq]
       \/ UNCHANGED rows
    /\ UNCHANGED <<world, queue, backend, guard, todo, cur, heard, snapshot>>

\* Mutant: the sequence is read again when the rows have been.
CommitThreadsLater ==
    /\ pc = "commit" /\ Finish
    /\ IF backend = "t3code"
       THEN by' = "t3code" /\ shown' = Empty /\ threads' = rows.rev /\ rec' = rev
       ELSE UNCHANGED snapshot
    /\ UNCHANGED <<world, queue, backend>>

CommitThreads ==
    /\ pc = "commit" /\ Finish
    /\ IF backend = "t3code"
       THEN by' = "t3code" /\ shown' = Empty /\ threads' = rows.rev /\ rec' = rows.seq
       ELSE UNCHANGED snapshot
    /\ UNCHANGED <<world, queue, backend>>

----------------------------------------------------------------------------
(* The event connections                                                    *)

Registers(s) ==
    /\ sub[s].phase = "opening" /\ s \in running
    /\ sub' = [sub EXCEPT ![s].phase = "registered"]
    /\ UNCHANGED <<world, wire, chan, backend, guard, pc, work, snapshot>>

TaskReads(s) ==
    /\ sub[s].phase \in {"live", "broken"} /\ wire[s] > 0
    /\ wire' = [wire EXCEPT ![s] = @ - 1]
    /\ chan' = Queued(chan)
    /\ UNCHANGED <<world, sub, backend, guard, pc, work, snapshot>>

\* Mutant: a task that ends says nothing.
TaskEndsQuietly(s) ==
    /\ sub[s].phase = "broken" /\ wire[s] = 0
    /\ sub' = [sub EXCEPT ![s].phase = "ended"]
    /\ UNCHANGED <<world, wire, chan, backend, guard, pc, work, snapshot>>

\* The end of the connection is a wake-up too.
TaskEnds(s) ==
    /\ sub[s].phase = "broken" /\ wire[s] = 0
    /\ sub' = [sub EXCEPT ![s].phase = "ended"]
    /\ chan' = Queued(chan)
    /\ UNCHANGED <<world, wire, backend, guard, pc, work, snapshot>>

----------------------------------------------------------------------------
(* Portal commands                                                          *)

\* process_backend_command: the guard is held until the wake-up is queued.
Switch ==
    /\ guard = "free" /\ guard' = "client"
    /\ events < MaxEvent /\ events' = events + 1
    /\ \E b \in Backend \ {backend} : backend' = b
    /\ by' = "none" /\ shown' = Empty /\ threads' = NoSeq /\ rec' = NoSeq
    /\ UNCHANGED <<herdr, rev, queue, pc, work>>

\* Mutant: the switch wakes nobody.
SwitchEndsQuietly ==
    /\ guard = "client" /\ guard' = "free"
    /\ UNCHANGED <<world, queue, backend, pc, work, snapshot>>

SwitchEnds ==
    /\ guard = "client" /\ guard' = "free"
    /\ chan' = Queued(chan)
    /\ UNCHANGED <<world, sub, wire, backend, pc, work, snapshot>>

\* Opening a card and ordering wake the loop as well.
Nudge ==
    /\ events < MaxEvent /\ events' = events + 1
    /\ chan' = Queued(chan)
    /\ UNCHANGED <<herdr, rev, sub, wire, backend, guard, pc, work, snapshot>>

----------------------------------------------------------------------------
(* The managers                                                             *)

\* The connection is registered with Herdr and Herdr still writes to it.
Listening(s) == sub[s].phase \in {"registered", "live"}

\* Herdr writes a line to session s's event connection, if it has one that asked.
Announce(s, asked) ==
    wire' = IF Listening(s) /\ asked THEN [wire EXCEPT ![s] = @ + 1] ELSE wire

Happens ==
    /\ events < MaxEvent /\ events' = events + 1
    /\ UNCHANGED <<chan, backend, guard, pc, work, snapshot>>

\* Every subscription asks for panes that come and go, on all of the session.
PaneOpens(p) ==
    /\ Happens /\ HomeOf[p] \in running /\ p \notin open
    /\ open' = open \cup {p} /\ Announce(HomeOf[p], TRUE)
    /\ UNCHANGED <<running, ver, rev, sub>>

PaneCloses(p) ==
    /\ Happens /\ p \in open
    /\ open' = open \ {p} /\ Announce(HomeOf[p], TRUE)
    /\ UNCHANGED <<running, ver, rev, sub>>

\* The status of an agent is announced only on the panes subscribed to.
StatusChanges(p) ==
    /\ Happens /\ p \in open
    /\ ver' = [ver EXCEPT ![p] = @ + 1]
    /\ Announce(HomeOf[p], p \in sub[HomeOf[p]].panes)
    /\ UNCHANGED <<running, open, rev, sub>>

\* A connection Herdr closes is read to its end first.
Broken(s) ==
    [sub EXCEPT ![s].phase = IF Listening(s) THEN "broken" ELSE @]

SessionStarts(s) ==
    /\ Happens /\ s \notin running
    /\ running' = running \cup {s}
    /\ UNCHANGED <<open, ver, rev, sub, wire>>

SessionStops(s) ==
    /\ Happens /\ s \in running
    /\ running' = running \ {s} /\ open' = {p \in open : HomeOf[p] # s}
    /\ sub' = Broken(s)
    /\ UNCHANGED <<ver, rev, wire>>

ConnectionBreaks(s) ==
    /\ Happens /\ Listening(s)
    /\ sub' = Broken(s)
    /\ UNCHANGED <<herdr, rev, wire>>

ThreadChanges ==
    /\ Happens /\ rev' = rev + 1
    /\ UNCHANGED <<herdr, sub, wire>>

----------------------------------------------------------------------------
Reconcile ==
    \/ EnterHerdr \/ DiscoveryFails \/ Discover \/ CommitHerdr
    \/ \E s \in Session : Observe(s) \/ ObserveFails(s)
    \/ \E s \in Session : Subscribed(s) \/ SubscribeFails(s)
    \/ \E s \in Session : ObserveAgain(s) \/ ObserveAgainFails(s)
    \/ EnterThreads \/ ReadSequence \/ ReadRows \/ CommitThreads

Tasks == \E s \in Session : Registers(s) \/ TaskReads(s) \/ TaskEnds(s)
Commands == Switch \/ SwitchEnds \/ Nudge
Managers ==
    \/ \E p \in Pane : PaneOpens(p) \/ PaneCloses(p) \/ StatusChanges(p)
    \/ \E s \in Session : SessionStarts(s) \/ SessionStops(s) \/ ConnectionBreaks(s)
    \/ ThreadChanges

Next ==
    \/ RepairTick \/ T3Tick \/ Recv \/ Drain \/ Dispatch
    \/ Reconcile \/ Tasks \/ Commands \/ Managers

Spec == Init /\ [][Next]_vars

\* Tokio polls what is ready, a request ends within its timeout, and the poll of
\* T3 Code ticks.  The repair tick is left out: the events have to do without it.
Fairness ==
    /\ WF_vars(T3Tick \/ Recv) /\ WF_vars(Drain) /\ WF_vars(Dispatch)
    /\ WF_vars(Reconcile) /\ WF_vars(SwitchEnds)
    /\ \A s \in Session : WF_vars(TaskReads(s)) /\ WF_vars(TaskEnds(s))

FairSpec == Spec /\ Fairness

----------------------------------------------------------------------------
(* What the loop promises                                                   *)

\* Session s is presented as connected, and Herdr has moved on: it has other panes,
\* or the agent of a pane that was asked about has changed.
Lags(roster, s) ==
    /\ s \in DOMAIN roster /\ roster[s].state = "connected"
    /\ \/ DOMAIN roster[s].seen # DOMAIN Sighting(s)
       \/ \E p \in DOMAIN roster[s].seen \cap sub[s].panes : roster[s].seen[p] # ver[p]

\* A wake-up is queued, or the session's task is about to queue one.
WakeUp(s) == chan > 0 \/ wire[s] > 0 \/ sub[s].phase = "broken"

\* The loop has yet to read what it will show.
Refreshing == pc \in {"coalesce", "dispatch", "herdr", "discover", "observe", "subscribe", "again"}

\* However changes, subscriptions, broken connections, dropped wake-ups, drains and
\* reconciliations interleave: Herdr's sessions shown as connected are current, or
\* something is under way that makes the loop look again.  A pane that opened
\* before its session's subscription was registered is not asked about: the repair
\* tick finds it.
NoLostWakeup ==
    backend = "herdr" =>
        \A s \in Session :
            /\ Lags(heard, s) => WakeUp(s)
            /\ Lags(shown, s) => WakeUp(s) \/ Refreshing

\* The threads shown are current or the next poll finds a sequence that differs
\* from the one recorded with them.
PollSeesChange ==
    /\ threads \notin {NoSeq, rev} => rec # rev
    /\ rows.rev \notin {NoSeq, rev} => rows.seq # rev

\* After a switch the loop looks at the new manager, even one that was waiting for
\* the lock with the old one.
SwitchIsAnswered ==
    by = "none" =>
        \/ chan > 0 \/ guard = "client" \/ (rec # rev /\ backend = "t3code")
        \/ pc \in {"coalesce", "dispatch"} \/ pc = backend
        \/ guard = "loop"

\* While T3 Code is read or shown no Herdr event connection is open.
SubscriptionsEndWithManager ==
    by = "t3code" \/ pc \in {"sequence", "rows", "commit"} =>
        \A s \in Session : sub[s] = NoSub

\* A change reaches the view by events alone: no repair tick is needed for what is
\* shown as connected.
ChangesAreShown ==
    \A s \in Session :
        backend = "herdr" /\ Lags(shown, s) ~> ~(backend = "herdr" /\ Lags(shown, s))
=============================================================================
