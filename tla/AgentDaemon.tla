---------------------------- MODULE AgentDaemon ----------------------------
(***************************************************************************)
(* The agent daemon's core (DaemonRuntime in runtime.rs): one agent loop   *)
(* that reconciles the roster with the selected agent manager, portal      *)
(* clients whose commands open cards, reorder the roster and switch the    *)
(* manager, the operation lock (order_operation) between them, and the     *)
(* manager choice kept in a file across restarts.                          *)
(*                                                                         *)
(* A reconciliation awaits the managers many times, so it is many steps:   *)
(* the dispatch on the manager, the wait for the lock, the discovery, one  *)
(* step per session, the commit.  A command that awaits is split the same  *)
(* way.  A step is what happens between two awaits, or under one lock.     *)
(*                                                                         *)
(* Left out: labels, durations, the order of the cards (AgentOrder below   *)
(* is the mode, not the sort), the event subscriptions, and the commands   *)
(* that leave the roster alone (zoom, guarded actions, voice, desktop).    *)
(* What a Herdr session answers is chosen by the environment.              *)
(***************************************************************************)
EXTENDS Naturals, ReviewLatch

CONSTANTS
    Client,         \* portal connections
    Reported,       \* the states the managers report in the instance
    Modes,          \* the ordering modes Herdr reports in the instance; "none" without that API
    ConfigBackend,  \* the agent manager of config.toml
    NoFile,         \* the choice file does not exist
    MaxSequence,    \* bound: commits of one daemon run
    MaxChange,      \* bound: state changes of one agent
    MaxBoot         \* bound: restarts of the daemon

Backend == {"herdr", "t3code"}
OrderMode == {"grouped", "priority"}

ASSUME DaemonAssumption ==
    /\ Reported \subseteq AgentStatus
    /\ Modes \subseteq OrderMode \cup {"none"}
    /\ ConfigBackend \in Backend
    /\ NoFile \notin [backend : Backend, order : OrderMode]
    /\ "loop" \notin Client /\ "free" \notin Client
    /\ MaxSequence \in Nat /\ MaxChange \in Nat /\ MaxBoot \in Nat

VARIABLES
    \* RuntimeState
    backend,    \* the selected agent manager
    t3order,    \* the ordering preference of T3 Code rosters
    conn,       \* the connection summary of the snapshot
    sessions,   \* the sessions on the snapshot and their state
    cards,      \* the agents on the snapshot: status, live (has actions), review
    order,      \* the ordering on the snapshot: available, mode
    targets,    \* agents that have a private action target
    observed,   \* what the last reconciliation knew of each agent
    focused,    \* the focus last known of each session with targets
    sequence,   \* the action sequence of the snapshot
    \* locks and locals
    guard,      \* who holds order_operation: "free", "loop" or a client
    pc,         \* where the agent loop stands
    todo,       \* sessions of this reconciliation still to observe
    heard,      \* sessions observed: state and ordering mode
    seen,       \* agents observed
    prev,       \* the cards when the discovery succeeded
    client,     \* what each connection's command is doing
    \* the choice file, and the daemon run
    disk,       \* the manager choice on disk
    unsaved,    \* the last save of the choice failed
    boot,       \* restarts so far (the daemon epoch)
    \* the managers
    world,      \* the state of each agent
    focus       \* the focused agent of each Herdr session

roster == <<backend, t3order, conn, sessions, cards, order, targets>>
memory == <<observed, focused>>
locals == <<todo, heard, seen, prev>>
saved == <<disk, unsaved>>
managers == <<world, focus>>
vars == <<roster, memory, sequence, guard, pc, locals, client, saved, boot, managers>>

----------------------------------------------------------------------------
(* Types                                                                    *)

ConnectionState == {"connected", "degraded", "reconnecting", "offline"}
SessionState == {"connected", "stale", "incompatible", "offline"}
OrderSnapshot == [available : BOOLEAN, mode : OrderMode]
DefaultOrder == [available |-> FALSE, mode |-> "grouped"]
Choice == [backend : Backend, order : OrderMode]

Card == [status : AgentStatus, live : BOOLEAN, review : BOOLEAN]
Observed == [status : AgentStatus, seq : Nat, review : BOOLEAN]
Seen == [status : AgentStatus, seq : Nat, acked : BOOLEAN, focused : BOOLEAN,
         live : BOOLEAN, review : BOOLEAN]
Heard == [state : SessionState, mode : OrderMode \cup {"none"}]

\* f is a function from part of S into T.
Partial(f, S, T) == DOMAIN f \subseteq S /\ f \in [DOMAIN f -> T]

Idle == [step |-> "idle"]
ClientState ==
    {Idle}
    \cup [step : {"open", "acknowledge", "opened"}, agent : Agent]
    \cup [step : {"order"}, mode : OrderMode]
    \cup [step : {"save"}, choice : Choice]

Empty == [x \in {} |-> x]

\* The manager that owns an agent or a session.
ManagerOf(a) == IF a \in HerdrAgent THEN "herdr" ELSE "t3code"
ManagerOfSession(s) == IF s \in HerdrSession THEN "herdr" ELSE "t3code"
AgentsOf(s) == {a \in HerdrAgent : HomeOf[a] = s}

TypeOK ==
    /\ backend \in Backend /\ t3order \in OrderMode
    /\ conn \in ConnectionState
    /\ Partial(sessions, Session, SessionState)
    /\ Partial(cards, Agent, Card)
    /\ order \in OrderSnapshot
    /\ targets \in SUBSET Agent
    /\ Partial(observed, Agent, Observed)
    /\ Partial(focused, Session, Agent \cup {NoAgent})
    /\ sequence \in Nat
    /\ guard \in Client \cup {"free", "loop"}
    /\ pc \in {"idle", "herdr", "discover", "observe", "t3code", "threads", "commit"}
    /\ todo \in SUBSET HerdrSession
    /\ Partial(heard, Session, Heard)
    /\ Partial(seen, Agent, Seen)
    /\ Partial(prev, Agent, Card)
    /\ client \in [Client -> ClientState]
    /\ disk \in Choice \cup {NoFile} /\ unsaved \in BOOLEAN
    /\ boot \in Nat
    /\ world \in [Agent -> [status : AgentStatus, seq : Nat, acked : BOOLEAN]]
    /\ focus \in [HerdrSession -> HerdrAgent \cup {NoAgent}]

----------------------------------------------------------------------------
(* A daemon run                                                             *)

\* load_persisted_backend and its default: the choice a daemon starts with.
Restored(d) ==
    IF d = NoFile THEN [backend |-> ConfigBackend, order |-> "grouped"] ELSE d

NothingKnown ==
    /\ cards' = Empty /\ targets' = {} /\ sessions' = Empty
    /\ observed' = Empty /\ focused' = Empty
    /\ order' = DefaultOrder

LoopIdle ==
    /\ pc' = "idle"
    /\ todo' = {} /\ heard' = Empty /\ seen' = Empty /\ prev' = Empty

Init ==
    /\ disk = NoFile /\ unsaved = FALSE
    /\ backend = Restored(disk).backend /\ t3order = Restored(disk).order
    /\ conn = "offline" /\ sessions = Empty
    /\ cards = Empty /\ order = DefaultOrder /\ targets = {}
    /\ observed = Empty /\ focused = Empty /\ sequence = 0
    /\ guard = "free" /\ pc = "idle"
    /\ todo = {} /\ heard = Empty /\ seen = Empty /\ prev = Empty
    /\ client = [c \in Client |-> Idle]
    /\ boot = 0
    /\ world \in [Agent -> [status : Reported, seq : {0}, acked : {FALSE}]]
    /\ focus = [s \in HerdrSession |-> NoAgent]

\* The process dies between any two steps and systemd starts another: the
\* sockets are gone, memory starts afresh, the file and the managers stay.
Restart ==
    /\ boot < MaxBoot /\ boot' = boot + 1
    /\ backend' = Restored(disk).backend /\ t3order' = Restored(disk).order
    /\ conn' = "offline" /\ sequence' = 0 /\ NothingKnown
    /\ guard' = "free" /\ LoopIdle
    /\ client' = [c \in Client |-> Idle]
    /\ unsaved' = FALSE
    /\ UNCHANGED <<disk, managers>>

\* Mutant: the sequence saturates at its bound and the roster still changes.
BumpSaturating == sequence' = IF sequence < MaxSequence THEN sequence + 1 ELSE sequence

\* Every commit of the roster carries a new sequence.
Bump == sequence < MaxSequence /\ sequence' = sequence + 1

----------------------------------------------------------------------------
(* The agent loop                                                           *)

\* A tick or an invalidation: the manager is read before the lock is awaited.
Dispatch ==
    /\ pc = "idle"
    /\ pc' = backend
    /\ UNCHANGED <<roster, memory, sequence, guard, locals, client, saved, boot, managers>>

\* The refresh returns without a commit and its guard is dropped.
Abandon ==
    /\ guard' = "free" /\ LoopIdle
    /\ UNCHANGED <<roster, memory, sequence, client, saved, boot, managers>>

\* A switch may have completed between the dispatch and the lock.
EnterHerdr ==
    /\ pc = "herdr" /\ guard = "free"
    /\ IF backend = "herdr"
       THEN /\ guard' = "loop" /\ pc' = "discover"
            /\ UNCHANGED <<roster, memory, sequence, locals, client, saved, boot, managers>>
       ELSE Abandon

\* No session list: cards stay without actions, everything else is withdrawn.
DiscoveryFails ==
    /\ pc = "discover"
    /\ IF backend # "herdr" THEN Abandon ELSE
       /\ Bump
       /\ conn' = "offline"
       /\ sessions' = [s \in DOMAIN sessions |-> "stale"]
       /\ cards' = [a \in DOMAIN cards |-> [cards[a] EXCEPT !.live = FALSE]]
       /\ order' = DefaultOrder
       /\ targets' = {}
       /\ guard' = "free" /\ LoopIdle
       /\ UNCHANGED <<backend, t3order, memory, client, saved, boot, managers>>

Discover ==
    /\ pc = "discover"
    /\ \E D \in SUBSET HerdrSession : todo' = D
    /\ prev' = cards /\ pc' = "observe"
    /\ UNCHANGED <<roster, memory, sequence, guard, heard, seen, client, saved, boot, managers>>

\* The agents A of a session as the manager reports them now.
Sighting(A, live) ==
    [a \in A |->
        [status |-> world[a].status, seq |-> world[a].seq, acked |-> world[a].acked,
         focused |-> a \in HerdrAgent /\ focus[SessionOf(a)] = a,
         live |-> live, review |-> FALSE]]

\* The cards P carried over from the last snapshot, without actions.
CarriedOver(P) ==
    [a \in DOMAIN P |->
        [status |-> P[a].status, seq |-> 0, acked |-> FALSE, focused |-> FALSE,
         live |-> FALSE, review |-> P[a].review]]

Among(P, A) == [a \in DOMAIN P \cap A |-> P[a]]
Merge(f, g) == [x \in DOMAIN f \cup DOMAIN g |-> IF x \in DOMAIN g THEN g[x] ELSE f[x]]

\* One session of the reconciliation: what it answered, the mode it reports
\* when it does, and the agents the roster gets from it.
Hear(s, state, mode, agents) ==
    /\ pc = "observe" /\ s \in todo
    /\ todo' = todo \ {s}
    /\ heard' = Merge(heard, [x \in {s} |-> [state |-> state, mode |-> mode]])
    /\ seen' = Merge(seen, agents)
    /\ UNCHANGED <<roster, memory, sequence, guard, pc, prev, client, saved, boot, managers>>

SessionConnected(s) ==
    \E A \in SUBSET AgentsOf(s), mode \in Modes :
        Hear(s, "connected", mode, Sighting(A, TRUE))

SessionIncompatible(s) == Hear(s, "incompatible", "none", Empty)

\* Mutant: the actions of an unsubscribed session are left on its cards.
SessionUnsubscribedActs(s) ==
    \E A \in SUBSET AgentsOf(s) : Hear(s, "stale", "none", Sighting(A, TRUE))

\* Observed, but the event subscription or its reconciliation failed.
SessionUnsubscribed(s) ==
    \E A \in SUBSET AgentsOf(s) : Hear(s, "stale", "none", Sighting(A, FALSE))

SessionUnreachable(s) ==
    Hear(s, "stale", "none", CarriedOver(Among(prev, AgentsOf(s))))

ObserveSession(s) ==
    \/ SessionConnected(s)
    \/ SessionIncompatible(s)
    \/ SessionUnsubscribed(s)
    \/ SessionUnreachable(s)

\* The reconciled roster replaces the snapshot, the targets and the latches.
CommitRoster(found, ordering, connection) ==
    /\ Bump
    /\ observed' = NextObserved(found, observed, focused)
    /\ focused' = NextFocused(found)
    /\ cards' = NextCards(found, observed, focused)
    /\ targets' = Live(found)
    /\ sessions' = [s \in DOMAIN heard |-> heard[s].state]
    /\ order' = ordering /\ conn' = connection
    /\ guard' = "free" /\ LoopIdle
    /\ UNCHANGED <<backend, t3order, client, saved, boot, managers>>

Connected(h) == {s \in DOMAIN h : h[s].state = "connected"}

\* Ordering is offered only when every session is connected and they agree.
HerdrOrder(h) ==
    IF \E m \in OrderMode : DOMAIN h # {} /\ \A s \in DOMAIN h : h[s].mode = m
    THEN [available |-> TRUE, mode |-> h[CHOOSE s \in DOMAIN h : TRUE].mode]
    ELSE DefaultOrder

HerdrConnection(h) ==
    IF DOMAIN h = {} THEN "offline"
    ELSE IF Connected(h) = DOMAIN h THEN "connected"
    ELSE IF Connected(h) # {} THEN "degraded" ELSE "reconnecting"

CommitHerdr ==
    /\ pc = "observe" /\ todo = {}
    /\ IF backend = "herdr"
       THEN CommitRoster(seen, HerdrOrder(heard), HerdrConnection(heard))
       ELSE Abandon

EnterThreads ==
    /\ pc = "t3code" /\ guard = "free"
    /\ guard' = "loop" /\ pc' = "threads"
    /\ UNCHANGED <<roster, memory, sequence, locals, client, saved, boot, managers>>

ThreadsUnread == pc = "threads" /\ Abandon

\* One read of T3 Code's projection; only a connected one lists threads.
ReadThreads ==
    /\ pc = "threads" /\ pc' = "commit"
    /\ \E state \in SessionState, A \in SUBSET T3Thread :
        /\ state # "connected" => A = {}
        /\ heard' = [s \in {T3Session} |-> [state |-> state, mode |-> "none"]]
        /\ seen' = Sighting(A, TRUE)
    /\ UNCHANGED <<roster, memory, sequence, guard, todo, prev, client, saved, boot, managers>>

\* While the projection is unreadable the last roster stays, without actions.
ThreadsFound == IF heard[T3Session].state = "stale" THEN CarriedOver(cards) ELSE seen

\* Mutant: the session's state is taken for the connection's.
ThreadsConnectionAsSession == heard[T3Session].state

ThreadsConnection ==
    CASE heard[T3Session].state = "connected" -> "connected"
      [] heard[T3Session].state = "offline" -> "offline"
      [] OTHER -> "reconnecting"

\* Mutant: the manager is not read again before the commit.
CommitThreadsUnchecked ==
    /\ pc = "commit"
    /\ CommitRoster(ThreadsFound,
                    [available |-> heard[T3Session].state = "connected", mode |-> t3order],
                    ThreadsConnection)

CommitThreads ==
    /\ pc = "commit"
    /\ IF backend = "t3code"
       THEN CommitRoster(ThreadsFound,
                         [available |-> heard[T3Session].state = "connected", mode |-> t3order],
                         ThreadsConnection)
       ELSE Abandon

Loop ==
    \/ Dispatch
    \/ EnterHerdr \/ DiscoveryFails \/ Discover
    \/ \E s \in HerdrSession : ObserveSession(s)
    \/ CommitHerdr
    \/ EnterThreads \/ ThreadsUnread \/ ReadThreads \/ CommitThreads

----------------------------------------------------------------------------
(* Portal commands.  A command that does not quote the current sequence is  *)
(* refused without effect, so only the accepted ones are steps.             *)

Begin(c, state) == client[c] = Idle /\ client' = [client EXCEPT ![c] = state]
Answer(c) == client' = [client EXCEPT ![c] = Idle]
At(c, step) == client[c].step = step

\* The card, its target and its actions are read under one lock.
Open(c, a) ==
    /\ a \in DOMAIN cards /\ a \in targets /\ cards[a].live
    /\ Begin(c, [step |-> "open", agent |-> a])
    /\ UNCHANGED <<roster, memory, sequence, guard, pc, locals, saved, boot, managers>>

\* No lock is held while Herdr focuses the agent.
HerdrFocuses(c) ==
    /\ At(c, "open") /\ client[c].agent \in HerdrAgent
    /\ client' = [client EXCEPT ![c].step = "acknowledge"]
    /\ focus' = [focus EXCEPT ![HomeOf[client[c].agent]] = client[c].agent]
    /\ UNCHANGED <<roster, memory, sequence, guard, pc, locals, saved, boot, world>>

\* Opening a thread proves no visit: the latch is left to T3 Code's own metadata.
ThreadOpens(c) ==
    /\ At(c, "open") /\ client[c].agent \in T3Thread
    /\ client' = [client EXCEPT ![c].step = "opened"]
    /\ UNCHANGED <<roster, memory, sequence, guard, pc, locals, saved, boot, managers>>

OpenFails(c) ==
    /\ At(c, "open") /\ Answer(c)
    /\ UNCHANGED <<roster, memory, sequence, guard, pc, locals, saved, boot, managers>>

\* Mutant: only the card is acknowledged.
LatchLeft(known, a) == known

LatchCleared(known, a) ==
    [x \in DOMAIN known |->
        IF x = a THEN [known[x] EXCEPT !.review = FALSE] ELSE known[x]]

\* The latch is cleared on whatever card has the identifier by now.
Acknowledge(c) ==
    LET a == client[c].agent IN
    /\ At(c, "acknowledge")
    /\ client' = [client EXCEPT ![c].step = "opened"]
    /\ IF a \in DOMAIN cards /\ cards[a].review
       THEN /\ Bump
            /\ cards' = [cards EXCEPT ![a].review = FALSE]
            /\ observed' = LatchCleared(observed, a)
            /\ UNCHANGED <<backend, t3order, conn, sessions, order, targets, focused>>
       ELSE UNCHANGED <<roster, memory, sequence>>
    /\ UNCHANGED <<guard, pc, locals, saved, boot, managers>>

\* The window is activated, or is not, and the result is sent.
Opened(c) ==
    /\ At(c, "opened") /\ Answer(c)
    /\ UNCHANGED <<roster, memory, sequence, guard, pc, locals, saved, boot, managers>>
\* Nothing of the previous manager survives into the next one's roster.
ForgetManager ==
    /\ NothingKnown
    /\ conn' = "reconnecting"

\* Mutant: the lock ends with the commit.
FreeWhileSaving(c) == "free"

\* The lock is held until the choice is saved.
HeldWhileSaving(c) == c

Switch(c, m) ==
    /\ guard = "free" /\ m # backend
    /\ Bump
    /\ backend' = m /\ ForgetManager
    /\ guard' = HeldWhileSaving(c)
    /\ Begin(c, [step |-> "save", choice |-> [backend |-> m, order |-> t3order]])
    /\ UNCHANGED <<t3order, pc, locals, saved, boot, managers>>

\* T3 Code has no ordering of its own: the daemon keeps the preference.
OrderThreads(c, m) ==
    /\ guard = "free" /\ backend = "t3code" /\ order.available
    /\ Bump
    /\ t3order' = m /\ order' = [available |-> TRUE, mode |-> m]
    /\ guard' = HeldWhileSaving(c)
    /\ Begin(c, [step |-> "save", choice |-> [backend |-> backend, order |-> m]])
    /\ UNCHANGED <<backend, conn, sessions, cards, targets, memory, pc, locals, saved, boot,
                   managers>>

Release(c) == guard' = IF guard = c THEN "free" ELSE guard

\* The file is replaced by a rename or not at all; a failure is only logged.
Save(c) ==
    /\ At(c, "save") /\ Answer(c) /\ Release(c)
    /\ \/ disk' = client[c].choice /\ unsaved' = FALSE
       \/ disk' = disk /\ unsaved' = TRUE
    /\ UNCHANGED <<roster, memory, sequence, pc, locals, boot, managers>>

\* Herdr's own ordering is set session by session, under the lock.
OrderHerdr(c, m) ==
    /\ guard = "free" /\ backend = "herdr" /\ order.available
    /\ guard' = c
    /\ Begin(c, [step |-> "order", mode |-> m])
    /\ UNCHANGED <<roster, memory, sequence, pc, locals, saved, boot, managers>>

\* Every session took the mode, or none did after compensation, or unknown.
OrderOutcome(c, outcome) ==
    /\ At(c, "order") /\ Answer(c) /\ Release(c)
    /\ IF outcome = "unwound"
       THEN UNCHANGED <<order, sequence>>
       ELSE /\ Bump
            /\ order' = IF outcome = "done" THEN [available |-> TRUE, mode |-> client[c].mode]
                        ELSE DefaultOrder
    /\ UNCHANGED <<backend, t3order, conn, sessions, cards, targets, memory, pc, locals, saved,
                   boot, managers>>

Command(c) ==
    \/ \E a \in Agent : Open(c, a)
    \/ HerdrFocuses(c) \/ ThreadOpens(c) \/ OpenFails(c) \/ Acknowledge(c) \/ Opened(c)
    \/ \E m \in Backend : Switch(c, m)
    \/ \E m \in OrderMode : OrderThreads(c, m) \/ OrderHerdr(c, m)
    \/ Save(c)
    \/ \E outcome \in {"done", "unwound", "unknown"} : OrderOutcome(c, outcome)

----------------------------------------------------------------------------
(* The agent managers                                                       *)

Works(a) ==
    /\ world[a].seq < MaxChange
    /\ \E s \in Reported \ {world[a].status}, k \in BOOLEAN :
        /\ k => a \in T3Thread /\ s = "idle"
        /\ world' = [world EXCEPT ![a] = [status |-> s, seq |-> @.seq + 1, acked |-> k]]
    /\ UNCHANGED <<roster, memory, sequence, guard, pc, locals, client, saved, boot, focus>>

\* A human visits a finished thread in T3 Code itself.
Visits(t) ==
    /\ world[t].status = "done"
    /\ world' = [world EXCEPT ![t].status = "idle", ![t].acked = TRUE]
    /\ UNCHANGED <<roster, memory, sequence, guard, pc, locals, client, saved, boot, focus>>

FocusMoves(s) ==
    /\ \E a \in AgentsOf(s) \cup {NoAgent} : focus' = [focus EXCEPT ![s] = a]
    /\ UNCHANGED <<roster, memory, sequence, guard, pc, locals, client, saved, boot, world>>

Managers ==
    \/ \E a \in Agent : Works(a)
    \/ \E t \in T3Thread : Visits(t)
    \/ \E s \in HerdrSession : FocusMoves(s)

Next == Loop \/ (\E c \in Client : Command(c)) \/ Managers \/ Restart

Spec == Init /\ [][Next]_vars

----------------------------------------------------------------------------
(* What the daemon promises                                                 *)

\* Whatever a reconciliation was doing when the manager was switched, every
\* card, target, latch, focus and session on the roster is the selected manager's.
RosterFromCurrentManager ==
    /\ \A a \in DOMAIN cards \cup targets \cup DOMAIN observed : ManagerOf(a) = backend
    /\ \A s \in DOMAIN sessions \cup DOMAIN focused : ManagerOfSession(s) = backend

\* What the portal offers is what the daemon can do.  A card offers actions exactly
\* when its target is held, and only while its session is connected; ordering is
\* offered for a whole roster only, every session connected, and for T3 Code the mode
\* shown is the daemon's own.
OffersNeedConnection ==
    /\ targets = {a \in DOMAIN cards : cards[a].live}
    /\ \A a \in targets :
          SessionOf(a) \in DOMAIN sessions /\ sessions[SessionOf(a)] = "connected"
    /\ order.available =>
          /\ DOMAIN sessions # {} /\ conn = "connected"
          /\ \A s \in DOMAIN sessions : sessions[s] = "connected"
          /\ backend = "t3code" => order.mode = t3order

\* The latch the portal shows and the latch the next reconciliation starts from
\* are the same one, so an acknowledgement cannot come back; and a live card asks for
\* review only of an agent that was seen to stop.
LatchesAgree ==
    /\ targets \subseteq DOMAIN observed /\ DOMAIN observed \subseteq DOMAIN cards
    /\ \A a \in DOMAIN cards :
          cards[a].review = (a \in DOMAIN observed /\ observed[a].review)
    /\ \A a \in targets : cards[a].review => cards[a].status \in Finished

\* With no command inside the lock, a daemon that restarts comes back to the
\* manager and ordering it has now, unless the last save failed.
SavedChoiceIsCurrent ==
    guard \notin Client /\ ~unsaved =>
        Restored(disk) = [backend |-> backend, order |-> t3order]

\* What a portal can act on never changes under one sequence of one daemon run:
\* a command that quotes it means the roster the user saw.
SequenceCoversRoster ==
    [][boot' = boot /\ UNCHANGED sequence => UNCHANGED roster]_vars

\* A latch rises only with a state the daemon had not seen, never again for a
\* completion already acknowledged.
LatchRisesOnNewState ==
    [][\A a \in DOMAIN observed \cap DOMAIN observed' :
         ~observed[a].review /\ observed'[a].review =>
            /\ observed'[a].status \in Finished
            /\ <<observed'[a].status, observed'[a].seq>> # <<observed[a].status, observed[a].seq>>
      ]_vars

\* A latch of an agent that stays on the roster falls only when someone looked
\* at it (a portal open, a focus change, T3 Code's visit) or it started again.
LatchFallsOnlyWhenSeen ==
    [][\A a \in DOMAIN observed \cap DOMAIN observed' :
         observed[a].review /\ ~observed'[a].review =>
            \/ observed'[a].status \notin Finished
            \/ \E c \in Client : client[c] = [step |-> "acknowledge", agent |-> a]
            \/ SessionOf(a) \in DOMAIN focused /\ focused[SessionOf(a)] # a
               /\ focused'[SessionOf(a)] = a
            \/ a \in T3Thread /\ seen[a].acked
      ]_vars

\* The ordering offered changes as OrderPromise says, beside switches, restarts and
\* reconciliations of either manager: the one step OrderOutcome stands for what the
\* steps of AgentOrder do, which keep the same promise.
Lock == INSTANCE OrderPromise WITH
    offer <- order, holder <- guard,
    wanted <- IF guard \in Client /\ client[guard].step = "order" THEN client[guard].mode
              ELSE "none"
OrdersAsPromised == Lock!Spec
=============================================================================
