------------------------- MODULE AgentDaemonProofs -------------------------
(***************************************************************************)
(* Proofs about the agent daemon's core for every set of sessions, agents, *)
(* threads and clients: type correctness, the roster belongs to the        *)
(* selected manager, the choice on disk is the choice in memory, the       *)
(* offers, the sequence, and how review latches rise and fall.             *)
(***************************************************************************)
EXTENDS AgentDaemon, TLAPS

----------------------------------------------------------------------------
(* The inductive invariant                                                  *)

\* The steps of a reconciliation that hold the operation lock.
Reconciling == {"discover", "observe", "threads", "commit"}

\* The loop holds the lock exactly while it reconciles.
LoopLock == guard = "loop" <=> pc \in Reconciling

\* What the reconciliation has collected comes from the manager it asks.
LoopLocals ==
    /\ pc \in {"idle", "herdr", "t3code", "discover", "threads"} =>
          DOMAIN heard = {} /\ DOMAIN seen = {}
    /\ pc = "observe" => DOMAIN heard \subseteq HerdrSession /\ DOMAIN seen \subseteq HerdrAgent
    /\ pc = "commit" => DOMAIN heard = {T3Session} /\ DOMAIN seen \subseteq T3Thread

\* A client holds the lock exactly while its command orders or saves, and what
\* it saves is what is in memory.
ClientLock ==
    /\ \A c \in Client : client[c].step \in {"save", "order"} => guard = c
    /\ guard \in Client => client[guard].step \in {"save", "order"}
    /\ \A c \in Client :
          client[c].step = "save" => client[c].choice = [backend |-> backend, order |-> t3order]

\* Outside a save the file is the memory, unless the last save failed.
DiskAgrees ==
    ~unsaved /\ (\A c \in Client : client[c].step # "save") =>
        Restored(disk) = [backend |-> backend, order |-> t3order]

LockInv == LoopLock /\ ClientLock /\ DiskAgrees
RosterInv == LoopLocals /\ RosterFromCurrentManager

----------------------------------------------------------------------------
(* Types of the operators the reconciliation is built from                  *)

LEMMA SessionOfType == \A a \in Agent : SessionOf(a) \in Session
  BY SessionsAssumption DEF SessionOf, Session, Agent

LEMMA LatchType ==
  ASSUME NEW S, NEW O, NEW F, NEW a
  PROVE  Latch(S, O, F, a) \in BOOLEAN
  BY DEF Latch

\* A sighting is an observation of the agents asked about.
LEMMA SightingType ==
  ASSUME TypeOK, NEW A \in SUBSET Agent, NEW l \in BOOLEAN
  PROVE  Partial(Sighting(A, l), Agent, Seen) /\ DOMAIN Sighting(A, l) = A
  BY DEF TypeOK, Sighting, Seen, Partial

\* Cards carried over are an observation of the same agents.
LEMMA CarriedOverType ==
  ASSUME NEW P, Partial(P, Agent, Card)
  PROVE  Partial(CarriedOver(P), Agent, Seen) /\ DOMAIN CarriedOver(P) = DOMAIN P
  BY DEF CarriedOver, Seen, Partial, Card

LEMMA AmongType ==
  ASSUME NEW P, NEW T, NEW A, Partial(P, Agent, T)
  PROVE  Partial(Among(P, A), Agent, T) /\ DOMAIN Among(P, A) = DOMAIN P \cap A
  BY DEF Among, Partial

LEMMA MergeType ==
  ASSUME NEW f, NEW g, NEW S, NEW T, Partial(f, S, T), Partial(g, S, T)
  PROVE  Partial(Merge(f, g), S, T) /\ DOMAIN Merge(f, g) = DOMAIN f \cup DOMAIN g
  BY DEF Merge, Partial

LEMMA EmptyType ==
  ASSUME NEW S, NEW T
  PROVE  Partial(Empty, S, T) /\ DOMAIN Empty = {}
  BY DEF Empty, Partial

LEMMA NextObservedType ==
  ASSUME NEW S, Partial(S, Agent, Seen), NEW O, Partial(O, Agent, Observed), NEW F
  PROVE  /\ Partial(NextObserved(S, O, F), Agent, Observed)
         /\ DOMAIN NextObserved(S, O, F) \subseteq DOMAIN S
  BY LatchType DEF NextObserved, Partial, Seen, Observed, Live

LEMMA NextCardsType ==
  ASSUME NEW S, Partial(S, Agent, Seen), NEW O, Partial(O, Agent, Observed), NEW F
  PROVE  /\ Partial(NextCards(S, O, F), Agent, Card)
         /\ DOMAIN NextCards(S, O, F) = DOMAIN S
  <1> DEFINE r(a) == CASE a \in Live(S) -> Latch(S, O, F, a)
                       [] a \in DOMAIN O \ Live(S) -> O[a].review
                       [] OTHER -> S[a].review
  <1>1. \A a \in DOMAIN S : r(a) \in BOOLEAN
    BY LatchType DEF Partial, Seen, Observed
  <1>2. NextCards(S, O, F) =
          [a \in DOMAIN S |-> [status |-> S[a].status, live |-> S[a].live, review |-> r(a)]]
    BY DEF NextCards
  <1> HIDE DEF r
  <1> QED
    BY <1>1, <1>2 DEF Partial, Seen, Card

LEMMA FocusInType ==
  ASSUME NEW S, Partial(S, Agent, Seen), NEW s
  PROVE  FocusIn(S, s) \in Agent \cup {NoAgent}
  BY DEF FocusIn, Live, Partial

LEMMA NextFocusedType ==
  ASSUME NEW S, Partial(S, Agent, Seen)
  PROVE  /\ Partial(NextFocused(S), Session, Agent \cup {NoAgent})
         /\ DOMAIN NextFocused(S) = {SessionOf(a) : a \in Live(S)}
  <1>1. Live(S) \subseteq Agent
    BY DEF Live, Partial
  <1>2. {SessionOf(a) : a \in Live(S)} \subseteq Session
    BY <1>1, SessionOfType
  <1>3. DOMAIN NextFocused(S) = {SessionOf(a) : a \in Live(S)}
    BY DEF NextFocused, ConnectedSessions
  <1>4. NextFocused(S) \in [DOMAIN NextFocused(S) -> Agent \cup {NoAgent}]
    BY FocusInType DEF NextFocused
  <1> QED
    BY <1>2, <1>3, <1>4 DEF Partial

LEMMA HerdrOrderType ==
  ASSUME NEW h, Partial(h, Session, Heard)
  PROVE  HerdrOrder(h) \in OrderSnapshot
  <1>1. CASE \E m \in OrderMode : DOMAIN h # {} /\ \A s \in DOMAIN h : h[s].mode = m
    <2>1. (CHOOSE s \in DOMAIN h : TRUE) \in DOMAIN h
      BY <1>1
    <2>2. h[CHOOSE s \in DOMAIN h : TRUE].mode \in OrderMode
      BY <1>1, <2>1
    <2> QED
      BY <1>1, <2>2 DEF HerdrOrder, OrderSnapshot
  <1>2. CASE ~\E m \in OrderMode : DOMAIN h # {} /\ \A s \in DOMAIN h : h[s].mode = m
    BY <1>2 DEF HerdrOrder, DefaultOrder, OrderSnapshot, OrderMode
  <1> QED
    BY <1>1, <1>2

LEMMA RestoredType ==
  ASSUME NEW d \in Choice \cup {NoFile}
  PROVE  Restored(d) \in Choice
  BY DaemonAssumption DEF Restored, Choice, OrderMode

\* What the fields of a client's record are, by its step.
LEMMA ClientStateType ==
  ASSUME NEW r \in ClientState
  PROVE  /\ r.step \in {"open", "acknowledge", "opened"} =>
               r \in [step : {"open", "acknowledge", "opened"}, agent : Agent]
         /\ r.step = "order" => r \in [step : {"order"}, mode : OrderMode]
         /\ r.step = "save" => r \in [step : {"save"}, choice : Choice]
  BY DEF ClientState, Idle

LEMMA ClientStateMembers ==
  /\ Idle \in ClientState
  /\ \A a \in Agent : [step |-> "open", agent |-> a] \in ClientState
  /\ \A m \in OrderMode : [step |-> "order", mode |-> m] \in ClientState
  /\ \A d \in Choice : [step |-> "save", choice |-> d] \in ClientState
  BY DEF ClientState

----------------------------------------------------------------------------
(* Type correctness                                                         *)

LEMMA TypeInit == Init => TypeOK
  <1> SUFFICES ASSUME Init PROVE TypeOK
    OBVIOUS
  <1>1. Restored(disk) \in Choice
    BY RestoredType DEF Init
  <1>2. world \in [Agent -> [status : AgentStatus, seq : Nat, acked : BOOLEAN]]
    <2> DEFINE A == [status : Reported, seq : {0}, acked : {FALSE}]
               B == [status : AgentStatus, seq : Nat, acked : BOOLEAN]
    <2>1. ASSUME NEW r \in A PROVE r \in B
      <3>1. r.status \in AgentStatus /\ r.seq \in Nat /\ r.acked \in BOOLEAN
        <4>1. r.status \in AgentStatus
          BY DaemonAssumption DEF DaemonAssumption
        <4>2. r.seq \in Nat
          OBVIOUS
        <4>3. r.acked \in BOOLEAN
          OBVIOUS
        <4> QED
          BY <4>1, <4>2, <4>3
      <3>2. r = [status |-> r.status, seq |-> r.seq, acked |-> r.acked]
        OBVIOUS
      <3> QED
        BY <3>1, <3>2
    <2>2. world \in [Agent -> A]
      BY DEF Init
    <2> HIDE DEF A, B
    <2>3. world \in [Agent -> B]
      BY <2>1, <2>2
    <2> QED
      BY <2>3 DEF B
  <1> QED
    BY <1>1, <1>2, EmptyType, ClientStateMembers
    DEF Init, TypeOK, Choice, ConnectionState, DefaultOrder, OrderSnapshot, OrderMode

\* A commit of what was observed.
LEMMA TypeCommit ==
  ASSUME TypeOK, NEW found, Partial(found, Agent, Seen), NEW ordering \in OrderSnapshot,
         NEW connection \in ConnectionState, CommitRoster(found, ordering, connection)
  PROVE  TypeOK'
  <1>1. Partial(observed', Agent, Observed) /\ Partial(cards', Agent, Card)
    BY NextObservedType, NextCardsType DEF CommitRoster, TypeOK
  <1>2. Partial(focused', Session, Agent \cup {NoAgent})
    BY NextFocusedType DEF CommitRoster
  <1>3. targets' \in SUBSET Agent
    BY DEF CommitRoster, Live, Partial
  <1>4. Partial(sessions', Session, SessionState)
    BY DEF CommitRoster, TypeOK, Partial, Heard
  <1> QED
    BY <1>1, <1>2, <1>3, <1>4, EmptyType
    DEF CommitRoster, TypeOK, Bump, LoopIdle, saved, managers

LEMMA TypeAbandon == TypeOK /\ Abandon => TypeOK'
  BY EmptyType DEF TypeOK, Abandon, LoopIdle, roster, memory, saved, managers

LEMMA TypeLoop == TypeOK /\ Loop => TypeOK'
  <1> SUFFICES ASSUME TypeOK, Loop PROVE TypeOK'
    OBVIOUS
  <1> USE DEF roster, memory, locals, saved, managers
  <1>1. CASE Dispatch
    BY <1>1 DEF Dispatch, TypeOK, Backend
  <1>2. CASE EnterHerdr
    BY <1>2, TypeAbandon DEF EnterHerdr, TypeOK
  <1>3. CASE DiscoveryFails
    <2>1. CASE backend # "herdr"
      BY <1>3, <2>1, TypeAbandon DEF DiscoveryFails
    <2>2. CASE backend = "herdr"
      <3>1. Partial(sessions', Session, SessionState)
        BY <1>3, <2>2 DEF DiscoveryFails, TypeOK, Partial, SessionState
      <3>2. Partial(cards', Agent, Card)
        <4>1. \A r \in Card : [r EXCEPT !.live = FALSE] \in Card
          BY DEF Card
        <4>2. cards' = [a \in DOMAIN cards |-> [cards[a] EXCEPT !.live = FALSE]]
          BY <1>3, <2>2 DEF DiscoveryFails
        <4> QED
          BY <4>1, <4>2 DEF TypeOK, Partial
      <3>3. order' = DefaultOrder /\ conn' = "offline" /\ Bump
        BY <1>3, <2>2 DEF DiscoveryFails
      <3>4. order' \in OrderSnapshot /\ conn' \in ConnectionState
        BY <3>3 DEF ConnectionState, DefaultOrder, OrderSnapshot, OrderMode
      <3>5. sequence' \in Nat
        BY <3>3 DEF Bump, TypeOK
      <3> QED
        BY <1>3, <2>2, <3>1, <3>2, <3>4, <3>5, EmptyType DEF DiscoveryFails, TypeOK, LoopIdle
    <2> QED
      BY <2>1, <2>2
  <1>4. CASE Discover
    BY <1>4 DEF Discover, TypeOK
  <1>5. CASE \E s \in HerdrSession : ObserveSession(s)
    <2>1. PICK s \in HerdrSession : ObserveSession(s)
      BY <1>5
    <2>2. PICK state, mode, agents :
             /\ state \in SessionState /\ mode \in OrderMode \cup {"none"}
             /\ Hear(s, state, mode, agents) /\ Partial(agents, Agent, Seen)
      <3> DEFINE A == AgentsOf(s)
      <3>1. A \in SUBSET Agent
        BY DEF AgentsOf, Agent
      <3> HIDE DEF A
      <3>2. CASE SessionConnected(s)
        BY <3>1, <3>2, SightingType, DaemonAssumption DEF SessionConnected, SessionState, A
      <3>3. CASE SessionIncompatible(s)
        BY <3>3, EmptyType DEF SessionIncompatible, SessionState
      <3>4. CASE SessionUnsubscribed(s)
        BY <3>1, <3>4, SightingType DEF SessionUnsubscribed, SessionState, A
      <3>5. CASE SessionUnreachable(s)
        <4>1. Partial(CarriedOver(Among(prev, A)), Agent, Seen)
          BY AmongType, CarriedOverType DEF TypeOK
        <4> QED
          BY <3>5, <4>1 DEF SessionUnreachable, SessionState, A
      <3> QED
        BY <2>1, <3>2, <3>3, <3>4, <3>5 DEF ObserveSession
    <2> DEFINE entry == [x \in {s} |-> [state |-> state, mode |-> mode]]
    <2>3. Partial(entry, Session, Heard)
      BY <2>2 DEF Partial, Heard, Session
    <2>4. heard' = Merge(heard, entry) /\ seen' = Merge(seen, agents) /\ todo' = todo \ {s}
      BY <2>2 DEF Hear
    <2> HIDE DEF entry
    <2>5. Partial(heard', Session, Heard) /\ Partial(seen', Agent, Seen)
      BY <2>2, <2>3, <2>4, MergeType DEF TypeOK
    <2> QED
      BY <2>2, <2>4, <2>5 DEF Hear, TypeOK
  <1>6. CASE CommitHerdr
    <2>1. HerdrOrder(heard) \in OrderSnapshot
      BY HerdrOrderType DEF TypeOK
    <2>2. HerdrConnection(heard) \in ConnectionState
      BY DEF HerdrConnection, ConnectionState
    <2> QED
      BY <1>6, <2>1, <2>2, TypeCommit, TypeAbandon DEF CommitHerdr, TypeOK
  <1>7. CASE EnterThreads
    BY <1>7 DEF EnterThreads, TypeOK
  <1>8. CASE ThreadsUnread
    BY <1>8, TypeAbandon DEF ThreadsUnread
  <1>9. CASE ReadThreads
    <2>1. PICK state \in SessionState, A \in SUBSET T3Thread :
             /\ heard' = [s \in {T3Session} |-> [state |-> state, mode |-> "none"]]
             /\ seen' = Sighting(A, TRUE)
      BY <1>9 DEF ReadThreads
    <2>2. Partial(heard', Session, Heard)
      BY <2>1 DEF Partial, Session, Heard
    <2>3. Partial(seen', Agent, Seen)
      BY <2>1, SightingType DEF Agent
    <2> QED
      BY <1>9, <2>2, <2>3 DEF ReadThreads, TypeOK
  <1>10. CASE CommitThreads
    <2>1. Partial(ThreadsFound, Agent, Seen)
      BY CarriedOverType DEF ThreadsFound, TypeOK
    <2>2. ThreadsConnection \in ConnectionState
      BY DEF ThreadsConnection, ConnectionState
    <2>3. [available |-> heard[T3Session].state = "connected", mode |-> t3order] \in OrderSnapshot
      BY DEF TypeOK, OrderSnapshot
    <2> QED
      BY <1>10, <2>1, <2>2, <2>3, TypeCommit, TypeAbandon DEF CommitThreads
  <1> QED
    BY <1>1, <1>2, <1>3, <1>4, <1>5, <1>6, <1>7, <1>8, <1>9, <1>10 DEF Loop

\* A client's record after each way a command changes it.
LEMMA TypeClient ==
  ASSUME TypeOK, NEW c \in Client, NEW r \in ClientState
  PROVE  [client EXCEPT ![c] = r] \in [Client -> ClientState]
  BY DEF TypeOK

LEMMA TypeClientStep ==
  ASSUME TypeOK, NEW c \in Client, client[c].step \in {"open", "acknowledge"},
         NEW s \in {"acknowledge", "opened"}
  PROVE  /\ client[c].agent \in Agent
         /\ [client EXCEPT ![c].step = s] \in [Client -> ClientState]
  <1> DEFINE Opening == [step : {"open", "acknowledge", "opened"}, agent : Agent]
  <1>1. client[c] \in Opening
    BY ClientStateType DEF TypeOK
  <1>2. [client[c] EXCEPT !.step = s] \in Opening
    BY <1>1
  <1>3. Opening \subseteq ClientState
    BY DEF ClientState
  <1> HIDE DEF Opening
  <1>4. [client EXCEPT ![c] = [client[c] EXCEPT !.step = s]] \in [Client -> ClientState]
    BY <1>2, <1>3, TypeClient
  <1> QED
    BY <1>1, <1>4 DEF Opening

LEMMA TypeCommand == ASSUME TypeOK, NEW c \in Client, Command(c) PROVE TypeOK'
  <1> USE DEF roster, memory, locals, saved, managers
  <1>1. ASSUME NEW a \in Agent, Open(c, a) PROVE TypeOK'
    <2>1. [step |-> "open", agent |-> a] \in ClientState
      BY ClientStateMembers
    <2>2. client' \in [Client -> ClientState]
      BY <1>1, <2>1, TypeClient DEF Open, Begin
    <2> QED
      BY <1>1, <2>2 DEF Open, TypeOK
  <1>2. CASE HerdrFocuses(c)
    <2>1. client' \in [Client -> ClientState]
      BY <1>2, TypeClientStep DEF HerdrFocuses, At
    <2>2. focus' \in [HerdrSession -> HerdrAgent \cup {NoAgent}]
      BY <1>2 DEF HerdrFocuses, TypeOK
    <2> QED
      BY <1>2, <2>1, <2>2 DEF HerdrFocuses, TypeOK
  <1>3. CASE ThreadOpens(c)
    <2>1. client' \in [Client -> ClientState]
      BY <1>3, TypeClientStep DEF ThreadOpens, At
    <2> QED
      BY <1>3, <2>1 DEF ThreadOpens, TypeOK
  <1>4. ASSUME Answer(c) PROVE client' \in [Client -> ClientState]
    BY <1>4, ClientStateMembers, TypeClient DEF Answer
  <1>5. CASE OpenFails(c)
    BY <1>4, <1>5 DEF OpenFails, TypeOK
  <1>6. CASE Acknowledge(c)
    <2>1. client' \in [Client -> ClientState]
      BY <1>6, TypeClientStep DEF Acknowledge, At
    <2> DEFINE a == client[c].agent
    <2>2. CASE a \in DOMAIN cards /\ cards[a].review
      <3>1. Bump /\ cards' = [cards EXCEPT ![a].review = FALSE]
                 /\ observed' = LatchCleared(observed, a)
        BY <1>6, <2>2 DEF Acknowledge
      <3>2. Partial(cards', Agent, Card)
        <4>1. cards[a] \in Card
          BY <2>2 DEF TypeOK, Partial
        <4>2. [cards[a] EXCEPT !.review = FALSE] \in Card
          BY <4>1 DEF Card
        <4> QED
          BY <3>1, <4>2 DEF TypeOK, Partial
      <3>3. Partial(observed', Agent, Observed)
        <4>1. \A r \in Observed : [r EXCEPT !.review = FALSE] \in Observed
          BY DEF Observed
        <4> QED
          BY <3>1, <4>1 DEF TypeOK, Partial, LatchCleared
      <3> QED
        BY <1>6, <2>1, <2>2, <3>1, <3>2, <3>3 DEF Acknowledge, TypeOK, Bump
    <2>3. CASE ~(a \in DOMAIN cards /\ cards[a].review)
      BY <1>6, <2>1, <2>3 DEF Acknowledge, TypeOK
    <2> QED
      BY <2>2, <2>3
  <1>7. CASE Opened(c)
    BY <1>4, <1>7 DEF Opened, TypeOK
  <1>8. ASSUME NEW m \in Backend, Switch(c, m) PROVE TypeOK'
    <2>1. [backend |-> m, order |-> t3order] \in Choice
      BY DEF TypeOK, Choice
    <2>2. client' \in [Client -> ClientState]
      BY <1>8, <2>1, ClientStateMembers, TypeClient DEF Switch, Begin
    <2>3. order' \in OrderSnapshot /\ conn' \in ConnectionState /\ sequence' \in Nat
      BY <1>8
      DEF Switch, ForgetManager, NothingKnown, DefaultOrder, OrderSnapshot, OrderMode,
          ConnectionState, Bump, TypeOK
    <2> QED
      BY <1>8, <2>2, <2>3, EmptyType
      DEF Switch, ForgetManager, NothingKnown, HeldWhileSaving, TypeOK
  <1>9. ASSUME NEW m \in OrderMode, OrderThreads(c, m) PROVE TypeOK'
    <2>1. [backend |-> backend, order |-> m] \in Choice
      BY DEF TypeOK, Choice
    <2>2. client' \in [Client -> ClientState]
      BY <1>9, <2>1, ClientStateMembers, TypeClient DEF OrderThreads, Begin
    <2>3. order' \in OrderSnapshot /\ sequence' \in Nat
      BY <1>9 DEF OrderThreads, OrderSnapshot, Bump, TypeOK
    <2> QED
      BY <1>9, <2>2, <2>3 DEF OrderThreads, HeldWhileSaving, TypeOK
  <1>10. CASE Save(c)
    <2>1. client[c].choice \in Choice
      BY <1>10, ClientStateType DEF Save, At, TypeOK
    <2>2. disk' \in Choice \cup {NoFile}
      BY <1>10, <2>1 DEF Save, TypeOK
    <2>3. unsaved' \in BOOLEAN
      BY <1>10 DEF Save
    <2> QED
      BY <1>4, <1>10, <2>2, <2>3 DEF Save, Release, TypeOK
  <1>11. ASSUME NEW m \in OrderMode, OrderHerdr(c, m) PROVE TypeOK'
    <2>1. client' \in [Client -> ClientState]
      BY <1>11, ClientStateMembers, TypeClient DEF OrderHerdr, Begin
    <2> QED
      BY <1>11, <2>1 DEF OrderHerdr, TypeOK
  <1>12. ASSUME NEW o, OrderOutcome(c, o) PROVE TypeOK'
    <2>1. client[c].mode \in OrderMode
      BY <1>12, ClientStateType DEF OrderOutcome, At, TypeOK
    <2>2. CASE o = "unwound"
      BY <1>4, <1>12, <2>2 DEF OrderOutcome, Release, TypeOK
    <2>3. CASE o # "unwound"
      <3>1. /\ DefaultOrder \in OrderSnapshot
            /\ [available |-> TRUE, mode |-> client[c].mode] \in OrderSnapshot
        BY <2>1 DEF DefaultOrder, OrderSnapshot, OrderMode
      <3>2. order' \in OrderSnapshot
        BY <1>12, <2>3, <3>1 DEF OrderOutcome
      <3>3. sequence' \in Nat
        BY <1>12, <2>3 DEF OrderOutcome, Bump, TypeOK
      <3> QED
        BY <1>4, <1>12, <3>2, <3>3 DEF OrderOutcome, Release, TypeOK
    <2> QED
      BY <2>2, <2>3
  <1> QED
    BY <1>1, <1>2, <1>3, <1>5, <1>6, <1>7, <1>8, <1>9, <1>10, <1>11, <1>12 DEF Command

LEMMA TypeManagers == TypeOK /\ Managers => TypeOK'
  <1> SUFFICES ASSUME TypeOK, Managers PROVE TypeOK'
    OBVIOUS
  <1> USE DEF roster, memory, locals, saved, managers
  <1> DEFINE State == [status : AgentStatus, seq : Nat, acked : BOOLEAN]
  <1>1. ASSUME NEW a \in Agent, Works(a) PROVE TypeOK'
    <2>1. PICK s \in Reported, k \in BOOLEAN :
             world' = [world EXCEPT ![a] = [status |-> s, seq |-> @.seq + 1, acked |-> k]]
      BY <1>1 DEF Works
    <2>2. [status |-> s, seq |-> world[a].seq + 1, acked |-> k] \in State
      BY DaemonAssumption DEF DaemonAssumption, TypeOK
    <2>3. world' \in [Agent -> State]
      BY <2>1, <2>2 DEF TypeOK
    <2> QED
      BY <1>1, <2>3 DEF Works, TypeOK
  <1>2. ASSUME NEW t \in T3Thread, Visits(t) PROVE TypeOK'
    <2>1. t \in Agent /\ "idle" \in AgentStatus
      BY DEF Agent, AgentStatus
    <2>2. [world[t] EXCEPT !.status = "idle", !.acked = TRUE] \in State
      BY <2>1 DEF TypeOK
    <2>3. world' = [world EXCEPT ![t] = [world[t] EXCEPT !.status = "idle", !.acked = TRUE]]
      BY <1>2, <2>1 DEF Visits, TypeOK
    <2>4. world' \in [Agent -> State]
      BY <2>1, <2>2, <2>3 DEF TypeOK
    <2> QED
      BY <1>2, <2>4 DEF Visits, TypeOK
  <1>3. ASSUME NEW s \in HerdrSession, FocusMoves(s) PROVE TypeOK'
    BY <1>3 DEF FocusMoves, AgentsOf, TypeOK
  <1> QED
    BY <1>1, <1>2, <1>3 DEF Managers

LEMMA TypeRestart == TypeOK /\ Restart => TypeOK'
  <1> SUFFICES ASSUME TypeOK, Restart PROVE TypeOK'
    OBVIOUS
  <1>1. Restored(disk) \in Choice
    BY RestoredType DEF TypeOK
  <1>2. backend' \in Backend /\ t3order' \in OrderMode
    BY <1>1 DEF Restart, Choice
  <1>3. order' \in OrderSnapshot /\ conn' \in ConnectionState
    BY DEF Restart, NothingKnown, DefaultOrder, OrderSnapshot, OrderMode, ConnectionState
  <1>4. client' \in [Client -> ClientState]
    BY ClientStateMembers DEF Restart
  <1>5. boot' \in Nat
    BY DEF Restart, TypeOK
  <1>6. unsaved' \in BOOLEAN
    BY DEF Restart
  <1> QED
    BY <1>2, <1>3, <1>4, <1>5, <1>6, EmptyType DEF Restart, NothingKnown, LoopIdle, TypeOK, managers

\* Every state of every daemon run is well typed: in particular no reconciliation
\* or command leaves a record of the wrong manager's or step's shape behind.
THEOREM TypeCorrect == Spec => []TypeOK
  <1>1. TypeOK /\ [Next]_vars => TypeOK'
    <2> SUFFICES ASSUME TypeOK, [Next]_vars PROVE TypeOK'
      OBVIOUS
    <2>1. CASE Next
      BY <2>1, TypeLoop, TypeCommand, TypeManagers, TypeRestart DEF Next
    <2>2. CASE UNCHANGED vars
      BY <2>2 DEF vars, roster, memory, locals, saved, managers, TypeOK
    <2> QED
      BY <2>1, <2>2
  <1> QED
    BY <1>1, TypeInit, PTL DEF Spec

----------------------------------------------------------------------------
(* The roster is the selected manager's                                     *)

\* The manager of an agent, and of a session, is told by the sets they are in.
LEMMA ManagerFacts ==
  /\ \A a \in HerdrAgent : ManagerOf(a) = "herdr" /\ ManagerOfSession(SessionOf(a)) = "herdr"
  /\ \A a \in T3Thread : ManagerOf(a) = "t3code" /\ ManagerOfSession(SessionOf(a)) = "t3code"
  /\ \A s \in HerdrSession : ManagerOfSession(s) = "herdr"
  /\ ManagerOfSession(T3Session) = "t3code"
  BY SessionsAssumption DEF ManagerOf, ManagerOfSession, SessionOf

\* Carried-over threads are threads.
LEMMA ThreadsFoundOwn ==
  ASSUME RosterInv, TypeOK, pc = "commit", backend = "t3code"
  PROVE  DOMAIN ThreadsFound \subseteq T3Thread
  <1>1. DOMAIN cards \subseteq T3Thread
    BY DEF RosterInv, RosterFromCurrentManager, ManagerOf, TypeOK, Partial, Agent
  <1>2. DOMAIN CarriedOver(cards) = DOMAIN cards
    BY DEF CarriedOver
  <1> QED
    BY <1>1, <1>2 DEF ThreadsFound, RosterInv, LoopLocals

\* A commit whose agents and sessions are one manager's leaves a roster of that manager.
LEMMA CommitOwn ==
  ASSUME TypeOK, NEW found, Partial(found, Agent, Seen), NEW ordering, NEW connection,
         CommitRoster(found, ordering, connection),
         \A a \in DOMAIN found :
            ManagerOf(a) = backend /\ ManagerOfSession(SessionOf(a)) = backend,
         \A s \in DOMAIN heard : ManagerOfSession(s) = backend
  PROVE  RosterInv'
  <1>1. DOMAIN cards' = DOMAIN found /\ DOMAIN observed' \subseteq DOMAIN found
    BY NextObservedType, NextCardsType DEF CommitRoster, TypeOK
  <1>2. targets' \subseteq DOMAIN found
    BY DEF CommitRoster, Live
  <1>3. DOMAIN focused' = {SessionOf(a) : a \in Live(found)}
    BY NextFocusedType DEF CommitRoster
  <1>4. DOMAIN sessions' = DOMAIN heard /\ backend' = backend
    BY DEF CommitRoster
  <1>5. RosterFromCurrentManager'
    BY <1>1, <1>2, <1>3, <1>4 DEF RosterFromCurrentManager, Live
  <1>6. LoopLocals'
    BY EmptyType DEF CommitRoster, LoopIdle, LoopLocals
  <1> QED
    BY <1>5, <1>6 DEF RosterInv

LEMMA AbandonOwn == RosterInv /\ Abandon => RosterInv'
  BY EmptyType
  DEF Abandon, LoopIdle, RosterInv, RosterFromCurrentManager, LoopLocals, roster, memory

LEMMA RosterLoop == TypeOK /\ RosterInv /\ Loop => RosterInv'
  <1> SUFFICES ASSUME TypeOK, RosterInv, Loop PROVE RosterInv'
    OBVIOUS
  <1> USE DEF roster, memory, locals
  <1>1. CASE Dispatch
    BY <1>1 DEF Dispatch, RosterInv, RosterFromCurrentManager, LoopLocals, TypeOK, Backend
  <1>2. CASE EnterHerdr
    BY <1>2, AbandonOwn DEF EnterHerdr, RosterInv, RosterFromCurrentManager, LoopLocals
  <1>3. CASE DiscoveryFails
    BY <1>3, AbandonOwn, EmptyType
    DEF DiscoveryFails, LoopIdle, RosterInv, RosterFromCurrentManager, LoopLocals
  <1>4. CASE Discover
    BY <1>4 DEF Discover, RosterInv, RosterFromCurrentManager, LoopLocals
  <1>5. CASE \E s \in HerdrSession : ObserveSession(s)
    <2>1. PICK s \in HerdrSession : ObserveSession(s)
      BY <1>5
    <2>2. PICK state, mode, agents :
             Hear(s, state, mode, agents) /\ DOMAIN agents \subseteq HerdrAgent
      <3>1. CASE SessionConnected(s)
        BY <3>1 DEF SessionConnected, Sighting, AgentsOf
      <3>2. CASE SessionIncompatible(s)
        BY <3>2 DEF SessionIncompatible, Empty
      <3>3. CASE SessionUnsubscribed(s)
        BY <3>3 DEF SessionUnsubscribed, Sighting, AgentsOf
      <3>4. CASE SessionUnreachable(s)
        BY <3>4 DEF SessionUnreachable, CarriedOver, Among, AgentsOf
      <3> QED
        BY <2>1, <3>1, <3>2, <3>3, <3>4 DEF ObserveSession
    <2>3. DOMAIN heard' = DOMAIN heard \cup {s} /\ DOMAIN seen' = DOMAIN seen \cup DOMAIN agents
      BY <2>2 DEF Hear, Merge
    <2>4. LoopLocals'
      BY <2>2, <2>3 DEF Hear, RosterInv, LoopLocals
    <2>5. RosterFromCurrentManager'
      BY <2>2 DEF Hear, RosterInv, RosterFromCurrentManager
    <2> QED
      BY <2>4, <2>5 DEF RosterInv
  <1>6. CASE CommitHerdr
    <2>1. CASE backend = "herdr"
      <3>1. DOMAIN seen \subseteq HerdrAgent /\ DOMAIN heard \subseteq HerdrSession
        BY <1>6 DEF CommitHerdr, RosterInv, LoopLocals
      <3>2. CommitRoster(seen, HerdrOrder(heard), HerdrConnection(heard))
        BY <1>6, <2>1 DEF CommitHerdr
      <3> QED
        BY <2>1, <3>1, <3>2, CommitOwn, ManagerFacts DEF TypeOK
    <2>2. CASE backend # "herdr"
      BY <1>6, <2>2, AbandonOwn DEF CommitHerdr
    <2> QED
      BY <2>1, <2>2
  <1>7. CASE EnterThreads
    BY <1>7 DEF EnterThreads, RosterInv, RosterFromCurrentManager, LoopLocals
  <1>8. CASE ThreadsUnread
    BY <1>8, AbandonOwn DEF ThreadsUnread
  <1>9. CASE ReadThreads
    BY <1>9 DEF ReadThreads, Sighting, RosterInv, RosterFromCurrentManager, LoopLocals
  <1>10. CASE CommitThreads
    <2>1. CASE backend = "t3code"
      <3>1. DOMAIN ThreadsFound \subseteq T3Thread /\ DOMAIN heard = {T3Session}
        BY <1>10, <2>1, ThreadsFoundOwn DEF CommitThreads, RosterInv, LoopLocals
      <3>2. Partial(ThreadsFound, Agent, Seen)
        BY CarriedOverType DEF ThreadsFound, TypeOK
      <3>3. CommitRoster(ThreadsFound,
                         [available |-> heard[T3Session].state = "connected", mode |-> t3order],
                         ThreadsConnection)
        BY <1>10, <2>1 DEF CommitThreads
      <3> QED
        BY <2>1, <3>1, <3>2, <3>3, CommitOwn, ManagerFacts
    <2>2. CASE backend # "t3code"
      BY <1>10, <2>2, AbandonOwn DEF CommitThreads
    <2> QED
      BY <2>1, <2>2
  <1> QED
    BY <1>1, <1>2, <1>3, <1>4, <1>5, <1>6, <1>7, <1>8, <1>9, <1>10 DEF Loop

LEMMA RosterCommand ==
  ASSUME TypeOK, RosterInv, NEW c \in Client, Command(c)
  PROVE  RosterInv'
  <1> USE DEF roster, memory, locals, managers, RosterInv, RosterFromCurrentManager, LoopLocals
  <1>1. ASSUME NEW a \in Agent, Open(c, a) PROVE RosterInv'
    BY <1>1 DEF Open
  <1>2. CASE HerdrFocuses(c)
    BY <1>2 DEF HerdrFocuses
  <1>3. CASE ThreadOpens(c)
    BY <1>3 DEF ThreadOpens
  <1>4. CASE OpenFails(c)
    BY <1>4 DEF OpenFails
  <1>5. CASE Acknowledge(c)
    <2>1. DOMAIN cards' = DOMAIN cards /\ DOMAIN observed' = DOMAIN observed
      BY <1>5 DEF Acknowledge, LatchCleared, TypeOK, Partial
    <2> QED
      BY <1>5, <2>1 DEF Acknowledge
  <1>6. CASE Opened(c)
    BY <1>6 DEF Opened
  <1>7. ASSUME NEW m \in Backend, Switch(c, m) PROVE RosterInv'
    BY <1>7, EmptyType DEF Switch, ForgetManager, NothingKnown
  <1>8. ASSUME NEW m \in OrderMode, OrderThreads(c, m) PROVE RosterInv'
    BY <1>8 DEF OrderThreads
  <1>9. CASE Save(c)
    BY <1>9 DEF Save
  <1>10. ASSUME NEW m \in OrderMode, OrderHerdr(c, m) PROVE RosterInv'
    BY <1>10 DEF OrderHerdr
  <1>11. ASSUME NEW o, OrderOutcome(c, o) PROVE RosterInv'
    BY <1>11 DEF OrderOutcome
  <1> QED
    BY <1>1, <1>2, <1>3, <1>4, <1>5, <1>6, <1>7, <1>8, <1>9, <1>10, <1>11 DEF Command

LEMMA RosterNext == TypeOK /\ RosterInv /\ [Next]_vars => RosterInv'
  <1> SUFFICES ASSUME TypeOK, RosterInv, [Next]_vars PROVE RosterInv'
    OBVIOUS
  <1>1. CASE Managers
    BY <1>1
    DEF Managers, Works, Visits, FocusMoves, RosterInv, RosterFromCurrentManager, LoopLocals,
        roster, memory, locals
  <1>2. CASE Restart
    BY <1>2, EmptyType
    DEF Restart, NothingKnown, LoopIdle, RosterInv, RosterFromCurrentManager, LoopLocals
  <1>3. CASE UNCHANGED vars
    BY <1>3 DEF vars, RosterInv, RosterFromCurrentManager, LoopLocals, roster, memory, locals
  <1> QED
    BY <1>1, <1>2, <1>3, RosterLoop, RosterCommand DEF Next

\* Whatever a reconciliation was doing when the manager was switched, it never
\* commits: every card, target, latch, focus and session is the selected manager's.
THEOREM RosterIsCurrentManagers == Spec => []RosterFromCurrentManager
  <1>1. Init => RosterInv
    BY EmptyType DEF Init, RosterInv, RosterFromCurrentManager, LoopLocals
  <1>2. RosterInv => RosterFromCurrentManager
    BY DEF RosterInv
  <1> QED
    BY <1>1, <1>2, RosterNext, TypeCorrect, PTL DEF Spec

----------------------------------------------------------------------------
(* The choice on disk is the choice in memory                               *)

\* The locks and the choice are left alone: every step but those that take or
\* give up the lock, or change the choice.
Quiet == UNCHANGED <<backend, t3order, guard, saved>> /\ (pc \in Reconciling <=> pc' \in Reconciling)

\* A command that neither starts from nor arrives at a step inside the lock.
QuietClient(c) ==
    /\ client' \in [Client -> ClientState]
    /\ client[c].step \notin {"save", "order"} /\ client'[c].step \notin {"save", "order"}
    /\ \A d \in Client \ {c} : client'[d] = client[d]

LEMMA QuietLoop == TypeOK /\ LockInv /\ Quiet /\ UNCHANGED client => LockInv'
  BY DEF TypeOK, LockInv, LoopLock, ClientLock, DiskAgrees, Quiet, saved, Restored

LEMMA QuietCommand ==
  ASSUME TypeOK, LockInv, Quiet, NEW c \in Client, QuietClient(c)
  PROVE  LockInv'
  <1>1. LoopLock'
    BY DEF LockInv, LoopLock, Quiet
  <1>2. ClientLock'
    BY DEF LockInv, ClientLock, Quiet, QuietClient
  <1>3. DiskAgrees'
    BY DEF LockInv, DiskAgrees, Quiet, QuietClient, saved, Restored
  <1> QED
    BY <1>1, <1>2, <1>3 DEF LockInv

\* The loop gives the lock up, or takes it, with everything else as it was.
LEMMA LoopMovesLock ==
  ASSUME TypeOK, LockInv, guard \notin Client, guard' \in {"free", "loop"},
         guard' = "loop" <=> pc' \in Reconciling,
         UNCHANGED <<backend, t3order, client, saved>>
  PROVE  LockInv'
  <1>1. guard' \notin Client
    BY DaemonAssumption DEF DaemonAssumption
  <1>2. LoopLock'
    BY DEF LoopLock
  <1>3. ClientLock'
    BY <1>1 DEF LockInv, ClientLock
  <1>4. DiskAgrees'
    BY DEF LockInv, DiskAgrees, saved, Restored
  <1> QED
    BY <1>2, <1>3, <1>4 DEF LockInv

LEMMA LockLoop == TypeOK /\ LockInv /\ Loop => LockInv'
  <1> SUFFICES ASSUME TypeOK, LockInv, Loop PROVE LockInv'
    OBVIOUS
  <1> USE DEF Reconciling
  <1>0. "free" \notin Client /\ "loop" \notin Client
    BY DaemonAssumption DEF DaemonAssumption
  <1>1. CASE Dispatch
    BY <1>1, QuietLoop DEF Dispatch, Quiet, roster, TypeOK, Backend
  <1>2. CASE EnterHerdr
    BY <1>0, <1>2, LoopMovesLock DEF EnterHerdr, Abandon, LoopIdle, roster
  <1>3. CASE DiscoveryFails
    BY <1>0, <1>3, LoopMovesLock
    DEF DiscoveryFails, Abandon, LoopIdle, roster, LockInv, LoopLock
  <1>4. CASE Discover
    BY <1>4, QuietLoop DEF Discover, Quiet, roster
  <1>5. CASE \E s \in HerdrSession : ObserveSession(s)
    BY <1>5, QuietLoop
    DEF ObserveSession, SessionConnected, SessionIncompatible, SessionUnsubscribed,
        SessionUnreachable, Hear, Quiet, roster
  <1>6. CASE CommitHerdr
    BY <1>0, <1>6, LoopMovesLock
    DEF CommitHerdr, CommitRoster, Abandon, LoopIdle, roster, LockInv, LoopLock
  <1>7. CASE EnterThreads
    BY <1>0, <1>7, LoopMovesLock DEF EnterThreads, roster
  <1>8. CASE ThreadsUnread
    BY <1>0, <1>8, LoopMovesLock
    DEF ThreadsUnread, Abandon, LoopIdle, roster, LockInv, LoopLock
  <1>9. CASE ReadThreads
    BY <1>9, QuietLoop DEF ReadThreads, Quiet, roster
  <1>10. CASE CommitThreads
    BY <1>0, <1>10, LoopMovesLock
    DEF CommitThreads, CommitRoster, Abandon, LoopIdle, roster, LockInv, LoopLock
  <1> QED
    BY <1>1, <1>2, <1>3, <1>4, <1>5, <1>6, <1>7, <1>8, <1>9, <1>10 DEF Loop

\* A client takes the free lock, for an order or for a save of what is now in memory.
LEMMA ClientTakesLock ==
  ASSUME TypeOK, LockInv, TypeOK', NEW c \in Client, guard = "free", guard' = c,
         client[c] = Idle, client' = [client EXCEPT ![c] = client'[c]],
         \/ client'[c].step = "order"
         \/ client'[c] = [step |-> "save", choice |-> [backend |-> backend', order |-> t3order']],
         client'[c].step = "order" => UNCHANGED <<backend, t3order>>,
         UNCHANGED <<pc, saved>>
  PROVE  LockInv'
  <1>1. guard \notin Client /\ guard' # "loop"
    BY DaemonAssumption DEF DaemonAssumption
  <1>2. LoopLock'
    BY <1>1 DEF LockInv, LoopLock
  <1>3. \A d \in Client \ {c} : client'[d] = client[d]
    BY DEF TypeOK
  <1>4. \A d \in Client : client[d].step \notin {"save", "order"}
    BY <1>1 DEF LockInv, ClientLock
  <1>5. ClientLock'
    BY <1>3, <1>4 DEF ClientLock
  <1>6. DiskAgrees'
    BY <1>4, <1>3 DEF LockInv, DiskAgrees, saved, Restored
  <1> QED
    BY <1>2, <1>5, <1>6 DEF LockInv

\* The client whose command holds the lock answers and gives it up.
LEMMA ClientReleases ==
  ASSUME TypeOK, LockInv, NEW c \in Client, client[c].step \in {"save", "order"},
         Answer(c), Release(c), UNCHANGED <<backend, t3order, pc>>,
         ~unsaved' /\ client[c].step = "order" => UNCHANGED saved,
         ~unsaved' /\ client[c].step = "save" => disk' = client[c].choice
  PROVE  LockInv'
  <1>1. guard = c /\ guard' = "free" /\ guard' \notin Client /\ c # "loop"
    BY DaemonAssumption DEF DaemonAssumption, LockInv, ClientLock, Release
  <1>2. LoopLock'
    BY <1>1 DEF LockInv, LoopLock
  <1>3. \A d \in Client : client'[d].step \notin {"save", "order"}
    BY <1>1 DEF LockInv, ClientLock, Answer, Idle, TypeOK
  <1>4. ClientLock'
    BY <1>1, <1>3 DEF ClientLock
  <1>5. DiskAgrees'
    <2>1. CASE client[c].step = "save"
      <3>1. client[c].choice = [backend |-> backend, order |-> t3order]
        BY <2>1 DEF LockInv, ClientLock
      <3>2. [backend |-> backend, order |-> t3order] # NoFile
        BY DaemonAssumption DEF DaemonAssumption, TypeOK
      <3> QED
        BY <2>1, <3>1, <3>2 DEF DiskAgrees, Restored
    <2>2. CASE client[c].step = "order"
      <3>1. \A d \in Client : client[d].step # "save"
        BY <1>1, <2>2 DEF LockInv, ClientLock
      <3> QED
        BY <2>2, <3>1 DEF LockInv, DiskAgrees, saved, Restored
    <2> QED
      BY <2>1, <2>2
  <1> QED
    BY <1>2, <1>4, <1>5 DEF LockInv

LEMMA LockCommand ==
  ASSUME TypeOK, LockInv, NEW c \in Client, Command(c)
  PROVE  LockInv'
  <1>0. TypeOK'
    BY TypeCommand
  <1> USE DEF roster, locals
  <1>1. ASSUME NEW a \in Agent, Open(c, a) PROVE LockInv'
    BY <1>0, <1>1, QuietCommand DEF Open, Begin, Idle, Quiet, QuietClient, TypeOK
  <1>2. CASE HerdrFocuses(c)
    BY <1>0, <1>2, QuietCommand DEF HerdrFocuses, At, Quiet, QuietClient, TypeOK
  <1>3. CASE ThreadOpens(c)
    BY <1>0, <1>3, QuietCommand DEF ThreadOpens, At, Quiet, QuietClient, TypeOK
  <1>4. CASE OpenFails(c)
    BY <1>0, <1>4, QuietCommand DEF OpenFails, Answer, Idle, At, Quiet, QuietClient, TypeOK
  <1>5. CASE Acknowledge(c)
    BY <1>0, <1>5, QuietCommand DEF Acknowledge, At, Quiet, QuietClient, TypeOK
  <1>6. CASE Opened(c)
    BY <1>0, <1>6, QuietCommand DEF Opened, Answer, Idle, At, Quiet, QuietClient, TypeOK
  <1>7. ASSUME NEW m \in Backend, Switch(c, m) PROVE LockInv'
    BY <1>0, <1>7, ClientTakesLock DEF Switch, Begin, HeldWhileSaving, TypeOK
  <1>8. ASSUME NEW m \in OrderMode, OrderThreads(c, m) PROVE LockInv'
    BY <1>0, <1>8, ClientTakesLock DEF OrderThreads, Begin, HeldWhileSaving, TypeOK
  <1>9. CASE Save(c)
    BY <1>9, ClientReleases DEF Save, At
  <1>10. ASSUME NEW m \in OrderMode, OrderHerdr(c, m) PROVE LockInv'
    BY <1>0, <1>10, ClientTakesLock DEF OrderHerdr, Begin, TypeOK
  <1>11. ASSUME NEW o, OrderOutcome(c, o) PROVE LockInv'
    BY <1>11, ClientReleases DEF OrderOutcome, At
  <1> QED
    BY <1>1, <1>2, <1>3, <1>4, <1>5, <1>6, <1>7, <1>8, <1>9, <1>10, <1>11 DEF Command

LEMMA LockNext == TypeOK /\ LockInv /\ [Next]_vars => LockInv'
  <1> SUFFICES ASSUME TypeOK, LockInv, [Next]_vars PROVE LockInv'
    OBVIOUS
  <1>1. CASE Managers
    BY <1>1, QuietLoop DEF Managers, Works, Visits, FocusMoves, Quiet, roster
  <1>2. CASE Restart
    <2>1. Restored(disk) \in Choice
      BY RestoredType DEF TypeOK
    <2>2. Restored(disk') = [backend |-> backend', order |-> t3order']
      BY <1>2, <2>1 DEF Restart, Restored, Choice
    <2>3. guard' = "free" /\ guard' \notin Client /\ pc' = "idle"
      BY <1>2, DaemonAssumption DEF DaemonAssumption, Restart, LoopIdle
    <2>4. \A c \in Client : client'[c].step = "idle"
      BY <1>2 DEF Restart, Idle
    <2> QED
      BY <2>2, <2>3, <2>4 DEF LockInv, LoopLock, ClientLock, DiskAgrees, Reconciling
  <1>3. CASE UNCHANGED vars
    BY <1>3, QuietLoop DEF vars, Quiet, roster
  <1> QED
    BY <1>1, <1>2, <1>3, LockLoop, LockCommand DEF Next

\* A daemon that dies while no command is inside the lock comes back to the
\* manager and ordering it had, unless its last save failed.
THEOREM RestartKeepsChoice == Spec => []SavedChoiceIsCurrent
  <1>1. Init => LockInv
    <2> SUFFICES ASSUME Init PROVE LockInv
      OBVIOUS
    <2>1. Restored(disk) \in Choice
      BY RestoredType DEF Init
    <2>2. Restored(disk) = [backend |-> backend, order |-> t3order]
      BY <2>1 DEF Init, Choice
    <2> QED
      BY <2>2, DaemonAssumption
      DEF DaemonAssumption, Init, LockInv, LoopLock, ClientLock, DiskAgrees, Reconciling, Idle
  <1>2. LockInv => SavedChoiceIsCurrent
    BY DEF LockInv, ClientLock, DiskAgrees, SavedChoiceIsCurrent
  <1> QED
    BY <1>1, <1>2, LockNext, TypeCorrect, PTL DEF Spec

----------------------------------------------------------------------------
(* The latches shown and the latches kept                                   *)

\* The latches agree, and whatever a reconciliation carries over from the cards has its
\* latch kept as well: a card that is carried over shows the latch it had.
LatchInv ==
    /\ LatchesAgree
    /\ \A a \in DOMAIN observed : observed[a].review => observed[a].status \in Finished
    /\ \A a \in DOMAIN prev : prev[a].review => a \in DOMAIN observed
    /\ \A a \in DOMAIN seen : seen[a].review => a \in DOMAIN observed
    /\ pc # "observe" => DOMAIN prev = {}

\* A latch rises, or stays, only for an agent that stopped.
LEMMA LatchMeansFinished ==
  ASSUME NEW S, NEW O, NEW F, NEW a, Latch(S, O, F, a),
         a \in DOMAIN O /\ O[a].review => O[a].status \in Finished
  PROVE  S[a].status \in Finished
  BY DEF Latch, Unchanged, NextReviewReady, Finished

LEMMA CommitLatches ==
  ASSUME TypeOK, LatchInv, NEW found, Partial(found, Agent, Seen), NEW ordering, NEW connection,
         CommitRoster(found, ordering, connection),
         \A a \in DOMAIN found : found[a].review => a \in DOMAIN observed
  PROVE  LatchInv'
  <1> DEFINE latch(a) == Latch(found, observed, focused, a)
  <1>1. Live(found) \subseteq DOMAIN found
    BY DEF Live
  <1>2. /\ DOMAIN observed' = Live(found) \cup (DOMAIN observed \cap DOMAIN found)
        /\ \A a \in Live(found) :
              observed'[a].status = found[a].status /\ observed'[a].review = latch(a)
        /\ \A a \in (DOMAIN observed \cap DOMAIN found) \ Live(found) : observed'[a] = observed[a]
    BY <1>1 DEF CommitRoster, NextObserved
  <1>3. /\ DOMAIN cards' = DOMAIN found /\ targets' = Live(found)
        /\ \A a \in Live(found) :
              cards'[a].status = found[a].status /\ cards'[a].review = latch(a)
        /\ \A a \in (DOMAIN observed \cap DOMAIN found) \ Live(found) :
              cards'[a].review = observed[a].review
        /\ \A a \in DOMAIN found \ (DOMAIN observed \cup Live(found)) :
              cards'[a].review = found[a].review
    BY <1>1 DEF CommitRoster, NextCards
  <1>4. \A a \in Live(found) : latch(a) => found[a].status \in Finished
    BY LatchMeansFinished DEF LatchInv
  <1>5. \A a \in DOMAIN found \ DOMAIN observed : found[a].review = FALSE
    BY DEF Partial, Seen
  <1>6. LatchesAgree'
    <2> DEFINE Agrees(a) ==
                  cards'[a].review = (a \in DOMAIN observed' /\ observed'[a].review)
    <2>1. targets' \subseteq DOMAIN observed' /\ DOMAIN observed' \subseteq DOMAIN cards'
      BY <1>1, <1>2, <1>3
    <2>2. ASSUME NEW a \in DOMAIN cards'
          PROVE  Agrees(a)
      <3>1. CASE a \in Live(found)
        BY <1>2, <1>3, <3>1, LatchType
      <3>2. CASE a \in (DOMAIN observed \cap DOMAIN found) \ Live(found)
        <4>1. observed[a].review \in BOOLEAN
          BY <3>2 DEF TypeOK, Partial, Observed
        <4>2. QED
          BY <1>2, <1>3, <3>2, <4>1
      <3>3. CASE a \in DOMAIN found \ (DOMAIN observed \cup Live(found))
        BY <1>2, <1>3, <1>5, <3>3
      <3>4. QED
        BY <1>1, <1>3, <3>1, <3>2, <3>3
    <2>3. \A a \in targets' : cards'[a].review => cards'[a].status \in Finished
      BY <1>3, <1>4
    <2>4. QED
      BY <2>1, <2>2, <2>3 DEF LatchesAgree
  <1>7. \A a \in DOMAIN observed' : observed'[a].review => observed'[a].status \in Finished
    BY <1>1, <1>2, <1>4 DEF LatchInv
  <1>8. DOMAIN prev' = {} /\ DOMAIN seen' = {}
    BY EmptyType DEF CommitRoster, LoopIdle
  <1>9. QED
    BY <1>6, <1>7, <1>8 DEF LatchInv

LEMMA AbandonLatches == LatchInv /\ Abandon => LatchInv'
  BY EmptyType DEF LatchInv, LatchesAgree, Abandon, LoopIdle, roster, memory

LEMMA LatchLoop == TypeOK /\ LatchInv /\ Loop => LatchInv'
  <1> SUFFICES ASSUME TypeOK, LatchInv, Loop PROVE LatchInv'
    OBVIOUS
  <1>1. CASE Dispatch \/ EnterThreads \/ EnterHerdr
    <2>1. CASE Abandon
      BY <2>1, AbandonLatches
    <2>2. CASE UNCHANGED <<roster, memory, prev, seen>> /\ pc # "observe"
      BY <2>2 DEF LatchInv, LatchesAgree, roster, memory
    <2>3. QED
      BY <1>1, <2>1, <2>2 DEF Dispatch, EnterThreads, EnterHerdr, locals
  <1>2. CASE DiscoveryFails
    <2>1. CASE Abandon
      BY <2>1, AbandonLatches
    <2>2. CASE backend = "herdr"
      <3>1. /\ DOMAIN cards' = DOMAIN cards /\ \A a \in DOMAIN cards : cards'[a].review = cards[a].review
            /\ UNCHANGED observed /\ targets' = {} /\ DOMAIN prev' = {} /\ DOMAIN seen' = {}
        <4>1. cards' = [a \in DOMAIN cards |-> [cards[a] EXCEPT !.live = FALSE]]
              /\ UNCHANGED observed /\ targets' = {} /\ prev' = Empty /\ seen' = Empty
          BY <1>2, <2>2 DEF DiscoveryFails, LoopIdle, memory
        <4>2. \A a \in DOMAIN cards : cards[a] \in Card
          BY DEF TypeOK, Partial
        <4>3. \A a \in DOMAIN cards : cards'[a].review = cards[a].review
          BY <4>1, <4>2 DEF Card
        <4>4. QED
          BY <4>1, <4>3, EmptyType
      <3>2. QED
        BY <3>1 DEF LatchInv, LatchesAgree
    <2>3. QED
      BY <1>2, <2>1, <2>2 DEF DiscoveryFails
  <1>3. CASE Discover
    BY <1>3 DEF Discover, LatchInv, LatchesAgree, roster, memory
  <1>4. CASE \E s \in HerdrSession : ObserveSession(s)
    <2>1. PICK s \in HerdrSession : ObserveSession(s)
      BY <1>4
    <2>2. PICK state, mode, agents :
             /\ Hear(s, state, mode, agents)
             /\ \A a \in DOMAIN agents : agents[a].review => a \in DOMAIN observed
      <3>1. CASE SessionConnected(s)
        BY <3>1 DEF SessionConnected, Sighting
      <3>2. CASE SessionIncompatible(s)
        BY <3>2 DEF SessionIncompatible, Empty
      <3>3. CASE SessionUnsubscribed(s)
        BY <3>3 DEF SessionUnsubscribed, Sighting
      <3>4. CASE SessionUnreachable(s)
        BY <3>4 DEF SessionUnreachable, CarriedOver, Among, LatchInv
      <3>5. QED
        BY <2>1, <3>1, <3>2, <3>3, <3>4 DEF ObserveSession
    <2>3. \A a \in DOMAIN seen' : seen'[a].review => a \in DOMAIN observed
      BY <2>2 DEF Hear, Merge, LatchInv
    <2>4. QED
      BY <2>2, <2>3 DEF Hear, LatchInv, LatchesAgree, roster, memory
  <1>5. CASE CommitHerdr
    BY <1>5, AbandonLatches, CommitLatches DEF CommitHerdr, TypeOK, LatchInv
  <1>6. CASE ThreadsUnread
    BY <1>6, AbandonLatches DEF ThreadsUnread
  <1>7. CASE ReadThreads
    <2>1. \A a \in DOMAIN seen' : ~seen'[a].review
      BY <1>7 DEF ReadThreads, Sighting
    <2>2. QED
      BY <1>7, <2>1 DEF ReadThreads, LatchInv, LatchesAgree, roster, memory
  <1>8. CASE CommitThreads
    <2>1. Partial(ThreadsFound, Agent, Seen)
      BY CarriedOverType DEF ThreadsFound, TypeOK
    <2>2. \A a \in DOMAIN ThreadsFound : ThreadsFound[a].review => a \in DOMAIN observed
      BY DEF ThreadsFound, CarriedOver, LatchInv, LatchesAgree
    <2>3. QED
      BY <1>8, <2>1, <2>2, AbandonLatches, CommitLatches DEF CommitThreads
  <1>9. QED
    BY <1>1, <1>2, <1>3, <1>4, <1>5, <1>6, <1>7, <1>8 DEF Loop

LEMMA LatchCommand ==
  ASSUME TypeOK, LockInv, RosterInv, LatchInv, NEW c \in Client, Command(c)
  PROVE  LatchInv'
  <1>1. CASE UNCHANGED <<cards, observed, targets, prev, seen, pc>>
    BY <1>1 DEF LatchInv, LatchesAgree
  <1>2. CASE Acknowledge(c)
    <2> DEFINE a == client[c].agent
    <2>1. CASE a \in DOMAIN cards /\ cards[a].review
      <3>1. cards' = [cards EXCEPT ![a].review = FALSE]
            /\ observed' = [x \in DOMAIN observed |->
                  IF x = a THEN [observed[x] EXCEPT !.review = FALSE] ELSE observed[x]]
            /\ UNCHANGED <<targets, prev, seen, pc>>
        BY <1>2, <2>1 DEF Acknowledge, LatchCleared, locals
      <3>2. \A x \in DOMAIN cards : cards[x] \in Card
        BY DEF TypeOK, Partial
      <3>3. \A x \in DOMAIN observed : observed[x] \in Observed
        BY DEF TypeOK, Partial
      <3>4. /\ DOMAIN cards' = DOMAIN cards
            /\ \A x \in DOMAIN cards : cards'[x].status = cards[x].status
                  /\ cards'[x].review = IF x = a THEN FALSE ELSE cards[x].review
        BY <3>1, <3>2 DEF Card
      <3>5. /\ DOMAIN observed' = DOMAIN observed
            /\ \A x \in DOMAIN observed : observed'[x].status = observed[x].status
                  /\ observed'[x].review = IF x = a THEN FALSE ELSE observed[x].review
        BY <3>1, <3>3 DEF Observed
      <3>6. QED
        BY <3>1, <3>4, <3>5 DEF LatchInv, LatchesAgree
    <2>2. QED
      BY <1>1, <1>2, <2>1 DEF Acknowledge, roster, memory, locals
  <1>3. ASSUME NEW m \in Backend, Switch(c, m)
        PROVE  LatchInv'
    <2>1. pc \in {"idle", "herdr", "t3code"}
      BY <1>3 DEF Switch, LockInv, LoopLock, Reconciling, TypeOK
    <2>2. DOMAIN prev = {} /\ DOMAIN seen = {}
      BY <2>1 DEF LatchInv, RosterInv, LoopLocals
    <2>3. DOMAIN cards' = {} /\ DOMAIN observed' = {} /\ targets' = {} /\ UNCHANGED <<prev, seen, pc>>
      BY <1>3, EmptyType DEF Switch, ForgetManager, NothingKnown, locals
    <2>4. QED
      BY <2>1, <2>2, <2>3 DEF LatchInv, LatchesAgree
  <1>4. QED
    BY <1>1, <1>2, <1>3
    DEF Command, Open, HerdrFocuses, ThreadOpens, OpenFails, Opened, OrderThreads, Save, OrderHerdr,
        OrderOutcome, roster, memory, locals

LEMMA LatchNext == TypeOK /\ LockInv /\ RosterInv /\ LatchInv /\ [Next]_vars => LatchInv'
  <1> SUFFICES ASSUME TypeOK, LockInv, RosterInv, LatchInv, [Next]_vars PROVE LatchInv'
    OBVIOUS
  <1>1. CASE Managers \/ UNCHANGED vars
    BY <1>1 DEF Managers, Works, Visits, FocusMoves, vars, LatchInv, LatchesAgree, roster, memory, locals
  <1>2. CASE Restart
    BY <1>2, EmptyType DEF Restart, NothingKnown, LoopIdle, LatchInv, LatchesAgree
  <1>3. QED
    BY <1>1, <1>2, LatchLoop, LatchCommand DEF Next

LEMMA RosterInit == Init => LockInv /\ RosterInv
  <1> SUFFICES ASSUME Init PROVE LockInv /\ RosterInv
    OBVIOUS
  <1>1. RosterInv
    BY EmptyType DEF Init, RosterInv, RosterFromCurrentManager, LoopLocals
  <1>2. Restored(disk) = [backend |-> backend, order |-> t3order]
    BY RestoredType DEF Init, Choice
  <1>3. LockInv
    BY <1>2, DaemonAssumption
    DEF DaemonAssumption, Init, LockInv, LoopLock, ClientLock, DiskAgrees, Reconciling, Idle
  <1>4. QED
    BY <1>1, <1>3

LEMMA RosterAlways == Spec => [](TypeOK /\ LockInv /\ RosterInv)
  BY RosterInit, RosterNext, LockNext, TypeCorrect, PTL DEF Spec

\* The latch a card shows is the one the next reconciliation starts from, through
\* switches, failed discoveries, cards carried over and acknowledgements in between, and
\* a card that can be opened asks for review only of an agent that stopped.
THEOREM OneLatch == Spec => []LatchesAgree
  <1>1. Init => LatchInv
    BY EmptyType DEF Init, LatchInv, LatchesAgree
  <1>2. LatchInv => LatchesAgree
    BY DEF LatchInv
  <1> QED
    BY <1>1, <1>2, LatchNext, RosterAlways, PTL DEF Spec

----------------------------------------------------------------------------
(* What is offered can be done                                              *)

\* What a reconciliation has heard so far: a session is heard once, only a connected one
\* gives agents with actions or an ordering; and an ordering command goes on with what
\* was offered when it took the lock.
OfferInv ==
    /\ OffersNeedConnection
    /\ todo \cap DOMAIN heard = {}
    /\ pc # "observe" => todo = {}
    /\ \A s \in DOMAIN heard : heard[s].mode # "none" => heard[s].state = "connected"
    /\ \A a \in DOMAIN seen : seen[a].live =>
          SessionOf(a) \in DOMAIN heard /\ heard[SessionOf(a)].state = "connected"
    /\ \A c \in Client : client[c].step = "order" => backend = "herdr" /\ order.available

\* A roster is offered as far as its sessions were heard.
LEMMA CommitOffers ==
  ASSUME TypeOK, LockInv, OfferInv, pc \in Reconciling,
         NEW found, Partial(found, Agent, Seen), NEW ordering, NEW connection,
         CommitRoster(found, ordering, connection),
         \A a \in DOMAIN found : found[a].live =>
            SessionOf(a) \in DOMAIN heard /\ heard[SessionOf(a)].state = "connected",
         ordering.available =>
            /\ DOMAIN heard # {} /\ connection = "connected"
            /\ \A s \in DOMAIN heard : heard[s].state = "connected"
            /\ backend = "t3code" => ordering.mode = t3order
  PROVE  OfferInv'
  <1>1. DOMAIN cards' = DOMAIN found /\ \A a \in DOMAIN found : cards'[a].live = found[a].live
    BY DEF CommitRoster, NextCards
  <1>2. /\ targets' = {a \in DOMAIN found : found[a].live}
        /\ sessions' = [s \in DOMAIN heard |-> heard[s].state]
        /\ order' = ordering /\ conn' = connection /\ UNCHANGED <<backend, t3order, client>>
        /\ todo' = {} /\ DOMAIN heard' = {} /\ DOMAIN seen' = {}
    BY EmptyType DEF CommitRoster, Live, LoopIdle
  <1>3. OffersNeedConnection'
    BY <1>1, <1>2 DEF OffersNeedConnection
  <1>4. \A c \in Client : client[c].step # "order"
    BY DaemonAssumption DEF LockInv, LoopLock, ClientLock
  <1>5. QED
    BY <1>2, <1>3, <1>4 DEF OfferInv

LEMMA AbandonOffers == OfferInv /\ Abandon => OfferInv'
  BY EmptyType DEF OfferInv, OffersNeedConnection, Abandon, LoopIdle, roster, memory

\* Herdr's ordering is offered when every session gave the same one, so all are connected.
LEMMA HerdrOrderOffered ==
  ASSUME OfferInv, HerdrOrder(heard).available
  PROVE  /\ DOMAIN heard # {} /\ HerdrConnection(heard) = "connected"
         /\ \A s \in DOMAIN heard : heard[s].state = "connected"
  <1>1. PICK m \in OrderMode : DOMAIN heard # {} /\ \A s \in DOMAIN heard : heard[s].mode = m
    BY DEF HerdrOrder, DefaultOrder
  <1>2. \A s \in DOMAIN heard : heard[s].state = "connected"
    BY <1>1 DEF OfferInv, OrderMode
  <1>3. QED
    BY <1>1, <1>2 DEF HerdrConnection, Connected

LEMMA ObserveOffers ==
  ASSUME TypeOK, RosterInv, OfferInv, NEW s \in HerdrSession, ObserveSession(s)
  PROVE  OfferInv'
  <1>1. PICK state, mode, agents :
           /\ Hear(s, state, mode, agents)
           /\ mode # "none" => state = "connected"
           /\ \A a \in DOMAIN agents : SessionOf(a) = s /\ (agents[a].live => state = "connected")
    <2>1. \A a \in AgentsOf(s) : SessionOf(a) = s
      BY DEF AgentsOf, SessionOf
    <2>2. CASE SessionConnected(s)
      BY <2>1, <2>2 DEF SessionConnected, Sighting
    <2>3. CASE SessionIncompatible(s)
      BY <2>3 DEF SessionIncompatible, Empty
    <2>4. CASE SessionUnsubscribed(s)
      BY <2>1, <2>4 DEF SessionUnsubscribed, Sighting
    <2>5. CASE SessionUnreachable(s)
      BY <2>1, <2>5 DEF SessionUnreachable, CarriedOver, Among
    <2>6. QED
      BY <2>2, <2>3, <2>4, <2>5 DEF ObserveSession
  <1>2. s \notin DOMAIN heard /\ s \in todo /\ todo' = todo \ {s}
    BY <1>1 DEF Hear, OfferInv
  <1>3. DOMAIN heard' = DOMAIN heard \cup {s}
        /\ heard'[s].state = state /\ heard'[s].mode = mode
        /\ \A x \in DOMAIN heard : heard'[x] = heard[x]
    BY <1>1, <1>2 DEF Hear, Merge
  <1>4. DOMAIN seen' = DOMAIN seen \cup DOMAIN agents
        /\ \A a \in DOMAIN seen' : seen'[a] = IF a \in DOMAIN agents THEN agents[a] ELSE seen[a]
    BY <1>1 DEF Hear, Merge
  <1>5. \A a \in DOMAIN seen' : seen'[a].live =>
           SessionOf(a) \in DOMAIN heard' /\ heard'[SessionOf(a)].state = "connected"
    BY <1>1, <1>3, <1>4 DEF OfferInv
  <1>6. UNCHANGED <<roster, client, pc>> /\ pc = "observe"
    BY <1>1 DEF Hear
  <1>7. QED
    BY <1>1, <1>2, <1>3, <1>5, <1>6 DEF OfferInv, OffersNeedConnection, roster

LEMMA OfferLoop == TypeOK /\ LockInv /\ RosterInv /\ OfferInv /\ Loop => OfferInv'
  <1> SUFFICES ASSUME TypeOK, LockInv, RosterInv, OfferInv, Loop PROVE OfferInv'
    OBVIOUS
  <1>1. CASE Dispatch \/ EnterThreads \/ EnterHerdr
    <2>1. CASE Abandon
      BY <2>1, AbandonOffers
    <2>2. CASE UNCHANGED <<roster, locals, client>> /\ pc # "observe"
      BY <2>2 DEF OfferInv, OffersNeedConnection, roster, locals
    <2>3. QED
      BY <1>1, <2>1, <2>2 DEF Dispatch, EnterThreads, EnterHerdr
  <1>2. CASE DiscoveryFails
    <2>1. CASE Abandon
      BY <2>1, AbandonOffers
    <2>2. CASE backend = "herdr"
      <3>1. /\ cards' = [a \in DOMAIN cards |-> [cards[a] EXCEPT !.live = FALSE]]
            /\ order' = DefaultOrder /\ targets' = {} /\ UNCHANGED client
            /\ todo' = {} /\ DOMAIN heard' = {} /\ DOMAIN seen' = {}
        BY <1>2, <2>2, EmptyType DEF DiscoveryFails, LoopIdle
      <3>2. \A a \in DOMAIN cards' : ~cards'[a].live
        BY <3>1 DEF TypeOK, Partial, Card
      <3>3. \A c \in Client : client[c].step # "order"
        BY <1>2, DaemonAssumption DEF DiscoveryFails, LockInv, LoopLock, ClientLock, Reconciling
      <3>4. QED
        BY <3>1, <3>2, <3>3 DEF OfferInv, OffersNeedConnection, DefaultOrder
    <2>3. QED
      BY <1>2, <2>1, <2>2 DEF DiscoveryFails
  <1>3. CASE Discover
    BY <1>3 DEF Discover, OfferInv, OffersNeedConnection, RosterInv, LoopLocals, roster
  <1>4. CASE \E s \in HerdrSession : ObserveSession(s)
    BY <1>4, ObserveOffers
  <1>5. CASE CommitHerdr
    <2>1. CASE backend = "herdr"
      <3>1. CommitRoster(seen, HerdrOrder(heard), HerdrConnection(heard)) /\ pc \in Reconciling
        BY <1>5, <2>1 DEF CommitHerdr, Reconciling
      <3>2. \A a \in DOMAIN seen : seen[a].live =>
               SessionOf(a) \in DOMAIN heard /\ heard[SessionOf(a)].state = "connected"
        BY DEF OfferInv
      <3>3. Partial(seen, Agent, Seen)
        BY DEF TypeOK
      <3>4. QED
        BY <2>1, <3>1, <3>2, <3>3, HerdrOrderOffered, CommitOffers
    <2>2. QED
      BY <1>5, <2>1, AbandonOffers DEF CommitHerdr
  <1>6. CASE ThreadsUnread
    BY <1>6, AbandonOffers DEF ThreadsUnread
  <1>7. CASE ReadThreads
    <2>1. \A a \in T3Thread : SessionOf(a) = T3Session
      BY ManagerFacts, SessionsAssumption DEF SessionOf
    <2>2. PICK state \in SessionState, A \in SUBSET T3Thread :
             /\ state # "connected" => A = {}
             /\ heard' = [s \in {T3Session} |-> [state |-> state, mode |-> "none"]]
             /\ seen' = Sighting(A, TRUE)
      BY <1>7 DEF ReadThreads
    <2>3. UNCHANGED <<roster, client, todo>> /\ pc = "threads"
      BY <1>7 DEF ReadThreads
    <2>4. \A a \in DOMAIN seen' :
             SessionOf(a) \in DOMAIN heard' /\ heard'[SessionOf(a)].state = "connected"
      BY <2>1, <2>2 DEF Sighting
    <2>5. QED
      BY <2>2, <2>3, <2>4 DEF OfferInv, OffersNeedConnection, roster
  <1>8. CASE CommitThreads
    <2> DEFINE ordering == [available |-> heard[T3Session].state = "connected", mode |-> t3order]
    <2>1. CASE backend = "t3code"
      <3>1. CommitRoster(ThreadsFound, ordering, ThreadsConnection) /\ pc \in Reconciling
            /\ DOMAIN heard = {T3Session}
        BY <1>8, <2>1 DEF CommitThreads, Reconciling, RosterInv, LoopLocals
      <3>2. Partial(ThreadsFound, Agent, Seen)
        BY CarriedOverType DEF ThreadsFound, TypeOK
      <3>3. \A a \in DOMAIN ThreadsFound : ThreadsFound[a].live =>
               SessionOf(a) \in DOMAIN heard /\ heard[SessionOf(a)].state = "connected"
        BY DEF ThreadsFound, CarriedOver, OfferInv
      <3>4. ordering.available => ThreadsConnection = "connected"
        BY DEF ThreadsConnection
      <3>5. ordering.available = (heard[T3Session].state = "connected") /\ ordering.mode = t3order
        OBVIOUS
      <3> HIDE DEF ordering
      <3>6. QED
        BY <2>1, <3>1, <3>2, <3>3, <3>4, <3>5, CommitOffers
    <2>2. QED
      BY <1>8, <2>1, AbandonOffers DEF CommitThreads
  <1>9. QED
    BY <1>1, <1>2, <1>3, <1>4, <1>5, <1>6, <1>7, <1>8 DEF Loop

LEMMA OfferCommand ==
  ASSUME TypeOK, LockInv, RosterInv, OfferInv, NEW c \in Client, Command(c)
  PROVE  OfferInv'
  <1>0. \A d \in Client \ {c} : client'[d] = client[d]
    BY DEF Command, Open, HerdrFocuses, ThreadOpens, OpenFails, Acknowledge, Opened, Switch,
       OrderThreads, Save, OrderHerdr, OrderOutcome, Begin, Answer, TypeOK
  <1>1. CASE /\ UNCHANGED <<roster, locals, pc>>
             /\ client'[c].step # "order"
    BY <1>0, <1>1 DEF OfferInv, OffersNeedConnection, roster, locals
  <1>2. ASSUME NEW a \in Agent, Open(c, a)
        PROVE  OfferInv'
    <2>1. client'[c].step = "open"
      BY <1>2 DEF Open, Begin, TypeOK
    <2>2. QED
      BY <1>1, <1>2, <2>1 DEF Open
  <1>3. CASE HerdrFocuses(c) \/ ThreadOpens(c)
    <2>1. client'[c].step \in {"acknowledge", "opened"}
      BY <1>3 DEF HerdrFocuses, ThreadOpens, At, TypeOK, ClientState, Idle
    <2>2. QED
      BY <1>1, <1>3, <2>1 DEF HerdrFocuses, ThreadOpens
  <1>4. CASE OpenFails(c) \/ Opened(c) \/ Save(c)
    <2>1. client'[c].step = "idle"
      BY <1>4 DEF OpenFails, Opened, Save, Answer, Idle, TypeOK
    <2>2. QED
      BY <1>1, <1>4, <2>1 DEF OpenFails, Opened, Save
  <1>5. CASE Acknowledge(c)
    <2>1. client'[c].step = "opened"
      BY <1>5 DEF Acknowledge, At, TypeOK, ClientState, Idle
    <2>2. /\ DOMAIN cards' = DOMAIN cards
          /\ \A a \in DOMAIN cards : cards'[a].live = cards[a].live
          /\ UNCHANGED <<backend, t3order, conn, sessions, order, targets, locals, pc>>
      <3>1. \A a \in DOMAIN cards : cards[a] \in Card
        BY DEF TypeOK, Partial
      <3>2. QED
        BY <1>5, <3>1 DEF Acknowledge, roster, Card
    <2>3. QED
      BY <1>0, <2>1, <2>2 DEF OfferInv, OffersNeedConnection, locals
  <1>6. CASE guard = "free" \/ guard = c
    <2>1. \A d \in Client \ {c} : client[d].step # "order"
      BY <1>6, DaemonAssumption DEF LockInv, ClientLock
    <2>2. ASSUME NEW m \in Backend, Switch(c, m)
          PROVE  OfferInv'
      <3>1. /\ client'[c].step = "save" /\ UNCHANGED <<locals, pc>>
            /\ DOMAIN cards' = {} /\ targets' = {} /\ order' = DefaultOrder
        BY <2>2, EmptyType DEF Switch, Begin, ForgetManager, NothingKnown, TypeOK
      <3>2. QED
        BY <1>0, <2>1, <3>1 DEF OfferInv, OffersNeedConnection, DefaultOrder, locals
    <2>3. ASSUME NEW m \in OrderMode, OrderThreads(c, m)
          PROVE  OfferInv'
      <3>1. /\ client'[c].step = "save" /\ order.available /\ t3order' = m
            /\ order' = [available |-> TRUE, mode |-> m]
            /\ UNCHANGED <<backend, conn, sessions, cards, targets, locals, pc>>
        BY <2>3 DEF OrderThreads, Begin, TypeOK
      <3>2. QED
        BY <1>0, <2>1, <3>1 DEF OfferInv, OffersNeedConnection, locals
    <2>4. ASSUME NEW m \in OrderMode, OrderHerdr(c, m)
          PROVE  OfferInv'
      BY <1>0, <2>4 DEF OrderHerdr, OfferInv, OffersNeedConnection, roster, locals
    <2>5. ASSUME NEW outcome, OrderOutcome(c, outcome)
          PROVE  OfferInv'
      <3>1. /\ client'[c].step = "idle" /\ order.available /\ backend = "herdr"
            /\ UNCHANGED <<backend, t3order, conn, sessions, cards, targets, locals, pc>>
        BY <2>5 DEF OrderOutcome, Answer, Idle, At, OfferInv, TypeOK
      <3>2. order' = order \/ order' = DefaultOrder \/ order'.available = TRUE
        BY <2>5 DEF OrderOutcome
      <3>3. QED
        BY <1>0, <2>1, <3>1, <3>2 DEF OfferInv, OffersNeedConnection, DefaultOrder, locals
    <2>6. QED
      BY <1>2, <1>3, <1>4, <1>5, <2>2, <2>3, <2>4, <2>5 DEF Command
  <1>7. CASE \/ \E m \in Backend : Switch(c, m)
             \/ \E m \in OrderMode : OrderThreads(c, m) \/ OrderHerdr(c, m)
             \/ \E outcome : OrderOutcome(c, outcome)
    <2>1. guard = "free" \/ guard = c
      BY <1>7 DEF Switch, OrderThreads, OrderHerdr, OrderOutcome, At, LockInv, ClientLock
    <2>2. QED
      BY <1>6, <2>1
  <1>8. QED
    BY <1>2, <1>3, <1>4, <1>5, <1>7 DEF Command

LEMMA OfferNext == TypeOK /\ LockInv /\ RosterInv /\ OfferInv /\ [Next]_vars => OfferInv'
  <1> SUFFICES ASSUME TypeOK, LockInv, RosterInv, OfferInv, [Next]_vars PROVE OfferInv'
    OBVIOUS
  <1>1. CASE Managers \/ UNCHANGED vars
    BY <1>1 DEF Managers, Works, Visits, FocusMoves, vars, OfferInv, OffersNeedConnection, roster, locals
  <1>2. CASE Restart
    BY <1>2, EmptyType DEF Restart, NothingKnown, LoopIdle, OfferInv, OffersNeedConnection,
       DefaultOrder, Idle
  <1>3. QED
    BY <1>1, <1>2, OfferLoop, OfferCommand DEF Next

LEMMA OfferAlways == Spec => []OfferInv
  <1>1. Init => OfferInv
    BY EmptyType DEF Init, OfferInv, OffersNeedConnection, DefaultOrder, Idle
  <1>2. QED
    BY <1>1, OfferNext, RosterAlways, PTL DEF Spec

\* What the portal offers is what the daemon can do: actions where a target is held and
\* the session is connected, and ordering for a roster all of whose sessions are; through
\* partial reconciliations, switches, and ordering commands.
THEOREM OffersAreConnected == Spec => []OffersNeedConnection
  <1>1. OfferInv => OffersNeedConnection
    BY DEF OfferInv
  <1>2. QED
    BY <1>1, OfferAlways, PTL

----------------------------------------------------------------------------
(* The sequence                                                             *)

\* Every step of one daemon run that changes what a portal can act on advances the
\* sequence its commands quote.
THEOREM SequenceCovers == Spec => SequenceCoversRoster
  <1>1. TypeOK /\ [Next]_vars => [boot' = boot /\ UNCHANGED sequence => UNCHANGED roster]_vars
    <2> SUFFICES ASSUME TypeOK, Next, boot' = boot, UNCHANGED sequence
                 PROVE  UNCHANGED roster
      BY DEF vars
    <2>1. ~Bump
      BY DEF Bump, TypeOK
    <2>2. ~Restart
      BY DEF Restart, TypeOK
    <2>3. CASE Loop
      BY <2>1, <2>3 DEF Loop, Dispatch, EnterHerdr, DiscoveryFails, Discover, ObserveSession,
         SessionConnected, SessionIncompatible, SessionUnsubscribed, SessionUnreachable, Hear,
         CommitHerdr, EnterThreads, ThreadsUnread, ReadThreads, CommitThreads, CommitRoster, Abandon
    <2>4. ASSUME NEW c \in Client, Command(c)
          PROVE  UNCHANGED roster
      BY <2>1, <2>4 DEF Command, Open, HerdrFocuses, ThreadOpens, OpenFails, Acknowledge, Opened,
         Switch, OrderThreads, Save, OrderHerdr, OrderOutcome, roster
    <2>5. CASE Managers
      BY <2>5 DEF Managers, Works, Visits, FocusMoves
    <2>6. QED
      BY <2>2, <2>3, <2>4, <2>5 DEF Next
  <1>2. QED
    BY <1>1, TypeCorrect, PTL DEF Spec, SequenceCoversRoster
----------------------------------------------------------------------------
(* How a latch moves                                                        *)

\* The ways a step changes what is known of the agents: not at all, everything forgotten,
\* one latch cleared by an acknowledgement, or a commit of what was found.
LEMMA LatchSteps ==
  ASSUME TypeOK, Next
  PROVE  \/ UNCHANGED observed
         \/ DOMAIN observed' = {}
         \/ \E c \in Client : At(c, "acknowledge") /\ observed' = LatchCleared(observed, client[c].agent)
         \/ \E found \in {seen, CarriedOver(cards)} :
              /\ observed' = NextObserved(found, observed, focused)
              /\ focused' = NextFocused(found)
  <1> DEFINE Goal ==
        \/ UNCHANGED observed
        \/ DOMAIN observed' = {}
        \/ \E c \in Client : At(c, "acknowledge") /\ observed' = LatchCleared(observed, client[c].agent)
        \/ \E found \in {seen, CarriedOver(cards)} :
             /\ observed' = NextObserved(found, observed, focused)
             /\ focused' = NextFocused(found)
  <1>1. CASE Loop
    <2>1. CASE CommitHerdr \/ CommitThreads
      BY <2>1 DEF CommitHerdr, CommitThreads, CommitRoster, ThreadsFound, Abandon, memory
    <2>2. CASE DiscoveryFails
      BY <2>2 DEF DiscoveryFails, Abandon, memory
    <2>3. QED
      BY <1>1, <2>1, <2>2 DEF Loop, Dispatch, EnterHerdr, Discover, ObserveSession,
         SessionConnected, SessionIncompatible, SessionUnsubscribed, SessionUnreachable, Hear,
         EnterThreads, ThreadsUnread, ReadThreads, Abandon, memory
  <1>2. ASSUME NEW c \in Client, Command(c) PROVE Goal
    <2>1. CASE Acknowledge(c)
      BY <2>1 DEF Acknowledge, memory
    <2>2. CASE \E m \in Backend : Switch(c, m)
      BY <2>2, EmptyType DEF Switch, ForgetManager, NothingKnown
    <2>3. QED
      BY <1>2, <2>1, <2>2 DEF Command, Open, HerdrFocuses, ThreadOpens, OpenFails, Opened,
         OrderThreads, Save, OrderHerdr, OrderOutcome, memory
  <1>3. CASE Managers
    BY <1>3 DEF Managers, Works, Visits, FocusMoves, memory
  <1>4. CASE Restart
    BY <1>4, EmptyType DEF Restart, NothingKnown
  <1>5. QED
    BY <1>1, <1>2, <1>3, <1>4 DEF Next

\* An acknowledgement changes nothing but the one latch.
LEMMA ClearedLatch ==
  ASSUME TypeOK, NEW a, NEW b \in DOMAIN observed
  PROVE  /\ LatchCleared(observed, a)[b].status = observed[b].status
         /\ LatchCleared(observed, a)[b].review = (b # a /\ observed[b].review)
  <1>1. observed[b] \in Observed
    BY DEF TypeOK, Partial
  <1>2. QED
    BY <1>1 DEF LatchCleared, Observed

\* What a commit makes of an agent that was known.
LEMMA CommittedLatch ==
  ASSUME NEW S, NEW O, NEW F, NEW a \in DOMAIN O, a \in DOMAIN NextObserved(S, O, F)
  PROVE  \/ /\ a \in Live(S)
            /\ NextObserved(S, O, F)[a].status = S[a].status
            /\ NextObserved(S, O, F)[a].seq = S[a].seq
            /\ NextObserved(S, O, F)[a].review = Latch(S, O, F, a)
         \/ NextObserved(S, O, F)[a] = O[a]
  BY DEF NextObserved

\* A latch rises only with a state the daemon had not seen, whichever step reads it: what
\* was acknowledged is not announced again for the same completion.
THEOREM LatchRises == Spec => LatchRisesOnNewState
  <1> DEFINE Rises(a) ==
        ~observed[a].review /\ observed'[a].review =>
            /\ observed'[a].status \in Finished
            /\ <<observed'[a].status, observed'[a].seq>> # <<observed[a].status, observed[a].seq>>
  <1>1. TypeOK /\ [Next]_vars => [\A a \in DOMAIN observed \cap DOMAIN observed' : Rises(a)]_vars
    <2> SUFFICES ASSUME TypeOK, Next, NEW a \in DOMAIN observed \cap DOMAIN observed'
                 PROVE  Rises(a)
      OBVIOUS
    <2>1. CASE UNCHANGED observed
      BY <2>1
    <2>2. ASSUME NEW c \in Client, observed' = LatchCleared(observed, client[c].agent)
          PROVE  Rises(a)
      BY <2>2, ClearedLatch
    <2>3. ASSUME NEW found, observed' = NextObserved(found, observed, focused)
          PROVE  Rises(a)
      <3> SUFFICES ASSUME ~observed[a].review, observed'[a].review
                   PROVE  /\ observed'[a].status \in Finished
                          /\ \/ observed'[a].status # observed[a].status
                             \/ observed'[a].seq # observed[a].seq
        OBVIOUS
      <3>1. /\ observed'[a].status = found[a].status /\ observed'[a].seq = found[a].seq
            /\ Latch(found, observed, focused, a)
        BY <2>3, CommittedLatch
      <3>2. found[a].status \in Finished
        BY <3>1, LatchMeansFinished
      <3>3. ~Unchanged(found, observed, a)
        BY <3>1 DEF Latch
      <3>4. QED
        BY <3>1, <3>2, <3>3 DEF Unchanged
    <2>4. QED
      BY <2>1, <2>2, <2>3, LatchSteps
  <1>2. QED
    BY <1>1, TypeCorrect, PTL DEF Spec, LatchRisesOnNewState

\* Only T3 Code records that an outcome was visited.
AckedByThreads ==
    /\ \A a \in Agent : world[a].acked => a \in T3Thread
    /\ \A a \in DOMAIN seen : seen[a].acked => a \in T3Thread

LEMMA AckedInit == Init => AckedByThreads
  <1> SUFFICES ASSUME Init PROVE AckedByThreads
    OBVIOUS
  <1>1. \A a \in Agent : world[a].acked = FALSE
    BY DEF Init
  <1>2. QED
    BY <1>1, EmptyType DEF Init, AckedByThreads

LEMMA AckedNext == TypeOK /\ AckedByThreads /\ [Next]_vars => AckedByThreads'
  <1> SUFFICES ASSUME TypeOK, AckedByThreads, [Next]_vars PROVE AckedByThreads'
    OBVIOUS
  <1>1. CASE UNCHANGED <<seen, world>>
    BY <1>1 DEF AckedByThreads
  <1>2. CASE LoopIdle /\ UNCHANGED world
    BY <1>2, EmptyType DEF LoopIdle, AckedByThreads
  <1>3. CASE \E s \in HerdrSession : ObserveSession(s)
    <2>1. PICK s \in HerdrSession : ObserveSession(s)
      BY <1>3
    <2>2. AgentsOf(s) \subseteq Agent
      BY DEF AgentsOf, Agent
    <2>3. PICK state, mode, agents :
             /\ Hear(s, state, mode, agents)
             /\ \A a \in DOMAIN agents : agents[a].acked => a \in T3Thread
      <3>1. CASE SessionConnected(s)
        BY <2>2, <3>1 DEF SessionConnected, Sighting, AckedByThreads
      <3>2. CASE SessionIncompatible(s)
        BY <3>2 DEF SessionIncompatible, Empty
      <3>3. CASE SessionUnsubscribed(s)
        BY <2>2, <3>3 DEF SessionUnsubscribed, Sighting, AckedByThreads
      <3>4. CASE SessionUnreachable(s)
        BY <3>4 DEF SessionUnreachable, CarriedOver
      <3>5. QED
        BY <2>1, <3>1, <3>2, <3>3, <3>4 DEF ObserveSession
    <2>4. QED
      BY <2>3 DEF Hear, Merge, AckedByThreads, managers
  <1>4. CASE ReadThreads
    BY <1>4 DEF ReadThreads, Sighting, AckedByThreads, managers, Agent
  <1>5. CASE Loop
    BY <1>1, <1>2, <1>3, <1>4, <1>5 DEF Loop, Dispatch, EnterHerdr, DiscoveryFails, Discover,
       CommitHerdr, EnterThreads, ThreadsUnread, CommitThreads, CommitRoster, Abandon, locals, managers
  <1>6. ASSUME NEW c \in Client, Command(c) PROVE AckedByThreads'
    BY <1>1, <1>6 DEF Command, Open, HerdrFocuses, ThreadOpens, OpenFails, Acknowledge, Opened,
       Switch, OrderThreads, Save, OrderHerdr, OrderOutcome, locals, managers
  <1>7. CASE Managers
    <2>1. ASSUME NEW a \in Agent, world'[a].acked
          PROVE  world[a].acked \/ a \in T3Thread
      <3>1. ASSUME NEW b \in Agent, Works(b) PROVE world[a].acked \/ a \in T3Thread
        BY <2>1, <3>1 DEF Works, TypeOK
      <3>2. ASSUME NEW t \in T3Thread, Visits(t) PROVE world[a].acked \/ a \in T3Thread
        BY <2>1, <3>2 DEF Visits, TypeOK
      <3>3. ASSUME NEW s \in HerdrSession, FocusMoves(s) PROVE world[a].acked \/ a \in T3Thread
        BY <2>1, <3>3 DEF FocusMoves
      <3>4. QED
        BY <1>7, <3>1, <3>2, <3>3 DEF Managers
    <2>2. UNCHANGED seen
      BY <1>7 DEF Managers, Works, Visits, FocusMoves, locals
    <2>3. QED
      BY <2>1, <2>2 DEF AckedByThreads
  <1>8. CASE Restart
    BY <1>2, <1>8 DEF Restart, managers
  <1>9. QED
    BY <1>1, <1>5, <1>6, <1>7, <1>8 DEF Next, vars, locals, managers

\* A latch of an agent that stays on the roster falls only when someone looked at it: a
\* portal opened it, the manager's focus moved to it, or T3 Code recorded a visit; or the
\* agent started again.
THEOREM LatchFalls == Spec => LatchFallsOnlyWhenSeen
  <1> DEFINE Looked(a) ==
        \/ observed'[a].status \notin Finished
        \/ \E c \in Client : client[c] = [step |-> "acknowledge", agent |-> a]
        \/ SessionOf(a) \in DOMAIN focused /\ focused[SessionOf(a)] # a
           /\ focused'[SessionOf(a)] = a
        \/ a \in T3Thread /\ seen[a].acked
  <1>1. TypeOK /\ AckedByThreads /\ [Next]_vars =>
          [\A a \in DOMAIN observed \cap DOMAIN observed' :
             observed[a].review /\ ~observed'[a].review => Looked(a)]_vars
    <2> SUFFICES ASSUME TypeOK, AckedByThreads, Next,
                        NEW a \in DOMAIN observed \cap DOMAIN observed',
                        observed[a].review, ~observed'[a].review
                 PROVE  Looked(a)
      OBVIOUS
    <2>1. ASSUME NEW c \in Client, At(c, "acknowledge"),
                 observed' = LatchCleared(observed, client[c].agent)
          PROVE  Looked(a)
      <3>1. observed'[a].review = (a # client[c].agent /\ observed[a].review)
        BY <2>1, ClearedLatch
      <3>2. client[c] \in [step : {"open", "acknowledge", "opened"}, agent : Agent]
        BY <2>1, ClientStateType DEF At, TypeOK
      <3>3. client[c] = [step |-> "acknowledge", agent |-> a]
        BY <2>1, <3>1, <3>2 DEF At
      <3>4. QED
        BY <3>3
    <2>2. ASSUME NEW found \in {seen, CarriedOver(cards)},
                 observed' = NextObserved(found, observed, focused),
                 focused' = NextFocused(found)
          PROVE  Looked(a)
      <3>1. /\ a \in Live(found) /\ observed'[a].status = found[a].status
            /\ ~Latch(found, observed, focused, a)
        BY <2>2, CommittedLatch
      <3>2. CASE FocusAcknowledges(found, focused, a)
        <4>1. SessionOf(a) \in ConnectedSessions(found)
          BY <3>1 DEF ConnectedSessions
        <4>2. focused'[SessionOf(a)] = a
          BY <2>2, <3>2, <4>1 DEF NextFocused, FocusAcknowledges
        <4>3. QED
          BY <3>2, <4>2 DEF FocusAcknowledges
      <3>3. CASE found[a].acked
        <4>1. found = seen
          BY <2>2, <3>1 DEF CarriedOver, Live
        <4>2. QED
          BY <3>1, <3>3, <4>1 DEF AckedByThreads, Live
      <3>4. CASE ~FocusAcknowledges(found, focused, a) /\ ~found[a].acked
        BY <3>1, <3>4 DEF Latch, NextReviewReady, Finished
      <3>5. QED
        BY <3>2, <3>3, <3>4
    <2>3. QED
      BY <2>1, <2>2, LatchSteps
  <1>2. QED
    BY <1>1, AckedInit, AckedNext, TypeCorrect, PTL DEF Spec, LatchFallsOnlyWhenSeen
----------------------------------------------------------------------------
(* The promise of the ordering                                              *)

OrderStep == [Lock!Next]_(Lock!vars)

\* A step that leaves the offer, the lock and its holder's command alone.
LEMMA OrdersStand ==
  ASSUME UNCHANGED <<order, guard>>,
         guard \in Client => client'[guard] = client[guard]
  PROVE  OrderStep
  BY DEF OrderStep, Lock!vars

LEMMA OrdersLoop == TypeOK /\ LockInv /\ Loop => OrderStep
  <1> SUFFICES ASSUME TypeOK, LockInv, Loop PROVE OrderStep
    OBVIOUS
  <1>1. TypeOK' /\ UNCHANGED client
    BY TypeLoop DEF Loop, Dispatch, EnterHerdr, DiscoveryFails, Discover, ObserveSession,
       SessionConnected, SessionIncompatible, SessionUnsubscribed, SessionUnreachable, Hear,
       CommitHerdr, EnterThreads, ThreadsUnread, ReadThreads, CommitThreads, CommitRoster, Abandon
  <1>2. CASE UNCHANGED <<order, guard>>
    BY <1>1, <1>2, OrdersStand
  <1>3. CASE guard = "free" /\ guard' = "loop" /\ UNCHANGED order
    <2>1. guard \notin Client /\ guard' \notin Client
      BY <1>3, DaemonAssumption
    <2>2. Lock!Reconcile
      BY <1>3, <2>1 DEF Lock!Reconcile
    <2>3. QED
      BY <2>2 DEF OrderStep, Lock!Next
  <1>4. CASE guard = "loop" /\ guard' = "free"
    <2>1. guard \notin Client /\ guard' \notin Client
      BY <1>4, DaemonAssumption
    <2>2. order' \in Lock!Offers
      BY <1>1 DEF TypeOK, OrderSnapshot, Lock!Offers
    <2>3. Lock!Reconciled
      BY <1>4, <2>1, <2>2 DEF Lock!Reconciled
    <2>4. QED
      BY <2>3 DEF OrderStep, Lock!Next
  <1>5. pc \in Reconciling => guard = "loop"
    BY DEF LockInv, LoopLock
  <1>6. CASE Dispatch \/ Discover \/ (\E s \in HerdrSession : ObserveSession(s)) \/ ReadThreads
    BY <1>2, <1>6 DEF Dispatch, Discover, ObserveSession, SessionConnected, SessionIncompatible,
       SessionUnsubscribed, SessionUnreachable, Hear, ReadThreads, roster
  <1>7. CASE EnterHerdr \/ EnterThreads
    BY <1>2, <1>3, <1>7 DEF EnterHerdr, EnterThreads, Abandon, roster
  <1>8. CASE DiscoveryFails \/ CommitHerdr \/ ThreadsUnread \/ CommitThreads
    BY <1>4, <1>5, <1>8 DEF DiscoveryFails, CommitHerdr, ThreadsUnread, CommitThreads, CommitRoster,
       Abandon, Reconciling
  <1>9. QED
    BY <1>6, <1>7, <1>8 DEF Loop

LEMMA OrdersCommand ==
  ASSUME TypeOK, LockInv, OfferInv, NEW c \in Client, Command(c)
  PROVE  OrderStep
  <1>1. c # "free" /\ "free" \notin Client
    BY DaemonAssumption
  <1>2. client \in [Client -> ClientState]
    BY DEF TypeOK
  <1>3. CASE (\E a \in Agent : Open(c, a)) \/ HerdrFocuses(c) \/ ThreadOpens(c) \/ OpenFails(c)
                \/ Acknowledge(c) \/ Opened(c)
    <2>1. UNCHANGED <<order, guard>> /\ \A x \in Client \ {c} : client'[x] = client[x]
      BY <1>2, <1>3 DEF Open, HerdrFocuses, ThreadOpens, OpenFails, Acknowledge, Opened, Begin, Answer, roster
    <2>2. client[c].step \notin {"save", "order"}
      BY <1>3 DEF Open, HerdrFocuses, ThreadOpens, OpenFails, Acknowledge, Opened, Begin, At, Idle
    <2>3. guard # c
      BY <2>2 DEF LockInv, ClientLock
    <2>4. QED
      BY <2>1, <2>3, OrdersStand
  <1>4. CASE (\E m \in Backend : Switch(c, m)) \/ (\E m \in OrderMode : OrderThreads(c, m))
    <2>1. /\ guard = "free" /\ guard' = c /\ client'[c].step = "save"
          /\ \/ \E m \in OrderMode : order.available /\ order' = [available |-> TRUE, mode |-> m]
             \/ order' = DefaultOrder
      BY <1>2, <1>4 DEF Switch, OrderThreads, Begin, HeldWhileSaving, ForgetManager, NothingKnown
    <2>2. Lock!TakesEffect(c)
      BY <1>1, <2>1 DEF Lock!TakesEffect, Lock!Offered, Lock!NoOffer, DefaultOrder
    <2>3. QED
      BY <2>2 DEF OrderStep, Lock!Next
  <1>5. ASSUME NEW m \in OrderMode, OrderHerdr(c, m)
        PROVE  OrderStep
    <2>1. /\ guard = "free" /\ guard' = c /\ UNCHANGED order
          /\ client'[c] = [step |-> "order", mode |-> m]
      BY <1>2, <1>5 DEF OrderHerdr, Begin, roster
    <2>2. Lock!Take(c, m)
      BY <2>1 DEF Lock!Take
    <2>3. QED
      BY <2>2 DEF OrderStep, Lock!Next
  <1>6. CASE Save(c)
    <2>1. guard = c /\ guard' = "free" /\ UNCHANGED order
      BY <1>6 DEF Save, At, Release, LockInv, ClientLock, roster
    <2>2. Lock!Done(c)
      BY <1>1, <2>1 DEF Lock!Done
    <2>3. QED
      BY <2>2 DEF OrderStep, Lock!Next
  <1>7. ASSUME NEW o, OrderOutcome(c, o)
        PROVE  OrderStep
    <2>1. /\ client[c].step = "order" /\ guard = c /\ guard' = "free" /\ order.available
          /\ \/ UNCHANGED order
             \/ order' \in {[available |-> TRUE, mode |-> client[c].mode], DefaultOrder}
      BY <1>7 DEF OrderOutcome, At, Release, LockInv, ClientLock, OfferInv
    <2>2. client[c].mode \in OrderMode
      BY <1>2, <2>1 DEF ClientState, Idle
    <2>3. client[c].mode # "none"
      BY <2>2 DEF OrderMode
    <2>4. Lock!Done(c)
      BY <1>1, <2>1, <2>3 DEF Lock!Done, Lock!Offered, Lock!NoOffer, DefaultOrder
    <2>5. QED
      BY <2>4 DEF OrderStep, Lock!Next
  <1>8. QED
    BY <1>3, <1>4, <1>5, <1>6, <1>7 DEF Command

\* Switches, restarts, orderings of both managers and reconciliations change the offer one
\* at a time; a command makes it what was asked or withdraws it, never bringing back what
\* was withdrawn.
THEOREM DaemonOrdersAsPromised == Spec => OrdersAsPromised
  <1>1. Init => Lock!Init
    BY DaemonAssumption DEF Init, Lock!Init, Lock!NoOffer, DefaultOrder
  <1>2. TypeOK /\ LockInv /\ OfferInv /\ [Next]_vars => OrderStep
    <2> SUFFICES ASSUME TypeOK, LockInv, OfferInv, [Next]_vars PROVE OrderStep
      OBVIOUS
    <2>1. CASE Managers \/ UNCHANGED vars
      BY <2>1, OrdersStand DEF Managers, Works, Visits, FocusMoves, vars, roster
    <2>2. CASE Restart
      <3>1. Lock!Restart
        BY <2>2, DaemonAssumption DEF Restart, NothingKnown, DefaultOrder, Lock!Restart, Lock!NoOffer
      <3>2. QED
        BY <3>1 DEF OrderStep, Lock!Next
    <2>3. QED
      BY <2>1, <2>2, OrdersLoop, OrdersCommand DEF Next
  <1>3. QED
    BY <1>1, <1>2, OfferAlways, RosterAlways, PTL DEF Spec, OrdersAsPromised, OrderStep, Lock!Spec
=============================================================================
