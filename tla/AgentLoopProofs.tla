-------------------------- MODULE AgentLoopProofs --------------------------
(***************************************************************************)
(* What wakes the agent loop, for any sessions, panes, capacity of the     *)
(* channel and number of changes.                                          *)
(***************************************************************************)
EXTENDS AgentLoop, TLAPS

----------------------------------------------------------------------------
(* The inductive invariant                                                  *)

HerdrPhases == {"discover", "observe", "subscribe", "again"}
T3Phases == {"t3code", "sequence", "rows", "commit"}

\* The loop holds the lock exactly while it reconciles, and a manager cannot be
\* switched under a reconciliation of Herdr.
LockInv ==
    /\ guard = "loop" <=> pc \in HerdrPhases \cup {"sequence", "rows", "commit"}
    /\ pc \in HerdrPhases => backend = "herdr"

\* The snapshot is the selected manager's or nobody's.
SnapshotInv ==
    /\ by \in {backend, "none"}
    /\ by # "herdr" => shown = Empty
    /\ by = "none" => rec = NoSeq
    /\ pc \in T3Phases => by # "herdr"

\* Once T3 Code's turn has come no subscription is left.
NoSubscriptions ==
    by = "t3code" \/ pc \in T3Phases => \A s \in Session : sub[s] = NoSub

\* A projection sequence is no later than the rows it is kept with.
Paired(seq, revision) ==
    /\ seq # NoSeq => seq <= rev
    /\ revision # NoSeq => revision <= rev
    /\ seq # NoSeq /\ revision # NoSeq => seq <= revision

SequenceInv ==
    /\ Paired(rec, threads) /\ Paired(rows.seq, rows.rev)
    /\ pc \notin {"rows", "commit"} => rows.seq = NoSeq
    /\ pc # "commit" => rows.rev = NoSeq

\* A switch that nobody has looked at yet leaves a wake-up behind whenever the
\* reconciliation under way is of the other manager.
SwitchInv ==
    /\ SwitchIsAnswered
    /\ by = "none" /\ backend = "herdr" /\ pc \in {"sequence", "rows", "commit"} => chan > 0

\* One session at a time is being subscribed, and it has still to be concluded.
SubscribingInv ==
    /\ pc \notin {"observe", "subscribe", "again"} => heard = Empty
    /\ pc \notin {"subscribe", "again"} => DOMAIN cur = {}
    /\ DOMAIN cur \subseteq todo /\ \A s, t \in DOMAIN cur : s = t
    /\ todo \cap DOMAIN heard = {}
    /\ \A s \in Session :
          sub[s].phase \in {"opening", "registered"} => pc = "subscribe" /\ s \in DOMAIN cur

\* Herdr announces what changes from now on, or the loop will look anyway.
Followed(s) == sub[s].phase = "live" \/ WakeUp(s)

\* A session shown as connected is followed, and its changes are on their way.
Fresh(roster, s) ==
    /\ s \in DOMAIN roster /\ roster[s].state = "connected" => Followed(s)
    /\ Lags(roster, s) => WakeUp(s)

WakeInv ==
    /\ \A s \in Session : Fresh(heard, s)
    /\ pc = "again" => \A s \in DOMAIN cur : Followed(s)
    /\ ~Refreshing => \A s \in Session : Fresh(shown, s)

LoopInv ==
    /\ TypeOK /\ LockInv /\ SnapshotInv /\ NoSubscriptions
    /\ SequenceInv /\ SwitchInv /\ SubscribingInv /\ WakeInv

----------------------------------------------------------------------------
(* Types                                                                    *)

LEMMA EmptyType == Seen(Empty) /\ Roster(Empty) /\ DOMAIN Empty = {}
  BY DEF Seen, Roster, Empty

LEMMA SightingType ==
  ASSUME TypeOK, NEW s
  PROVE  Versions(Sighting(s))
  BY DEF TypeOK, Versions, Sighting

LEMMA QueuedType ==
  ASSUME NEW n \in 0 .. Capacity
  PROVE  Queued(n) \in 0 .. Capacity /\ Queued(n) > 0
  BY LoopAssumption DEF Queued

LEMMA ConcludeType ==
  ASSUME TypeOK, NEW s \in Session, NEW state \in States, NEW seen, Versions(seen),
         Conclude(s, state, seen)
  PROVE  /\ Roster(heard') /\ todo' \in SUBSET Session /\ Seen(cur')
         /\ DOMAIN heard' = DOMAIN heard \cup {s}
         /\ \A x \in DOMAIN heard' :
               heard'[x] = IF x = s THEN [state |-> state, seen |-> seen] ELSE heard[x]
  <1>1. /\ DOMAIN heard' = DOMAIN heard \cup {s}
        /\ \A x \in DOMAIN heard' :
              heard'[x] = IF x = s THEN [state |-> state, seen |-> seen] ELSE heard[x]
    BY DEF Conclude
  <1>2. Roster(heard')
    BY <1>1 DEF TypeOK, Roster
  <1>3. QED
    BY <1>1, <1>2, EmptyType DEF Conclude, TypeOK

LEMMA FinishType ==
  ASSUME TypeOK, Finish
  PROVE  /\ pc' = "idle" /\ guard' = "free" /\ todo' \in SUBSET Session /\ Seen(cur')
         /\ Roster(heard') /\ rows' \in [seq : Sequence, rev : Sequence]
  BY EmptyType DEF Finish, Sequence

LEMMA NoSubType == NoSub \in Subscription
  BY DEF NoSub, Subscription, Phase

LEMMA AbortType ==
  ASSUME TypeOK, NEW s \in Session, Abort(s)
  PROVE  sub' \in [Session -> Subscription] /\ wire' \in [Session -> Nat]
  BY NoSubType DEF TypeOK, Abort

\* A change of one session's phase.
LEMMA PhaseType ==
  ASSUME TypeOK, NEW s \in Session, NEW ph \in Phase
  PROVE  [sub EXCEPT ![s].phase = ph] \in [Session -> Subscription]
  BY DEF TypeOK, Subscription

LEMMA BrokenType ==
  ASSUME TypeOK, NEW s \in Session
  PROVE  Broken(s) \in [Session -> Subscription]
  BY DEF TypeOK, Subscription, Broken, Phase

\* Only a connection Herdr writes to breaks.
LEMMA BrokenEffect ==
  ASSUME TypeOK, NEW s \in Session, NEW x \in Session
  PROVE  /\ x # s \/ ~Listening(s) => Broken(s)[x] = sub[x]
         /\ Listening(s) => Broken(s)[s].phase = "broken"
  BY DEF TypeOK, Subscription, Broken

LEMMA BrokenPhase ==
  ASSUME TypeOK
  PROVE  \A s, x \in Session :
            Broken(s)[x].phase \in {"opening", "registered"} => Broken(s)[x].phase = sub[x].phase
  <1> TAKE s, x \in Session
  <1>1. CASE x = s /\ Listening(s)
    BY <1>1, BrokenEffect
  <1>2. CASE ~(x = s /\ Listening(s))
    BY <1>2, BrokenEffect
  <1>3. QED
    BY <1>1, <1>2

LEMMA BrokenKeepsNone ==
  ASSUME TypeOK
  PROVE  \A s, x \in Session : sub[x] = NoSub => Broken(s)[x] = NoSub
  <1>1. \A x \in Session : sub[x] = NoSub => ~Listening(x)
    BY DEF NoSub, Listening
  <1>2. QED
    BY <1>1, BrokenEffect

LEMMA AnnounceType ==
  ASSUME TypeOK, NEW s \in Session, NEW asked, Announce(s, asked)
  PROVE  wire' \in [Session -> Nat]
  BY DEF TypeOK, Announce

----------------------------------------------------------------------------
(* Type correctness                                                         *)

LEMMA TypeInit == Init => TypeOK
  BY EmptyType, NoSubType, LoopAssumption
  DEF Init, TypeOK, Backend, Sequence

LEMMA WakingTypes ==
  ASSUME TypeOK, RepairTick \/ T3Tick \/ Recv \/ Drain \/ Dispatch
  PROVE  TypeOK'
  <1>1. CASE RepairTick \/ T3Tick
    BY <1>1 DEF RepairTick, T3Tick, TypeOK, Seen, Roster, Versions, world, herdr, queue, work, snapshot
  <1>2. CASE Recv \/ Drain
    BY <1>2, LoopAssumption DEF Recv, Drain, TypeOK, Seen, Roster, Versions, world, herdr, work, snapshot
  <1>3. CASE Dispatch
    BY <1>3, NoSubType DEF Dispatch, DropAll, TypeOK, Backend, Seen, Roster, Versions, world,
       herdr, work, snapshot
  <1>4. QED
    BY <1>1, <1>2, <1>3

LEMMA HerdrTypes ==
  ASSUME TypeOK, EnterHerdr \/ DiscoveryFails \/ Discover \/ CommitHerdr
  PROVE  TypeOK'
  <1>1. CASE EnterHerdr
    BY <1>1, FinishType DEF EnterHerdr, TypeOK, Seen, Roster, Versions, world, herdr, queue, work,
       snapshot
  <1>2. CASE DiscoveryFails
    <2>1. Roster(shown')
      BY <1>2 DEF DiscoveryFails, TypeOK, Roster, States
    <2>2. QED
      BY <1>2, <2>1, FinishType DEF DiscoveryFails, TypeOK, Backend, world, herdr, queue
  <1>3. CASE Discover
    BY <1>3 DEF Discover, TypeOK, Seen, Roster, Versions, world, herdr, queue, snapshot
  <1>4. CASE CommitHerdr
    <2>1. /\ sub' \in [Session -> Subscription] /\ wire' \in [Session -> Nat]
      BY <1>4, NoSubType DEF CommitHerdr, TypeOK
    <2>2. QED
      BY <1>4, <2>1, FinishType DEF CommitHerdr, TypeOK, Backend, Roster, Versions, world, herdr
  <1>5. QED
    BY <1>1, <1>2, <1>3, <1>4

LEMMA ObserveTypes ==
  ASSUME TypeOK, NEW s \in Session, Observe(s) \/ ObserveFails(s)
  PROVE  TypeOK'
  <1>1. CASE Observe(s)
    <2> DEFINE seen == Sighting(s)
    <2>1. Versions(seen)
      BY SightingType
    <2>2. CASE Follows(s, DOMAIN seen)
      <3>1. Conclude(s, "connected", seen) /\ UNCHANGED queue
        BY <1>1, <2>2 DEF Observe
      <3>2. /\ Roster(heard') /\ todo' \in SUBSET Session /\ Seen(cur')
        BY <3>1, <2>1, ConcludeType DEF States
      <3>3. QED
        BY <3>1, <3>2 DEF Conclude, TypeOK, Roster, Versions, world, herdr, queue, snapshot
    <2>3. CASE ~Follows(s, DOMAIN seen)
      <3>1. /\ sub' = [sub EXCEPT ![s] = [phase |-> "opening", panes |-> DOMAIN seen]]
            /\ wire' = [wire EXCEPT ![s] = 0]
            /\ cur' = [x \in {s} |-> seen] /\ pc' = "subscribe"
            /\ UNCHANGED <<world, chan, backend, guard, todo, heard, rows, snapshot>>
        BY <1>1, <2>3 DEF Observe
      <3>2. [phase |-> "opening", panes |-> DOMAIN seen] \in Subscription
        BY <2>1 DEF Versions, Subscription, Phase
      <3>3. sub' \in [Session -> Subscription] /\ wire' \in [Session -> Nat]
        BY <3>1, <3>2 DEF TypeOK
      <3>4. Seen(cur')
        BY <3>1, <2>1 DEF Seen
      <3>5. QED
        BY <3>1, <3>3, <3>4 DEF TypeOK, Roster, Versions, world, herdr, snapshot
    <2>4. QED
      BY <2>2, <2>3
  <1>2. CASE ObserveFails(s)
    <2>1. PICK state \in States : Conclude(s, state, Empty)
      BY <1>2 DEF ObserveFails, States
    <2>2. Versions(Empty)
      BY DEF Versions, Empty
    <2>3. /\ Roster(heard') /\ todo' \in SUBSET Session /\ Seen(cur')
      BY <2>1, <2>2, ConcludeType
    <2>4. QED
      BY <1>2, <2>1, <2>3, AbortType DEF ObserveFails, Conclude, TypeOK, Roster, Versions, world,
         herdr, snapshot
  <1>3. QED
    BY <1>1, <1>2

LEMMA SubscribeTypes ==
  ASSUME TypeOK, NEW s \in Session,
         Subscribed(s) \/ SubscribeFails(s) \/ ObserveAgain(s) \/ ObserveAgainFails(s)
  PROVE  TypeOK'
  <1>1. CASE Subscribed(s)
    BY <1>1, PhaseType DEF Subscribed, Phase, TypeOK, Seen, Roster, Versions, world, herdr, work,
       snapshot
  <1>2. CASE SubscribeFails(s) \/ ObserveAgainFails(s)
    <2>1. PICK state \in States : Conclude(s, state, Empty)
      BY <1>2 DEF SubscribeFails, ObserveAgainFails, States
    <2>2. Versions(Empty)
      BY DEF Versions, Empty
    <2>3. /\ Roster(heard') /\ todo' \in SUBSET Session /\ Seen(cur')
      BY <2>1, <2>2, ConcludeType
    <2>4. chan' \in 0 .. Capacity /\ Abort(s)
      BY <1>2, QueuedType DEF SubscribeFails, ObserveAgainFails, TypeOK
    <2>5. QED
      BY <2>1, <2>3, <2>4, AbortType DEF Conclude, TypeOK, Roster, Versions, world, herdr, snapshot
  <1>3. CASE ObserveAgain(s)
    <2>1. Conclude(s, "connected", Sighting(s)) /\ UNCHANGED queue
      BY <1>3 DEF ObserveAgain
    <2>2. /\ Roster(heard') /\ todo' \in SUBSET Session /\ Seen(cur')
      BY <2>1, SightingType, ConcludeType DEF States
    <2>3. QED
      BY <2>1, <2>2 DEF Conclude, TypeOK, Roster, Versions, world, herdr, queue, snapshot
  <1>4. QED
    BY <1>1, <1>2, <1>3

LEMMA ThreadsTypes ==
  ASSUME TypeOK, EnterThreads \/ ReadSequence \/ ReadRows \/ CommitThreads
  PROVE  TypeOK'
  <1>1. CASE EnterThreads
    BY <1>1 DEF EnterThreads, TypeOK, Seen, Roster, Versions, world, herdr, queue, work, snapshot
  <1>2. CASE ReadSequence \/ ReadRows
    <2>1. rows' \in [seq : Sequence, rev : Sequence]
      BY <1>2 DEF ReadSequence, ReadRows, TypeOK, Sequence
    <2>2. QED
      BY <1>2, <2>1 DEF ReadSequence, ReadRows, TypeOK, Seen, Roster, Versions, world, herdr,
         queue, snapshot
  <1>3. CASE CommitThreads
    BY <1>3, FinishType, EmptyType DEF CommitThreads, TypeOK, Backend, Roster, Versions, world,
       herdr, queue, snapshot
  <1>4. QED
    BY <1>1, <1>2, <1>3

LEMMA TasksTypes ==
  ASSUME TypeOK, NEW s \in Session, Registers(s) \/ TaskReads(s) \/ TaskEnds(s)
  PROVE  TypeOK'
  <1>1. CASE Registers(s)
    BY <1>1, PhaseType DEF Registers, Phase, TypeOK, Seen, Roster, Versions, world, herdr, work, snapshot
  <1>2. CASE TaskReads(s)
    BY <1>2, QueuedType DEF TaskReads, TypeOK, Seen, Roster, Versions, world, herdr, work, snapshot
  <1>3. CASE TaskEnds(s)
    BY <1>3, PhaseType, QueuedType DEF TaskEnds, Phase, TypeOK, Seen, Roster, Versions, world,
       herdr, work, snapshot
  <1>4. QED
    BY <1>1, <1>2, <1>3

LEMMA CommandsTypes ==
  ASSUME TypeOK, Switch \/ SwitchEnds \/ Nudge
  PROVE  TypeOK'
  <1>1. CASE Switch
    BY <1>1, EmptyType DEF Switch, Sequence, TypeOK, Seen, Roster, Versions, herdr, queue, work
  <1>2. CASE SwitchEnds
    BY <1>2, QueuedType DEF SwitchEnds, TypeOK, Seen, Roster, Versions, world, herdr, work, snapshot
  <1>3. CASE Nudge
    BY <1>3, QueuedType DEF Nudge, TypeOK, Seen, Roster, Versions, herdr, work, snapshot
  <1>4. QED
    BY <1>1, <1>2, <1>3

LEMMA ManagersTypes ==
  ASSUME TypeOK, Managers
  PROVE  TypeOK'
  <1>1. ASSUME NEW p \in Pane, PaneOpens(p) \/ PaneCloses(p) \/ StatusChanges(p)
        PROVE  TypeOK'
    <2>1. wire' \in [Session -> Nat]
      BY <1>1, AnnounceType, LoopAssumption DEF PaneOpens, PaneCloses, StatusChanges
    <2>2. CASE PaneOpens(p)
      BY <2>1, <2>2 DEF PaneOpens, Happens, TypeOK, Seen, Roster, Versions, work, snapshot
    <2>3. CASE PaneCloses(p)
      BY <2>1, <2>3 DEF PaneCloses, Happens, TypeOK, Seen, Roster, Versions, work, snapshot
    <2>4. CASE StatusChanges(p)
      BY <2>1, <2>4 DEF StatusChanges, Happens, TypeOK, Seen, Roster, Versions, work, snapshot
    <2>5. QED
      BY <1>1, <2>2, <2>3, <2>4
  <1>2. ASSUME NEW s \in Session, SessionStarts(s) \/ SessionStops(s) \/ ConnectionBreaks(s)
        PROVE  TypeOK'
    <2>1. sub' \in [Session -> Subscription]
      BY <1>2, BrokenType DEF SessionStarts, SessionStops, ConnectionBreaks, TypeOK
    <2>2. running' \in SUBSET Session /\ open' \in SUBSET Pane /\ ver' = ver
      BY <1>2 DEF SessionStarts, SessionStops, ConnectionBreaks, TypeOK, herdr
    <2>3. QED
      BY <1>2, <2>1, <2>2
      DEF SessionStarts, SessionStops, ConnectionBreaks, Happens, TypeOK, Seen, Roster, Versions,
         work, snapshot
  <1>3. CASE ThreadChanges
    BY <1>3 DEF ThreadChanges, Happens, TypeOK, Seen, Roster, Versions, herdr, work, snapshot
  <1>4. QED
    BY <1>1, <1>2, <1>3 DEF Managers

LEMMA TypeStep ==
  ASSUME TypeOK, [Next]_vars
  PROVE  TypeOK'
  <1>1. CASE UNCHANGED vars
    BY <1>1 DEF vars, TypeOK, Seen, Roster, Versions, world, herdr, queue, work, snapshot
  <1>2. CASE Next
    BY <1>2, WakingTypes, HerdrTypes, ObserveTypes, SubscribeTypes, ThreadsTypes,
       TasksTypes, CommandsTypes, ManagersTypes
    DEF Next, Reconcile, Tasks, Commands
  <1>3. QED
    BY <1>1, <1>2

\* Every reachable state of the loop is well typed; the channel never holds more
\* than its capacity.
THEOREM TypeCorrect == Spec => []TypeOK
  <1>1. TypeOK /\ [Next]_vars => TypeOK'
    BY TypeStep
  <1>2. QED
    BY <1>1, TypeInit, PTL DEF Spec

----------------------------------------------------------------------------
(* The lock, the snapshot and the subscriptions                             *)

\* What the managers do leaves the loop where it was, and only time passes for it.
LEMMA ManagersLeave ==
  ASSUME TypeOK, Managers
  PROVE  UNCHANGED <<chan, backend, guard, pc, work, snapshot>> /\ rev' \in Nat /\ rev <= rev'
  <1>1. ASSUME NEW p \in Pane, PaneOpens(p) \/ PaneCloses(p) \/ StatusChanges(p)
        PROVE  Happens /\ rev' = rev
    BY <1>1 DEF PaneOpens, PaneCloses, StatusChanges
  <1>2. ASSUME NEW s \in Session, SessionStarts(s) \/ SessionStops(s) \/ ConnectionBreaks(s)
        PROVE  Happens /\ rev' = rev
    BY <1>2 DEF SessionStarts, SessionStops, ConnectionBreaks
  <1>3. ASSUME ThreadChanges
        PROVE  Happens /\ rev' = rev + 1
    BY <1>3 DEF ThreadChanges
  <1>4. Happens /\ rev' \in {rev, rev + 1}
    BY <1>1, <1>2, <1>3 DEF Managers
  <1>5. QED
    BY <1>4 DEF Happens, TypeOK

LEMMA LockStep ==
  ASSUME TypeOK, LockInv, [Next]_vars
  PROVE  LockInv'
  <1> USE DEF TypeOK, LockInv, HerdrPhases, Backend
  <1>1. CASE RepairTick \/ T3Tick \/ Recv \/ Drain \/ Dispatch
    BY <1>1 DEF RepairTick, T3Tick, Recv, Drain, Dispatch, DropAll, world, herdr, queue, work, snapshot
  <1>2. CASE EnterHerdr \/ DiscoveryFails \/ Discover \/ CommitHerdr
    BY <1>2 DEF EnterHerdr, DiscoveryFails, Discover, CommitHerdr, Finish, world, herdr, queue,
       work, snapshot
  <1>3. ASSUME NEW s \in Session, Observe(s) \/ ObserveFails(s)
        PROVE  LockInv'
    BY <1>3 DEF Observe, ObserveFails, Conclude, Abort, world, herdr, queue, work, snapshot
  <1>4. ASSUME NEW s \in Session,
               Subscribed(s) \/ SubscribeFails(s) \/ ObserveAgain(s) \/ ObserveAgainFails(s)
        PROVE  LockInv'
    BY <1>4 DEF Subscribed, SubscribeFails, ObserveAgain, ObserveAgainFails, Conclude, Abort,
       world, herdr, queue, work, snapshot
  <1>5. CASE EnterThreads \/ ReadSequence \/ ReadRows \/ CommitThreads
    BY <1>5 DEF EnterThreads, ReadSequence, ReadRows, CommitThreads, Finish, world, herdr, queue,
       work, snapshot
  <1>6. ASSUME NEW s \in Session, Registers(s) \/ TaskReads(s) \/ TaskEnds(s)
        PROVE  LockInv'
    BY <1>6 DEF Registers, TaskReads, TaskEnds, world, herdr, queue, work, snapshot
  <1>7. CASE Switch \/ SwitchEnds \/ Nudge
    BY <1>7 DEF Switch, SwitchEnds, Nudge, world, herdr, queue, work, snapshot
  <1>8. CASE Managers
    BY <1>8, ManagersLeave DEF work, snapshot
  <1>9. CASE UNCHANGED vars
    BY <1>9 DEF vars, world, herdr, queue, work, snapshot
  <1>10. QED
    BY <1>1, <1>2, <1>3, <1>4, <1>5, <1>6, <1>7, <1>8, <1>9 DEF Next, Reconcile, Tasks, Commands

LEMMA SnapshotStep ==
  ASSUME TypeOK, LockInv, SnapshotInv, [Next]_vars
  PROVE  SnapshotInv'
  <1> USE DEF TypeOK, LockInv, SnapshotInv, HerdrPhases, T3Phases, Backend, Empty
  <1>1. CASE RepairTick \/ T3Tick \/ Recv \/ Drain \/ Dispatch
    BY <1>1 DEF RepairTick, T3Tick, Recv, Drain, Dispatch, DropAll, world, herdr, queue, work, snapshot
  <1>2. CASE EnterHerdr \/ DiscoveryFails \/ Discover \/ CommitHerdr
    BY <1>2 DEF EnterHerdr, DiscoveryFails, Discover, CommitHerdr, Finish, world, herdr, queue,
       work, snapshot
  <1>3. ASSUME NEW s \in Session, Observe(s) \/ ObserveFails(s)
        PROVE  SnapshotInv'
    BY <1>3 DEF Observe, ObserveFails, Conclude, Abort, world, herdr, queue, work, snapshot
  <1>4. ASSUME NEW s \in Session,
               Subscribed(s) \/ SubscribeFails(s) \/ ObserveAgain(s) \/ ObserveAgainFails(s)
        PROVE  SnapshotInv'
    BY <1>4 DEF Subscribed, SubscribeFails, ObserveAgain, ObserveAgainFails, Conclude, Abort,
       world, herdr, queue, work, snapshot
  <1>5. CASE EnterThreads \/ ReadSequence \/ ReadRows \/ CommitThreads
    BY <1>5 DEF EnterThreads, ReadSequence, ReadRows, CommitThreads, Finish, world, herdr, queue,
       work, snapshot
  <1>6. ASSUME NEW s \in Session, Registers(s) \/ TaskReads(s) \/ TaskEnds(s)
        PROVE  SnapshotInv'
    BY <1>6 DEF Registers, TaskReads, TaskEnds, world, herdr, queue, work, snapshot
  <1>7. CASE Switch \/ SwitchEnds \/ Nudge
    BY <1>7 DEF Switch, SwitchEnds, Nudge, world, herdr, queue, work, snapshot
  <1>8. CASE Managers
    BY <1>8, ManagersLeave DEF work, snapshot
  <1>9. CASE UNCHANGED vars
    BY <1>9 DEF vars, world, herdr, queue, work, snapshot
  <1>10. QED
    BY <1>1, <1>2, <1>3, <1>4, <1>5, <1>6, <1>7, <1>8, <1>9 DEF Next, Reconcile, Tasks, Commands

LEMMA SubscriptionsStep ==
  ASSUME TypeOK, LockInv, SnapshotInv, NoSubscriptions, [Next]_vars
  PROVE  NoSubscriptions'
  <1> USE DEF TypeOK, LockInv, SnapshotInv, NoSubscriptions, HerdrPhases, T3Phases, Backend, NoSub
  <1>1. CASE RepairTick \/ T3Tick \/ Recv \/ Drain \/ Dispatch
    BY <1>1 DEF RepairTick, T3Tick, Recv, Drain, Dispatch, DropAll, world, herdr, queue, work, snapshot
  <1>2. CASE EnterHerdr \/ DiscoveryFails \/ Discover \/ CommitHerdr
    BY <1>2 DEF EnterHerdr, DiscoveryFails, Discover, CommitHerdr, Finish, world, herdr, queue,
       work, snapshot
  <1>3. ASSUME NEW s \in Session, Observe(s) \/ ObserveFails(s)
        PROVE  NoSubscriptions'
    BY <1>3 DEF Observe, ObserveFails, Conclude, Abort, world, herdr, queue, work, snapshot
  <1>4. ASSUME NEW s \in Session,
               Subscribed(s) \/ SubscribeFails(s) \/ ObserveAgain(s) \/ ObserveAgainFails(s)
        PROVE  NoSubscriptions'
    BY <1>4 DEF Subscribed, SubscribeFails, ObserveAgain, ObserveAgainFails, Conclude, Abort,
       world, herdr, queue, work, snapshot
  <1>5. CASE EnterThreads \/ ReadSequence \/ ReadRows \/ CommitThreads
    BY <1>5 DEF EnterThreads, ReadSequence, ReadRows, CommitThreads, Finish, world, herdr, queue,
       work, snapshot
  <1>6. ASSUME NEW s \in Session, Registers(s) \/ TaskReads(s) \/ TaskEnds(s)
        PROVE  NoSubscriptions'
    BY <1>6 DEF Registers, TaskReads, TaskEnds, world, herdr, queue, work, snapshot
  <1>7. CASE Switch \/ SwitchEnds \/ Nudge
    BY <1>7 DEF Switch, SwitchEnds, Nudge, world, herdr, queue, work, snapshot
  <1>8. CASE Managers
    <2>1. \A x \in Session : sub[x] = NoSub => sub'[x] = NoSub
      <3>1. sub' = sub \/ \E s \in Session : sub' = Broken(s)
        BY <1>8 DEF Managers, PaneOpens, PaneCloses, StatusChanges, SessionStarts,
           SessionStops, ConnectionBreaks, ThreadChanges
      <3>2. QED
        BY <3>1, BrokenKeepsNone
    <2>2. UNCHANGED <<by, pc>>
      BY <1>8 DEF Managers, PaneOpens, PaneCloses, StatusChanges, SessionStarts,
         SessionStops, ConnectionBreaks, ThreadChanges, Happens, snapshot
    <2>3. QED
      BY <2>1, <2>2
  <1>9. CASE UNCHANGED vars
    BY <1>9 DEF vars, world, herdr, queue, work, snapshot
  <1>10. QED
    BY <1>1, <1>2, <1>3, <1>4, <1>5, <1>6, <1>7, <1>8, <1>9 DEF Next, Reconcile, Tasks, Commands

LEMMA SequenceStep ==
  ASSUME TypeOK, SequenceInv, [Next]_vars
  PROVE  SequenceInv'
  <1> USE DEF TypeOK, SequenceInv, Paired, Sequence
  <1>1. CASE RepairTick \/ T3Tick \/ Recv \/ Drain \/ Dispatch
    BY <1>1, LoopAssumption DEF RepairTick, T3Tick, Recv, Drain, Dispatch, DropAll, world, herdr,
       queue, work, snapshot
  <1>2. CASE EnterHerdr \/ DiscoveryFails \/ Discover \/ CommitHerdr
    BY <1>2, LoopAssumption DEF EnterHerdr, DiscoveryFails, Discover, CommitHerdr, Finish, world,
       herdr, queue, work, snapshot
  <1>3. ASSUME NEW s \in Session, Observe(s) \/ ObserveFails(s)
        PROVE  SequenceInv'
    BY <1>3, LoopAssumption DEF Observe, ObserveFails, Conclude, Abort, world, herdr, queue, work,
       snapshot
  <1>4. ASSUME NEW s \in Session,
               Subscribed(s) \/ SubscribeFails(s) \/ ObserveAgain(s) \/ ObserveAgainFails(s)
        PROVE  SequenceInv'
    BY <1>4, LoopAssumption DEF Subscribed, SubscribeFails, ObserveAgain, ObserveAgainFails,
       Conclude, Abort, world, herdr, queue, work, snapshot
  <1>5. CASE EnterThreads \/ ReadSequence \/ ReadRows \/ CommitThreads
    BY <1>5, LoopAssumption DEF EnterThreads, ReadSequence, ReadRows, CommitThreads, Finish, world,
       herdr, queue, work, snapshot
  <1>6. ASSUME NEW s \in Session, Registers(s) \/ TaskReads(s) \/ TaskEnds(s)
        PROVE  SequenceInv'
    BY <1>6, LoopAssumption DEF Registers, TaskReads, TaskEnds, world, herdr, queue, work, snapshot
  <1>7. CASE Switch \/ SwitchEnds \/ Nudge
    BY <1>7, LoopAssumption DEF Switch, SwitchEnds, Nudge, world, herdr, queue, work, snapshot
  <1>8. CASE Managers
    BY <1>8, ManagersLeave DEF work, snapshot
  <1>9. CASE UNCHANGED vars
    BY <1>9, LoopAssumption DEF vars, world, herdr, queue, work, snapshot
  <1>10. QED
    BY <1>1, <1>2, <1>3, <1>4, <1>5, <1>6, <1>7, <1>8, <1>9 DEF Next, Reconcile, Tasks, Commands

LEMMA SwitchStep ==
  ASSUME TypeOK, LockInv, SnapshotInv, SwitchInv, [Next]_vars
  PROVE  SwitchInv'
  <1> USE DEF TypeOK, LockInv, SnapshotInv, SwitchInv, SwitchIsAnswered, HerdrPhases, T3Phases,
     Backend, Queued, Sequence
  <1>1. CASE RepairTick \/ T3Tick \/ Recv \/ Drain \/ Dispatch
    BY <1>1, LoopAssumption DEF RepairTick, T3Tick, Recv, Drain, Dispatch, DropAll, world, herdr,
       queue, work, snapshot
  <1>2. CASE EnterHerdr \/ DiscoveryFails \/ Discover \/ CommitHerdr
    BY <1>2, LoopAssumption DEF EnterHerdr, DiscoveryFails, Discover, CommitHerdr, Finish, world,
       herdr, queue, work, snapshot
  <1>3. ASSUME NEW s \in Session, Observe(s) \/ ObserveFails(s)
        PROVE  SwitchInv'
    BY <1>3, LoopAssumption DEF Observe, ObserveFails, Conclude, Abort, world, herdr, queue, work,
       snapshot
  <1>4. ASSUME NEW s \in Session,
               Subscribed(s) \/ SubscribeFails(s) \/ ObserveAgain(s) \/ ObserveAgainFails(s)
        PROVE  SwitchInv'
    BY <1>4, LoopAssumption DEF Subscribed, SubscribeFails, ObserveAgain, ObserveAgainFails,
       Conclude, Abort, world, herdr, queue, work, snapshot
  <1>5. CASE EnterThreads \/ ReadSequence \/ ReadRows \/ CommitThreads
    BY <1>5, LoopAssumption DEF EnterThreads, ReadSequence, ReadRows, CommitThreads, Finish, world,
       herdr, queue, work, snapshot
  <1>6. ASSUME NEW s \in Session, Registers(s) \/ TaskReads(s) \/ TaskEnds(s)
        PROVE  SwitchInv'
    BY <1>6, LoopAssumption DEF Registers, TaskReads, TaskEnds, world, herdr, queue, work, snapshot
  <1>7. CASE Switch \/ SwitchEnds \/ Nudge
    BY <1>7, LoopAssumption DEF Switch, SwitchEnds, Nudge, world, herdr, queue, work, snapshot
  <1>8. CASE Managers
    <2>1. UNCHANGED <<chan, backend, guard, pc, by, rec>> /\ rev' \in Nat
      BY <1>8, ManagersLeave DEF snapshot
    <2>2. by = "none" => rec # rev'
      BY <2>1, LoopAssumption
    <2> QED
      BY <2>1, <2>2
  <1>9. CASE UNCHANGED vars
    BY <1>9, LoopAssumption DEF vars, world, herdr, queue, work, snapshot
  <1>10. QED
    BY <1>1, <1>2, <1>3, <1>4, <1>5, <1>6, <1>7, <1>8, <1>9 DEF Next, Reconcile, Tasks, Commands

----------------------------------------------------------------------------
(* No wake-up is lost                                                       *)

LEMMA ConcludeKeepsSubscribing ==
  ASSUME TypeOK, SubscribingInv, NEW s \in todo, NEW state, NEW seen, Conclude(s, state, seen),
         \A x \in Session : sub'[x].phase \notin {"opening", "registered"}
  PROVE  SubscribingInv'
  <1>1. /\ pc' = "observe" /\ DOMAIN cur' = {} /\ todo' = todo \ {s}
        /\ DOMAIN heard' = DOMAIN heard \cup {s}
    BY EmptyType DEF Conclude
  <1>2. QED
    BY <1>1 DEF SubscribingInv

\* No other session is being subscribed, so that aborting this one leaves none.
LEMMA AbortLeavesNone ==
  ASSUME TypeOK, SubscribingInv, NEW s \in Session, Abort(s),
         pc # "subscribe" \/ s \in DOMAIN cur
  PROVE  \A x \in Session : sub'[x].phase \notin {"opening", "registered"}
  <1> TAKE x \in Session
  <1>1. CASE x = s
    BY <1>1 DEF Abort, NoSub, TypeOK
  <1>2. CASE x # s
    BY <1>2 DEF Abort, TypeOK, SubscribingInv
  <1>3. QED
    BY <1>1, <1>2

LEMMA SubscribingStep ==
  ASSUME TypeOK, LockInv, SubscribingInv, [Next]_vars
  PROVE  SubscribingInv'
  <1> USE DEF TypeOK, LockInv, SubscribingInv, HerdrPhases, NoSub, Empty, Seen
  <1>1. CASE RepairTick \/ T3Tick \/ Recv \/ Drain \/ Dispatch
    BY <1>1, NoSubType DEF RepairTick, T3Tick, Recv, Drain, Dispatch, DropAll, world, herdr, queue,
       work, snapshot
  <1>2. CASE EnterHerdr \/ DiscoveryFails \/ Discover \/ CommitHerdr
    BY <1>2, NoSubType DEF EnterHerdr, DiscoveryFails, Discover, CommitHerdr, Finish, world, herdr,
       queue, work, snapshot
  <1>3. ASSUME NEW s \in Session, Observe(s)
        PROVE  SubscribingInv'
    <2>1. CASE Follows(s, DOMAIN Sighting(s))
      BY <1>3, <2>1, ConcludeKeepsSubscribing DEF Observe, queue
    <2>2. CASE ~Follows(s, DOMAIN Sighting(s))
      BY <1>3, <2>2 DEF Observe, world, work, snapshot
    <2>3. QED
      BY <2>1, <2>2
  <1>4. ASSUME NEW s \in Session, ObserveFails(s) \/ SubscribeFails(s) \/ ObserveAgainFails(s)
        PROVE  SubscribingInv'
    <2>1. /\ s \in todo /\ Abort(s) /\ (pc # "subscribe" \/ s \in DOMAIN cur)
          /\ \E state : Conclude(s, state, Empty)
      BY <1>4 DEF ObserveFails, SubscribeFails, ObserveAgainFails
    <2>2. QED
      BY <2>1, ConcludeKeepsSubscribing, AbortLeavesNone
  <1>5. CASE EnterThreads \/ ReadSequence \/ ReadRows \/ CommitThreads
    BY <1>5, NoSubType DEF EnterThreads, ReadSequence, ReadRows, CommitThreads, Finish, world,
       herdr, queue, work, snapshot
  <1>6. ASSUME NEW s \in Session, Registers(s) \/ TaskReads(s) \/ TaskEnds(s)
        PROVE  SubscribingInv'
    <2>1. /\ UNCHANGED <<pc, todo, cur, heard>>
          /\ \A x \in Session : sub'[x].phase \in {"opening", "registered"} =>
                sub[x].phase \in {"opening", "registered"}
      <3>1. CASE Registers(s)
        BY <3>1 DEF Registers, work
      <3>2. CASE TaskReads(s)
        BY <3>2 DEF TaskReads, work
      <3>3. CASE TaskEnds(s)
        BY <3>3 DEF TaskEnds, work
      <3>4. QED
        BY <1>6, <3>1, <3>2, <3>3
    <2>2. QED
      BY <2>1
  <1>7. CASE Switch \/ SwitchEnds \/ Nudge
    BY <1>7, NoSubType DEF Switch, SwitchEnds, Nudge, world, herdr, queue, work, snapshot
  <1>8. CASE Managers
    <2>1. \A x \in Session :
             sub'[x].phase \in {"opening", "registered"} => sub[x].phase = sub'[x].phase
      BY <1>8, BrokenPhase DEF Managers, PaneOpens, PaneCloses, StatusChanges, SessionStarts,
         SessionStops, ConnectionBreaks, ThreadChanges
    <2>2. UNCHANGED <<pc, todo, cur, heard>>
      BY <1>8 DEF Managers, PaneOpens, PaneCloses, StatusChanges, SessionStarts,
         SessionStops, ConnectionBreaks, ThreadChanges, Happens, work
    <2>3. QED
      BY <2>1, <2>2
  <1>9. CASE UNCHANGED vars
    BY <1>9, NoSubType DEF vars, world, herdr, queue, work, snapshot
  <1>10. ASSUME NEW s \in Session, Subscribed(s)
         PROVE  SubscribingInv'
    <2>1. \A x \in Session : sub'[x].phase \notin {"opening", "registered"}
      BY <1>10 DEF Subscribed
    <2>2. QED
      BY <1>10, <2>1 DEF Subscribed, work
  <1>11. ASSUME NEW s \in Session, ObserveAgain(s)
         PROVE  SubscribingInv'
    BY <1>11, ConcludeKeepsSubscribing DEF ObserveAgain, queue
  <1>12. QED
    BY <1>1, <1>2, <1>3, <1>4, <1>5, <1>6, <1>7, <1>8, <1>9, <1>10, <1>11
    DEF Next, Reconcile, Tasks, Commands

\* What anyone but the loop does takes no wake-up away.
Others == Tasks \/ Commands \/ Managers

LEMMA OthersKeepWakeUp ==
  ASSUME TypeOK, NEW s \in Session, Others, WakeUp(s)
  PROVE  WakeUp(s)'
  <1>1. CASE Tasks
    BY <1>1, QueuedType DEF Tasks, Registers, TaskReads, TaskEnds, WakeUp, TypeOK
  <1>2. CASE Commands
    BY <1>2, QueuedType DEF Commands, Switch, SwitchEnds, Nudge, WakeUp, TypeOK, queue
  <1>3. CASE Managers
    <2>1. chan' = chan /\ (wire[s] > 0 => wire'[s] > 0)
      BY <1>3 DEF Managers, PaneOpens, PaneCloses, StatusChanges, SessionStarts, SessionStops,
         ConnectionBreaks, ThreadChanges, Happens, Announce, TypeOK
    <2>2. sub[s].phase = "broken" => sub'[s].phase = "broken"
      BY <1>3, BrokenEffect DEF Managers, PaneOpens, PaneCloses, StatusChanges, SessionStarts,
         SessionStops, ConnectionBreaks, ThreadChanges, Listening
    <2>3. QED
      BY <2>1, <2>2 DEF WakeUp, TypeOK
  <1>4. QED
    BY <1>1, <1>2, <1>3 DEF Others

\* A session that is listened to changes only with a wake-up on its way: its panes,
\* and the agents of the panes its subscription asks about.
LEMMA ChangesAreAnnounced ==
  ASSUME TypeOK, NEW s \in Session, Others, sub[s].phase = "live", ~WakeUp(s)'
  PROVE  /\ sub'[s] = sub[s]
         /\ DOMAIN Sighting(s)' = DOMAIN Sighting(s)
         /\ \A p \in DOMAIN Sighting(s) \cap sub[s].panes : ver'[p] = ver[p]
  <1>1. CASE Tasks
    <2>1. UNCHANGED <<open, ver>>
      BY <1>1 DEF Tasks, Registers, TaskReads, TaskEnds, world, herdr
    <2>2. sub'[s] = sub[s]
      BY <1>1 DEF Tasks, Registers, TaskReads, TaskEnds, TypeOK
    <2>3. QED
      BY <2>1, <2>2 DEF Sighting
  <1>2. CASE Commands
    BY <1>2 DEF Commands, Switch, SwitchEnds, Nudge, Sighting, queue, herdr, world
  <1>3. CASE Managers
    <2>1. ASSUME NEW p \in Pane, PaneOpens(p) \/ PaneCloses(p) \/ StatusChanges(p)
          PROVE  /\ sub' = sub
                 /\ DOMAIN Sighting(s)' = DOMAIN Sighting(s)
                 /\ \A q \in DOMAIN Sighting(s) \cap sub[s].panes : ver'[q] = ver[q]
      <3>1. HomeOf[p] = s => ~Announce(s, TRUE)
        BY <2>1 DEF WakeUp, Announce, Listening, TypeOK
      <3>2. CASE PaneOpens(p) \/ PaneCloses(p)
        BY <3>1, <3>2 DEF PaneOpens, PaneCloses, Sighting
      <3>3. CASE StatusChanges(p)
        <4>1. HomeOf[p] = s => p \notin sub[s].panes
          BY <3>3 DEF StatusChanges, WakeUp, Announce, Listening, TypeOK
        <4>2. \A q \in DOMAIN Sighting(s) : HomeOf[q] = s /\ q \in Pane
          BY DEF Sighting, TypeOK
        <4>3. QED
          BY <3>3, <4>1, <4>2 DEF StatusChanges, Sighting, TypeOK
      <3>4. QED
        BY <2>1, <3>2, <3>3
    <2>2. ASSUME NEW x \in Session, SessionStarts(x) \/ SessionStops(x) \/ ConnectionBreaks(x)
          PROVE  UNCHANGED ver /\ sub'[s] = sub[s] /\ DOMAIN Sighting(s)' = DOMAIN Sighting(s)
      <3>1. Broken(s)[s].phase = "broken"
        BY BrokenEffect DEF Listening
      <3>2. x = s => sub' # Broken(s)
        BY <3>1 DEF WakeUp
      <3>3. QED
        BY <2>2, <3>2, BrokenEffect DEF SessionStarts, SessionStops, ConnectionBreaks, Sighting, herdr
    <2>3. CASE ThreadChanges
      BY <2>3 DEF ThreadChanges, Sighting, herdr
    <2>4. QED
      BY <1>3, <2>1, <2>2, <2>3 DEF Managers
  <1>4. QED
    BY <1>1, <1>2, <1>3 DEF Others

LEMMA OthersKeepFollowed ==
  ASSUME TypeOK, NEW s \in Session, Others, Followed(s)
  PROVE  Followed(s)'
  BY OthersKeepWakeUp, ChangesAreAnnounced DEF Followed

LEMMA OthersWake ==
  ASSUME TypeOK, WakeInv, Others
  PROVE  WakeInv'
  <1>1. UNCHANGED <<pc, cur, heard>> /\ (shown' = shown \/ shown' = Empty)
    BY DEF Others, Tasks, Registers, TaskReads, TaskEnds, Commands, Switch, SwitchEnds, Nudge,
       Managers, PaneOpens, PaneCloses, StatusChanges, SessionStarts, SessionStops,
       ConnectionBreaks, ThreadChanges, Happens, work, snapshot
  <1>2. ASSUME NEW s \in Session, Fresh(heard, s)
        PROVE  Fresh(heard, s)'
    BY <1>1, <1>2, OthersKeepFollowed, OthersKeepWakeUp, ChangesAreAnnounced DEF Fresh, Followed, Lags
  <1>3. ASSUME NEW s \in Session, Fresh(shown, s)
        PROVE  Fresh(shown, s)'
    <2>1. CASE shown' = shown
      BY <1>3, <2>1, OthersKeepFollowed, OthersKeepWakeUp, ChangesAreAnnounced DEF Fresh, Followed, Lags
    <2>2. CASE shown' = Empty
      BY <2>2 DEF Fresh, Lags, Empty
    <2>3. QED
      BY <1>1, <2>1, <2>2
  <1>4. pc = "again" => \A s \in DOMAIN cur : Followed(s)'
    BY OthersKeepFollowed DEF WakeInv, TypeOK, Seen
  <1>5. QED
    BY <1>1, <1>2, <1>3, <1>4 DEF WakeInv, Refreshing

\* A session that is concluded leaves the others as they were.
LEMMA ConcludeKeepsWake ==
  ASSUME TypeOK, SubscribingInv, WakeInv, NEW s \in Session, s \in todo,
         NEW state \in States, NEW seen, Versions(seen), Conclude(s, state, seen),
         \A x \in Session \ {s} : sub'[x] = sub[x] /\ wire'[x] = wire[x],
         chan > 0 => chan' > 0,
         state = "connected" => seen = Sighting(s) /\ Followed(s)'
  PROVE  WakeInv'
  <1>1. /\ DOMAIN heard' = DOMAIN heard \cup {s}
        /\ \A x \in DOMAIN heard' :
              heard'[x] = IF x = s THEN [state |-> state, seen |-> seen] ELSE heard[x]
    BY ConcludeType
  <1>2. UNCHANGED <<open, ver>> /\ pc' = "observe"
    BY DEF Conclude, world, herdr
  <1>3. \A x : Sighting(x)' = Sighting(x)
    BY <1>2 DEF Sighting
  <1>4. ASSUME NEW x \in Session, x # s
        PROVE  Fresh(heard, x)'
    <2>1. sub'[x] = sub[x] /\ wire'[x] = wire[x]
      BY <1>4
    <2>2. (Followed(x) => Followed(x)') /\ (WakeUp(x) => WakeUp(x)')
      BY <2>1 DEF Followed, WakeUp
    <2>3. (x \in DOMAIN heard' <=> x \in DOMAIN heard) /\ (x \in DOMAIN heard => heard'[x] = heard[x])
      BY <1>1, <1>4
    <2>4. Lags(heard, x)' => Lags(heard, x)
      BY <2>1, <2>3, <1>2, <1>3 DEF Lags
    <2>5. QED
      BY <2>2, <2>3, <2>4 DEF WakeInv, Fresh
  <1>5. Fresh(heard, s)'
    <2>1. heard'[s].state = state /\ heard'[s].seen = seen
      BY <1>1
    <2>2. state = "connected" => ~Lags(heard, s)'
      <3>1. \A p \in DOMAIN Sighting(s) : Sighting(s)[p] = ver[p]
        BY DEF Sighting
      <3>2. QED
        BY <2>1, <3>1, <1>2, <1>3 DEF Lags
    <2>3. QED
      BY <2>1, <2>2 DEF Fresh, Lags
  <1>6. QED
    BY <1>2, <1>4, <1>5 DEF WakeInv, Refreshing

LEMMA ObserveWakes ==
  ASSUME TypeOK, SubscribingInv, WakeInv, NEW s \in Session, Observe(s)
  PROVE  WakeInv'
  <1>1. CASE Follows(s, DOMAIN Sighting(s))
    <2>1. Conclude(s, "connected", Sighting(s)) /\ UNCHANGED queue /\ pc = "observe" /\ s \in todo
      BY <1>1 DEF Observe
    <2>2. sub[s].phase \in {"live", "broken"}
      BY <1>1, <2>1 DEF Follows, SubscribingInv, TypeOK, Subscription, Phase
    <2>3. Followed(s)'
      BY <2>1, <2>2 DEF Followed, WakeUp, queue
    <2>4. "connected" \in States /\ Versions(Sighting(s))
      BY SightingType DEF States
    <2>5. UNCHANGED <<sub, wire, chan>>
      BY <2>1 DEF queue
    <2>6. QED
      BY <2>1, <2>3, <2>4, <2>5, ConcludeKeepsWake
  <1>2. CASE ~Follows(s, DOMAIN Sighting(s))
    <2>1. /\ s \in todo /\ pc' = "subscribe" /\ heard' = heard
          /\ UNCHANGED <<open, ver, chan>>
          /\ \A x \in Session \ {s} : sub'[x] = sub[x] /\ wire'[x] = wire[x]
      BY <1>2 DEF Observe, world, herdr, TypeOK
    <2>2. s \notin DOMAIN heard'
      BY <2>1 DEF SubscribingInv
    <2>3. ASSUME NEW x \in Session
          PROVE  Fresh(heard, x)'
      <3>1. CASE x = s
        BY <2>2, <3>1 DEF Fresh, Lags
      <3>2. CASE x # s
        BY <2>1, <3>2 DEF WakeInv, Fresh, Lags, Followed, WakeUp, Sighting
      <3>3. QED
        BY <3>1, <3>2
    <2>4. QED
      BY <2>1, <2>3 DEF WakeInv, Refreshing
  <1>3. QED
    BY <1>1, <1>2

LEMMA FailureWakes ==
  ASSUME TypeOK, SubscribingInv, WakeInv, NEW s \in Session,
         ObserveFails(s) \/ SubscribeFails(s) \/ ObserveAgainFails(s)
  PROVE  WakeInv'
  <1>1. PICK state \in {"stale", "incompatible"} : Conclude(s, state, Empty)
    BY DEF ObserveFails, SubscribeFails, ObserveAgainFails
  <1>2. /\ s \in todo /\ Abort(s) /\ (chan > 0 => chan' > 0)
    BY QueuedType DEF ObserveFails, SubscribeFails, ObserveAgainFails, SubscribingInv, TypeOK
  <1>3. \A x \in Session \ {s} : sub'[x] = sub[x] /\ wire'[x] = wire[x]
    BY <1>2 DEF Abort, TypeOK
  <1>4. state \in States /\ state # "connected" /\ Versions(Empty)
    BY DEF States, Versions, Empty
  <1>5. QED
    BY <1>1, <1>2, <1>3, <1>4, ConcludeKeepsWake

LEMMA SubscribedWakes ==
  ASSUME TypeOK, SubscribingInv, WakeInv, NEW s \in Session, Subscribed(s)
  PROVE  WakeInv'
  <1>1. /\ s \in DOMAIN cur /\ s \notin DOMAIN heard
        /\ UNCHANGED <<open, ver, chan, wire, cur, heard>> /\ pc' = "again"
        /\ sub'[s].phase = "live"
        /\ \A x \in Session \ {s} : sub'[x] = sub[x]
    BY DEF Subscribed, SubscribingInv, TypeOK, world, herdr, work, Subscription
  <1>2. ASSUME NEW x \in Session
        PROVE  Fresh(heard, x)'
    <2>1. CASE x = s
      BY <1>1, <2>1 DEF Fresh, Lags
    <2>2. CASE x # s
      BY <1>1, <2>2 DEF WakeInv, Fresh, Lags, Followed, WakeUp, Sighting
    <2>3. QED
      BY <2>1, <2>2
  <1>3. \A x \in DOMAIN cur' : Followed(x)'
    BY <1>1 DEF SubscribingInv, Followed
  <1>4. QED
    BY <1>1, <1>2, <1>3 DEF WakeInv, Refreshing

LEMMA ObserveAgainWakes ==
  ASSUME TypeOK, SubscribingInv, WakeInv, NEW s \in Session, ObserveAgain(s)
  PROVE  WakeInv'
  <1>1. /\ s \in todo /\ Conclude(s, "connected", Sighting(s)) /\ UNCHANGED <<sub, wire, chan>>
        /\ Followed(s)
    BY DEF ObserveAgain, SubscribingInv, WakeInv, queue
  <1>2. Followed(s)'
    BY <1>1 DEF Followed, WakeUp
  <1>3. "connected" \in States /\ Versions(Sighting(s))
    BY SightingType DEF States
  <1>4. QED
    BY <1>1, <1>2, <1>3, ConcludeKeepsWake

LEMMA CommitWakes ==
  ASSUME TypeOK, SubscribingInv, WakeInv, CommitHerdr
  PROVE  WakeInv'
  <1>1. /\ shown' = heard /\ heard' = Empty /\ pc' = "idle" /\ UNCHANGED <<open, ver, chan>>
        /\ \A s \in DOMAIN heard : sub'[s] = sub[s] /\ wire'[s] = wire[s]
    BY DEF CommitHerdr, Finish, TypeOK, Roster, world, herdr
  <1>2. ASSUME NEW s \in Session
        PROVE  Fresh(shown, s)'
    BY <1>1 DEF WakeInv, Fresh, Lags, Followed, WakeUp, Sighting
  <1>3. \A s \in Session : Fresh(heard, s)'
    BY <1>1 DEF Fresh, Lags, Empty
  <1>4. QED
    BY <1>1, <1>2, <1>3 DEF WakeInv

\* The steps that observe no session: nothing is being collected, and what is shown is
\* about to be looked at, not connected, or nobody's.
LEMMA QuietWakes ==
  ASSUME TypeOK, LockInv, SnapshotInv, SubscribingInv,
         \/ RepairTick \/ T3Tick \/ Recv \/ Drain \/ Dispatch
         \/ EnterHerdr \/ DiscoveryFails \/ Discover
         \/ EnterThreads \/ ReadSequence \/ ReadRows \/ CommitThreads
  PROVE  WakeInv'
  <1>1. heard' = Empty /\ pc' # "again"
    BY DEF RepairTick, T3Tick, Recv, Drain, Dispatch, EnterHerdr, DiscoveryFails, Discover,
       EnterThreads, ReadSequence, ReadRows, CommitThreads, Finish, SubscribingInv, TypeOK, Backend, work
  <1>2. \/ pc' \in {"coalesce", "dispatch", "herdr", "discover", "observe"}
        \/ shown' = Empty
        \/ \A s \in DOMAIN shown' : shown'[s].state # "connected"
    <2>1. CASE RepairTick \/ T3Tick \/ Recv \/ Drain \/ Discover
      BY <2>1 DEF RepairTick, T3Tick, Recv, Drain, Discover
    <2>2. CASE Dispatch \/ EnterHerdr
      BY <2>2 DEF Dispatch, EnterHerdr, Finish, SnapshotInv, TypeOK, Backend, snapshot
    <2>3. CASE DiscoveryFails
      BY <2>3 DEF DiscoveryFails, TypeOK, Roster
    <2>4. CASE EnterThreads \/ ReadSequence \/ ReadRows \/ CommitThreads
      BY <2>4 DEF EnterThreads, ReadSequence, ReadRows, CommitThreads, SnapshotInv, T3Phases, snapshot
    <2>5. QED
      BY <2>1, <2>2, <2>3, <2>4
  <1>3. \A s \in Session : Fresh(heard, s)'
    BY <1>1 DEF Fresh, Lags, Empty
  <1>4. Refreshing' \/ \A s \in Session : Fresh(shown, s)'
    BY <1>2 DEF Refreshing, Fresh, Lags, Empty
  <1>5. QED
    BY <1>1, <1>3, <1>4 DEF WakeInv

LEMMA WakeStep ==
  ASSUME TypeOK, LockInv, SnapshotInv, SubscribingInv, WakeInv, [Next]_vars
  PROVE  WakeInv'
  <1>1. CASE UNCHANGED vars
    BY <1>1 DEF vars, world, herdr, queue, work, snapshot, WakeInv, Fresh, Followed, WakeUp, Lags,
       Sighting, Refreshing
  <1>2. CASE Next
    BY <1>2, QuietWakes, ObserveWakes, FailureWakes, SubscribedWakes, ObserveAgainWakes,
       CommitWakes, OthersWake
    DEF Next, Reconcile, Others
  <1>3. QED
    BY <1>1, <1>2

----------------------------------------------------------------------------
(* The theorems                                                             *)

LEMMA LoopInvInit == Init => LoopInv
  <1> SUFFICES ASSUME Init PROVE LoopInv
    OBVIOUS
  <1>1. LockInv /\ SnapshotInv /\ NoSubscriptions /\ SequenceInv /\ SwitchInv
    BY LoopAssumption DEF Init, LockInv, HerdrPhases, SnapshotInv, T3Phases, NoSubscriptions,
       SequenceInv, Paired, SwitchInv, SwitchIsAnswered
  <1>2. SubscribingInv
    BY EmptyType DEF Init, SubscribingInv, NoSub
  <1>3. WakeInv
    BY DEF Init, WakeInv, Fresh, Lags, Refreshing, Empty
  <1>4. QED
    BY <1>1, <1>2, <1>3, TypeInit DEF LoopInv

LEMMA LoopInvInductive == Spec => []LoopInv
  <1>1. LoopInv /\ [Next]_vars => LoopInv'
    BY TypeStep, LockStep, SnapshotStep, SubscriptionsStep, SequenceStep, SwitchStep,
       SubscribingStep, WakeStep DEF LoopInv
  <1>2. QED
    BY <1>1, LoopInvInit, PTL DEF Spec

\* No wake-up is lost, for any number of sessions, panes and changes and any capacity of
\* the channel: a Herdr session shown as connected is current, or the loop will look
\* again without its repair tick.
THEOREM NoWakeupIsLost == Spec => []NoLostWakeup
  <1>1. LoopInv => NoLostWakeup
    BY DEF LoopInv, WakeInv, Fresh, NoLostWakeup
  <1>2. QED
    BY <1>1, LoopInvInductive, PTL

\* The poll of T3 Code finds every change that the rows shown do not have.
THEOREM PollSeesEveryChange == Spec => []PollSeesChange
  <1>1. LoopInv => PollSeesChange
    BY LoopAssumption DEF LoopInv, TypeOK, Sequence, SequenceInv, Paired, PollSeesChange
  <1>2. QED
    BY <1>1, LoopInvInductive, PTL

\* A switch is never left without a reconciliation of the new manager to come.
THEOREM EverySwitchIsAnswered == Spec => []SwitchIsAnswered
  <1>1. LoopInv => SwitchIsAnswered
    BY DEF LoopInv, SwitchInv
  <1>2. QED
    BY <1>1, LoopInvInductive, PTL

\* No subscription of Herdr's outlives its turn.
THEOREM NoSubscriptionOutlives == Spec => []SubscriptionsEndWithManager
  <1>1. LoopInv => SubscriptionsEndWithManager
    BY DEF LoopInv, NoSubscriptions, T3Phases, SubscriptionsEndWithManager
  <1>2. QED
    BY <1>1, LoopInvInductive, PTL
=============================================================================
