# Formal model of XENEON Edge Agents

TLA+ specifications of the agent daemon (`xeneon-agentd`) and of what surrounds it, TLC
configurations that check them on small instances, and TLAPS proofs for every value of the
constants. Paths below are relative to the root of the repository.

## The system

| component | source | state it keeps | operations |
|---|---|---|---|
| Agent reconciliation and roster | `crates/xeneon-agent-core/src/runtime.rs` | `RuntimeState`: snapshot (cards, sessions, connection, ordering, sequence), private targets, observed agents, observed focus, voice owner; `order_operation` lock | agent loop (repair tick, invalidations), `refresh_herdr`, `refresh_t3code`, commit |
| Review-ready latch | same | `observed_agents`, `observed_focus` | `apply_agent_observations`, `acknowledge_review_ready` |
| Portal commands | same, `protocol.rs` | none of their own | open, zoom, approve, interrupt, `set_agent_order`, `set_agent_backend`, voice, desktop |
| Manager choice | same | `agent-backend.toml`, replaced by a rename | load at start, save under the lock |
| Herdr adapter | `herdr.rs` | nothing between calls; one subscription task per session | discover, observe, get and set the ordering, perform, watch events |
| T3 Code adapter | `t3code.rs` | nothing; reads a SQLite projection | observe, classify a thread, open a thread |
| Voice controller | `voice.rs`, `systemd` unit | marker file, `voice_error_latched`, voice owner | start, stop, cancel, refresh, cleanup of a disconnect, cleanup of the service |
| Publication and client sessions | `runtime.rs` | watch channel, heartbeat, one writer and one reader per connection | publish, send, answer |
| Desktop controller | `desktop.rs` | remembered focus, launches in flight | choose a window, focus or launch, wait, restore |
| Portal store and bridge | `quickshell/state/*.qml` | accepted snapshot, tracked commands, reconnect timer | ingest, track, reconnect |
| Hold control | `quickshell/components/HoldControl.qml` | armed capability, progress | press, hold, cancel |
| Micro bridge | `config/bin/xeneon-micro-bridge` and its service | pending open, drawn and acknowledged lamps, restore marker, status file | acquire, restore, portal and device events |
| Micro collector | `crates/xeneon-agent-core/src/micro.rs` | nothing; reads microd and the bridge's status file | sample |
| EDGE reconcile | `config/bin/xeneon-edge-reconcile` | the stack's units | check, stop, start |
| Health, usage, configuration, installer, agentctl, views | the rest | samples and values | parsing, drawing, installing |

**Interactions.** One agent loop reconciles the roster with the selected manager; it is woken
by a repair tick and by invalidations that subscription tasks and commands send through a
bounded channel. A reconciliation awaits the manager many times and holds `order_operation`
from its start to its commit; commands that switch the manager or change the ordering take
the same lock, `open` does not. The state is behind one `RwLock` that is never held across an
await of a manager. Every commit bumps the action sequence that commands have to quote and is
published through a `watch` channel to every connection, whose portal store keeps the newest
snapshot. Voice has a mutex of its own, held across runs of the `voxtype` command. A connection
has a reader, which performs one command at a time, and a writer, joined by a channel of results.
The Micro bridge is a client of the daemon like the portal, and tells the daemon's collector
through a status file what it has drawn.

**What is hard.** Reconciliations and commands interleave at every await; some state is read
before an await and used after it (the selected manager, an agent's identifier, the voice
snapshot); sessions fail one by one in the middle of a reconciliation; the daemon dies between
the change in memory and the rename of the choice file, or with a recording in progress;
external commands time out after they had their effect; a wake-up is dropped when the channel is
full; an event happens before its subscription is registered; calls to one of several sessions
fail half way through a change of all of them; a bridge dies between stopping another service
and marking that it did. `PROJECT.json` lists each of these
under `hazards`, at its line, with the property that would catch it going wrong.

## What makes each component correct

- *Roster*: only the selected manager's agents, sessions, targets and latches are on it
  (`RosterFromCurrentManager`); an action or an ordering is offered only through connected
  sessions, the ordering for a whole roster or not at all (`OffersNeedConnection`); what can be
  acted on never changes under one sequence (`SequenceCoversRoster`).
- *Loop*: no change of a manager is missed (`NoLostWakeup`, `PollSeesChange`, `ChangesAreShown`),
  no switch is left unanswered (`SwitchIsAnswered`), no subscription outlives its manager's turn
  (`SubscriptionsEndWithManager`).
- *Latch*: the shown and the remembered latch agree and a live one belongs to an agent that
  stopped (`LatchesAgree`), it rises only with a state not seen before (`LatchRisesOnNewState`) and
  falls only when someone looked or the agent went on (`LatchFallsOnlyWhenSeen`).
- *T3 Code's threads*: a request or an unseen outcome of a thread that is not snoozed is on the
  portal, at its place (`RequestsAreShown`, `UnseenOutcomeAsks`), a seen one asks no more
  (`SeenOutcomeIsQuiet`).
- *Order of the cards*: one roster has one order, and blocked cards come first.
- *Manager choice*: a restart comes back to the choice in memory (`SavedChoiceIsCurrent`).
- *Commands*: each is answered once and in order (`AnswersAsPromised`), a connection that ends is
  left (`ConnectionEnds`), a failed ordering is undone or withdrawn (`OfferedModeIsHerdrs`).
- *Desktop*: a launch in flight has a command that ends it (`EntryHasWaiter`), a repeated command
  brings up the same window (`SameWindowAgain`), the window is the right application's or session's.
- *Voice*: the portal records under its run's marker only, and a marker is resolved before the
  next run begins (`DictatesAsPromised`), no recording
  of the portal goes on without a marker (`RecordingIsMarked`), the client answerable for one is
  still there to be cleaned up after and has the marker (`OwnerAnswers`), an error stays shown
  (`ErrorStaysShown`), every disconnect is cleaned up after (`DisconnectSettles`).
- *Publication, store*: what a portal shows never goes back (`ViewMovesForward`) and names its
  cards rightly (`SequenceNamesRoster`); a command means the cards it was given on
  (`AcceptedMeansShown`); nothing is offered of an earlier daemon (`ReadyMeansThisRun`); the
  portal catches up in the end (`Converges`).
- *Micro*: a key means the lamp that was lit (`KeysMeanWhatTheyShow`), what was taken from the Herdr
  bridge is given back (`StoppedHerdrIsMarked`, `ControlIsGivenBack`).

## Modules

### `ReviewLatch`

Pure: `apply_agent_observations`. An observation maps the agents found to their status,
`state_change_seq`, acknowledgement, focus, and whether they came with a target. `Latch` is the
decision for one agent, `NextObserved` and `NextCards` the maps it is written to, `NextFocused`
the focus kept for the next reconciliation. Durations and labels are left out.

### `AgentDaemon`

One step is what happens between two awaits, or under one lock.

| code | model |
|---|---|
| `RuntimeState.snapshot` | `conn`, `sessions`, `cards`, `order`, `sequence` |
| `agent_targets`, `observed_agents`, `observed_focus` | `targets`, `observed`, `focused` |
| `agent_backend`, `t3code_agent_order` | `backend`, `t3order` |
| `order_operation` | `guard` |
| program counter and locals of the loop | `pc`, `todo`, `heard`, `seen`, `prev` |
| each connection's command | `client` |
| `agent-backend.toml`, a save that failed | `disk`, `unsaved` |
| `collect_agent_loop`, `refresh_agents` | `Dispatch` |
| `refresh_herdr` | `EnterHerdr`, `DiscoveryFails`, `Discover`, one `ObserveSession` each, `CommitHerdr` |
| `refresh_t3code` | `EnterThreads`, `ThreadsUnread`, `ReadThreads`, `CommitThreads` |
| `open` | `Open`, `HerdrFocuses` or `ThreadOpens` or `OpenFails`, `Acknowledge`, `Opened` |
| `process_backend_command` | `Switch`, `Save` |
| `process_agent_order_command` | `OrderThreads` and `Save`, or `OrderHerdr` and `OrderOutcome` |
| the process dies and is started | `Restart` |

The managers are the environment: agents change state (`Works`), the user visits a thread
(`Visits`) or moves the focus (`FocusMoves`), and each session of a reconciliation answers,
fails, or is observed without a subscription. Commands that do not quote the current sequence
are refused without an effect, so only accepted ones are steps.

The outcome of a Herdr ordering is one of three here (`OrderOutcome`: done, refused, withdrawn);
`AgentOrder` has its steps.

### `AgentLoop`

What wakes the loop, beside what `AgentDaemon` says a reconciliation makes of what it sees.

| code | model |
|---|---|
| Herdr's sessions, panes and agents; T3 Code's projection | `running`, `open`, `ver`, `rev` |
| subscription tasks, lines on their connections | `sub` (phase and panes), `wire` |
| `invalidations`, a bounded channel | `chan`, `Queued` |
| `collect_agent_loop`'s select | `RepairTick`, `T3Tick`, `Recv` then `Drain` |
| `refresh_agents`, which drops subscriptions | `Dispatch`, `DropAll` |
| `refresh_herdr`, session by session | `EnterHerdr`, `Discover`, `Observe`, `Subscribed`, `ObserveAgain`, their failures, `CommitHerdr` |
| `update_subscription` | `Follows`, `Abort`, `Subscribed`, `SubscribeFails` |
| `watch_events`, `spawn_subscription` | `Registers`, `TaskReads`, `TaskEnds` |
| `refresh_t3code` | `EnterThreads`, `ReadSequence`, `ReadRows`, `CommitThreads` |
| `process_backend_command` around its lock; other commands that wake the loop | `Switch`, `SwitchEnds`; `Nudge` |

A card is reduced to the version of its pane that was seen. Herdr announces panes that come and go
to every subscription, but the status of an agent only on the panes subscribed to; a connection
may break, and a session stop, at any step.

### `T3Threads` and `AttentionOrder`

`T3Threads` has T3 Code's record of a thread (`fact`), the row each of the three sources makes of it
(`FeedRow`, `V2Row`, `V1Row`), `Classify`, and the review latch over a sequence of observations
(`ReviewLatch`), with reads that fail in between. T3 Code is external: its threads run, ask, work
behind, finish, end in a state only the feed or no source knows (`RunTurns`), are visited, settled,
snoozed and reopened in any order. Where `docs/architecture.md` and the code say different things of
a thread (see the remarks) the properties of the passing run keep to what both say, but for visits, where
they follow `README.md:273-274` and the code. `AttentionOrder` is pure:
`sort_agents` and the grouped order as comparisons of two cards; `T3Threads` uses its rank.

### `ClientSession`, `AgentOrder`, `DesktopLaunch`, `WindowChoice`, `PortalCommands`

`ClientSession` is one connection: the reader (`Read`, `Enqueue`, `ReadEnds`, `Refused`), the writer
(`WriteResult`, `WriteFails`, `WriterEnds`) and the end of the handler. What a command does
is a step of `op`, and comes from one of two modules that extend it:

- `AgentOrder`: `process_agent_order_command` for Herdr, from the lock to the release: preflight
  (`Get`, `Preflight`), the calls (`Set`, `SetFails`), the compensation (`Undo`), its verification
  (`Verify`) and the outcome (`Commit`, `Unwind`), beside a reconciliation that reads the ordering
  and users who change it. A call that fails may have acted.
- `DesktopLaunch`: `focus_or_launch` and the wait for its window, `activate_herdr`, `restore_focus`,
  `remember_non_edge_focus`; `launching_since` is `launching`, an entry that is too old is
  `"old"`. Which window is chosen is `WindowChoice`, pure: classes, titles, tiling, focus history,
  and, for a Herdr session, the process tree and what each client's arguments and environment say.

`PortalCommands` composes them for several portals. `CommandPromise` is the abstract specification of
a connection (asked, answered in order, left); every connection implements it, with `line` mapped
from the portal's end and the handler.

`OrderPromise` is the abstract specification of the ordering offered: who holds the lock, what it wants,
and that a command changes the offer in one step at most. `AgentOrder`, with its calls one by one, and
`AgentDaemon`, where `OrderOutcome` is one step, both implement it (`OrdersAsPromised`), which is what
makes that one step a fair account of the many.

### `Voice`

| code | model |
|---|---|
| `VoiceController` behind its mutex | `job`: who holds it, for which action, at which step |
| marker file | `marker`: none, created but not written, or the token of a run |
| `snapshot.voice`, `voice_error_latched`, `voice_client_owner` | `shown`, `latched`, `owner` |
| `refresh_voice` | `TickReads`, `TickWrites`: the mutex is released between them |
| `start`, `stop`, `cancel` | `Check`, `Claim`, `VoxtypeActs`, `StartEnds`, `UndoEnds`, `FinishEnds` |
| commit of the outcome | `Succeed`, `Fail` |
| connection and its cleanup | `line`, `asked`; `Connect`, `Ask`, `Begin`, `Disconnect`, `Cleanup` |
| `ExecStartPre`, `ExecStopPost` | `Start`, `StartFails`, `Stop`, `Stopped` |

Creating, writing and removing the marker may each fail: a claim that could not be written may be
left torn beside a daemon that is up, a failed start may leave the marker of this run, and a service
cleanup may stop at the removal (`CleanupFails`). A marker that exists can be read back.

A run of `voxtype` is its effect and its exit, so a run that fails or times out may have had its
effect. Voxtype is external: its state file shows its state at once, a command that succeeded
has acted, a killed one does not act later, a stop of the service ends its children, and its
user records with its own shortcut.

`DictationPromise` is the abstract specification: what Voxtype does and for whom, the claim on it
(the marker), the daemon run at hand, and whether a cancel was lost. Its steps say when the
portal may start a recording, when a claim is made, kept over a crash and given up, and what must
be resolved before the next run; jobs, clients, the mutex, exits and timeouts of `voxtype` are gone.
`Voice` implements it (`DictatesAsPromised`): most of its steps are stutters.

### `PublishedView` and `ForwardView`

The way of a snapshot from the state to a portal, and of a command back.

| code | model |
|---|---|
| `RuntimeState.snapshot`, `now_ms` | `snap` (epoch, seq, gen, roster, readings), `clock` |
| a commit of the agent loop or a command; a collector | `Commit`, `Collect` |
| `publish`: copy under the lock, then `send_replace` | `Copy`, `Send`, one publisher each in `pub` |
| `watch` channel and its "changed" mark | `channel`, `unseen` |
| writer of a connection | `Update`, `Heartbeat` into `line` |
| `process_command`'s gate on sequence and card | `sent`, `Serve`, `Gate` |
| `xeneon-agentctl qml-bridge` | `bridge`; `Connect`, `BridgeExits` |
| `PortalStore.ingestSnapshot` | `store`, `wait`; `Stale`, `Taken`, `Ingest` |
| `awaitFreshSnapshot` | `AwaitFresh` |
| `HoldControl`, `sendBuilt` | `held`; `Hold`, `LetGo`, `Confirm`, `Tap`, `Emit` |

A snapshot is reduced to its order, the cards, and the readings that may change under one
sequence. Faults: the wall clock is set back, the connection fails, the bridge, the portal or
the daemon restarts. When the daemon closes the connection the bridge's read of stdin cannot be
cancelled, so the process stays (`"hung"`) until the portal's next command, which is lost; this
is Tokio's behaviour, and external. With the installed units the portal restarts together with
the daemon; in a preview it does not, so both are possible here.

`ForwardView` is the abstract specification: the position of what is shown (run, sequence, time)
moves forward or starts afresh. `PublishedView` implements it with `view <- Position`.

### `MicroBridge`

| code | model |
|---|---|
| `Bridge.run`, where it stands, and what follows a restore | `step`, `goal` |
| the portal's connection | `portal`, `toBridge`, `asked` |
| `snapshot`, its age, `selected`, `pending` | `seen`, `silent`, `selected`, `pending` |
| `signature`, the requests awaited, what was acknowledged | `frame`, `lit`, `ring`, `acked` |
| `HerdrOwner` | `Check`, `Mark`, `StopHerdr`, `Claim`, `Restore`, `Unmark`; `marker` |
| `release`, an exception in the loop | `Leave`, `Raises` |
| `portal_event`, `micro_event` | `TakeSnapshot`, `TakeResult`; `LightsAck`, `RingAck`, `KeyUsed` |
| the service (`Restart`, `ExecStopPost`) | `Dies`, `Stops`, `Follow` |
| the status file, `MicroCollector` and the snapshot's `micro` | `file`, `Sampled`, `Samples`, `ShowsSample` |

External: microd and the Micro answer in order and announce keys on the same connection;
`systemctl` may act and still fail; the Herdr bridge is another service. `owed` is a ghost: this
bridge stopped the Herdr bridge and nobody has started it since.

## Runs

| run | instance | what it shows |
|---|---|---|
| `daemon_switch` | 2 Herdr sessions (one with an agent), 1 T3 Code thread, 2 clients, 3 commits, 1 restart | opens, orderings and switches against both kinds of reconciliation: the roster properties and the choice file |
| `daemon_latch` | 1 session, 2 agents, 1 client, 4 commits, 1 change per agent | the latch, with completions, focus changes and opens between and during reconciliations |
| `agent_loop` | 2 sessions, 2 panes, 1 thread, a channel of 1, 3 events | no change and no switch is missed, by events alone |
| `threads` | 1 thread on each of 3 sources, 5 changes | what the portal makes of a thread |
| `commands` | 2 connections, 2 sessions, 3 windows, one workload at a time | answers, orderings, launches and the end of a connection |
| `voice` | 2 connections, 2 daemon runs, 1 recording of the user's own | the safety properties of dictation, and that it implements `DictationPromise` |
| `voice_settles` | 2 connections, 1 daemon run | every disconnect is cleaned up after |
| `view` | 1 committer beside the collector, 2 rosters, 2 commits, 3 ms, 1 command, 1 fault | what the portal shows and what its commands mean |
| `view_converges` | 1 commit, 2 readings, 3 ms, 1 fault | the portal catches up |
| `micro` | 2 agents, 3 snapshots, 2 keys used or 1 crash | what keys mean, and the handover of the Micro |
| `voice_owned` | the instance of `voice` | finding 1 |
| `voice_others` | the instance of `voice` | finding 2 |

**Bounds.** `MaxSequence` caps the commits of a daemon run, `MaxChange` the state changes of an
agent, `MaxBoot` the restarts or runs, `MaxUse` the recordings the user starts. Three commits
are a roster, a switch during the next reconciliation, and what that reconciliation or the next
manager's then commits; the two sessions are enough for one to fail while the other answers, and
for two orderings to disagree; the two clients for a second switch to wait for the lock of the
first. For the latch four commits let a latch rise, be acknowledged, and meet two more
reconciliations, and two agents let the focus move between them.

In `agent_loop` a channel of one makes a dropped wake-up likely, and three events (`MaxEvent`) are a
change, one that crosses its reconciliation, and a broken connection or a switch; the second
session has no panes, so that sessions come and go beside the one being followed. In `threads`
five changes (`MaxTime`) are a run, its end, a visit or settling, and two more that compete with
them; threads do not interact, so one is enough.

`commands` runs a union of workloads (`MCPortalCommands`): three commands answered at once, which fill
the reader, the channel and the writer; two orderings, which compete for the lock, with one
change in Herdr from elsewhere (`MaxTouch`); two launches of one application; and an open, a restore or a
launch beside two moves of the user's (`MaxMove`). What a workload does not touch stands still in it;
one of the two connections (`Leaver`) may close or break, the other competes with it. `micro` is two
workloads in the same way (`MCMicro`): keys, with `MaxShow` changes of the snapshot and `MaxPress` keys, or
the service, with `MaxCrash` crashes; `MaxQueue` is the room of a connection.

For dictation two connections let one wait for the controller while the other disconnects, and two
daemon runs leave a marker of the first to the second. For the publication two publishers are
what it takes to publish in the wrong order, two commits to have an order and rosters to
confuse, three milliseconds (`MaxClock`) for readings under one sequence at different times, at
the same time, and with the clock set back; one command on its way (`MaxSent`) can cross any
commit or fault (`MaxFault`); `MaxLine` is the room of the connection, and a writer that has to wait for
it is part of the model. In `view_converges` a reading may no longer change once the clock is at its
bound, since no later time is left to tell it from the last one. Deadlock is checked in every run
but `micro`, where the user may stop the service for good.

**Fairness.** Only the properties that say "in the end" need it.

- `DisconnectSettles`: `WF(Controller)`, what holds the mutex goes on, because each run of `voxtype` is
  killed after ten seconds and each file operation returns; `SF(Begin(c))` and `SF(Cleanup(c))`: Tokio's
  mutex is first come, first served, so whoever waits gets it although others take it again and
  again. Nothing is assumed of clients, Voxtype or its user. `MCVoiceSettles` leaves out the periodic
  refresh (it holds the mutex for one read only) and restarts of Voxtype, which do not touch what
  the property is about.
- `Converges`: weak fairness of the health tick (`Collect`), of a publication under way (`Copy`, `Send`),
  of the connection's writer, of the bridge's start (the restart timer) and exit, of reading
  lines, and of the clock; nothing of commits, commands or faults, of which there are finitely
  many. Under it the periodic publication repairs an older snapshot that was sent last. It does
  not hold for a bridge that hangs, and the property says so.
- `ChangesAreShown`: the select is polled, a reconciliation and a switch go on (each request to a session
  has a timeout; that `herdr session list` ends, which has none, is an assumption), the poll of T3
  Code ticks, subscription tasks are polled. The five-second repair tick
  is *not* assumed: it is what the property shows to be unnecessary.
- `ConnectionEnds`: a connection's task runs while it can, a reconciliation ends, and the operation lock
  is handed out in turn (`SF(TakeGuard)`, Tokio's mutex again). It assumes three things that the code
  puts no limit on (see the remarks): `hyprctl` answers, `herdr session list` ends, and a portal reads
  what it is sent or breaks its connection.
- `ControlIsGivenBack`: the bridge's process and its service go on, the collector goes on, a status
  nobody writes grows old, and starting the Herdr bridge succeeds in the end (`SF(Restore(TRUE, TRUE))`).

## Proofs

`AgentDaemonProofs` proves, for any sessions, agents, threads, clients and bounds, under
`SessionsAssumption` and `DaemonAssumption` (the constants are what their comments say):

- `TypeCorrect`: `TypeOK` is inductive. The work is in the operators of the reconciliation,
  whose types are lemmas of their own (`MergeType`, `NextObservedType`, `NextCardsType`, ...).
- `RosterIsCurrentManagers`: `RosterFromCurrentManager` alone is not inductive: a commit takes its
  agents from what the loop has collected. `RosterInv` adds `LoopLocals`: what is collected
  comes from the manager the reconciliation asks, so the commit, which reads the manager again,
  takes only that manager's.
- `RestartKeepsChoice`: `SavedChoiceIsCurrent` needs `LockInv`: the loop holds the lock exactly
  while it reconciles, a client exactly while it orders or saves, a choice on its way to the file
  is the one in memory, and outside a save the file is the memory (unless a save failed). Two
  saves can therefore not overtake each other.

- `OneLatch`: `LatchesAgree` speaks of the cards shown, but a commit replaces them with what the loop
  has collected and remembered. `LatchInv` says of the observations that a card carried over has
  the latch it had, and the lemmas about `ReviewLatch` say that `NextObserved` and `NextCards` write
  the same latch, whatever they start from.
- `OffersAreConnected`: `OfferInv` adds what the loop has heard and what a command is about to do: a
  session is heard once, only a connected one gives agents with actions or an ordering, and an
  ordering under way still stands on the offer it was given, because the lock keeps
  reconciliations out.
- `SequenceCovers` is an action property: each action that changes what can be acted on bumps the
  sequence, by cases, using the types and the roster invariant.
- `LatchRises` and `LatchFalls`: how a badge comes and goes, for any agents and any interleaving of
  reconciliations, opens and the agents' own changes. `LatchSteps` says that a step leaves the
  observations alone, forgets them all, clears one latch, or commits what was found;
  `CommittedLatch` what a commit makes of one observation. `AckedByThreads`, that only T3 Code records
  an outcome as visited, is what leaves a Herdr agent's latch to focus and opens.

`AgentLoopProofs` proves one inductive invariant, `LoopInv`, for any sessions, panes, number of events
and capacity of the channel, and from it the safety properties of `AgentLoop`. `NoLostWakeup` is not
inductive: that a connected session is current *or* a wake-up is coming survives a change only if
Herdr still announces to a connection the loop follows. `WakeInv` adds this (`Followed`), for what is
being collected, for the session that is just being subscribed, and for what is shown while no
reconciliation is to come. `SequenceInv` orders the sequence and the rows read with it, `SwitchInv` says
that a switch during a reconciliation of the other manager leaves a wake-up queued, and
`NoSubscriptions` that the loop, having dropped the subscriptions, cannot be given one before it
dispatches again.

`PortalCommandsProofs`, about the composition: `AnswersKeepThePromise` is the refinement, on the invariant
`ConnectionInv` (the commands taken are those answered, queued, or the one at hand).
`EveryEntryHasAWaiter` needs that a connection that is not busy has no command (`BusyInv`).
`OfferedOrderIsHerdrs` is on `OfferInv`: what an ordering in progress *remembers* of the sessions is what
they had, each is as found or was tried, and a clean verification has seen every one.

`VoiceProofs`: `TypeCorrect` with `RunInv` (a run that is not up has no job, owner or connection),
then `MarkerInv` for the marker and the recording, `ErrorInv` for the error, `LineInv` and `OwnerInv` for the
owner: the interesting part is the moment between the end of a recording and its commit, when
the owner has no marker but also nothing can be recording. From `MarkerInv` come `MarkerIsThisRuns`
(while a daemon is up the marker has its token or nobody's, wherever the last one died and whichever
write or removal failed) and `NoRecordingIsLost`, the part a user relies on: what the portal records
stands under a marker, and while a daemon is up under one it can stop it by. `DictationKeepsThePromise` is the
refinement of `DictationPromise`, a case for each step of the service and of the controller: that a job
at work has the run's marker, and that what it did to a recording is done when its exit is seen, are
what makes a release a release of the promise. `PromiseIsEnough` is about the abstract
specification alone: its steps are all it takes to keep recordings claimed and runs apart.

`HerdrOrdersAsPromised` is the refinement of `OrderPromise`, on the same invariant: no step of a command but
its last changes the offer, what it wants is kept through every call and its compensation, and a
command that commits still stands on an offer. `DaemonOrdersAsPromised`, in `AgentDaemonProofs`, is
the refinement for the daemon, with switches, T3 Code's preference, restarts and both
reconciliations. No run lists `OrdersAsPromised`: the proofs are what establishes it.

The focus history has one place for each window and none for those it ranks nowhere (`HistoryInv`).
`FocusedWindowStaysTheChoice` is `SameWindowAgain`: a focus puts the window it chose in front and
gives no other window a place, so the choice it stood on comes out the same (`ChoiceAgain`, for any
classes, titles and tiling). `FocusedWindowsDecide`, which no run states, says where a refusal
can come from: a choice is ambiguous only on account of a window that has no place.
`PortalTypeCorrect` is `TypeOK`; beside the invariants above it takes what a command in progress
remembers (`Typed`) and what the bounds leave (`BoundsInv`).

`T3ThreadsProofs` proves `T3Inv`, and from it what the portal shows of a T3 Code thread: `RequestsShown`,
`UnseenOutcomesAsk` and `SeenOutcomesAreQuiet`. `CardsInv` says that the cards are those of the roster read
last, though reads have failed since: each has the status its row stands for, one that is done asks
for review, and one whose outcome was visited does not; `TimesInv` that a run ends after the
beginning of time, so that its end can be told from none. What a class is for each kind of row are lemmas (`RequestClass`,
`UnseenClass`, `QuietClass`). Its first theorems are about `AttentionOrder`: the order of cards is strict,
transitive and total on cards with different identifiers, and those that are blocked come
first.

`MicroBridgeProofs`:

- `HerdrIsNeverForgotten`: `HandoverInv` adds to `StoppedHerdrIsMarked` where the marker is certain (while
  `systemctl stop` runs) and where nothing is owed (when it is removed).
- `KeysMeanLamps`: `KeysMeanWhatTheyShow` relates a key to the lamp above it, three queues apart. `LampsInv`
  follows a drawing from the request to the device and back: while the lights last asked for are on
  their way nothing later is, once they are obeyed the lamps are theirs, and so they were under every
  key used since; with nothing asked for, under every key. `PressInv` follows
  a press from the device to the portal: its numbers only grow, each belongs to one agent, and a
  command carries the agent its press was resolved to. The attempt to prove the property showed that
  its second part must ask that the portal stays connected: a crash takes the pending command with it
  in the step that answers it, which no run had combined.
- `MicroTypeCorrect`: `TypeOK`, with the types of every message, request, event and file.
- `KnobTurnsBack` and `ReviewFindsTheNext`, about `choose_agent` for any number of cards, each on one key: the
  arithmetic that counts around the cards, on two lemmas about remainders. A turn and one back is
  where one was; the review key finds a card that calls if there is one, and skips none. That the
  least of a set of places exists is `Least`, from the well-foundedness of the natural numbers.

`WindowChoiceProofs` is about pure operators: a client serves one session at most, the window chosen
for a session or an application is one of its own, and a complete history always decides.

`PublishedViewProofs` proves, under `ViewAssumption`, one inductive invariant, `ViewInv`, and from
it every safety property of `PublishedView`: `SequenceAlwaysNamesRoster`,
`CommandsMeanWhatWasShown`, `ReadyIsThisRun`, the refinement `ViewOnlyMovesForward`, and `TypeOK`
(`ViewTypeCorrect`, with the bound that runs are begun by faults). None of the others
is inductive, because a snapshot travels through copies, the channel, the connection and the
store while the state moves on. `ViewInv` says of each place what a snapshot there may be: it
*fits* the state (an earlier run, or this run's with a sequence no later, and the same cards
under the same sequence), what a publisher or the channel holds is of this run, a connection
carries snapshots of one run, no earlier than the store's, and what is held is what is shown. Commits
move the state so that whatever fitted it still does (`FitsMoved`); a restart begins a later run.

Assumptions: only the named `ASSUME`s of the modules, which say what their constants are; TLC
evaluates them in every run. Those that the proofs added say what a model value is not: a
row, a record or a standing of a thread is not `None` (`NoneAssumption`), nor is a drawing
(`MicroAssumption`), and no window and an ambiguous choice are two answers (`WindowAssumption`); and
that both desktop applications the commands name exist (`LaunchAssumption`).

Only model-checked: the five properties that need fairness, `DisconnectSettles`, `Converges`,
`ChangesAreShown`, `ConnectionEnds` and `ControlIsGivenBack`, since liveness under fairness is outside what
the prover handles; and that the code violates what the two findings quote, which is a matter of a
counterexample. Every invariant, action property and refinement that a passing run checks is a
theorem.

## Findings

1. `refresh_voice` reads under the voice mutex and writes without it, so it can publish
   `owned = false` over a recording that has just started, until the next refresh
   (`voice_owned`; `docs/protocol.md:63-64`).
2. `voice_stop` and `voice_cancel` act on whatever Voxtype records while the marker exists, and
   the marker outlives a recording that was ended in Voxtype itself (`voice_others`;
   `docs/protocol.md:146-149`).

**Remarks**, met while modelling, that no run is about:

- `docs/protocol.md:166-167` says a T3 Code `open` acknowledges the review badge; the code leaves it to
  T3 Code's own metadata, with a comment that says why (`runtime.rs:976`).
- `docs/architecture.md:113` says a switch of managers invalidates every identifier; an identifier
  depends on the daemon epoch, not on the manager, and comes back with the manager. Commands are
  still safe, through the sequence (`AcceptedMeansShown`). Likewise a switch and back within one
  reconciliation keeps Herdr's subscriptions (`docs/protocol.md:163`): `Dispatch` never saw the other
  manager.
- A pane that opens between a session's first observation and the registration of its subscription is
  listed, but the subscription is not for it: changes of its agent wake nobody until the repair
  tick (`runtime.rs:558-580`, `1510`). `ChangesAreShown` covers the panes subscribed to.
- A desktop application may be launched twice although launches are said to be coalesced
  (`docs/architecture.md:194-197`): the windows are listed before `launching_since` is locked, so a
  command that listed none may look at the entry after another has found the window and removed
  it, and a wait that ends removes the entry for those that joined later (`desktop.rs:156-172`,
  `199-202`). `DesktopLaunch` has both; no property claims more than `EntryHasWaiter`.
- `docs/architecture.md:86-92` and `classify` (`t3code.rs:758-874`) disagree about a T3 Code thread in three
  ways, of which `T3Threads` has the code's side and the properties claim nothing of the first two:
  - the roster is said to be of threads that are not snoozed (line 86), but a snoozed one stays while it
    works or waits for an approval or an answer (`t3code.rs:760-769`; the test at `t3code.rs:1069`
    wants it for work). `RequestsAreShown` is about threads that are not snoozed;
  - a running session is said to be `working` before an error or an outcome counts (lines 88-91), but it
    does so only without a turn or with one that runs or is pending (`t3code.rs:823-835`); its other
    case comes last (`t3code.rs:854`), so a finished turn beside a running session is shown by its
    outcome. `Quiet` leaves running sessions out;
  - an outcome is said to be `done` until it is settled (lines 91-92), but a visit ends it too
    (`t3code.rs:842`), as `README.md:273-274` has it. `SeenOutcomeIsQuiet` and `UnseenOutcomeAsks` count
    a visit, as the code and the README do.
- A T3 Code thread of the second version that its user settled is dropped unless it asks or works
  (`t3code.rs:610-683`), where `docs/architecture.md:92` says `idle`; and a thread whose session stopped
  stays on the roster with an unfinished turn that was not settled (`t3code.rs:770-776`), where line 87
  asks for a finished one.
- A marker that could not be written, nor removed after that, lets no start succeed until the service's
  next cleanup (`voice.rs:154-156`); nothing tells it from a recording in progress.
- `herdr session list` is run without a timeout (`herdr.rs:157-164`), while the reconciliation holds
  `order_operation`: one that hangs stops every reconciliation, switch and ordering.
- The writer of a connection waits for its peer without a limit (`runtime.rs:782-796`): a portal that
  stops reading without closing keeps its connection from ending, though no other.
- A T3 Code thread that worked without a turn and went idle keeps a review badge that no visit
  clears, since a visit is compared with the end of a turn (`t3code.rs:815-874`).
- Turned left with no card selected, the knob of the Micro chooses the last card but one, since it
  counts from -1 (`xeneon-micro-bridge:52-54`). `Chosen` has it; `KnobTurnsBack` is about a card that is
  selected.
- `hyprctl` is run without a timeout (`desktop.rs:451-489`): one that hangs holds the health, voice and
  Micro refreshes, or the command that asked.
- `bind_socket` looks at the socket, removes it and binds in three steps (`runtime.rs:1516`): of two
  daemons started together the second can take the socket of the first. The service manager starts
  one.

## Not modelled

- Health and usage collectors, configuration, the wire format: parsers of files, process output and
  values, which no other component reads back.
- The diagnostics of agentctl, drawing and theme, the store's normalisation of a snapshot and its
  notices of results, installer and scripts.
- EDGE reconcile: one pass of checks on display, touchscreen and compositor, followed by a start or a
  stop of the stack's units. Of the modelled parts it touches only the units, whose starts and
  stops are in `AgentDaemon`, `Voice` and `PublishedView`.
- In modelled parts: labels, durations, logging, path checks, framing, SQL and JSON decoding.

## Plan

Open, in order of weight:

1. The checks of EDGE reconcile as a sequence of reads of a display that comes and goes.
2. The store's tracking of commands and their notices, bounded as it is.
3. `AgentLoop` composed with `AgentDaemon`'s roster.
