--------------------------- MODULE PublishedView ---------------------------
(***************************************************************************)
(* How the daemon's snapshot reaches a portal: the publishers that share   *)
(* one watch channel and the writer of a connection (runtime.rs), the      *)
(* bridge process between socket and portal (agentctl), the gate of the    *)
(* portal's store and its wait for a fresh snapshot (PortalStore.qml,      *)
(* PortalBridge.qml), the hold that pins what was shown (HoldControl.qml), *)
(* and the sequence a command is gated on.                                 *)
(*                                                                         *)
(* A snapshot is its order (epoch, seq, gen), the roster a command is      *)
(* about, and the readings (health, voice, usage, Micro) that may change   *)
(* under one sequence.  One portal; commands that are not gated on the     *)
(* sequence, notices and action results are left out.                      *)
(*                                                                         *)
(* External: a bridge that returned from its connection waits for its      *)
(* blocked read of stdin (Tokio), so it exits with the next command; a     *)
(* process's output is read before its exit is reported; a stopped daemon  *)
(* answers nothing more.  Whether the portal restarts with the daemon      *)
(* (systemd) or not (a preview) is left open.                              *)
(***************************************************************************)
EXTENDS Naturals, Sequences, FiniteSets

CONSTANTS
    Committer,      \* the agent loop and the commands, which change the roster
    Roster,         \* what the cards may be
    NoCards,        \* the roster of a new daemon
    Reading,        \* what the collectors may read
    NoReading,      \* the readings of a new daemon
    Nothing,        \* no snapshot
    MaxSequence,    \* bound: roster changes of one daemon run
    MaxClock,       \* bound: milliseconds
    MaxLine,        \* bound: messages on their way to the portal
    MaxSent,        \* bound: commands on their way to the daemon
    MaxFault        \* bound: restarts, broken connections, clocks set back

ASSUME ViewAssumption ==
    /\ "collector" \notin Committer
    /\ NoCards \in Roster /\ NoReading \in Reading
    /\ Nothing \notin [epoch : Nat, seq : Nat, gen : Nat, roster : Roster, reading : Reading]
    /\ MaxSequence \in Nat /\ MaxClock \in Nat \ {0} /\ MaxLine \in Nat \ {0}
    /\ MaxSent \in Nat /\ MaxFault \in Nat

VARIABLES
    \* the daemon
    snap,       \* the snapshot in RuntimeState
    clock,      \* now_ms
    pub,        \* each publisher: at rest, due to publish, or holding a copy
    channel,    \* the latest value of the watch channel
    unseen,     \* it changed since the connection's writer last looked
    \* the connection
    bridge,     \* "down"; "up"; "hung": the daemon closed; "exiting"
    line,       \* snapshots on their way to the portal
    sent,       \* commands on their way to this daemon run
    \* the portal
    store,      \* the snapshot the store has accepted
    wait,       \* freshSnapshotRequired
    held,       \* what a hold in progress pinned
    faults

daemon == <<snap, clock, pub, channel>>
connection == <<unseen, bridge, line, sent>>
portal == <<store, wait, held>>
vars == <<daemon, connection, portal, faults>>

Publisher == Committer \cup {"collector"}
Snapshot == [epoch : 1..MaxFault + 1, seq : 0..MaxSequence, gen : 0..MaxClock,
             roster : Roster, reading : Reading]
\* A command names the daemon run in its agent identifier; 0 for a system action.
Command == [run : 0..MaxFault + 1, seq : 0..MaxSequence, roster : Roster]
Rest == [at |-> "rest"]
Due == [at |-> "due"]
NoHold == [at |-> "rest"]

TypeOK ==
    /\ snap \in Snapshot /\ channel \in Snapshot
    /\ clock \in 1..MaxClock
    /\ \A p \in Publisher : pub[p] \in {Rest, Due} \/ pub[p] \in [at : {"copy"}, snap : Snapshot]
    /\ DOMAIN pub = Publisher
    /\ unseen \in BOOLEAN
    /\ bridge \in {"down", "up", "hung", "exiting"}
    /\ \A i \in 1..Len(line) : line[i] \in Snapshot
    /\ Len(line) <= MaxLine
    /\ sent \subseteq Command
    /\ store = Nothing \/ store \in Snapshot
    /\ wait \in BOOLEAN
    /\ held = NoHold \/ held \in Command
    /\ faults \in 0..MaxFault

----------------------------------------------------------------------------
(* The daemon                                                               *)

EmptySnapshot(e) ==
    [epoch |-> e, seq |-> 0, gen |-> 0, roster |-> NoCards, reading |-> NoReading]

\* Mutant: the roster changes under the sequence it had.
SameSequence(n) == n

NextSequence(n) == n + 1

\* A commit of the agent loop or of a command, under the state's lock.
Commit(p) ==
    /\ pub[p] = Rest /\ snap.seq < MaxSequence
    /\ \E r \in Roster, x \in Reading :
        snap' = [epoch |-> snap.epoch, seq |-> NextSequence(snap.seq), gen |-> clock,
                 roster |-> r, reading |-> x]
    /\ pub' = [pub EXCEPT ![p] = Due]
    /\ UNCHANGED <<clock, channel, connection, portal, faults>>

\* Mutant: a health sample without news is not published.
CollectNews ==
    /\ pub["collector"] = Rest
    /\ \E x \in IF clock < MaxClock THEN Reading ELSE {snap.reading} :
        /\ <<x, clock>> # <<snap.reading, snap.gen>>
        /\ snap' = [snap EXCEPT !.gen = clock, !.reading = x]
    /\ pub' = [pub EXCEPT !["collector"] = Due]
    /\ UNCHANGED <<clock, channel, connection, portal, faults>>

\* A health sample always counts as new; the other readings only when they change.
Collect ==
    /\ pub["collector"] = Rest
    /\ \E x \in IF clock < MaxClock THEN Reading ELSE {snap.reading} :
        snap' = [snap EXCEPT !.gen = clock, !.reading = x]
    /\ pub' = [pub EXCEPT !["collector"] = Due]
    /\ UNCHANGED <<clock, channel, connection, portal, faults>>

\* publish copies the snapshot under the lock and sends it after: two
\* publishers may send in either order.
Copy(p) ==
    /\ pub[p] = Due
    /\ pub' = [pub EXCEPT ![p] = [at |-> "copy", snap |-> snap]]
    /\ UNCHANGED <<snap, clock, channel, connection, portal, faults>>

Send(p) ==
    /\ pub[p].at = "copy"
    /\ channel' = pub[p].snap /\ unseen' = TRUE
    /\ pub' = [pub EXCEPT ![p] = Rest]
    /\ UNCHANGED <<snap, clock, bridge, line, sent, portal, faults>>

\* Mutant: the writer does not wait until there is room.
WriteAtOnce(value) == line' = Append(line, value)

\* The writer of the connection.
Write(value) == Len(line) < MaxLine /\ line' = Append(line, value)

Update ==
    /\ bridge = "up" /\ unseen /\ Write(channel)
    /\ unseen' = FALSE
    /\ UNCHANGED <<daemon, bridge, sent, portal, faults>>

Heartbeat ==
    /\ bridge = "up" /\ Write(channel)
    /\ UNCHANGED <<daemon, unseen, bridge, sent, portal, faults>>

\* Mutant: a command is taken whatever the portal had shown.
GateOpen(command) == command.run \in {0, snap.epoch}

\* A card command needs a card of this run; all need the current sequence.
Gate(command) == command.seq = snap.seq /\ command.run \in {0, snap.epoch}

\* The command is answered; what it does is the business of other modules.
Serve(command) ==
    /\ command \in sent
    /\ sent' = sent \ {command}
    /\ UNCHANGED <<daemon, unseen, bridge, line, portal, faults>>

----------------------------------------------------------------------------
(* The bridge process                                                       *)

\* Mutant: the store goes on with what it had.
AwaitNothing == UNCHANGED wait /\ held' = NoHold

AwaitFresh == wait' = TRUE /\ held' = NoHold

\* The process starts and connects; the writer's first line is the channel.
Connect ==
    /\ bridge = "down" /\ bridge' = "up"
    /\ line' = <<channel>> /\ unseen' = FALSE
    /\ AwaitFresh
    /\ UNCHANGED <<daemon, sent, store, faults>>

BridgeExits ==
    /\ bridge = "exiting" /\ line = <<>>
    /\ bridge' = "down" /\ AwaitFresh
    /\ UNCHANGED <<daemon, unseen, line, sent, store, faults>>

----------------------------------------------------------------------------
(* The portal                                                               *)

Known(s) == store # Nothing /\ s.epoch = store.epoch

\* Mutant: snapshots are ordered by their time alone.
StaleByTime(s) ==
    /\ Known(s)
    /\ \/ s.gen < store.gen
       \/ s.gen = store.gen /\ ~wait

\* Not taken: older, or the same again when no fresh one is awaited.
Stale(s) ==
    /\ Known(s)
    /\ \/ s.seq < store.seq
       \/ s.seq = store.seq /\ s.gen < store.gen
       \/ s.seq = store.seq /\ s.gen = store.gen /\ ~wait

\* Under one sequence only the readings are taken.
Taken(s) ==
    IF Known(s) /\ s.seq = store.seq
    THEN [store EXCEPT !.gen = s.gen, !.reading = IF s.gen > store.gen THEN s.reading ELSE @]
    ELSE s

Ingest ==
    LET s == Head(line) IN
    /\ line # <<>> /\ line' = Tail(line)
    /\ IF Stale(s)
       THEN UNCHANGED portal
       ELSE /\ store' = Taken(s) /\ wait' = FALSE
            /\ held' = IF held # NoHold /\ <<held.run, held.seq>> # <<s.epoch, s.seq>>
                       THEN NoHold ELSE held
    /\ UNCHANGED <<daemon, unseen, bridge, sent, faults>>

Shown(run) == [run |-> run, seq |-> store.seq, roster |-> store.roster]

\* A hold pins the card and the sequence it began on.
Hold ==
    /\ ~wait /\ held = NoHold
    /\ held' = Shown(store.epoch)
    /\ UNCHANGED <<daemon, connection, store, wait, faults>>

LetGo ==
    /\ held # NoHold /\ held' = NoHold
    /\ UNCHANGED <<daemon, connection, store, wait, faults>>

\* A command written to the bridge; one that is hung loses it and exits.
Emit(command) ==
    /\ ~wait
    /\ \/ /\ bridge = "up" /\ Cardinality(sent) < MaxSent
          /\ sent' = sent \cup {command}
          /\ UNCHANGED bridge
       \/ /\ bridge \in {"hung", "exiting"} /\ bridge' = "exiting"
          /\ UNCHANGED sent
    /\ UNCHANGED <<daemon, unseen, line, store, wait, faults>>

Confirm == held # NoHold /\ held' = NoHold /\ Emit(held)

Tap(system) ==
    /\ store # Nothing
    /\ Emit(Shown(IF system THEN 0 ELSE store.epoch)) /\ UNCHANGED held

----------------------------------------------------------------------------
(* Time and faults                                                          *)

Advance ==
    /\ clock < MaxClock /\ clock' = clock + 1
    /\ UNCHANGED <<snap, pub, channel, connection, portal, faults>>

Fault == faults < MaxFault /\ faults' = faults + 1

\* The wall clock is set back.
SetBack ==
    /\ Fault /\ clock < MaxClock
    /\ clock' \in 1..clock - 1
    /\ UNCHANGED <<snap, pub, channel, connection, portal>>

Closed == IF bridge = "up" THEN "hung" ELSE bridge

\* The writer or the reader of the connection fails.
DropConnection ==
    /\ Fault /\ bridge = "up"
    /\ bridge' = Closed /\ sent' \in SUBSET sent
    /\ UNCHANGED <<daemon, unseen, line, portal>>

RestartDaemon ==
    /\ Fault
    /\ snap' = EmptySnapshot(snap.epoch + 1) /\ channel' = snap'
    /\ pub' = [p \in Publisher |-> Rest]
    /\ bridge' = Closed /\ sent' = {} /\ unseen' = FALSE
    /\ UNCHANGED <<clock, line, portal>>

\* What it had not delivered is lost; what it had sent on is still served.
BridgeDies ==
    /\ Fault /\ bridge # "down"
    /\ bridge' = "down" /\ line' = <<>> /\ AwaitFresh
    /\ UNCHANGED <<daemon, unseen, sent, store>>

RestartPortal ==
    /\ Fault
    /\ bridge' = "down" /\ line' = <<>>
    /\ store' = Nothing /\ AwaitFresh
    /\ UNCHANGED <<daemon, unseen, sent>>

----------------------------------------------------------------------------
Init ==
    /\ snap = EmptySnapshot(1) /\ channel = snap /\ clock = 1
    /\ pub = [p \in Publisher |-> Rest]
    /\ unseen = FALSE /\ bridge = "down" /\ line = <<>> /\ sent = {}
    /\ store = Nothing /\ wait = TRUE /\ held = NoHold
    /\ faults = 0

Daemon ==
    \/ \E p \in Committer : Commit(p)
    \/ Collect
    \/ \E p \in Publisher : Copy(p) \/ Send(p)
    \/ Update \/ Heartbeat
    \/ \E command \in sent : Serve(command)

Portal ==
    \/ Connect \/ BridgeExits \/ Ingest \/ Hold \/ LetGo \/ Confirm
    \/ \E system \in BOOLEAN : Tap(system)

Faults ==
    \/ SetBack \/ DropConnection \/ RestartDaemon \/ BridgeDies \/ RestartPortal

Next == Daemon \/ Portal \/ Advance \/ Faults

\* Timers fire, tasks run and processes are started; nothing is assumed of
\* commits, commands or faults.
Fairness ==
    /\ WF_vars(Collect) /\ WF_vars(Advance)
    /\ \A p \in Publisher : WF_vars(Copy(p)) /\ WF_vars(Send(p))
    /\ WF_vars(Update \/ Heartbeat)
    /\ WF_vars(Connect) /\ WF_vars(BridgeExits) /\ WF_vars(Ingest)

Spec == Init /\ [][Next]_vars
FairSpec == Spec /\ Fairness

----------------------------------------------------------------------------
(* What the publication promises                                            *)

\* The store and the daemon agree on the cards whenever they agree on the run
\* and the sequence, whatever was published, lost, reordered or merged before.
SequenceNamesRoster ==
    store # Nothing /\ store.epoch = snap.epoch /\ store.seq = snap.seq =>
        store.roster = snap.roster

\* A command the daemon would accept now was given on the cards the daemon has
\* now, however long it was held or on its way.
AcceptedMeansShown == \A command \in sent : Gate(command) => command.roster = snap.roster

\* With a live connection the portal offers actions on the roster of the daemon
\* at its other end, never of an earlier run.
ReadyMeansThisRun ==
    bridge = "up" /\ ~wait => store # Nothing /\ store.epoch = snap.epoch

\* The position of what the portal shows moves only forward, across publishers
\* that overtake each other, reconnects, restarts and clocks set back.
Position ==
    IF store = Nothing THEN Nothing
    ELSE [epoch |-> store.epoch, seq |-> store.seq, gen |-> store.gen]
Forward == INSTANCE ForwardView WITH view <- Position
ViewMovesForward == Forward!Spec

\* Once commits and faults stop, the portal ends up ready and showing what the
\* daemon has, unless its bridge hangs until the next command.
UpToDate ==
    /\ bridge = "up" /\ ~wait
    /\ store.epoch = snap.epoch /\ store.seq = snap.seq
    /\ store.roster = snap.roster /\ store.reading = snap.reading
Converges == <>[](bridge = "hung") \/ <>[]UpToDate
=============================================================================
