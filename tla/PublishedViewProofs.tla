------------------------ MODULE PublishedViewProofs ------------------------
(***************************************************************************)
(* What the publication promises, for any publishers, rosters, readings    *)
(* and bounds.  The invariant follows the snapshots of a daemon run from   *)
(* the state to the store: each fits the state it was copied from and all  *)
(* later ones, and a connection carries those of one run.                  *)
(***************************************************************************)
EXTENDS PublishedView, SequenceTheorems, TLAPS

Snap == [epoch : Nat, seq : Nat, gen : Nat, roster : Roster, reading : Reading]

\* The order and the roster of x are no later than those of the state s: under
\* the sequence of s, the roster is that of s.
Agrees(x, s) == x.seq <= s.seq /\ (x.seq = s.seq => x.roster = s.roster)

\* A snapshot of the run of s, or of an earlier run.
Fits(x, s) ==
    /\ x \in Snap
    /\ x.epoch <= s.epoch
    /\ x.epoch = s.epoch => Agrees(x, s)

\* A snapshot of the run of s.
Current(x, s) == Fits(x, s) /\ x.epoch = s.epoch

DaemonInv ==
    /\ snap \in Snap /\ clock \in Nat
    /\ Current(channel, snap)
    /\ DOMAIN pub = Publisher
    /\ pub = [p \in Publisher |-> pub[p]]
    /\ \A p \in Publisher : pub[p].at = "copy" => Current(pub[p].snap, snap)

LineInv ==
    /\ line \in Seq(Snap)
    /\ \A i \in 1..Len(line) :
        /\ Fits(line[i], snap)
        /\ bridge = "up" => line[i].epoch = snap.epoch
        /\ store # Nothing => store.epoch <= line[i].epoch
        /\ \A j \in 1..Len(line) : line[i].epoch = line[j].epoch

StoreInv ==
    /\ store # Nothing => Fits(store, snap)
    /\ ~wait => store # Nothing
    /\ bridge = "up" /\ ~wait => store.epoch = snap.epoch
    /\ held # NoHold => ~wait /\ held = Shown(store.epoch)

SentInv == \A c \in sent : c.seq \in Nat /\ Agrees(c, snap)

ViewInv == DaemonInv /\ LineInv /\ StoreInv /\ SentInv

----------------------------------------------------------------------------
(* The state of a run moves forward                                         *)

\* A commit takes a new sequence, a reading leaves the sequence and the roster.
Moves(s, t) ==
    /\ s \in Snap /\ t \in Snap
    /\ t.epoch = s.epoch
    /\ \/ s.seq < t.seq
       \/ s.seq = t.seq /\ s.roster = t.roster

\* What fitted the state goes on fitting it.
LEMMA FitsMoved ==
  \A x, s, t : Moves(s, t) => /\ Fits(x, s) => Fits(x, t)
                              /\ Current(x, s) => Current(x, t)
  BY DEF Moves, Fits, Current, Agrees, Snap

LEMMA AgreesMoved ==
  \A x, s, t : x.seq \in Nat /\ Moves(s, t) /\ Agrees(x, s) => Agrees(x, t)
  BY DEF Moves, Agrees, Snap

\* The state fits itself.
LEMMA CurrentSelf == \A s \in Snap : Current(s, s)
  BY DEF Current, Fits, Agrees, Snap

\* A commit and a collector change the state and their own publisher's turn.
LEMMA ViewState ==
  ASSUME ViewInv, NEW p \in Publisher, Moves(snap, snap'),
         pub' = [pub EXCEPT ![p] = Due],
         UNCHANGED <<clock, channel, connection, portal, faults>>
  PROVE  ViewInv'
  <1> USE FitsMoved
  <1>1. DaemonInv'
    <2>1. snap' \in Snap /\ clock' \in Nat /\ Current(channel', snap')
      BY DEF ViewInv, DaemonInv, Moves
    <2>2. DOMAIN pub' = Publisher /\ pub' = [q \in Publisher |-> pub'[q]]
      BY DEF ViewInv, DaemonInv
    <2>3. ASSUME NEW q \in Publisher, pub'[q].at = "copy" PROVE Current(pub'[q].snap, snap')
      <3>1. q # p
        BY <2>3 DEF ViewInv, DaemonInv, Due
      <3> QED
        BY <2>3, <3>1 DEF ViewInv, DaemonInv
    <2> QED
      BY <2>1, <2>2, <2>3 DEF DaemonInv
  <1>2. LineInv'
    BY DEF ViewInv, LineInv, connection, portal, Moves
  <1>3. StoreInv'
    BY DEF ViewInv, StoreInv, connection, portal, Moves, Shown
  <1>4. SentInv'
    BY AgreesMoved DEF ViewInv, SentInv, connection
  <1> QED
    BY <1>1, <1>2, <1>3, <1>4 DEF ViewInv

LEMMA ViewCommit == ASSUME ViewInv, NEW p \in Committer, Commit(p) PROVE ViewInv'
  <1>1. PICK r \in Roster, x \in Reading :
          snap' = [epoch |-> snap.epoch, seq |-> NextSequence(snap.seq), gen |-> clock,
                 roster |-> r, reading |-> x]
    BY DEF Commit
  <1>2. snap \in Snap /\ clock \in Nat
    BY DEF ViewInv, DaemonInv
  <1>3. Moves(snap, snap')
    BY <1>1, <1>2 DEF Moves, Snap, NextSequence
  <1> QED
    BY <1>3, ViewState DEF Commit, Publisher

LEMMA ViewCollect == ASSUME ViewInv, Collect PROVE ViewInv'
  <1>1. PICK x \in Reading : snap' = [snap EXCEPT !.gen = clock, !.reading = x]
    BY DEF Collect, ViewInv, DaemonInv, Snap
  <1>2. Moves(snap, snap')
    BY <1>1 DEF Moves, Snap, ViewInv, DaemonInv
  <1> QED
    BY <1>2, ViewState DEF Collect, Publisher

LEMMA ViewPublish ==
  ASSUME ViewInv, NEW p \in Publisher, Copy(p) \/ Send(p)
  PROVE  ViewInv'
  <1>1. CASE Copy(p)
    <2>1. DaemonInv'
      <3>1. snap' = snap /\ clock' = clock /\ channel' = channel
        BY <1>1 DEF Copy
      <3>2. DOMAIN pub' = Publisher /\ pub' = [q \in Publisher |-> pub'[q]]
        BY <1>1 DEF Copy, ViewInv, DaemonInv
      <3>3. ASSUME NEW q \in Publisher, pub'[q].at = "copy" PROVE Current(pub'[q].snap, snap)
        <4>1. CASE q = p
          BY <1>1, <4>1, CurrentSelf DEF Copy, ViewInv, DaemonInv
        <4>2. CASE q # p
          BY <1>1, <3>3, <4>2 DEF Copy, ViewInv, DaemonInv
        <4> QED
          BY <4>1, <4>2
      <3> QED
        BY <3>1, <3>2, <3>3 DEF ViewInv, DaemonInv
    <2> QED
      BY <1>1, <2>1 DEF Copy, ViewInv, LineInv, StoreInv, SentInv, Shown, connection, portal
  <1>2. CASE Send(p)
    <2>1. DaemonInv'
      <3>1. snap' = snap /\ clock' = clock /\ Current(channel', snap)
        BY <1>2 DEF Send, ViewInv, DaemonInv
      <3>2. DOMAIN pub' = Publisher /\ pub' = [q \in Publisher |-> pub'[q]]
        BY <1>2 DEF Send, ViewInv, DaemonInv
      <3>3. ASSUME NEW q \in Publisher, pub'[q].at = "copy" PROVE Current(pub'[q].snap, snap)
        BY <1>2, <3>3 DEF Send, Rest, ViewInv, DaemonInv
      <3> QED
        BY <3>1, <3>2, <3>3 DEF ViewInv, DaemonInv
    <2> QED
      BY <1>2, <2>1 DEF Send, ViewInv, LineInv, StoreInv, SentInv, Shown, portal
  <1> QED
    BY <1>1, <1>2

----------------------------------------------------------------------------
(* The connection                                                           *)

\* What the writer appends, it appends to snapshots of the same run.
LEMMA ViewWrite ==
  ASSUME ViewInv, bridge = "up", Write(channel),
         UNCHANGED <<daemon, bridge, sent, portal, faults>>
  PROVE  ViewInv'
  <1>1. line \in Seq(Snap) /\ channel \in Snap /\ line' = Append(line, channel)
    BY DEF ViewInv, LineInv, DaemonInv, Current, Fits, Write
  <1>2. /\ line' \in Seq(Snap)
        /\ \A i \in 1..Len(line') : line'[i] = channel \/ (i \in 1..Len(line) /\ line'[i] = line[i])
    BY <1>1, AppendProperties
  <1>3. \A i \in 1..Len(line') : Current(line'[i], snap)
    BY <1>2 DEF ViewInv, LineInv, DaemonInv, Current
  <1>4. store # Nothing => store.epoch <= snap.epoch
    BY DEF ViewInv, StoreInv, Fits
  <1>5. LineInv'
    BY <1>2, <1>3, <1>4 DEF LineInv, Current, daemon, portal
  <1>6. DaemonInv'
    BY DEF ViewInv, DaemonInv, daemon
  <1>7. StoreInv' /\ SentInv'
    BY DEF ViewInv, StoreInv, SentInv, Shown, daemon, portal
  <1> QED
    BY <1>5, <1>6, <1>7 DEF ViewInv

LEMMA ViewServe ==
  ASSUME ViewInv, NEW c \in sent, Serve(c)
  PROVE  ViewInv'
  <1>1. DaemonInv'
    BY DEF ViewInv, DaemonInv, Serve, daemon
  <1>2. LineInv' /\ StoreInv' /\ SentInv'
    BY DEF ViewInv, LineInv, StoreInv, SentInv, Serve, Shown, daemon, portal
  <1> QED
    BY <1>1, <1>2 DEF ViewInv

LEMMA ViewConnect == ASSUME ViewInv, Connect PROVE ViewInv'
  <1>1. DaemonInv'
    BY DEF ViewInv, DaemonInv, Connect, daemon
  <1>2. LineInv'
    <2>1. Current(channel, snap) /\ channel \in Snap
      BY DEF ViewInv, DaemonInv, Current, Fits
    <2>2. line' = <<channel>> /\ line' \in Seq(Snap) /\ Len(line') = 1 /\ line'[1] = channel
      BY <2>1 DEF Connect
    <2>3. store # Nothing => store.epoch <= snap.epoch
      BY DEF ViewInv, StoreInv, Fits
    <2>4. snap' = snap /\ store' = store
      BY DEF Connect, daemon
    <2> QED
      BY <2>1, <2>2, <2>3, <2>4 DEF LineInv, Current
  <1>3. StoreInv' /\ SentInv'
    BY DEF ViewInv, StoreInv, SentInv, Connect, AwaitFresh, daemon
  <1> QED
    BY <1>1, <1>2, <1>3 DEF ViewInv

LEMMA ViewExit == ASSUME ViewInv, BridgeExits PROVE ViewInv'
  <1>1. DaemonInv'
    BY DEF ViewInv, DaemonInv, BridgeExits, daemon
  <1>2. LineInv'
    BY DEF ViewInv, LineInv, BridgeExits, daemon
  <1>3. StoreInv' /\ SentInv'
    BY DEF ViewInv, StoreInv, SentInv, BridgeExits, AwaitFresh, daemon
  <1> QED
    BY <1>1, <1>2, <1>3 DEF ViewInv

----------------------------------------------------------------------------
(* The portal                                                               *)

\* A snapshot that is taken is from the store's run or a later one, and the
\* store has its sequence and a roster that agrees with it.
LEMMA TakenFits ==
  ASSUME ViewInv, NEW s, Fits(s, snap)
  PROVE  /\ Fits(Taken(s), snap) /\ Taken(s) # Nothing
         /\ Taken(s).epoch = s.epoch /\ Taken(s).seq = s.seq
         /\ Known(s) /\ s.seq = store.seq => Taken(s).roster = store.roster
  <1>1. Nothing \notin Snap /\ s \in Snap
    BY ViewAssumption DEF Snap, Fits
  <1>2. CASE Known(s) /\ s.seq = store.seq
    <2>1. Fits(store, snap) /\ store \in Snap /\ store.epoch = s.epoch /\ store.seq = s.seq
      BY <1>2 DEF ViewInv, StoreInv, Known, Fits
    <2> DEFINE x == IF s.gen > store.gen THEN s.reading ELSE store.reading
    <2>2. Taken(s) = [store EXCEPT !.gen = s.gen, !.reading = x]
      BY <1>2 DEF Taken
    <2>3. x \in Reading
      BY <1>1, <2>1 DEF Snap
    <2> HIDE DEF x
    <2>4. /\ Taken(s) \in Snap
          /\ Taken(s).epoch = store.epoch /\ Taken(s).seq = store.seq
          /\ Taken(s).roster = store.roster
      BY <1>1, <2>1, <2>2, <2>3 DEF Snap
    <2> QED
      BY <1>1, <2>1, <2>4 DEF Fits, Agrees
  <1>3. CASE ~(Known(s) /\ s.seq = store.seq)
    BY <1>1, <1>3 DEF Taken
  <1> QED
    BY <1>2, <1>3

LEMMA ViewIngest == ASSUME ViewInv, Ingest PROVE ViewInv'
  <1> DEFINE s == Head(line)
  <1>1. line # <<>> /\ line' = Tail(line) /\ line \in Seq(Snap)
    BY DEF ViewInv, LineInv, Ingest
  <1>2. /\ Len(line) > 0 /\ s = line[1]
        /\ line' \in Seq(Snap) /\ Len(line') = Len(line) - 1
        /\ \A i \in 1..Len(line') : line'[i] = line[i + 1] /\ i + 1 \in 1..Len(line)
    BY <1>1, HeadTailProperties, EmptySeq
  <1>3. /\ Fits(s, snap)
        /\ bridge = "up" => s.epoch = snap.epoch
        /\ store # Nothing => store.epoch <= s.epoch
        /\ \A i \in 1..Len(line') :
              /\ Fits(line'[i], snap) /\ line'[i].epoch = s.epoch
              /\ bridge = "up" => line'[i].epoch = snap.epoch
              /\ store # Nothing => store.epoch <= line'[i].epoch
              /\ \A j \in 1..Len(line') : line'[i].epoch = line'[j].epoch
    <2>1. 1 \in 1..Len(line)
      BY <1>2
    <2> QED
      BY <1>2, <2>1 DEF ViewInv, LineInv
  <1>4. UNCHANGED <<snap, clock, pub, channel, bridge, sent>>
    BY DEF Ingest, daemon
  <1>5. DaemonInv' /\ SentInv'
    BY <1>4 DEF ViewInv, DaemonInv, SentInv
  <1>6. CASE Stale(s)
    <2>1. UNCHANGED <<store, wait, held>>
      BY <1>6 DEF Ingest, portal
    <2>2. LineInv'
      BY <1>2, <1>3, <1>4, <2>1 DEF LineInv
    <2>3. StoreInv'
      BY <1>4, <2>1 DEF ViewInv, StoreInv, Shown
    <2> QED
      BY <1>5, <2>2, <2>3 DEF ViewInv
  <1>7. CASE ~Stale(s)
    <2>1. store' = Taken(s) /\ wait' = FALSE
          /\ held' = IF held # NoHold /\ <<held.run, held.seq>> # <<s.epoch, s.seq>>
                     THEN NoHold ELSE held
      BY <1>7 DEF Ingest
    <2> HIDE DEF s
    <2>2. /\ Fits(store', snap) /\ store' # Nothing
          /\ store'.epoch = s.epoch /\ store'.seq = s.seq
          /\ Known(s) /\ s.seq = store.seq => store'.roster = store.roster
      BY <1>3, <2>1, TakenFits
    <2>3. LineInv'
      <3>1. s.epoch \in Nat
        BY <1>3 DEF Fits, Snap
      <3>2. store'.epoch = s.epoch /\ bridge' = bridge /\ snap' = snap
        BY <1>4, <2>2
      <3>3. ASSUME NEW k \in 1..Len(line')
            PROVE  /\ Fits(line'[k], snap') /\ store'.epoch <= line'[k].epoch
                   /\ bridge' = "up" => line'[k].epoch = snap'.epoch
                   /\ \A j \in 1..Len(line') : line'[k].epoch = line'[j].epoch
        BY <1>3, <3>1, <3>2
      <3> QED
        BY <1>2, <3>3 DEF LineInv
    <2>4. held' # NoHold => held' = [run |-> store'.epoch, seq |-> store'.seq,
                                     roster |-> store'.roster]
      <3> SUFFICES ASSUME held' # NoHold
                   PROVE  held' = [run |-> store'.epoch, seq |-> store'.seq,
                                   roster |-> store'.roster]
        OBVIOUS
      <3>1. /\ held' = held /\ held # NoHold
            /\ held.run = s.epoch /\ held.seq = s.seq
        BY <2>1
      <3>2. ~wait /\ store # Nothing
            /\ held = [run |-> store.epoch, seq |-> store.seq, roster |-> store.roster]
        BY <3>1 DEF ViewInv, StoreInv, Shown
      <3>3. Known(s) /\ s.seq = store.seq
        BY <3>1, <3>2 DEF Known
      <3> QED
        BY <2>2, <3>1, <3>2, <3>3
    <2>5. StoreInv'
      BY <1>3, <1>4, <2>1, <2>2, <2>4 DEF StoreInv, Shown
    <2> QED
      BY <1>5, <2>3, <2>5 DEF ViewInv
  <1> QED
    BY <1>6, <1>7

\* A hold is begun or let go.
LEMMA ViewHold == ASSUME ViewInv, Hold \/ LetGo PROVE ViewInv'
  <1>1. UNCHANGED <<daemon, connection, store, wait>> /\ (Hold => ~wait /\ held' = Shown(store.epoch))
        /\ (LetGo => held' = NoHold)
    BY DEF Hold, LetGo
  <1>2. DaemonInv' /\ LineInv' /\ SentInv'
    BY <1>1 DEF ViewInv, DaemonInv, LineInv, SentInv, daemon, connection
  <1>3. StoreInv'
    BY <1>1 DEF ViewInv, StoreInv, Shown, daemon, connection
  <1> QED
    BY <1>2, <1>3 DEF ViewInv

\* What is sent over a live connection is what the store shows of this run.
LEMMA ViewEmit ==
  ASSUME ViewInv, NEW run, ~wait, Emit(Shown(run)), held' = held \/ held' = NoHold
  PROVE  ViewInv'
  <1>1. UNCHANGED <<daemon, line, store, wait>> /\ (bridge' = "up" => bridge = "up")
    BY DEF Emit
  <1>2. DaemonInv'
    BY <1>1 DEF ViewInv, DaemonInv, daemon
  <1>3. LineInv' /\ StoreInv'
    BY <1>1 DEF ViewInv, LineInv, StoreInv, Shown, daemon
  <1>4. ASSUME NEW c \in sent' PROVE c.seq \in Nat /\ Agrees(c, snap)
    <2>1. CASE c \in sent
      BY <2>1 DEF ViewInv, SentInv
    <2>2. CASE c \notin sent
      <3>1. bridge = "up" /\ c = Shown(run)
        BY <2>2 DEF Emit
      <3>2. Fits(store, snap) /\ store.epoch = snap.epoch
        BY <3>1 DEF ViewInv, StoreInv
      <3> QED
        BY <3>1, <3>2 DEF Fits, Agrees, Shown, Snap
    <2> QED
      BY <2>1, <2>2
  <1>5. SentInv'
    BY <1>1, <1>4 DEF SentInv, daemon
  <1> QED
    BY <1>2, <1>3, <1>5 DEF ViewInv

LEMMA ViewCommand ==
  ASSUME ViewInv, Confirm \/ \E system \in BOOLEAN : Tap(system)
  PROVE  ViewInv'
  <1>1. CASE Confirm
    BY <1>1, ViewEmit DEF Confirm, ViewInv, StoreInv
  <1>2. CASE \E system \in BOOLEAN : Tap(system)
    BY <1>2, ViewEmit DEF Tap, Emit
  <1> QED
    BY <1>1, <1>2

----------------------------------------------------------------------------
(* Time and faults                                                          *)

LEMMA ViewClock == ASSUME ViewInv, Advance \/ SetBack PROVE ViewInv'
  <1>1. clock' \in Nat /\ UNCHANGED <<snap, pub, channel, connection, portal>>
    BY DEF Advance, SetBack, ViewInv, DaemonInv
  <1>2. DaemonInv'
    BY <1>1 DEF ViewInv, DaemonInv
  <1>3. LineInv' /\ StoreInv' /\ SentInv'
    BY <1>1 DEF ViewInv, LineInv, StoreInv, SentInv, Shown, connection, portal
  <1> QED
    BY <1>2, <1>3 DEF ViewInv

LEMMA ViewDrop == ASSUME ViewInv, DropConnection PROVE ViewInv'
  <1>1. /\ UNCHANGED <<daemon, line, portal>> /\ bridge' = "hung"
        /\ sent' \subseteq sent
    BY DEF DropConnection, Closed
  <1>2. DaemonInv'
    BY <1>1 DEF ViewInv, DaemonInv, daemon
  <1>3. LineInv' /\ StoreInv' /\ SentInv'
    BY <1>1 DEF ViewInv, LineInv, StoreInv, SentInv, Shown, daemon, portal
  <1> QED
    BY <1>2, <1>3 DEF ViewInv

\* Every snapshot on its way is of an earlier run than the new daemon's.
LEMMA ViewRestart == ASSUME ViewInv, RestartDaemon PROVE ViewInv'
  <1>1. /\ snap' = EmptySnapshot(snap.epoch + 1) /\ channel' = snap'
        /\ pub' = [p \in Publisher |-> Rest]
        /\ bridge' # "up" /\ sent' = {} /\ UNCHANGED <<clock, line, portal>>
    BY DEF RestartDaemon, Closed
  <1>2. snap \in Snap /\ snap' \in Snap /\ snap'.epoch = snap.epoch + 1
    BY <1>1, ViewAssumption DEF ViewInv, DaemonInv, EmptySnapshot, Snap
  <1>3. \A x : Fits(x, snap) => Fits(x, snap')
    BY <1>2 DEF Fits, Snap
  <1>4. DaemonInv'
    BY <1>1, <1>2, CurrentSelf DEF ViewInv, DaemonInv, Rest
  <1>5. LineInv' /\ StoreInv' /\ SentInv'
    BY <1>1, <1>3 DEF ViewInv, LineInv, StoreInv, SentInv, Shown, portal
  <1> QED
    BY <1>4, <1>5 DEF ViewInv

LEMMA ViewBroken == ASSUME ViewInv, BridgeDies \/ RestartPortal PROVE ViewInv'
  <1>1. /\ UNCHANGED <<daemon, sent>> /\ bridge' = "down" /\ line' = <<>>
        /\ store' \in {store, Nothing} /\ wait' = TRUE /\ held' = NoHold
    BY DEF BridgeDies, RestartPortal, AwaitFresh
  <1>2. DaemonInv'
    BY <1>1 DEF ViewInv, DaemonInv, daemon
  <1>3. LineInv' /\ StoreInv' /\ SentInv'
    BY <1>1 DEF ViewInv, LineInv, StoreInv, SentInv, daemon
  <1> QED
    BY <1>2, <1>3 DEF ViewInv

----------------------------------------------------------------------------
(* The invariant, and what follows from it                                  *)

LEMMA ViewInit == ASSUME Init PROVE ViewInv
  <1>1. snap \in Snap
    BY ViewAssumption DEF Init, EmptySnapshot, Snap
  <1>2. DaemonInv
    BY <1>1, CurrentSelf DEF Init, DaemonInv, Rest
  <1>3. LineInv /\ StoreInv /\ SentInv
    BY DEF Init, LineInv, StoreInv, SentInv
  <1> QED
    BY <1>2, <1>3 DEF ViewInv

LEMMA ViewStutter == ASSUME ViewInv, UNCHANGED vars PROVE ViewInv'
  <1>1. DaemonInv'
    BY DEF ViewInv, DaemonInv, vars, daemon
  <1>2. LineInv' /\ StoreInv' /\ SentInv'
    BY DEF ViewInv, LineInv, StoreInv, SentInv, Shown, vars, daemon, connection, portal
  <1> QED
    BY <1>1, <1>2 DEF ViewInv

LEMMA ViewNext == ASSUME ViewInv, [Next]_vars PROVE ViewInv'
  <1>1. CASE Daemon
    <2>1. CASE Update \/ Heartbeat
      BY <2>1, ViewWrite DEF Update, Heartbeat
    <2> QED
      BY <1>1, <2>1, ViewCommit, ViewCollect, ViewPublish, ViewServe DEF Daemon
  <1>2. CASE Portal
    BY <1>2, ViewConnect, ViewExit, ViewIngest, ViewHold, ViewCommand DEF Portal
  <1>3. CASE Advance \/ Faults
    BY <1>3, ViewClock, ViewDrop, ViewRestart, ViewBroken DEF Faults
  <1>4. CASE UNCHANGED vars
    BY <1>4, ViewStutter
  <1> QED
    BY <1>1, <1>2, <1>3, <1>4 DEF Next

LEMMA ViewAlways == Spec => []ViewInv
  BY ViewInit, ViewNext, PTL DEF Spec

\* The store and the daemon agree on the cards whenever they agree on the run
\* and the sequence (ingestSnapshot, publish).
THEOREM SequenceAlwaysNamesRoster == Spec => []SequenceNamesRoster
  <1>1. ViewInv => SequenceNamesRoster
    BY DEF ViewInv, StoreInv, Fits, Agrees, SequenceNamesRoster
  <1> QED
    BY <1>1, ViewAlways, PTL

\* A command the daemon would accept was given on the cards it has now (the
\* sequence gate of process_command, HoldControl, sendBuilt).
THEOREM CommandsMeanWhatWasShown == Spec => []AcceptedMeansShown
  <1>1. ViewInv => AcceptedMeansShown
    BY DEF ViewInv, SentInv, Agrees, Gate, AcceptedMeansShown
  <1> QED
    BY <1>1, ViewAlways, PTL

\* Actions are offered only on the roster of the daemon that is connected
\* (awaitFreshSnapshot at every start and exit of the bridge).
THEOREM ReadyIsThisRun == Spec => []ReadyMeansThisRun
  <1>1. ViewInv => ReadyMeansThisRun
    BY DEF ViewInv, StoreInv, ReadyMeansThisRun
  <1> QED
    BY <1>1, ViewAlways, PTL

----------------------------------------------------------------------------
(* The portal implements a view that only moves forward                     *)

\* Only a snapshot that is taken, or a portal that starts afresh, changes the store.
LEMMA StoreChanges ==
  ASSUME [Next]_vars
  PROVE  store' = store \/ store' = Nothing \/ Ingest
  <1>1. CASE Daemon
    BY <1>1 DEF Daemon, Commit, Collect, Copy, Send, Update, Heartbeat, Serve, portal
  <1>2. CASE Portal
    BY <1>2 DEF Portal, Connect, BridgeExits, Hold, LetGo, Confirm, Tap, Emit
  <1>3. CASE Advance \/ Faults
    BY <1>3 DEF Advance, Faults, SetBack, DropConnection, RestartDaemon, BridgeDies,
                RestartPortal, portal
  <1>4. CASE UNCHANGED vars
    BY <1>4 DEF vars, portal
  <1> QED
    BY <1>1, <1>2, <1>3, <1>4 DEF Next

\* A snapshot that is taken moves the store forward, or leaves it where it is.
LEMMA IngestMovesForward ==
  ASSUME ViewInv, Ingest
  PROVE  [Forward!Show \/ Forward!Forget]_Position
  <1> DEFINE s == Head(line)
  <1>1. Fits(s, snap) /\ (store # Nothing => store.epoch <= s.epoch)
    <2>1. line \in Seq(Snap) /\ line # <<>>
      BY DEF ViewInv, LineInv, Ingest
    <2>2. 1 \in 1..Len(line) /\ s = line[1]
      BY <2>1, EmptySeq
    <2> QED
      BY <2>2 DEF ViewInv, LineInv
  <1>2. CASE Stale(s)
    BY <1>2 DEF Ingest, portal, Position
  <1>3. CASE ~Stale(s)
    <2>1. store' = Taken(s)
      BY <1>3 DEF Ingest
    <2> HIDE DEF s
    <2>2. /\ store' # Nothing /\ store' \in Snap
          /\ store'.epoch = s.epoch /\ store'.seq = s.seq /\ store'.gen = s.gen
      <3>1. Nothing \notin Snap /\ s \in Snap
        BY <1>1, ViewAssumption DEF Snap, Fits
      <3>2. store' # Nothing /\ store' \in Snap
            /\ store'.epoch = s.epoch /\ store'.seq = s.seq
        BY <1>1, <2>1, TakenFits DEF Fits
      <3>3. CASE Known(s) /\ s.seq = store.seq
        <4>1. store \in Snap
          BY <3>3 DEF ViewInv, StoreInv, Fits, Known
        <4> QED
          BY <2>1, <3>2, <3>3, <4>1 DEF Taken, Snap
      <3>4. CASE ~(Known(s) /\ s.seq = store.seq)
        BY <2>1, <3>2, <3>4 DEF Taken
      <3> QED
        BY <3>2, <3>3, <3>4
    <2>3. Position' = [epoch |-> s.epoch, seq |-> s.seq, gen |-> s.gen]
      BY <2>2 DEF Position
    <2>4. Position' \in Forward!View
      BY <2>2, <2>3 DEF Forward!View, Snap
    <2>5. CASE store = Nothing
      BY <2>4, <2>5 DEF Position, Forward!Show
    <2>6. CASE store # Nothing
      <3>1. Position = [epoch |-> store.epoch, seq |-> store.seq, gen |-> store.gen]
        BY <2>6 DEF Position
      <3>2. store \in Snap /\ s \in Snap
        BY <1>1, <2>6 DEF ViewInv, StoreInv, Fits
      <3>3. CASE <<s.epoch, s.seq, s.gen>> = <<store.epoch, store.seq, store.gen>>
        BY <2>3, <3>1, <3>3
      <3>4. CASE <<s.epoch, s.seq, s.gen>> # <<store.epoch, store.seq, store.gen>>
        <4>1. \/ s.epoch > store.epoch
              \/ s.epoch = store.epoch /\ s.seq > store.seq
              \/ s.epoch = store.epoch /\ s.seq = store.seq /\ s.gen > store.gen
          BY <1>1, <1>3, <2>6, <3>2, <3>4 DEF Stale, Known, Snap
        <4>2. Forward!Later(Position', Position)
          BY <2>3, <3>1, <4>1 DEF Forward!Later
        <4> QED
          BY <2>4, <4>2 DEF Forward!Show
      <3> QED
        BY <3>3, <3>4
    <2> QED
      BY <2>5, <2>6
  <1> QED
    BY <1>2, <1>3

\* The publication, the connection and the store together implement ForwardView:
\* what a portal shows never goes back (ingestSnapshot).
THEOREM ViewOnlyMovesForward == Spec => ViewMovesForward
  <1>1. Init => Forward!Init
    BY DEF Init, Forward!Init, Position
  <1>2. ViewInv /\ [Next]_vars => [Forward!Show \/ Forward!Forget]_Position
    <2> SUFFICES ASSUME ViewInv, [Next]_vars
                 PROVE  [Forward!Show \/ Forward!Forget]_Position
      OBVIOUS
    <2>1. CASE store' = store
      BY <2>1 DEF Position
    <2>2. CASE store' = Nothing
      BY <2>2 DEF Position, Forward!Forget
    <2> QED
      BY <2>1, <2>2, StoreChanges, IngestMovesForward
  <1> QED
    BY <1>1, <1>2, ViewAlways, PTL DEF Spec, ViewMovesForward, Forward!Spec
----------------------------------------------------------------------------
(* Type correctness                                                         *)

\* One daemon run for each restart: what bounds the epochs.
TypedInv == TypeOK /\ snap.epoch <= faults + 1

\* What the collectors and the committers put into the snapshot stays in its bounds.
LEMMA TypedState ==
  ASSUME ViewInv, TypedInv, NEW p \in Publisher, snap' \in Snapshot, snap'.epoch = snap.epoch,
         pub' = [pub EXCEPT ![p] = Due],
         UNCHANGED <<clock, channel, connection, portal, faults>>
  PROVE  TypedInv'
  <1>1. \A q \in Publisher : pub'[q] \in {Rest, Due} \/ pub'[q] \in [at : {"copy"}, snap : Snapshot]
    BY DEF TypedInv, TypeOK
  <1>2. DOMAIN pub' = Publisher
    BY DEF TypedInv, TypeOK
  <1>3. QED
    BY <1>1, <1>2 DEF TypedInv, TypeOK, connection, portal

LEMMA TypedDaemon ==
  ASSUME ViewInv, TypedInv, Daemon
  PROVE  TypedInv'
  <1> USE DEF TypedInv, TypeOK
  <1>1. ASSUME NEW p \in Committer, Commit(p)
        PROVE  TypedInv'
    <2>1. PICK r \in Roster, x \in Reading :
             snap' = [epoch |-> snap.epoch, seq |-> snap.seq + 1, gen |-> clock,
                      roster |-> r, reading |-> x]
      BY <1>1 DEF Commit, NextSequence
    <2>2. snap.seq + 1 \in 0..MaxSequence /\ clock \in 0..MaxClock /\ snap.epoch \in 1..MaxFault + 1
      BY <1>1, ViewAssumption DEF Commit, Snapshot
    <2>3. snap' \in Snapshot /\ snap'.epoch = snap.epoch
      BY <2>1, <2>2 DEF Snapshot
    <2>4. QED
      BY <1>1, <2>3, TypedState DEF Commit, Publisher
  <1>2. CASE Collect
    <2>1. PICK x \in Reading : snap' = [snap EXCEPT !.gen = clock, !.reading = x]
      BY <1>2 DEF Collect, Snapshot
    <2>2. clock \in 0..MaxClock
      BY ViewAssumption
    <2>3. snap' \in Snapshot /\ snap'.epoch = snap.epoch
      BY <2>1, <2>2 DEF Snapshot
    <2>4. QED
      BY <1>2, <2>3, TypedState DEF Collect, Publisher
  <1>3. ASSUME NEW p \in Publisher, Copy(p)
        PROVE  TypedInv'
    <2>1. [at |-> "copy", snap |-> snap] \in [at : {"copy"}, snap : Snapshot]
      OBVIOUS
    <2> DEFINE x == [at |-> "copy", snap |-> snap]
    <2>2. pub' = [pub EXCEPT ![p] = x] /\ x \in [at : {"copy"}, snap : Snapshot]
      BY <1>3, <2>1 DEF Copy
    <2> HIDE DEF x
    <2>3. /\ DOMAIN pub' = Publisher
          /\ \A q \in Publisher :
                pub'[q] \in {Rest, Due} \/ pub'[q] \in [at : {"copy"}, snap : Snapshot]
      BY <2>2
    <2>4. QED
      BY <1>3, <2>3 DEF Copy, connection, portal
  <1>4. ASSUME NEW p \in Publisher, Send(p)
        PROVE  TypedInv'
    <2>1. pub[p].snap \in Snapshot
      BY <1>4 DEF Send, Rest, Due
    <2>2. /\ DOMAIN pub' = Publisher
          /\ \A q \in Publisher :
                pub'[q] \in {Rest, Due} \/ pub'[q] \in [at : {"copy"}, snap : Snapshot]
      BY <1>4 DEF Send
    <2>3. QED
      BY <1>4, <2>1, <2>2 DEF Send, portal
  <1>5. CASE Update \/ Heartbeat
    <2>1. line \in Seq(Snap) /\ channel \in Snap /\ line' = Append(line, channel) /\ Len(line) < MaxLine
      BY <1>5 DEF ViewInv, LineInv, DaemonInv, Current, Fits, Update, Heartbeat, Write
    <2>2. Len(line') = Len(line) + 1 /\ Len(line) \in Nat
          /\ \A i \in 1..Len(line') : line'[i] = channel \/ (i \in 1..Len(line) /\ line'[i] = line[i])
      BY <2>1, AppendProperties, LenProperties
    <2>3. Len(line') <= MaxLine /\ \A i \in 1..Len(line') : line'[i] \in Snapshot
      BY <2>1, <2>2, ViewAssumption
    <2>4. QED
      BY <1>5, <2>3 DEF Update, Heartbeat, daemon, portal
  <1>6. ASSUME NEW c \in sent, Serve(c)
        PROVE  TypedInv'
    BY <1>6 DEF Serve, daemon, portal
  <1>7. QED
    BY <1>1, <1>2, <1>3, <1>4, <1>5, <1>6 DEF Daemon

\* What is taken from a line within bounds is within them.
LEMMA TypedTaken ==
  ASSUME TypedInv, NEW s \in Snapshot
  PROVE  Taken(s) \in Snapshot
  <1>1. CASE Known(s) /\ s.seq = store.seq
    <2> DEFINE x == IF s.gen > store.gen THEN s.reading ELSE store.reading
    <2>1. store \in Snapshot /\ Taken(s) = [store EXCEPT !.gen = s.gen, !.reading = x]
      BY <1>1 DEF Known, Taken, TypedInv, TypeOK
    <2>2. x \in Reading
      BY <2>1 DEF Snapshot
    <2> HIDE DEF x
    <2>3. QED
      BY <2>1, <2>2 DEF Snapshot
  <1>2. CASE ~(Known(s) /\ s.seq = store.seq)
    BY <1>2 DEF Taken
  <1>3. QED
    BY <1>1, <1>2

LEMMA TypedCommand ==
  ASSUME TypedInv, store # Nothing, NEW run \in {0, store.epoch}
  PROVE  Shown(run) \in Command
  <1>1. /\ run \in 0..MaxFault + 1 /\ store.seq \in 0..MaxSequence /\ store.roster \in Roster
    BY ViewAssumption DEF TypedInv, TypeOK, Snapshot
  <1>2. QED
    BY <1>1 DEF Shown, Command

LEMMA TypedPortal ==
  ASSUME ViewInv, TypedInv, Portal
  PROVE  TypedInv'
  <1> USE DEF TypedInv, TypeOK
  <1>1. CASE Connect
    <2>1. line' = <<channel>> /\ Len(line') = 1 /\ line'[1] = channel
      BY <1>1 DEF Connect
    <2>2. Len(line') <= MaxLine /\ \A i \in 1..Len(line') : line'[i] \in Snapshot
      BY <2>1, ViewAssumption
    <2>3. QED
      BY <1>1, <2>2 DEF Connect, AwaitFresh, daemon
  <1>2. CASE BridgeExits
    BY <1>2 DEF BridgeExits, AwaitFresh, daemon
  <1>3. CASE Ingest
    <2> DEFINE s == Head(line)
    <2>1. line \in Seq(Snap) /\ line # <<>> /\ line' = Tail(line)
      BY <1>3 DEF ViewInv, LineInv, Ingest
    <2>2. /\ Len(line) \in Nat /\ Len(line) > 0 /\ s = line[1] /\ Len(line') = Len(line) - 1
          /\ \A i \in 1..Len(line') : line'[i] = line[i + 1] /\ i + 1 \in 1..Len(line)
      BY <2>1, HeadTailProperties, EmptySeq, LenProperties
    <2>3. s \in Snapshot
      BY <2>2
    <2>4. Len(line') <= MaxLine /\ \A i \in 1..Len(line') : line'[i] \in Snapshot
      BY <2>2, ViewAssumption
    <2>5. Taken(s) \in Snapshot
      BY <2>3, TypedTaken
    <2> HIDE DEF s
    <2>6. store' \in {store, Taken(s)} /\ wait' \in {wait, FALSE} /\ held' \in {held, NoHold}
      BY <1>3 DEF Ingest, portal, s
    <2>7. QED
      BY <1>3, <2>4, <2>5, <2>6 DEF Ingest, daemon
  <1>4. CASE Hold
    <2>1. store # Nothing
      BY <1>4 DEF Hold, ViewInv, StoreInv
    <2>2. held' \in Command
      BY <1>4, <2>1, TypedCommand DEF Hold
    <2>3. QED
      BY <1>4, <2>2 DEF Hold, daemon, connection
  <1>5. CASE LetGo
    BY <1>5 DEF LetGo, daemon, connection
  <1>6. ASSUME NEW c \in Command, Emit(c), held' \in {held, NoHold}
        PROVE  TypedInv'
    BY <1>6 DEF Emit, daemon
  <1>7. CASE Confirm
    BY <1>6, <1>7 DEF Confirm
  <1>8. ASSUME NEW system \in BOOLEAN, Tap(system)
        PROVE  TypedInv'
    <2>1. Shown(IF system THEN 0 ELSE store.epoch) \in Command
      BY <1>8, TypedCommand DEF Tap
    <2>2. QED
      BY <1>6, <1>8, <2>1 DEF Tap
  <1>9. QED
    BY <1>1, <1>2, <1>3, <1>4, <1>5, <1>7, <1>8 DEF Portal

LEMMA TypedFaults ==
  ASSUME ViewInv, TypedInv, Advance \/ Faults
  PROVE  TypedInv'
  <1> USE DEF TypedInv, TypeOK
  <1>1. CASE Advance
    BY <1>1, ViewAssumption DEF Advance, connection, portal
  <1>2. Fault => faults' \in 0..MaxFault /\ faults' = faults + 1
    BY ViewAssumption DEF Fault
  <1>3. snap.epoch \in Nat /\ faults \in Nat
    BY DEF Snapshot
  <1>4. CASE SetBack
    BY <1>2, <1>3, <1>4, ViewAssumption DEF SetBack, connection, portal
  <1>5. CASE DropConnection
    BY <1>2, <1>3, <1>5 DEF DropConnection, Closed, daemon, portal
  <1>6. CASE RestartDaemon
    <2>1. /\ snap' = EmptySnapshot(snap.epoch + 1) /\ channel' = snap' /\ sent' = {}
          /\ bridge' \in {"down", "up", "hung", "exiting"} /\ unseen' = FALSE
          /\ pub' = [p \in Publisher |-> Rest] /\ UNCHANGED <<clock, line, portal>>
      BY <1>6 DEF RestartDaemon, Closed
    <2>2. snap.epoch + 1 \in 1..MaxFault + 1 /\ snap.epoch + 1 <= faults' + 1
      BY <1>2, <1>3, <1>6, ViewAssumption DEF RestartDaemon
    <2>3. snap' \in Snapshot /\ snap'.epoch = snap.epoch + 1
      BY <2>1, <2>2, ViewAssumption DEF EmptySnapshot, Snapshot
    <2>4. QED
      BY <1>2, <1>6, <2>1, <2>2, <2>3 DEF RestartDaemon, portal
  <1>7. CASE BridgeDies \/ RestartPortal
    <2>1. /\ UNCHANGED <<daemon, unseen, sent>> /\ bridge' = "down" /\ line' = <<>>
          /\ store' \in {store, Nothing} /\ wait' = TRUE /\ held' = NoHold /\ Fault
      BY <1>7 DEF BridgeDies, RestartPortal, AwaitFresh
    <2>2. QED
      BY <1>2, <1>3, <2>1, ViewAssumption DEF daemon
  <1>8. QED
    BY <1>1, <1>4, <1>5, <1>6, <1>7 DEF Faults

LEMMA TypedInit == Init => TypedInv
  <1> SUFFICES ASSUME Init PROVE TypedInv
    OBVIOUS
  <1>1. snap = EmptySnapshot(1) /\ EmptySnapshot(1) \in Snapshot /\ snap.epoch = 1
    BY ViewAssumption DEF Init, EmptySnapshot, Snapshot
  <1>2. line = <<>> /\ Len(line) = 0
    BY DEF Init
  <1>3. \A i \in 1..Len(line) : line[i] \in Snapshot
    BY <1>2
  <1>4. Len(line) <= MaxLine /\ clock \in 1..MaxClock /\ faults \in 0..MaxFault /\ faults = 0
    BY <1>2, ViewAssumption DEF Init
  <1>5. \A p \in Publisher : pub[p] \in {Rest, Due}
    BY DEF Init
  <1>6. DOMAIN pub = Publisher /\ unseen \in BOOLEAN /\ bridge = "down" /\ sent = {}
        /\ store = Nothing /\ wait = TRUE /\ held = NoHold /\ channel = snap
    BY DEF Init
  <1>7. TypeOK
    BY <1>1, <1>3, <1>4, <1>5, <1>6 DEF TypeOK
  <1>8. QED
    BY <1>1, <1>4, <1>7 DEF TypedInv

\* Every part of the publication keeps its type and its bound, for any publishers, rosters
\* and bounds: no daemon run is named that was not started, the line holds no more than
\* its writer waits for, and a hold and a command name the run and sequence of a snapshot.
THEOREM ViewTypeCorrect == Spec => []TypeOK
  <1>1. ViewInv /\ TypedInv /\ [Next]_vars => TypedInv'
    <2> SUFFICES ASSUME ViewInv, TypedInv, [Next]_vars PROVE TypedInv'
      OBVIOUS
    <2>1. CASE UNCHANGED vars
      BY <2>1 DEF TypedInv, TypeOK, vars, daemon, connection, portal
    <2>2. QED
      BY <2>1, TypedDaemon, TypedPortal, TypedFaults DEF Next
  <1>2. TypedInv => TypeOK
    BY DEF TypedInv
  <1>3. QED
    BY <1>1, <1>2, TypedInit, ViewAlways, PTL DEF Spec
=============================================================================
