---------------------------- MODULE MicroBridge ----------------------------
(***************************************************************************)
(* The Codex Micro in T3 Code mode: the bridge that lights a key per card  *)
(* and turns a press into an open (xeneon-micro-bridge), the service that  *)
(* restarts it, and the daemon's collector of the Micro's state (micro.rs).*)
(* The bridge takes the Micro from the Herdr bridge, another service, and  *)
(* marks that it has to be started again.                                  *)
(*                                                                         *)
(* The bridge's loop updates, then takes what its two connections brought; *)
(* here it takes one message or updates in any order.  Whatever a step of  *)
(* it may raise is one action, Raises.  External: the Micro behind microd, *)
(* which answers in order and announces keys on the same connection;       *)
(* systemctl, which may act and still fail; the daemon, which answers the  *)
(* commands of a connection in order.  Left out: the colours beyond who    *)
(* calls, the ring but for its acknowledgement, the lock files.            *)
(***************************************************************************)
EXTENDS Naturals, Sequences, SequencesExt

CONSTANTS
    Agent, None,
    Shows,      \* the snapshots of the daemon, as the bridge reads them
    Slots,      \* keys with a lamp
    MaxShow, MaxPress, MaxCrash, MaxQueue   \* bounds

ASSUME MicroAssumption ==
    /\ None \notin Agent /\ None \notin [id : Nat, ids : Seq(Agent)]
    /\ Shows \subseteq [t3 : BOOLEAN, ids : Seq(Agent), calls : SUBSET Agent,
                        open : SUBSET Agent, focus : Agent \cup {None}]
    /\ Slots \in Nat \ {0}
    /\ MaxShow \in Nat /\ MaxPress \in Nat /\ MaxCrash \in Nat /\ MaxQueue \in Nat \ {0}

VARIABLES
    current, shows,     \* the daemon's snapshot, and how often it changed
    step, goal,         \* where the bridge is, and what follows a restore
    portal,             \* connected to the daemon
    toBridge, asked,    \* what the daemon sent, and the commands it has to answer
    seen, silent,       \* the last snapshot read, and whether it is too old
    selected, pending,  \* the selected agent, and the open not yet answered
    micro,              \* connected to the Micro, as its controller
    toMicro, fromMicro, sent,   \* the connection, and the requests sent on it
    frame, lit, ring,   \* drawn; the requests not yet acknowledged
    acked,              \* the agents acknowledged as lit
    lamps, presses,     \* the lamps, and how often a key was used
    herdr, owed,        \* the Herdr bridge runs; was stopped by the bridge
    marker, file,       \* the restore marker and the status file
    got, shown,         \* the collector's sample, and what the portal shows
    crashes

world == <<current, shows>>
wire == <<portal, toBridge, asked>>
view == <<seen, silent, selected, pending>>
draw == <<frame, lit, ring, acked, sent>>
device == <<toMicro, fromMicro, lamps, presses>>
service == <<herdr, owed, marker>>
sample == <<got, shown>>
vars == <<world, step, goal, wire, view, micro, draw, device, service, file, sample, crashes>>

Steps == {"loop", "check", "stop", "claim", "draw", "leave", "restore", "unmark", "down"}
Keys == [kind : {"card"}, at : 1 .. Slots] \cup [kind : {"left", "right", "review"}, at : {0}]
Unknown == [connected |-> FALSE, controlled |-> FALSE, slots |-> <<>>]

\* What the connections carry, and what is kept.
Command == [id : 1 .. MaxPress, agent : Agent]
Message ==
    [type : {"snapshot"}, show : Shows]
    \cup [type : {"result"}, id : 1 .. MaxPress, agent : Agent, ok : BOOLEAN]
Request == [cmd : {"lights"}, id : Nat, ids : Seq(Agent)] \cup [cmd : {"ring"}, id : Nat]
Event ==
    [type : {"lights", "ring"}, id : Nat]
    \cup [type : {"key"}, key : Keys, id : 1 .. MaxPress, over : Seq(Agent)]
File == [slots : Seq(Agent), fresh : BOOLEAN]
Sample == [connected : BOOLEAN, controlled : BOOLEAN, slots : Seq(Agent)]

----------------------------------------------------------------------------
(* What the bridge makes of a snapshot                                      *)

Ids == IF seen = None THEN <<>> ELSE SubSeq(seen.ids, 1, Min({Slots, Len(seen.ids)}))
Wanted == seen # None /\ seen.t3 /\ ~silent
Signature == [ids |-> Ids, calls |-> seen.calls \cap ToSet(Ids)]

Position(a) == IF a \in ToSet(Ids) THEN CHOOSE i \in DOMAIN Ids : Ids[i] = a ELSE 0

\* The agent n places after the selected one, around the cards.
After(n) == Ids[((Position(selected) + n - 1) % Len(Ids)) + 1]

\* The agent a key means; the knob counts from the selected agent, and the review
\* key finds the next one that calls.
Chosen(key) ==
    IF Ids = <<>> THEN None ELSE
    CASE key.kind = "card" -> IF key.at \in DOMAIN Ids THEN Ids[key.at] ELSE None
      [] key.kind = "right" -> After(1)
      [] key.kind = "left" -> IF selected \in ToSet(Ids) THEN After(Len(Ids) - 1)
                         ELSE Ids[((Len(Ids) - 2) % Len(Ids)) + 1]
      [] key.kind = "review" ->
            LET calling == {n \in 1 .. Len(Ids) : After(n) \in seen.calls}
            IN  IF calling = {} THEN None ELSE After(Min(calling))

\* Mutant: a key means the card in its place, whatever its lamp says.
CurrentAnyway == Wanted /\ pending = None

\* The lamps acknowledged are those of the cards now.
Current == Wanted /\ pending = None /\ lit = None /\ ring = None /\ acked = Ids

----------------------------------------------------------------------------
(* The bridge lets go                                                       *)

Hangs == portal' = FALSE /\ toBridge' = <<>> /\ asked' = <<>> /\ seen' = None

Undrawn == frame' = None /\ lit' = None /\ ring' = None /\ acked' = <<>> /\ sent' = 0

\* Mutant: what was read of the connection is kept.
UnpluggedLater == micro' = FALSE /\ UNCHANGED <<toMicro, fromMicro>>

Unplugged == micro' = FALSE /\ toMicro' = <<>> /\ fromMicro' = <<>>

\* A step raised: everything is given up and the portal is connected again.
Raises ==
    /\ step \in {"loop", "check", "claim", "draw"}
    /\ step' = "leave" /\ goal' = "error"
    /\ UNCHANGED <<world, wire, view, micro, draw, device, service, file, sample, crashes>>

Leave ==
    /\ step = "leave" /\ step' = "restore"
    /\ Unplugged /\ Undrawn
    /\ pending' = None /\ file' = None
    /\ IF goal = "loop" THEN UNCHANGED <<wire, seen>> ELSE Hangs
    /\ UNCHANGED <<world, goal, silent, selected, lamps, presses, service, sample, crashes>>

\* What follows a restore: on with the loop; the service's cleanup when the process
\* has ended, after it a new process, which restores first; or the end of the service.
Follow(ok) ==
    CASE goal \in {"loop", "error"} -> step' = "loop" /\ goal' = "loop"
      [] goal = "exit" -> step' = "restore" /\ goal' = "ended"
      [] goal = "ended" -> step' = "down" /\ UNCHANGED goal
      [] goal = "died" -> step' = "restore" /\ goal' = "boot"
      [] goal = "boot" -> IF ok THEN step' = "loop" /\ goal' = "loop"
                          ELSE step' = "restore" /\ goal' = "died"

\* Starting the Herdr bridge may take effect although the command fails.
Restore(acts, ok) ==
    /\ step = "restore" /\ (ok => acts)
    /\ IF ~marker THEN ok /\ acts /\ Follow(TRUE) /\ UNCHANGED service
       ELSE /\ herdr' = (herdr \/ acts) /\ owed' = (owed /\ ~acts) /\ UNCHANGED marker
            /\ IF ok THEN step' = "unmark" /\ UNCHANGED goal ELSE Follow(FALSE)
    /\ UNCHANGED <<world, wire, view, micro, draw, device, file, sample, crashes>>

Unmark ==
    /\ step = "unmark" /\ marker' = FALSE /\ Follow(TRUE)
    /\ UNCHANGED <<world, wire, view, micro, draw, device, herdr, owed, file, sample, crashes>>

----------------------------------------------------------------------------
(* The bridge takes the Micro                                               *)

ConnectPortal ==
    /\ step = "loop" /\ ~portal
    /\ portal' = TRUE /\ toBridge' = <<[type |-> "snapshot", show |-> current]>>
    /\ UNCHANGED <<world, step, goal, asked, view, micro, draw, device, service, file, sample, crashes>>

\* The manager is not T3 Code, or its snapshots stopped.
Release ==
    /\ step = "loop" /\ portal /\ ~Wanted /\ (micro \/ marker)
    /\ step' = "leave" /\ goal' = "loop"
    /\ UNCHANGED <<world, wire, view, micro, draw, device, service, file, sample, crashes>>

Acquire ==
    /\ step = "loop" /\ portal /\ Wanted
    /\ step' = IF micro THEN "draw" ELSE "check"
    /\ UNCHANGED <<world, goal, wire, view, micro, draw, device, service, file, sample, crashes>>

\* Mutant: the Herdr bridge is stopped without a marker.
MarkNothing == step' = "stop" /\ UNCHANGED marker

Mark == step' = "stop" /\ marker' = TRUE

Check ==
    /\ step = "check"
    /\ IF herdr THEN Mark ELSE step' = "claim" /\ UNCHANGED marker
    /\ UNCHANGED <<world, goal, wire, view, micro, draw, device, herdr, owed, file, sample, crashes>>

StopHerdr(acts, ok) ==
    /\ step = "stop" /\ (ok => acts)
    /\ herdr' = (herdr /\ ~acts) /\ owed' = (owed \/ (herdr /\ acts)) /\ UNCHANGED marker
    /\ IF ok THEN step' = "claim" /\ UNCHANGED goal ELSE step' = "leave" /\ goal' = "error"
    /\ UNCHANGED <<world, wire, view, micro, draw, device, file, sample, crashes>>

\* No other controller holds the lock or runs, and microd accepts the connection.
Claim ==
    /\ step = "claim" /\ ~herdr
    /\ micro' = TRUE /\ step' = "draw"
    /\ UNCHANGED <<world, goal, wire, view, draw, device, service, file, sample, crashes>>

Status == [slots |-> acked, fresh |-> TRUE]

\* The lamps follow the cards; a drawing the Micro acknowledged is reported, again
\* at every turn of the loop.
Draw ==
    /\ step = "draw" /\ step' = "loop"
    /\ selected' = IF selected \in ToSet(Ids) THEN selected
                   ELSE IF seen.focus \in ToSet(Ids) THEN seen.focus ELSE None
    /\ IF Signature # frame
       THEN /\ Len(toMicro) < 2 * MaxQueue
            /\ toMicro' = toMicro \o <<[cmd |-> "lights", id |-> sent + 1, ids |-> Ids],
                                       [cmd |-> "ring", id |-> sent + 1]>>
            /\ sent' = sent + 1 /\ frame' = Signature
            /\ lit' = [id |-> sent + 1, ids |-> Ids] /\ ring' = sent + 1
            /\ UNCHANGED file
       ELSE /\ file' = IF acked = Ids /\ lit = None /\ ring = None THEN Status ELSE file
            /\ UNCHANGED <<toMicro, sent, frame, lit, ring>>
    /\ UNCHANGED <<world, goal, wire, seen, silent, pending, micro, acked, fromMicro, lamps,
                   presses, service, sample, crashes>>

----------------------------------------------------------------------------
(* The bridge takes a message                                               *)

TakeSnapshot(event) ==
    /\ event.type = "snapshot" /\ seen' = event.show /\ silent' = FALSE
    /\ UNCHANGED <<selected, pending>>

Ours(event) == pending # None /\ pending.id = event.id

TakeResult(event) ==
    /\ event.type = "result"
    /\ selected' = IF Ours(event) /\ event.ok THEN pending.agent ELSE selected
    /\ pending' = IF Ours(event) THEN None ELSE pending
    /\ UNCHANGED <<seen, silent>>

PortalEvent ==
    /\ step = "loop" /\ portal /\ toBridge # <<>>
    /\ TakeSnapshot(Head(toBridge)) \/ TakeResult(Head(toBridge))
    /\ toBridge' = Tail(toBridge)
    /\ UNCHANGED <<world, step, goal, portal, asked, micro, draw, device, service, file, sample,
                 crashes>>

Takes == fromMicro' = Tail(fromMicro) /\ UNCHANGED <<toMicro, lamps, presses>>

\* The last request's acknowledgement counts; when nothing else is awaited the
\* drawing is reported.
LightsAck(event) ==
    /\ event.type = "lights" /\ UNCHANGED <<asked, pending>>
    /\ IF lit # None /\ lit.id = event.id
       THEN /\ acked' = lit.ids /\ lit' = None /\ UNCHANGED <<frame, ring, sent>>
            /\ file' = IF ring = None THEN [slots |-> lit.ids, fresh |-> TRUE] ELSE file
       ELSE UNCHANGED <<draw, file>>

RingAck(event) ==
    /\ event.type = "ring" /\ UNCHANGED <<asked, pending>>
    /\ IF ring = event.id
       THEN /\ ring' = None /\ UNCHANGED <<frame, lit, acked, sent>>
            /\ file' = IF lit = None THEN Status ELSE file
       ELSE UNCHANGED <<draw, file>>

Opens(agent, event) ==
    /\ pending' = [id |-> event.id, agent |-> agent]
    /\ asked' = Append(asked, [id |-> event.id, agent |-> agent])

KeyUsed(event) ==
    /\ event.type = "key" /\ UNCHANGED <<draw, file>>
    /\ IF Current /\ Chosen(event.key) # None /\ Chosen(event.key) \in seen.open
       THEN Opens(Chosen(event.key), event)
       ELSE UNCHANGED <<asked, pending>>

MicroEvent ==
    /\ step = "loop" /\ portal /\ micro /\ fromMicro # <<>> /\ Takes
    /\ LET event == Head(fromMicro) IN LightsAck(event) \/ RingAck(event) \/ KeyUsed(event)
    /\ UNCHANGED <<world, step, goal, portal, toBridge, seen, silent, selected, micro, service,
                   sample, crashes>>

\* 25 seconds passed.
GivesUp ==
    /\ step = "loop" /\ portal /\ pending # None /\ pending' = None
    /\ UNCHANGED <<world, step, goal, wire, seen, silent, selected, micro, draw, device, service,
                   file, sample, crashes>>

----------------------------------------------------------------------------
(* The service                                                              *)

\* The process dies, or its cleanup does; the service cleans up and starts again.
Dies ==
    /\ step # "down" /\ goal # "ended" /\ crashes < MaxCrash /\ crashes' = crashes + 1
    /\ step' = "restore"
    /\ goal' = IF goal = "exit" THEN "ended" ELSE "died"
    /\ Unplugged /\ Undrawn
    /\ pending' = None /\ selected' = None /\ silent' = FALSE /\ Hangs
    /\ UNCHANGED <<world, lamps, presses, service, file, sample>>

\* Its user stops it.
Stops ==
    /\ step = "loop" /\ step' = "leave" /\ goal' = "exit"
    /\ UNCHANGED <<world, wire, view, micro, draw, device, service, file, sample, crashes>>

----------------------------------------------------------------------------
(* The daemon, the Micro and time                                           *)

Publishes ==
    /\ shows < MaxShow /\ Len(toBridge) < MaxQueue /\ shows' = shows + 1
    /\ \E show \in Shows \ {current} :
        /\ current' = show
        /\ toBridge' = IF portal THEN Append(toBridge, [type |-> "snapshot", show |-> show])
                       ELSE toBridge
    /\ UNCHANGED <<step, goal, portal, asked, view, micro, draw, device, service, file, sample, crashes>>

\* Repeated every second, also when nothing changed.
Heartbeat ==
    /\ portal /\ toBridge = <<>> /\ silent
    /\ toBridge' = <<[type |-> "snapshot", show |-> current]>>
    /\ UNCHANGED <<world, step, goal, portal, asked, view, micro, draw, device, service, file,
                 sample, crashes>>

Answers ==
    /\ asked # <<>> /\ Len(toBridge) < MaxQueue
    /\ \E ok \in BOOLEAN :
        toBridge' = Append(toBridge, [type |-> "result", id |-> Head(asked).id,
                                      agent |-> Head(asked).agent, ok |-> ok])
    /\ asked' = Tail(asked)
    /\ UNCHANGED <<world, step, goal, portal, view, micro, draw, device, service, file, sample, crashes>>

\* No snapshot was read for four seconds.
Silence ==
    /\ seen # None /\ ~silent /\ silent' = TRUE
    /\ UNCHANGED <<world, step, goal, wire, seen, selected, pending, micro, draw, device, service,
                   file, sample, crashes>>

MicroObeys ==
    /\ toMicro # <<>> /\ toMicro' = Tail(toMicro)
    /\ LET request == Head(toMicro) IN
        /\ lamps' = IF request.cmd = "lights" THEN request.ids ELSE lamps
        /\ fromMicro' = Append(fromMicro, [type |-> request.cmd, id |-> request.id])
    /\ UNCHANGED <<world, step, goal, wire, view, micro, draw, presses, service, file, sample, crashes>>

\* A key is used over the lamps of that moment.
KeyIsUsed ==
    /\ micro /\ presses < MaxPress /\ presses' = presses + 1
    /\ \E key \in Keys :
        fromMicro' = Append(fromMicro,
            [type |-> "key", key |-> key, id |-> presses + 1, over |-> lamps])
    /\ UNCHANGED <<world, step, goal, wire, view, micro, draw, toMicro, lamps, service, file,
                 sample, crashes>>

\* The status was written fifteen seconds ago.
StatusAges ==
    /\ file # None /\ file.fresh /\ file' = [file EXCEPT !.fresh = FALSE]
    /\ UNCHANGED <<world, step, goal, wire, view, micro, draw, device, service, sample, crashes>>

----------------------------------------------------------------------------
(* The daemon's collector                                                   *)

\* Mutant: whoever wrote the status controls.
SampledAnyway == [connected |-> TRUE, controlled |-> file # None,
                  slots |-> IF file # None THEN file.slots ELSE <<>>]

Sampled ==
    IF file # None /\ file.fresh
    THEN [connected |-> TRUE, controlled |-> TRUE, slots |-> file.slots]
    ELSE [Unknown EXCEPT !.connected = TRUE]

\* microd answers in time, or the Micro counts as disconnected.
Samples ==
    /\ got = None /\ got' \in {Sampled, Unknown}
    /\ UNCHANGED <<world, step, goal, wire, view, micro, draw, device, service, file, shown, crashes>>

ShowsSample ==
    /\ got # None /\ shown' = got /\ got' = None
    /\ UNCHANGED <<world, step, goal, wire, view, micro, draw, device, service, file, crashes>>

----------------------------------------------------------------------------
Init ==
    /\ current \in Shows /\ shows = 0
    /\ step = "restore" /\ goal = "boot"
    /\ portal = FALSE /\ toBridge = <<>> /\ asked = <<>>
    /\ seen = None /\ silent = FALSE /\ selected = None /\ pending = None
    /\ micro = FALSE /\ toMicro = <<>> /\ fromMicro = <<>> /\ sent = 0
    /\ frame = None /\ lit = None /\ ring = None /\ acked = <<>>
    /\ lamps = <<>> /\ presses = 0
    /\ herdr \in BOOLEAN /\ owed = FALSE /\ marker = FALSE /\ file = None
    /\ got = None /\ shown = Unknown /\ crashes = 0

Restores == \E acts, ok \in BOOLEAN : Restore(acts, ok)
Taking ==
    \/ Acquire \/ Check \/ Claim \/ Draw
    \/ \E acts, ok \in BOOLEAN : StopHerdr(acts, ok)
Loop == ConnectPortal \/ Release \/ Taking \/ Leave \/ Restores \/ Unmark
Collector == Samples \/ ShowsSample
Messages == PortalEvent \/ MicroEvent
Daemon == Publishes \/ Heartbeat \/ Answers
Device == MicroObeys \/ KeyIsUsed
Next ==
    \/ Loop \/ Messages \/ GivesUp \/ Raises \/ Dies \/ Stops
    \/ Daemon \/ Silence \/ Device \/ StatusAges \/ Collector

Spec == Init /\ [][Next]_vars

\* The process and its service go on, and starting the Herdr bridge works in the
\* end; the collector goes on, and a status nobody writes grows old.
Fairness ==
    /\ WF_vars(Loop) /\ SF_vars(Restore(TRUE, TRUE))
    /\ WF_vars(Collector) /\ WF_vars(StatusAges)

FairSpec == Spec /\ Fairness

----------------------------------------------------------------------------
(* What the Micro promises                                                  *)

TypeOK ==
    /\ current \in Shows /\ shows \in 0 .. MaxShow
    /\ step \in Steps /\ goal \in {"loop", "error", "exit", "ended", "died", "boot"}
    /\ portal \in BOOLEAN
    /\ toBridge \in Seq(Message) /\ Len(toBridge) <= MaxQueue /\ asked \in Seq(Command)
    /\ portal \/ (toBridge = <<>> /\ asked = <<>>)
    /\ seen \in Shows \cup {None} /\ silent \in BOOLEAN
    /\ selected \in Agent \cup {None} /\ pending \in Command \cup {None}
    /\ micro \in BOOLEAN /\ (step = "draw" => micro)
    /\ toMicro \in Seq(Request) /\ fromMicro \in Seq(Event) /\ sent \in Nat
    /\ micro \/ (toMicro = <<>> /\ fromMicro = <<>>)
    /\ lit \in [id : {sent}, ids : Seq(Agent)] \cup {None} /\ ring \in {sent, None}
    /\ acked \in Seq(Agent) /\ lamps \in Seq(Agent)
    /\ herdr \in BOOLEAN /\ owed \in BOOLEAN /\ marker \in BOOLEAN
    /\ file \in File \cup {None} /\ got \in Sample \cup {None} /\ shown \in Sample
    /\ \A s \in {got, shown} \ {None} : s.controlled => s.connected
    /\ presses \in 0 .. MaxPress /\ crashes \in 0 .. MaxCrash

\* A key opens the agent whose lamp was lit on it when it was pressed, however the
\* cards, the drawings and their acknowledgements crossed; and an answer selects the
\* agent it is about, also when an earlier press was given up.
KeysMeanWhatTheyShow ==
    [][ /\ Len(asked') > Len(asked) /\ Head(fromMicro).key.kind = "card" =>
            LET event == Head(fromMicro) IN
            /\ event.key.at \in DOMAIN event.over
            /\ Last(asked').agent = event.over[event.key.at]
        /\ /\ toBridge # <<>> /\ toBridge' = Tail(toBridge) /\ portal'
           /\ Head(toBridge).type = "result" /\ selected' # selected
           => selected' = Head(toBridge).agent ]_vars

\* A Herdr bridge that this bridge stopped is marked for the next restore, whatever
\* died or failed where; and the two never control the Micro together.
StoppedHerdrIsMarked == (owed => marker) /\ (micro => ~herdr)

\* What was taken is given back: a Herdr bridge that was stopped runs again, unless
\* the bridge controls the Micro or its user stopped it with the restore failing; and
\* the portal does not go on showing a control nobody has, also after a crash that
\* left the status behind.
ControlIsGivenBack ==
    /\ owed ~> (~owed \/ micro \/ step = "down")
    /\ shown.controlled /\ ~micro ~> (~shown.controlled \/ micro)
=============================================================================
