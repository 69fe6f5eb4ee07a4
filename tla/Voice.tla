------------------------------- MODULE Voice -------------------------------
(***************************************************************************)
(* Push-to-talk dictation: the voice controller with its ownership marker  *)
(* (voice.rs), the voice commands and the cleanup after a disconnect       *)
(* (runtime.rs), and the cleanup the service runs before a start and after *)
(* a stop of the daemon.                                                   *)
(*                                                                         *)
(* `job` is what runs under the mutex of the controller, from the lock to  *)
(* the commit of its outcome.  A run of the voxtype command is two steps,  *)
(* its effect and its exit; a run that fails or is killed on its timeout   *)
(* may have had its effect.  Voxtype itself is external: its state file    *)
(* shows its state at once, a command that succeeds has had its effect,    *)
(* one that was killed has none later, and its user records too.           *)
(*                                                                         *)
(* Left out: the other fields of the snapshot, its sequence and its        *)
(* publication, the path checks of the marker file, and errors of reading  *)
(* it back.                                                                *)
(***************************************************************************)
EXTENDS Naturals

CONSTANTS
    Client,     \* portal connections of one daemon run
    Nobody,     \* no client
    NoMarker,   \* the marker file does not exist
    Torn,       \* it was created and not written
    Unread,     \* the refresh has read nothing
    MaxBoot,    \* bound: daemon runs
    MaxUse      \* bound: recordings the user starts without the portal

ASSUME VoiceAssumption ==
    /\ Nobody \notin Client
    /\ NoMarker # Torn /\ {NoMarker, Torn} \cap Nat = {}
    /\ Unread \notin [state : {"idle", "recording", "processing", "error", "unavailable"},
                       owned : BOOLEAN]
    /\ MaxBoot \in Nat \ {0} /\ MaxUse \in Nat

VARIABLES
    \* Voxtype
    vox,        \* what it does, and for whom it started
    readable,   \* it runs, and its state file can be read
    uses,       \* recordings the user has started
    \* the marker file
    marker,     \* none, torn or the token of the daemon run that claimed it
    \* the daemon
    boot,       \* the token of the daemon run
    phase,      \* "pre": cleanup before a start; "up"; "post": cleanup after a stop
    shown,      \* the voice of the portal snapshot
    latched,    \* voice_error_latched
    owner,      \* voice_client_owner
    tick,       \* what the voice refresh has read and not yet committed
    line,       \* each connection: "open", "closing" (disconnected) or "gone"
    asked,      \* the voice command each connection is processing
    job,        \* who holds the controller, and where it stands
    unsure      \* a start failed, its cancel failed, and its marker is gone

voxtype == <<vox, readable, uses>>
daemon == <<boot, phase>>
voice == <<shown, latched, owner>>
vars == <<voxtype, marker, daemon, voice, tick, line, asked, job, unsure>>

Action == {"start", "stop", "cancel"}
VoxState == {"idle", "recording", "processing"}
VoiceState == VoxState \cup {"error", "unavailable"}
VoiceSnapshot == [state : VoiceState, owned : BOOLEAN]
None == "none"
Free == [step |-> "free"]
Token == 1..MaxBoot
Quiet == [state |-> "idle", by |-> None]

Job == {Free} \cup
    [by : Client, action : Action, hangup : BOOLEAN, acted : BOOLEAN,
     step : {"read", "claim", "run", "undo", "done", "error"}]

TypeOK ==
    /\ vox \in [state : VoxState, by : {"portal", "user", None}]
    /\ readable \in BOOLEAN /\ uses \in 0..MaxUse
    /\ marker \in {NoMarker, Torn} \cup Token
    /\ boot \in 0..MaxBoot /\ phase \in {"pre", "up", "post"}
    /\ shown \in VoiceSnapshot /\ latched \in BOOLEAN
    /\ owner \in Client \cup {Nobody}
    /\ tick \in VoiceSnapshot \cup {Unread}
    /\ line \in [Client -> {"open", "closing", "gone"}]
    /\ asked \in [Client -> Action \cup {None}]
    /\ job \in Job /\ unsure \in BOOLEAN

----------------------------------------------------------------------------
(* Reading Voxtype and the marker                                           *)

\* Mutant: a missing state file is not normalized.
ReadVoiceStateRaw == IF readable THEN vox.state ELSE "missing"

ReadVoiceState == IF readable THEN vox.state ELSE "unavailable"
OwnsMarker == marker = boot
Snapshot == [state |-> ReadVoiceState, owned |-> OwnsMarker]

\* What `voxtype record` does when it acts; a start acts on an idle Voxtype only.
Acts(action) == readable /\ (action = "start" => vox.state = "idle")
Effect(action) ==
    CASE action = "start" -> [state |-> "recording", by |-> "portal"]
      [] action = "stop" /\ vox.state = "recording" -> [vox EXCEPT !.state = "processing"]
      [] action = "cancel" -> Quiet
      [] OTHER -> vox

----------------------------------------------------------------------------
(* The service: cleanup_owned_dictation before a start and after a stop     *)

\* The cleanup succeeds: the marker is gone, and the recording it stood for too.
Cleaned ==
    /\ marker' = NoMarker
    /\ vox' = IF marker = NoMarker \/ ReadVoiceState = "idle" THEN vox ELSE Effect("cancel")
    /\ marker # NoMarker /\ ReadVoiceState # "idle" => readable

\* The cancel fails, whether or not it acted, or the removal does: the marker stays.
CleanupFails ==
    /\ marker # NoMarker
    /\ vox' = vox \/ (readable /\ vox.state # "idle" /\ vox' = Effect("cancel"))
    /\ UNCHANGED marker

\* Mutant: a cleanup that fails does not keep the daemon from starting.
StartAnyway ==
    /\ phase = "pre" /\ (Cleaned \/ CleanupFails)
    /\ phase' = "up" /\ boot' = boot + 1
    /\ UNCHANGED <<readable, uses, voice, tick, line, asked, job, unsure>>

\* ExecStartPre: the daemon starts only after a cleanup that succeeded.
Start ==
    /\ phase = "pre" /\ Cleaned
    /\ phase' = "up" /\ boot' = boot + 1
    /\ UNCHANGED <<readable, uses, voice, tick, line, asked, job, unsure>>

StartFails ==
    /\ phase = "pre" /\ CleanupFails
    /\ UNCHANGED <<readable, uses, daemon, voice, tick, line, asked, job, unsure>>

\* The daemon stops or dies between any two steps, in the middle of a claim too.
Stop ==
    /\ phase = "up" /\ boot < MaxBoot
    /\ phase' = "post"
    /\ marker' \in IF job.step = "claim" /\ marker = NoMarker THEN {NoMarker, Torn} ELSE {marker}
    /\ shown' = [state |-> "unavailable", owned |-> FALSE]
    /\ latched' = FALSE /\ owner' = Nobody /\ tick' = Unread
    /\ line' = [c \in Client |-> "gone"]
    /\ asked' = [c \in Client |-> None]
    /\ job' = Free
    /\ UNCHANGED <<voxtype, boot, unsure>>

\* ExecStopPost, whose failure is ignored.
Stopped ==
    /\ phase = "post" /\ (Cleaned \/ CleanupFails)
    /\ phase' = "pre"
    /\ UNCHANGED <<readable, uses, boot, voice, tick, line, asked, job, unsure>>

----------------------------------------------------------------------------
(* Connections                                                              *)

\* A connection sends its next command once the last was answered; commands
\* carry no sequence gate, and wait for the controller.
Ask(c, action) ==
    /\ phase = "up" /\ line[c] = "open" /\ asked[c] = None
    /\ asked' = [asked EXCEPT ![c] = action]
    /\ UNCHANGED <<voxtype, marker, daemon, voice, tick, line, job, unsure>>

\* A portal connects, with an identifier that is not in use.
Connect(c) ==
    /\ phase = "up" /\ line[c] = "gone" /\ owner # c
    /\ job # Free => job.by # c
    /\ line' = [line EXCEPT ![c] = "open"]
    /\ UNCHANGED <<voxtype, marker, daemon, voice, tick, asked, job, unsure>>

Disconnect(c) ==
    /\ line[c] = "open"
    /\ line' = [line EXCEPT ![c] = "closing"]
    /\ UNCHANGED <<voxtype, marker, daemon, voice, tick, asked, job, unsure>>

Take(c, action, hangup) ==
    /\ job = Free
    /\ job' = [by |-> c, action |-> action, hangup |-> hangup, acted |-> FALSE, step |-> "read"]

Begin(c) ==
    /\ asked[c] # None /\ Take(c, asked[c], FALSE)
    /\ UNCHANGED <<voxtype, marker, daemon, voice, tick, line, asked, unsure>>

\* Mutant: the cleanup does not wait for the command in flight.
SettledOrNot(c) == TRUE

\* A command that has begun settles before the disconnect is cleaned up.
Settled(c) == asked[c] = None

\* cancel_voice_for_disconnected_client
Cleanup(c) ==
    /\ line[c] = "closing" /\ Settled(c) /\ job = Free
    /\ line' = [line EXCEPT ![c] = "gone"]
    /\ IF owner = c THEN Take(c, "cancel", TRUE) ELSE UNCHANGED job
    /\ UNCHANGED <<voxtype, marker, daemon, voice, tick, asked, unsure>>

----------------------------------------------------------------------------
(* The controller                                                           *)

Goes(step) == job' = [job EXCEPT !.step = step, !.acted = FALSE]

\* start requires an idle Voxtype; stop and cancel require the run's own marker.
Check ==
    /\ job.step = "read"
    /\ Goes(IF job.action = "start"
            THEN IF ReadVoiceState = "idle" THEN "claim" ELSE "error"
            ELSE IF OwnsMarker THEN "run" ELSE "error")
    /\ UNCHANGED <<voxtype, marker, daemon, voice, tick, line, asked, unsure>>

\* The marker is created only where there is none.  Creating or writing it may fail, and
\* so may the removal of one that was not written: no later start can claim past that.
Claim ==
    /\ job.step = "claim"
    /\ \/ marker = NoMarker /\ marker' = boot /\ Goes("run")
       \/ UNCHANGED marker /\ Goes("error")
       \/ marker = NoMarker /\ marker' = Torn /\ Goes("error")
    /\ UNCHANGED <<voxtype, daemon, voice, tick, line, asked, unsure>>

Command == IF job.step = "undo" THEN "cancel" ELSE job.action

VoxtypeActs ==
    /\ job.step \in {"run", "undo"} /\ ~job.acted /\ Acts(Command)
    /\ vox' = Effect(Command) /\ job' = [job EXCEPT !.acted = TRUE]
    /\ UNCHANGED <<readable, uses, marker, daemon, voice, tick, line, asked, unsure>>

StartEnds(ok) ==
    /\ job.step = "run" /\ job.action = "start" /\ (ok => job.acted)
    /\ Goes(IF ok THEN "done" ELSE "undo")
    /\ UNCHANGED <<voxtype, marker, daemon, voice, tick, line, asked, unsure>>

\* A failed start gets one cancel, and the marker is released whatever that did, unless
\* its removal fails too.
UndoEnds(ok, removed) ==
    /\ job.step = "undo" /\ (ok => job.acted)
    /\ marker' = IF removed THEN NoMarker ELSE marker
    /\ unsure' = (unsure \/ (removed /\ ~ok))
    /\ Goes("error")
    /\ UNCHANGED <<voxtype, daemon, voice, tick, line, asked>>

\* Mutant: the marker is removed although the command failed.
FinishEndsAnyway(ok, removed) ==
    /\ job.step = "run" /\ job.action # "start" /\ (ok => job.acted)
    /\ marker' = IF removed THEN NoMarker ELSE marker
    /\ Goes(IF ok /\ removed THEN "done" ELSE "error")
    /\ UNCHANGED <<voxtype, daemon, voice, tick, line, asked, unsure>>

\* The marker is removed after the command succeeded; its removal may fail.
FinishEnds(ok, removed) ==
    /\ job.step = "run" /\ job.action # "start" /\ (ok => job.acted)
    /\ marker' = IF ok /\ removed THEN NoMarker ELSE marker
    /\ Goes(IF ok /\ removed THEN "done" ELSE "error")
    /\ UNCHANGED <<voxtype, daemon, voice, tick, line, asked, unsure>>

\* The state a success is taken to have led to.
Resulting ==
    CASE job.action = "start" -> [state |-> "recording", owned |-> TRUE]
      [] job.action = "stop" -> [state |-> "processing", owned |-> FALSE]
      [] OTHER -> [state |-> "idle", owned |-> FALSE]

OwnerAfter == IF job.action = "start" THEN job.by ELSE Nobody

Answered == asked' = IF job.hangup THEN asked ELSE [asked EXCEPT ![job.by] = None]

Succeed ==
    /\ job.step = "done"
    /\ shown' = Resulting /\ latched' = FALSE /\ owner' = OwnerAfter
    /\ job' = Free /\ Answered
    /\ UNCHANGED <<voxtype, marker, daemon, tick, line, unsure>>

\* Mutant: the controller stays locked after an error.
FailLocked ==
    /\ job.step = "error"
    /\ shown' = [Snapshot EXCEPT !.state = "error"] /\ latched' = TRUE
    /\ owner' = IF job.hangup THEN Nobody ELSE owner
    /\ UNCHANGED job /\ Answered
    /\ UNCHANGED <<voxtype, marker, daemon, tick, line, unsure>>

\* An error is latched; only the cleanup of a disconnect gives the owner up.
Fail ==
    /\ job.step = "error"
    /\ shown' = [Snapshot EXCEPT !.state = "error"] /\ latched' = TRUE
    /\ owner' = IF job.hangup THEN Nobody ELSE owner
    /\ job' = Free /\ Answered
    /\ UNCHANGED <<voxtype, marker, daemon, tick, line, unsure>>

\* refresh_voice: the controller is unlocked before the state is written.
TickReads ==
    /\ phase = "up" /\ tick = Unread /\ job = Free
    /\ tick' = Snapshot
    /\ UNCHANGED <<voxtype, marker, daemon, voice, line, asked, job, unsure>>

\* Mutant: the latched error is not looked at again.
TickWritesRead ==
    /\ tick # Unread /\ tick' = Unread
    /\ shown' = tick
    /\ UNCHANGED <<voxtype, marker, daemon, latched, owner, line, asked, job, unsure>>

TickWrites ==
    /\ tick # Unread /\ tick' = Unread
    /\ shown' = IF latched THEN [tick EXCEPT !.state = "error"] ELSE tick
    /\ UNCHANGED <<voxtype, marker, daemon, latched, owner, line, asked, job, unsure>>

----------------------------------------------------------------------------
(* Voxtype and its user                                                     *)

UserRecords ==
    /\ readable /\ vox.state = "idle" /\ uses < MaxUse
    /\ uses' = uses + 1 /\ vox' = [state |-> "recording", by |-> "user"]
    /\ UNCHANGED <<readable, marker, daemon, voice, tick, line, asked, job, unsure>>

UserEnds ==
    /\ vox.state = "recording"
    /\ vox' = [vox EXCEPT !.state = "processing"]
    /\ UNCHANGED <<readable, uses, marker, daemon, voice, tick, line, asked, job, unsure>>

Transcribed ==
    /\ vox.state = "processing" /\ vox' = Quiet
    /\ UNCHANGED <<readable, uses, marker, daemon, voice, tick, line, asked, job, unsure>>

\* Voxtype stops, with what it was doing, or is started.
VoxtypeRestarts ==
    /\ readable' = ~readable /\ vox' = Quiet
    /\ UNCHANGED <<uses, marker, daemon, voice, tick, line, asked, job, unsure>>

----------------------------------------------------------------------------
Service == Start \/ StartFails \/ Stop \/ Stopped
Controller ==
    \/ Check \/ Claim \/ VoxtypeActs
    \/ \E ok \in BOOLEAN : StartEnds(ok)
    \/ \E ok, removed \in BOOLEAN : UndoEnds(ok, removed) \/ FinishEnds(ok, removed)
    \/ Succeed \/ Fail
Connection(c) ==
    \/ \E action \in Action : Ask(c, action)
    \/ Connect(c) \/ Disconnect(c) \/ Begin(c) \/ Cleanup(c)
Voxtype == UserRecords \/ UserEnds \/ Transcribed \/ VoxtypeRestarts

Init ==
    /\ vox = Quiet /\ readable = TRUE /\ uses = 0
    /\ marker = NoMarker /\ boot = 0 /\ phase = "pre"
    /\ shown = [state |-> "unavailable", owned |-> FALSE]
    /\ latched = FALSE /\ owner = Nobody /\ tick = Unread
    /\ line = [c \in Client |-> "gone"] /\ asked = [c \in Client |-> None]
    /\ job = Free /\ unsure = FALSE

Next ==
    \/ Service \/ Controller \/ TickReads \/ TickWrites
    \/ \E c \in Client : Connection(c)
    \/ Voxtype

\* Every voxtype run is bounded by its timeout and the controller's mutex is
\* fair, so what holds the controller goes on and what waits for it gets it.
Fairness ==
    /\ WF_vars(Controller)
    /\ \A c \in Client : SF_vars(Begin(c)) /\ SF_vars(Cleanup(c))

Spec == Init /\ [][Next]_vars /\ Fairness

----------------------------------------------------------------------------
(* What dictation promises                                                  *)

\* A daemon never runs beside the token of an earlier run: stale ownership is resolved
\* before the start, so the marker names this run, or nobody when a claim of it failed.
MarkerIsOwn == phase = "up" => marker \in {NoMarker, Torn, boot}

\* What the portal recorded never goes on without a marker for someone to cancel
\* it by, across crashes, failed commands and failed writes: while the daemon is up its
\* own, never one torn by a failed claim, so that stop and cancel still work.  The one
\* exception is a failed start whose only cancel failed too.
RecordingIsMarked ==
    vox.state = "recording" /\ vox.by = "portal" /\ ~unsure =>
        marker # NoMarker /\ (phase = "up" => OwnsMarker)

\* The client answerable for a recording can be answered for.  While nothing holds the
\* controller the recording has the daemon's marker, so that a disconnect can cancel
\* it; and the client has not been cleaned up after, so that one will.
OwnerAnswers ==
    /\ job = Free /\ owner # Nobody => OwnsMarker
    /\ owner # Nobody => line[owner] # "gone" \/ (job # Free /\ job.hangup /\ job.by = owner)

\* A failed voice action stays on the portal until one succeeds, whatever the
\* refresh had read before.
ErrorStaysShown == latched <=> shown.state = "error"

\* Command by command, through failures, crashes and cleanups, the controller and the
\* service keep what DictationPromise says of recordings and the marker: none of the
\* portal's is without a marker unless its cancel failed, and a daemon begins only when
\* the last one's marker is resolved.
Promise == INSTANCE DictationPromise WITH
    Run <- Token, NoRun <- 0, NoClaim <- NoMarker,
    doing <- vox, claim <- marker, run <- IF phase = "up" THEN boot ELSE 0, lost <- unsure
DictatesAsPromised == Promise!Spec

\* Every disconnect is cleaned up after, unless the daemon stops first.
DisconnectSettles == \A c \in Client : line[c] = "closing" ~> line[c] = "gone" /\ job.step = "free"

\* protocol.md: `owned` says whether this daemon instance owns the marker.
OwnedIsMarker == phase = "up" /\ job = Free /\ tick = Unread => shown.owned = OwnsMarker

\* protocol.md: stop and cancel touch only a recording owned by this daemon.
OthersRecordingsUntouched ==
    [][ VoxtypeActs /\ job.step = "run" /\ job.action # "start" =>
            ~(vox.state = "recording" /\ vox.by = "user") ]_vars
=============================================================================
