---------------------------- MODULE VoiceProofs ----------------------------
(***************************************************************************)
(* What dictation promises, for any connections, restarts of the daemon,   *)
(* failures of voxtype, and recordings its user starts.                    *)
(***************************************************************************)
EXTENDS Voice, TLAPS

Recorded == vox.state = "recording" /\ vox.by = "portal"

----------------------------------------------------------------------------
(* The daemon runs, or its service cleans up                                *)

\* Between two daemon runs nothing is asked and nothing holds the controller.
RunInv ==
    /\ phase = "up" => boot \in Token
    /\ phase # "up" =>
          /\ boot < MaxBoot /\ job = Free /\ tick = Unread /\ owner = Nobody
          /\ \A c \in Client : asked[c] = None /\ line[c] = "gone"

\* A job that is not over is a job of a client, and says so in every step.
LEMMA JobShape ==
  ASSUME TypeOK, job # Free
  PROVE  /\ job \in [by : Client, action : Action, hangup : BOOLEAN, acted : BOOLEAN,
                     step : {"read", "claim", "run", "undo", "done", "error"}]
         /\ job.step # "free"
  BY DEF TypeOK, Job

LEMMA FreeIsFree == job = Free => job.step = "free"
  BY DEF Free

\* What voxtype makes of a command is one of its states.
LEMMA EffectType ==
  ASSUME TypeOK, NEW action
  PROVE  Effect(action) \in [state : VoxState, by : {"portal", "user", None}]
  BY DEF TypeOK, Effect, VoxState, Quiet

LEMMA SnapshotType ==
  ASSUME TypeOK
  PROVE  Snapshot \in VoiceSnapshot /\ Snapshot.state # "error"
  BY DEF TypeOK, Snapshot, ReadVoiceState, OwnsMarker, VoiceSnapshot, VoiceState, VoxState

LEMMA ServiceTypes == TypeOK /\ RunInv /\ Service => (TypeOK /\ RunInv)'
  <1> SUFFICES ASSUME TypeOK, RunInv, Service PROVE (TypeOK /\ RunInv)'
    OBVIOUS
  <1>1. CASE Start
    <2>1. vox' \in [state : VoxState, by : {"portal", "user", None}] /\ marker' = NoMarker
      BY <1>1, EffectType DEF Start, Cleaned, TypeOK
    <2>2. boot' = boot + 1 /\ boot' \in Token /\ phase' = "up"
      BY <1>1, VoiceAssumption DEF Start, RunInv, TypeOK, Token
    <2>3. QED
      BY <1>1, <2>1, <2>2 DEF Start, TypeOK, RunInv, voice, Token
  <1>2. CASE StartFails
    <2>1. vox' \in [state : VoxState, by : {"portal", "user", None}] /\ marker' = marker
      BY <1>2, EffectType DEF StartFails, CleanupFails, TypeOK
    <2>2. QED
      BY <1>2, <2>1 DEF StartFails, TypeOK, RunInv, voice, daemon
  <1>3. CASE Stop
    <2>1. marker' \in {NoMarker, Torn} \cup Token
      BY <1>3 DEF Stop, TypeOK
    <2>2. QED
      BY <1>3, <2>1 DEF Stop, TypeOK, RunInv, voxtype, VoiceSnapshot, VoiceState, Job
  <1>4. CASE Stopped
    <2>1. vox' \in [state : VoxState, by : {"portal", "user", None}] /\ marker' \in {NoMarker, marker}
      BY <1>4, EffectType DEF Stopped, Cleaned, CleanupFails, TypeOK
    <2>2. QED
      BY <1>4, <2>1 DEF Stopped, TypeOK, RunInv, voice
  <1>5. QED
    BY <1>1, <1>2, <1>3, <1>4 DEF Service

LEMMA GoesType ==
  ASSUME TypeOK, job # Free, NEW s \in {"read", "claim", "run", "undo", "done", "error"}, Goes(s)
  PROVE  /\ job' \in Job /\ job' # Free /\ job'.step = s /\ job'.acted = FALSE
         /\ job'.by = job.by /\ job'.action = job.action /\ job'.hangup = job.hangup
  <1>1. job' \in [by : Client, action : Action, hangup : BOOLEAN, acted : BOOLEAN,
                  step : {"read", "claim", "run", "undo", "done", "error"}]
        /\ job'.step = s /\ job'.acted = FALSE
        /\ job'.by = job.by /\ job'.action = job.action /\ job'.hangup = job.hangup
    BY JobShape DEF Goes
  <1>2. job' # Free
    BY <1>1 DEF Free
  <1>3. QED
    BY <1>1, <1>2 DEF Job

LEMMA ControllerTypes == TypeOK /\ RunInv /\ Controller => (TypeOK /\ RunInv)'
  <1> SUFFICES ASSUME TypeOK, RunInv, Controller PROVE (TypeOK /\ RunInv)'
    OBVIOUS
  <1>0. job # Free /\ phase = "up" /\ boot \in Token
    <2>1. job.step # "free"
      BY DEF Controller, Check, Claim, VoxtypeActs, StartEnds, UndoEnds, FinishEnds, Succeed, Fail
    <2>2. QED
      BY <2>1, FreeIsFree DEF RunInv
  <1>1. CASE Check
    <2>1. job' \in Job
      BY <1>0, <1>1, GoesType DEF Check
    <2>2. QED
      BY <1>0, <1>1, <2>1 DEF Check, TypeOK, RunInv, voxtype, daemon, voice
  <1>2. CASE Claim
    <2>1. job' \in Job
      BY <1>0, <1>2, GoesType DEF Claim
    <2>2. QED
      BY <1>0, <1>2, <2>1 DEF Claim, TypeOK, RunInv, voxtype, daemon, voice
  <1>3. CASE VoxtypeActs
    <2>1. job' \in Job
      BY <1>0, <1>3, JobShape DEF VoxtypeActs, Job
    <2>2. QED
      BY <1>0, <1>3, <2>1, EffectType DEF VoxtypeActs, TypeOK, RunInv, daemon, voice
  <1>4. ASSUME NEW ok \in BOOLEAN, StartEnds(ok)
        PROVE  (TypeOK /\ RunInv)'
    <2>1. job' \in Job
      BY <1>0, <1>4, GoesType DEF StartEnds
    <2>2. QED
      BY <1>0, <1>4, <2>1 DEF StartEnds, TypeOK, RunInv, voxtype, daemon, voice
  <1>5. ASSUME NEW ok \in BOOLEAN, NEW removed \in BOOLEAN, UndoEnds(ok, removed)
        PROVE  (TypeOK /\ RunInv)'
    <2>1. job' \in Job
      BY <1>0, <1>5, GoesType DEF UndoEnds
    <2>2. QED
      BY <1>0, <1>5, <2>1 DEF UndoEnds, TypeOK, RunInv, voxtype, daemon, voice
  <1>6. ASSUME NEW ok \in BOOLEAN, NEW removed \in BOOLEAN, FinishEnds(ok, removed)
        PROVE  (TypeOK /\ RunInv)'
    <2>1. job' \in Job
      BY <1>0, <1>6, GoesType DEF FinishEnds
    <2>2. QED
      BY <1>0, <1>6, <2>1 DEF FinishEnds, TypeOK, RunInv, voxtype, daemon, voice
  <1>7. CASE Succeed \/ Fail
    <2>1. asked' \in [Client -> Action \cup {None}]
      BY <1>7, JobShape DEF Succeed, Fail, Answered, TypeOK
    <2>2. shown' \in VoiceSnapshot /\ latched' \in BOOLEAN /\ owner' \in Client \cup {Nobody}
      <3>1. CASE Succeed
        BY <1>0, <3>1, JobShape DEF Succeed, Resulting, OwnerAfter, VoiceSnapshot, VoiceState, VoxState
      <3>2. CASE Fail
        BY <1>0, <3>2, SnapshotType DEF Fail, TypeOK, VoiceSnapshot, VoiceState
      <3>3. QED
        BY <1>7, <3>1, <3>2
    <2>3. QED
      BY <1>0, <1>7, <2>1, <2>2 DEF Succeed, Fail, TypeOK, RunInv, voxtype, daemon, Job
  <1>8. QED
    BY <1>1, <1>2, <1>3, <1>4, <1>5, <1>6, <1>7 DEF Controller

LEMMA OthersTypes ==
  TypeOK /\ RunInv /\ (TickReads \/ TickWrites \/ Voxtype \/ UNCHANGED vars) => (TypeOK /\ RunInv)'
  <1> SUFFICES ASSUME TypeOK, RunInv, TickReads \/ TickWrites \/ Voxtype \/ UNCHANGED vars
               PROVE (TypeOK /\ RunInv)'
    OBVIOUS
  <1>1. CASE TickReads
    BY <1>1, SnapshotType DEF TickReads, TypeOK, RunInv, voxtype, daemon, voice
  <1>2. CASE TickWrites
    <2>1. shown' \in VoiceSnapshot
      BY <1>2 DEF TickWrites, TypeOK, VoiceSnapshot, VoiceState
    <2>2. QED
      BY <1>2, <2>1 DEF TickWrites, TypeOK, RunInv, voxtype, daemon
  <1>3. CASE Voxtype
    <2>1. vox' \in [state : VoxState, by : {"portal", "user", None}] /\ readable' \in BOOLEAN
          /\ uses' \in 0 .. MaxUse
      <3>1. CASE UserRecords
        BY <3>1, VoiceAssumption DEF UserRecords, TypeOK, VoxState
      <3>2. CASE UserEnds
        BY <3>2 DEF UserEnds, TypeOK, VoxState
      <3>3. CASE Transcribed \/ VoxtypeRestarts
        <4>1. Quiet \in [state : VoxState, by : {"portal", "user", None}]
          BY DEF Quiet, VoxState
        <4>2. QED
          BY <3>3, <4>1 DEF Transcribed, VoxtypeRestarts, TypeOK
      <3>4. QED
        BY <1>3, <3>1, <3>2, <3>3 DEF Voxtype
    <2>2. UNCHANGED <<marker, daemon, voice, tick, line, asked, job, unsure>>
      BY <1>3 DEF Voxtype, UserRecords, UserEnds, Transcribed, VoxtypeRestarts
    <2>3. QED
      BY <2>1, <2>2 DEF TypeOK, RunInv, daemon, voice
  <1>4. CASE UNCHANGED vars
    BY <1>4 DEF vars, TypeOK, RunInv, voxtype, daemon, voice
  <1>5. QED
    BY <1>1, <1>2, <1>3, <1>4

LEMMA TakeType ==
  ASSUME NEW c \in Client, NEW action \in Action, NEW hangup \in BOOLEAN, Take(c, action, hangup)
  PROVE  /\ job' \in Job /\ job' # Free /\ job = Free
         /\ job'.by = c /\ job'.action = action /\ job'.hangup = hangup
         /\ job'.acted = FALSE /\ job'.step = "read"
  BY DEF Take, Job, Free

LEMMA ConnectionTypes ==
  ASSUME TypeOK, RunInv, NEW c \in Client, Connection(c)
  PROVE  (TypeOK /\ RunInv)'
  <1>1. ASSUME NEW action \in Action, Ask(c, action)
        PROVE  (TypeOK /\ RunInv)'
    BY <1>1 DEF Ask, TypeOK, RunInv, voxtype, daemon, voice
  <1>2. CASE Connect(c) \/ Disconnect(c)
    <2>1. line' \in [Client -> {"open", "closing", "gone"}] /\ phase = "up"
      BY <1>2 DEF Connect, Disconnect, TypeOK, RunInv
    <2>2. UNCHANGED <<voxtype, marker, daemon, voice, tick, asked, job, unsure>>
      BY <1>2 DEF Connect, Disconnect
    <2>3. QED
      BY <2>1, <2>2 DEF TypeOK, RunInv, voxtype, daemon, voice
  <1>3. CASE Begin(c)
    <2>1. asked[c] \in Action
      BY <1>3 DEF Begin, TypeOK
    <2>2. job' \in Job
      BY <1>3, <2>1, TakeType DEF Begin
    <2>3. phase = "up"
      BY <1>3 DEF Begin, RunInv
    <2>4. QED
      BY <1>3, <2>2, <2>3 DEF Begin, TypeOK, RunInv, voxtype, daemon, voice
  <1>4. CASE Cleanup(c)
    <2>1. job' \in Job
      BY <1>4, TakeType DEF Cleanup, Action, TypeOK
    <2>2. phase = "up"
      BY <1>4 DEF Cleanup, RunInv
    <2>3. QED
      BY <1>4, <2>1, <2>2 DEF Cleanup, TypeOK, RunInv, voxtype, daemon, voice
  <1>5. QED
    BY <1>1, <1>2, <1>3, <1>4 DEF Connection

LEMMA VoiceTypes == Spec => [](TypeOK /\ RunInv)
  <1>1. Init => TypeOK /\ RunInv
    <2> SUFFICES ASSUME Init PROVE TypeOK /\ RunInv
      OBVIOUS
    <2>1. vox \in [state : VoxState, by : {"portal", "user", None}] /\ shown \in VoiceSnapshot
      BY DEF Init, VoxState, Quiet, VoiceSnapshot, VoiceState
    <2>2. TypeOK
      <3>1. /\ line \in [Client -> {"open", "closing", "gone"}]
            /\ asked \in [Client -> Action \cup {None}] /\ job \in Job
        BY DEF Init, Job
      <3>2. /\ readable \in BOOLEAN /\ uses \in 0..MaxUse
            /\ boot \in 0..MaxBoot /\ phase \in {"pre", "up", "post"}
        BY VoiceAssumption DEF Init
      <3>3. /\ marker \in {NoMarker, Torn} \cup Token
            /\ latched \in BOOLEAN /\ unsure \in BOOLEAN
            /\ owner \in Client \cup {Nobody} /\ tick \in VoiceSnapshot \cup {Unread}
        BY DEF Init
      <3>4. QED
        BY <2>1, <3>1, <3>2, <3>3 DEF TypeOK
    <2>3. RunInv
      BY VoiceAssumption DEF Init, RunInv
    <2>4. QED
      BY <2>2, <2>3
  <1>2. TypeOK /\ RunInv /\ [Next]_vars => (TypeOK /\ RunInv)'
    BY ServiceTypes, ControllerTypes, OthersTypes, ConnectionTypes DEF Next
  <1>3. QED
    BY <1>1, <1>2, PTL DEF Spec

\* The controller, the marker, the connections and Voxtype stay what they are said to be.
THEOREM TypeCorrect == Spec => []TypeOK
  BY VoiceTypes, PTL

----------------------------------------------------------------------------
(* The marker, the recording and the error                                  *)

\* A command runs under the marker of this daemon run, what it did to a recording is
\* done, and only a failed start is undone.
MarkerInv ==
    /\ MarkerIsOwn /\ RecordingIsMarked
    /\ job.step \in {"run", "undo"} => marker = boot
    /\ job.step = "undo" => job.action = "start"
    /\ job.step = "undo" \/ (job.step = "run" /\ job.action # "start") =>
          (job.acted => ~Recorded)

ErrorInv == ErrorStaysShown /\ (tick # Unread => tick.state # "error")

\* The marker of a daemon run stands for something.
LEMMA BootIsMarker == ASSUME TypeOK, RunInv, phase = "up" PROVE boot # NoMarker
  BY VoiceAssumption DEF RunInv, Token

LEMMA ServiceMarks == TypeOK /\ RunInv /\ MarkerInv /\ Service => MarkerInv'
  <1> SUFFICES ASSUME TypeOK, RunInv, MarkerInv, Service PROVE MarkerInv'
    OBVIOUS
  <1>1. job' = Free
    BY DEF Service, Start, StartFails, Stop, Stopped, RunInv
  <1>2. CASE Cleaned /\ UNCHANGED unsure
    <2>1. Recorded' => Recorded /\ marker = NoMarker
      BY <1>2 DEF Cleaned, Recorded, ReadVoiceState, Effect, Quiet
    <2>2. QED
      BY <1>1, <1>2, <2>1, FreeIsFree DEF Cleaned, MarkerInv, MarkerIsOwn, RecordingIsMarked,
         OwnsMarker, Recorded, Free
  <1>3. CASE CleanupFails /\ phase' # "up" /\ UNCHANGED unsure
    <2>1. Recorded' => Recorded
      BY <1>3 DEF CleanupFails, Recorded, Effect, Quiet
    <2>2. QED
      BY <1>1, <1>3, <2>1 DEF CleanupFails, MarkerInv, MarkerIsOwn, RecordingIsMarked, OwnsMarker, Recorded,
         Free
  <1>4. CASE Stop
    <2>1. marker = NoMarker \/ marker' = marker
      BY <1>4 DEF Stop
    <2>2. QED
      BY <1>1, <1>4, <2>1 DEF Stop, MarkerInv, MarkerIsOwn, RecordingIsMarked, OwnsMarker, Recorded,
         Free, voxtype
  <1>5. QED
    BY <1>2, <1>3, <1>4 DEF Service, Start, StartFails, Stopped, daemon

LEMMA ControllerMarks == TypeOK /\ RunInv /\ MarkerInv /\ Controller => MarkerInv'
  <1> SUFFICES ASSUME TypeOK, RunInv, MarkerInv, Controller PROVE MarkerInv'
    OBVIOUS
  <1>0. job # Free /\ phase = "up" /\ boot # NoMarker
    <2>1. job.step # "free"
      BY DEF Controller, Check, Claim, VoxtypeActs, StartEnds, UndoEnds, FinishEnds, Succeed, Fail
    <2>2. QED
      BY <2>1, FreeIsFree, BootIsMarker DEF RunInv
  <1> USE DEF MarkerInv, MarkerIsOwn, RecordingIsMarked, OwnsMarker, Recorded
  <1>1. CASE Check
    BY <1>0, <1>1, GoesType DEF Check, voxtype, daemon
  <1>2. CASE Claim
    BY <1>0, <1>2, GoesType DEF Claim, voxtype, daemon
  <1>3. CASE VoxtypeActs
    <2>1. /\ job'.step = job.step /\ job'.action = job.action
          /\ UNCHANGED <<marker, boot, phase, unsure>> /\ job.step \in {"run", "undo"}
      BY <1>0, <1>3, JobShape DEF VoxtypeActs, daemon
    <2>2. Command # "start" => ~Recorded'
      BY <1>0, <1>3, JobShape DEF VoxtypeActs, Effect, Command, Quiet, Action
    <2>3. QED
      BY <1>0, <2>1, <2>2 DEF Command
  <1>4. ASSUME NEW ok \in BOOLEAN, StartEnds(ok)
        PROVE  MarkerInv'
    BY <1>0, <1>4, GoesType DEF StartEnds, voxtype, daemon
  <1>5. ASSUME NEW ok \in BOOLEAN, NEW removed \in BOOLEAN, UndoEnds(ok, removed)
        PROVE  MarkerInv'
    BY <1>0, <1>5, GoesType DEF UndoEnds, voxtype, daemon
  <1>6. ASSUME NEW ok \in BOOLEAN, NEW removed \in BOOLEAN, FinishEnds(ok, removed)
        PROVE  MarkerInv'
    BY <1>0, <1>6, GoesType DEF FinishEnds, voxtype, daemon
  <1>7. CASE Succeed \/ Fail
    BY <1>7 DEF Succeed, Fail, voxtype, daemon, Free
  <1>8. QED
    BY <1>1, <1>2, <1>3, <1>4, <1>5, <1>6, <1>7 DEF Controller

LEMMA OthersMark ==
  ASSUME TypeOK, RunInv, MarkerInv,
         TickReads \/ TickWrites \/ Voxtype \/ UNCHANGED vars \/ \E c \in Client : Connection(c)
  PROVE  MarkerInv'
  <1> USE DEF MarkerInv, MarkerIsOwn, RecordingIsMarked, OwnsMarker, Recorded
  <1>1. CASE UNCHANGED <<vox, marker, boot, phase, job, unsure>>
    BY <1>1
  <1>2. CASE TickReads \/ TickWrites \/ UNCHANGED vars
    BY <1>1, <1>2 DEF TickReads, TickWrites, vars, voxtype, daemon
  <1>3. CASE Voxtype
    <2>1. Recorded' => Recorded
      BY <1>3 DEF Voxtype, UserRecords, UserEnds, Transcribed, VoxtypeRestarts, Quiet, TypeOK
    <2>2. QED
      BY <1>3, <2>1 DEF Voxtype, UserRecords, UserEnds, Transcribed, VoxtypeRestarts, daemon
  <1>4. ASSUME NEW c \in Client, Connection(c)
        PROVE  MarkerInv'
    <2>1. CASE Begin(c) \/ (Cleanup(c) /\ job' # job)
      <3>1. job'.step = "read" /\ UNCHANGED <<vox, marker, boot, phase, unsure>>
        BY <2>1 DEF Begin, Cleanup, Take, voxtype, daemon
      <3>2. QED
        BY <3>1
    <2>2. QED
      BY <1>1, <1>4, <2>1 DEF Connection, Ask, Connect, Disconnect, Cleanup, voxtype, daemon
  <1>5. QED
    BY <1>2, <1>3, <1>4

LEMMA MarkersHold == Spec => []MarkerInv
  <1>1. Init => MarkerInv
    BY DEF Init, MarkerInv, MarkerIsOwn, RecordingIsMarked, Quiet, Free
  <1>2. TypeOK /\ RunInv /\ MarkerInv /\ [Next]_vars => MarkerInv'
    BY ServiceMarks, ControllerMarks, OthersMark DEF Next
  <1>3. QED
    BY <1>1, <1>2, VoiceTypes, PTL DEF Spec

\* A daemon never runs beside the token of an earlier run: wherever that one died and
\* whatever it failed to write or remove, the marker names this run or nobody.
THEOREM MarkerIsThisRuns == Spec => []MarkerIsOwn
  <1>1. MarkerInv => MarkerIsOwn
    BY DEF MarkerInv
  <1>2. QED
    BY <1>1, MarkersHold, PTL

\* What the portal recorded has a marker to cancel it by, and a daemon that is up can,
\* wherever one dies, whatever voxtype fails to do and whichever write or removal of the
\* marker fails, but after a failed start whose cancel failed too.
THEOREM NoRecordingIsLost == Spec => []RecordingIsMarked
  <1>1. MarkerInv => RecordingIsMarked
    BY DEF MarkerInv
  <1>2. QED
    BY <1>1, MarkersHold, PTL

LEMMA ErrorStep == TypeOK /\ RunInv /\ ErrorInv /\ [Next]_vars => ErrorInv'
  <1> SUFFICES ASSUME TypeOK, RunInv, ErrorInv, [Next]_vars PROVE ErrorInv'
    OBVIOUS
  <1> USE DEF ErrorInv, ErrorStaysShown
  <1>1. CASE UNCHANGED <<shown, latched, tick>>
    BY <1>1
  <1>2. CASE Service
    BY <1>1, <1>2 DEF Service, Start, StartFails, Stop, Stopped, voice
  <1>3. CASE Succeed
    <2>1. Resulting.state # "error"
      BY DEF Resulting
    <2>2. QED
      BY <1>3, <2>1 DEF Succeed
  <1>4. CASE Fail
    BY <1>4, SnapshotType DEF Fail, VoiceSnapshot, Snapshot
  <1>5. CASE TickReads
    BY <1>5, SnapshotType DEF TickReads, voice
  <1>6. CASE TickWrites
    BY <1>6 DEF TickWrites, TypeOK, VoiceSnapshot
  <1>7. CASE Controller /\ ~Succeed /\ ~Fail
    BY <1>1, <1>7 DEF Controller, Check, Claim, VoxtypeActs, StartEnds, UndoEnds, FinishEnds, voice
  <1>8. CASE Voxtype \/ UNCHANGED vars \/ \E c \in Client : Connection(c)
    BY <1>1, <1>8 DEF Voxtype, UserRecords, UserEnds, Transcribed, VoxtypeRestarts, vars, voice,
       Connection, Ask, Connect, Disconnect, Begin, Cleanup
  <1>9. QED
    BY <1>2, <1>3, <1>4, <1>5, <1>6, <1>7, <1>8 DEF Next

\* An error stays on the portal until an action succeeds, whatever a refresh had read.
THEOREM ErrorIsNotLost == Spec => []ErrorStaysShown
  <1>1. Init => ErrorInv
    BY DEF Init, ErrorInv, ErrorStaysShown
  <1>2. ErrorInv => ErrorStaysShown
    BY DEF ErrorInv
  <1>3. QED
    BY <1>1, <1>2, ErrorStep, VoiceTypes, PTL DEF Spec

----------------------------------------------------------------------------
(* The client answerable for a recording                                    *)

\* A command in the controller is one its connection waits for, or the cleanup of one;
\* a connection that waits has not been cleaned up after.
LineInv ==
    /\ \A c \in Client : asked[c] # None => line[c] # "gone"
    /\ job # Free /\ ~job.hangup => asked[job.by] # None
    /\ job # Free /\ job.hangup => job.action = "cancel"

\* The owner's marker is this run's, but between the end of its recording and the
\* commit; no other recording begins meanwhile; and the owner is there or cleaned up.
OwnerInv ==
    /\ owner # Nobody => marker = boot \/ (job.step = "done" /\ job.action # "start")
    /\ job # Free /\ job.action = "start" /\ job.step \in {"run", "undo", "done"} =>
          owner = Nobody /\ (job.step = "done" => marker = boot)
    /\ owner # Nobody => line[owner] # "gone" \/ (job # Free /\ job.hangup /\ job.by = owner)

LEMMA ControllerOwns ==
  TypeOK /\ RunInv /\ MarkerInv /\ LineInv /\ OwnerInv /\ Controller => LineInv' /\ OwnerInv'
  <1> SUFFICES ASSUME TypeOK, RunInv, MarkerInv, LineInv, OwnerInv,
     Controller PROVE LineInv' /\ OwnerInv'
    OBVIOUS
  <1>0. job # Free /\ phase = "up" /\ boot # NoMarker
    <2>1. job.step # "free"
      BY DEF Controller, Check, Claim, VoxtypeActs, StartEnds, UndoEnds, FinishEnds, Succeed, Fail
    <2>2. QED
      BY <2>1, FreeIsFree, BootIsMarker DEF RunInv
  <1>1. ASSUME job' # Free, job'.by = job.by, job'.action = job.action, job'.hangup = job.hangup,
               UNCHANGED <<asked, line>>
        PROVE  LineInv'
    BY <1>0, <1>1 DEF LineInv
  <1>2. CASE Check
    <2>1. LineInv'
      BY <1>0, <1>1, <1>2, GoesType DEF Check
    <2>2. OwnerInv'
      BY <1>0, <1>2, GoesType DEF Check, OwnerInv, daemon, voice
    <2>3. QED
      BY <2>1, <2>2
  <1>3. CASE Claim
    <2>1. LineInv'
      BY <1>0, <1>1, <1>3, GoesType DEF Claim
    <2>2. OwnerInv'
      BY <1>0, <1>3, GoesType DEF Claim, OwnerInv, daemon, voice
    <2>3. QED
      BY <2>1, <2>2
  <1>4. CASE VoxtypeActs
    <2>1. /\ job' # Free /\ job'.by = job.by /\ job'.action = job.action /\ job'.hangup = job.hangup
          /\ job'.step = job.step /\ UNCHANGED <<asked, line, marker, boot, owner>>
      BY <1>0, <1>4, JobShape DEF VoxtypeActs, Free, daemon, voice
    <2>2. QED
      BY <1>0, <1>1, <2>1 DEF OwnerInv
  <1>5. ASSUME NEW ok \in BOOLEAN, StartEnds(ok)
        PROVE  LineInv' /\ OwnerInv'
    <2>1. LineInv'
      BY <1>0, <1>1, <1>5, GoesType DEF StartEnds
    <2>2. OwnerInv'
      BY <1>0, <1>5, GoesType DEF StartEnds, OwnerInv, MarkerInv, daemon, voice
    <2>3. QED
      BY <2>1, <2>2
  <1>6. ASSUME NEW ok \in BOOLEAN, NEW removed \in BOOLEAN, UndoEnds(ok, removed)
        PROVE  LineInv' /\ OwnerInv'
    <2>1. LineInv'
      BY <1>0, <1>1, <1>6, GoesType DEF UndoEnds
    <2>2. owner = Nobody
      BY <1>0, <1>6 DEF UndoEnds, OwnerInv, MarkerInv
    <2>3. OwnerInv'
      BY <1>0, <1>6, <2>2, GoesType DEF UndoEnds, OwnerInv, daemon, voice
    <2>4. QED
      BY <2>1, <2>3
  <1>7. ASSUME NEW ok \in BOOLEAN, NEW removed \in BOOLEAN, FinishEnds(ok, removed)
        PROVE  LineInv' /\ OwnerInv'
    <2>1. LineInv'
      BY <1>0, <1>1, <1>7, GoesType DEF FinishEnds
    <2>2. OwnerInv'
      BY <1>0, <1>7, GoesType DEF FinishEnds, OwnerInv, MarkerInv, daemon, voice
    <2>3. QED
      BY <2>1, <2>2
  <1>8. CASE Succeed \/ Fail
    <2>1. job' = Free /\ UNCHANGED <<line, marker, boot>>
          /\ \A c \in Client : asked'[c] # None => asked[c] # None
      BY <1>8, JobShape DEF Succeed, Fail, Answered, daemon, TypeOK
    <2>2. LineInv'
      BY <2>1 DEF LineInv
    <2>3. CASE Succeed
      <3>1. CASE job.action = "start"
        <4>1. marker = boot /\ owner' = job.by /\ ~job.hangup /\ job.by \in Client
          BY <1>0, <2>3, <3>1, JobShape DEF Succeed, OwnerAfter, OwnerInv, LineInv
        <4>2. line[job.by] # "gone"
          BY <1>0, <4>1 DEF LineInv
        <4>3. QED
          BY <2>1, <2>2, <4>1, <4>2 DEF OwnerInv
      <3>2. CASE job.action # "start"
        BY <2>1, <2>2, <2>3, <3>2 DEF Succeed, OwnerAfter, OwnerInv
      <3>3. QED
        BY <3>1, <3>2
    <2>4. CASE Fail
      <3>1. CASE job.hangup
        BY <2>1, <2>2, <2>4, <3>1 DEF Fail, OwnerInv
      <3>2. CASE ~job.hangup
        BY <2>1, <2>2, <2>4, <3>2 DEF Fail, OwnerInv
      <3>3. QED
        BY <3>1, <3>2
    <2>5. QED
      BY <1>8, <2>3, <2>4
  <1>9. QED
    BY <1>2, <1>3, <1>4, <1>5, <1>6, <1>7, <1>8 DEF Controller

LEMMA ConnectionOwns ==
  ASSUME TypeOK, RunInv, LineInv, OwnerInv, NEW c \in Client, Connection(c)
  PROVE  LineInv' /\ OwnerInv'
  <1>1. ASSUME NEW action \in Action, Ask(c, action)
        PROVE  LineInv' /\ OwnerInv'
    <2>1. /\ action # None /\ line[c] = "open"
          /\ asked' = [asked EXCEPT ![c] = action] /\ UNCHANGED <<marker, boot, owner, line, job>>
      BY <1>1 DEF Ask, Action, None, daemon, voice
    <2>2. \A x \in Client : asked'[x] = IF x = c THEN action ELSE asked[x]
      BY <2>1 DEF TypeOK
    <2>3. job # Free => job.by \in Client
      BY JobShape
    <2>4. LineInv'
      BY <2>1, <2>2, <2>3 DEF LineInv
    <2>5. QED
      BY <2>1, <2>4 DEF OwnerInv
  <1>2. CASE Connect(c) \/ Disconnect(c)
    <2>1. /\ UNCHANGED <<marker, boot, owner, asked, job>>
          /\ \A x \in Client : line'[x] = "gone" => line[x] = "gone"
      BY <1>2 DEF Connect, Disconnect, daemon, voice, TypeOK
    <2>2. QED
      BY <2>1 DEF LineInv, OwnerInv, TypeOK
  <1>3. CASE Begin(c)
    <2>1. /\ job' # Free /\ job = Free /\ job'.by = c /\ job'.hangup = FALSE /\ job'.step = "read"
          /\ UNCHANGED <<marker, boot, owner, asked, line>> /\ asked[c] # None
      BY <1>3 DEF Begin, Take, Free, daemon, voice
    <2>2. LineInv' /\ OwnerInv'
      BY <2>1 DEF LineInv, OwnerInv, Free
    <2>3. QED
      BY <2>2
  <1>4. CASE Cleanup(c)
    <2>1. /\ job = Free /\ asked[c] = None /\ UNCHANGED <<marker, boot, owner, asked>>
          /\ \A x \in Client \ {c} : line'[x] = line[x]
      BY <1>4 DEF Cleanup, Settled, daemon, voice, TypeOK
    <2>2. CASE owner = c
      <3>1. job' # Free /\ job'.by = c /\ job'.hangup = TRUE /\ job'.action = "cancel" /\ job'.step = "read"
        BY <1>4, <2>2 DEF Cleanup, Take, Free
      <3>2. QED
        BY <2>1, <2>2, <3>1 DEF LineInv, OwnerInv, Free
    <2>3. CASE owner # c
      <3>1. job' = job
        BY <1>4, <2>3 DEF Cleanup
      <3>2. QED
        BY <2>1, <2>3, <3>1 DEF LineInv, OwnerInv, Free, TypeOK
    <2>4. QED
      BY <2>2, <2>3
  <1>5. QED
    BY <1>1, <1>2, <1>3, <1>4 DEF Connection

LEMMA OthersOwn ==
  ASSUME TypeOK, RunInv, LineInv, OwnerInv,
         Service \/ TickReads \/ TickWrites \/ Voxtype \/ UNCHANGED vars
  PROVE  LineInv' /\ OwnerInv'
  <1>1. CASE UNCHANGED <<marker, boot, owner, asked, line, job>>
    BY <1>1 DEF LineInv, OwnerInv
  <1>2. CASE Service
    <2>1. /\ job' = Free /\ owner' = Nobody /\ \A c \in Client : asked'[c] = None
      BY <1>2 DEF Service, Start, StartFails, Stop, Stopped, RunInv, voice
    <2>2. QED
      BY <2>1 DEF LineInv, OwnerInv
  <1>3. CASE TickReads \/ TickWrites \/ Voxtype \/ UNCHANGED vars
    BY <1>1, <1>3 DEF TickReads, TickWrites, Voxtype, UserRecords, UserEnds, Transcribed,
       VoxtypeRestarts, vars, voice, daemon
  <1>4. QED
    BY <1>2, <1>3

\* A recording's owner can be answered for: while the controller is free the recording
\* has this run's marker, and the owner is connected or its cleanup is under way.
THEOREM OwnerCanAnswer == Spec => []OwnerAnswers
  <1>1. Init => LineInv /\ OwnerInv
    BY DEF Init, LineInv, OwnerInv
  <1>2. TypeOK /\ RunInv /\ MarkerInv /\ LineInv /\ OwnerInv /\ [Next]_vars => LineInv' /\ OwnerInv'
    BY ControllerOwns, ConnectionOwns, OthersOwn DEF Next
  <1>3. OwnerInv => OwnerAnswers
    BY FreeIsFree DEF OwnerInv, OwnerAnswers, OwnsMarker
  <1>4. QED
    BY <1>1, <1>2, <1>3, VoiceTypes, MarkersHold, PTL DEF Spec
----------------------------------------------------------------------------
(* The controller and the service keep the promise                          *)

KeepsPromise == [Promise!Next]_(Promise!vars)

LEMMA PromiseStands ==
  ASSUME UNCHANGED <<vox, marker, boot, phase, unsure>>
  PROVE  KeepsPromise
  BY DEF KeepsPromise, Promise!vars

LEMMA RunIsSome == ASSUME TypeOK, RunInv, phase = "up" PROVE boot # 0 /\ boot \in Token
  BY VoiceAssumption DEF RunInv, Token

\* A step of Voxtype, or of whoever ends what it does.
LEMMA UsePromised ==
  ASSUME UNCHANGED <<marker, boot, phase, unsure>>,
         \/ vox.state = "idle" /\ vox' = [state |-> "recording", by |-> "user"]
         \/ vox.state = "recording" /\ vox' = [vox EXCEPT !.state = "processing"]
         \/ vox' = Quiet
  PROVE  KeepsPromise
  <1>1. Promise!Uses
    BY DEF Promise!Uses, Promise!Quiet, Quiet, None
  <1>2. QED
    BY <1>1 DEF KeepsPromise, Promise!Next

LEMMA ServicePromised ==
  ASSUME TypeOK, RunInv, MarkerInv, Service
  PROVE  KeepsPromise
  <1>1. CASE Start \/ (Stopped /\ Cleaned)
    <2>1. phase # "up" /\ UNCHANGED unsure /\ Cleaned
      BY <1>1 DEF Start, Stopped
    <2>2. (IF phase = "up" THEN boot ELSE 0)' \in Token \cup {0}
      BY <1>1, VoiceAssumption DEF Start, Stopped, RunInv, TypeOK, Token
    <2>3. IF marker = NoMarker THEN vox' = vox
          ELSE vox' = Quiet \/ (vox.state = "idle" /\ vox' = vox)
      BY <2>1 DEF Cleaned, ReadVoiceState, Effect
    <2>4. Promise!Resolve
      BY <2>1, <2>2, <2>3 DEF Promise!Resolve, Promise!Quiet, Quiet, None, Cleaned
    <2>5. QED
      BY <2>4 DEF KeepsPromise, Promise!Next
  <1>2. CASE StartFails \/ (Stopped /\ CleanupFails)
    <2>1. /\ vox' \in {vox, Quiet} /\ UNCHANGED <<marker, boot, unsure>>
          /\ phase # "up" /\ phase' # "up"
      BY <1>2 DEF StartFails, Stopped, CleanupFails, Effect, daemon
    <2>2. CASE vox' = vox
      BY <2>1, <2>2 DEF KeepsPromise, Promise!vars
    <2>3. CASE vox' = Quiet
      <3>1. Promise!Uses
        BY <2>1, <2>3 DEF Promise!Uses, Promise!Quiet, Quiet, None
      <3>2. QED
        BY <3>1 DEF KeepsPromise, Promise!Next
    <2>4. QED
      BY <2>1, <2>2, <2>3
  <1>3. CASE Stop
    <2>1. phase = "up" /\ phase' # "up" /\ boot # 0 /\ UNCHANGED <<vox, unsure>>
      BY <1>3, RunIsSome DEF Stop, voxtype
    <2>2. marker' = marker \/ (marker = NoMarker /\ marker' = Torn)
      BY <1>3 DEF Stop
    <2>3. Promise!Ends
      BY <2>1, <2>2 DEF Promise!Ends
    <2>4. QED
      BY <2>3 DEF KeepsPromise, Promise!Next
  <1>4. QED
    BY <1>1, <1>2, <1>3 DEF Service, Stopped

LEMMA ControllerPromised ==
  ASSUME TypeOK, RunInv, MarkerInv, Controller
  PROVE  KeepsPromise
  <1>1. job # Free /\ phase = "up" /\ boot # 0 /\ boot # NoMarker
    <2>1. job.step # "free"
      BY DEF Controller, Check, Claim, VoxtypeActs, StartEnds, UndoEnds, FinishEnds, Succeed, Fail
    <2>2. phase = "up"
      BY <2>1, FreeIsFree DEF RunInv
    <2>3. QED
      BY <2>1, <2>2, FreeIsFree, BootIsMarker, RunIsSome
  <1>2. ASSUME UNCHANGED <<vox, boot, phase>>, marker = boot, marker' = NoMarker,
               unsure' \in {unsure, TRUE}, Recorded => unsure'
        PROVE  KeepsPromise
    <2>1. Promise!Releases
      BY <1>1, <1>2 DEF Promise!Releases, Promise!Recorded, Recorded
    <2>2. QED
      BY <2>1 DEF KeepsPromise, Promise!Next
  <1>3. CASE Check \/ (\E ok \in BOOLEAN : StartEnds(ok)) \/ Succeed \/ Fail
    BY <1>3, PromiseStands DEF Check, StartEnds, Succeed, Fail, voxtype, daemon
  <1>4. CASE Claim
    <2>1. UNCHANGED <<vox, boot, phase, unsure>>
      BY <1>4 DEF Claim, voxtype, daemon
    <2>2. CASE marker = NoMarker /\ marker' \in {boot, Torn}
      <3>1. Promise!Claims
        BY <1>1, <2>1, <2>2 DEF Promise!Claims
      <3>2. QED
        BY <3>1 DEF KeepsPromise, Promise!Next
    <2>3. CASE UNCHANGED marker
      BY <2>1, <2>3, PromiseStands
    <2>4. QED
      BY <1>4, <2>2, <2>3 DEF Claim
  <1>5. CASE VoxtypeActs
    <2>1. /\ UNCHANGED <<marker, boot, phase, unsure>> /\ marker = boot
          /\ Acts(Command) /\ vox' = Effect(Command)
      BY <1>5 DEF VoxtypeActs, MarkerInv, daemon
    <2>2. CASE Command = "start"
      <3>1. vox.state = "idle" /\ vox' = [state |-> "recording", by |-> "portal"]
        BY <2>1, <2>2 DEF Acts, Effect
      <3>2. Promise!Starts
        BY <1>1, <2>1, <3>1 DEF Promise!Starts
      <3>3. QED
        BY <3>2 DEF KeepsPromise, Promise!Next
    <2>3. CASE Command # "start"
      <3>1. \/ vox' = vox \/ vox' = Quiet
            \/ vox.state = "recording" /\ vox' = [vox EXCEPT !.state = "processing"]
        BY <2>1, <2>3 DEF Effect
      <3>2. QED
        BY <2>1, <3>1, PromiseStands, UsePromised
    <2>4. QED
      BY <2>2, <2>3
  <1>6. ASSUME NEW ok \in BOOLEAN, NEW removed \in BOOLEAN, UndoEnds(ok, removed)
        PROVE  KeepsPromise
    <2>1. UNCHANGED <<vox, boot, phase>> /\ marker = boot /\ (ok => ~Recorded)
      BY <1>6 DEF UndoEnds, MarkerInv, voxtype, daemon
    <2>2. CASE removed
      <3>1. marker' = NoMarker /\ unsure' \in {unsure, TRUE} /\ (~ok => unsure')
        BY <1>6, <2>2 DEF UndoEnds, TypeOK
      <3>2. QED
        BY <1>2, <2>1, <3>1
    <2>3. CASE ~removed
      <3>1. marker' = marker /\ unsure' = unsure
        BY <1>6, <2>3 DEF UndoEnds, TypeOK
      <3>2. QED
        BY <2>1, <3>1, PromiseStands
    <2>4. QED
      BY <2>2, <2>3
  <1>7. ASSUME NEW ok \in BOOLEAN, NEW removed \in BOOLEAN, FinishEnds(ok, removed)
        PROVE  KeepsPromise
    <2>1. UNCHANGED <<vox, boot, phase, unsure>> /\ marker = boot /\ (ok => ~Recorded)
      BY <1>7 DEF FinishEnds, MarkerInv, voxtype, daemon
    <2>2. marker' = IF ok /\ removed THEN NoMarker ELSE marker
      BY <1>7 DEF FinishEnds
    <2>3. CASE ok /\ removed
      BY <1>2, <2>1, <2>2, <2>3
    <2>4. CASE ~(ok /\ removed)
      BY <2>1, <2>2, <2>4, PromiseStands
    <2>5. QED
      BY <2>3, <2>4
  <1>8. QED
    BY <1>3, <1>4, <1>5, <1>6, <1>7 DEF Controller

LEMMA OthersPromised ==
  ASSUME TickReads \/ TickWrites \/ Voxtype \/ UNCHANGED vars \/ \E c \in Client : Connection(c)
  PROVE  KeepsPromise
  <1>1. CASE TickReads \/ TickWrites \/ UNCHANGED vars
    BY <1>1, PromiseStands DEF TickReads, TickWrites, vars, voxtype, daemon
  <1>2. CASE Voxtype
    BY <1>2, UsePromised DEF Voxtype, UserRecords, UserEnds, Transcribed, VoxtypeRestarts, daemon
  <1>3. ASSUME NEW c \in Client, Connection(c)
        PROVE  KeepsPromise
    BY <1>3, PromiseStands
    DEF Connection, Ask, Connect, Disconnect, Begin, Cleanup, voxtype, daemon
  <1>4. QED
    BY <1>1, <1>2, <1>3

\* Through every order of commands, cleanups, failures and restarts, dictation keeps its
\* promise: the portal records only under the run's own marker, and a marker is given up
\* only with what was recorded under it, or after the one cancel that failed.
THEOREM DictationKeepsThePromise == Spec => DictatesAsPromised
  <1>1. Init => Promise!Init
    BY DEF Init, Promise!Init, Promise!Quiet, Quiet, None
  <1>2. TypeOK /\ RunInv /\ MarkerInv /\ [Next]_vars => KeepsPromise
    BY ServicePromised, ControllerPromised, OthersPromised DEF Next
  <1>3. QED
    BY <1>1, <1>2, VoiceTypes, MarkersHold, PTL DEF Spec, DictatesAsPromised, KeepsPromise,
       Promise!Spec

\* The promise is enough for its user: whoever keeps it never runs beside a claim in an
\* earlier run's name, and leaves no recording of the portal that nobody has to answer
\* for: between runs some claim is left of it, and a run that is up has it in its own name.
THEOREM PromiseIsEnough == Promise!Spec => []Promise!Kept
  <1>1. Promise!Init => Promise!TypeOK /\ Promise!Kept
    <2>1. Promise!Init => Promise!TypeOK
      <3> SUFFICES ASSUME Promise!Init PROVE Promise!TypeOK
        OBVIOUS
      <3>1. vox = Promise!Quiet /\ marker = NoMarker
        BY DEF Promise!Init
      <3>2. (IF phase = "up" THEN boot ELSE 0) = 0
        BY DEF Promise!Init
      <3>3. unsure \in BOOLEAN
        BY DEF Promise!Init
      <3>4. vox \in [state : {"idle", "recording", "processing"}, by : {"none", "portal", "user"}]
        BY <3>1 DEF Promise!Quiet
      <3>5. QED
        BY <3>1, <3>2, <3>3, <3>4 DEF Promise!TypeOK
    <2>2. Promise!Init => Promise!Kept
      BY DEF Promise!Init, Promise!Quiet, Promise!Kept, Promise!Recorded
    <2>3. QED
      BY <2>1, <2>2
  <1>2. Promise!TypeOK /\ [Promise!Next]_(Promise!vars) => Promise!TypeOK'
    <2> SUFFICES ASSUME Promise!TypeOK, [Promise!Next]_(Promise!vars)
                 PROVE  Promise!TypeOK'
      OBVIOUS
    <2>1. CASE Promise!Resolve
      BY <2>1 DEF Promise!TypeOK, Promise!Resolve, Promise!Quiet
    <2>2. CASE Promise!Ends
      BY <2>2 DEF Promise!TypeOK, Promise!Ends
    <2>3. CASE Promise!Claims
      BY <2>3 DEF Promise!TypeOK, Promise!Claims
    <2>4. CASE Promise!Starts
      BY <2>4 DEF Promise!TypeOK, Promise!Starts
    <2>5. CASE Promise!Releases
      BY <2>5 DEF Promise!TypeOK, Promise!Releases
    <2>6. CASE Promise!Uses
      BY <2>6 DEF Promise!TypeOK, Promise!Uses, Promise!Quiet
    <2>7. CASE UNCHANGED Promise!vars
      BY <2>7 DEF Promise!TypeOK, Promise!vars
    <2>8. QED
      BY <2>1, <2>2, <2>3, <2>4, <2>5, <2>6, <2>7 DEF Promise!Next
  <1>3. Promise!TypeOK /\ Promise!Kept /\ [Promise!Next]_(Promise!vars) => Promise!Kept'
    <2> SUFFICES ASSUME Promise!TypeOK, Promise!Kept, [Promise!Next]_(Promise!vars)
                 PROVE  Promise!Kept'
      OBVIOUS
    <2> USE DEF Promise!Kept, Promise!Recorded
    <2>0. NoMarker \notin Token
      BY VoiceAssumption DEF Token
    <2>1. CASE Promise!Resolve
      BY <2>1 DEF Promise!Resolve, Promise!Quiet
    <2>2. CASE Promise!Ends
      BY <2>2, VoiceAssumption DEF Promise!Ends
    <2>3. CASE Promise!Claims
      BY <2>3 DEF Promise!Claims
    <2>4. CASE Promise!Starts
      BY <2>0, <2>4 DEF Promise!TypeOK, Promise!Starts
    <2>5. CASE Promise!Releases
      BY <2>5 DEF Promise!Releases
    <2>6. CASE Promise!Uses
      BY <2>6 DEF Promise!TypeOK, Promise!Uses, Promise!Quiet
    <2>7. CASE UNCHANGED Promise!vars
      BY <2>7 DEF Promise!vars
    <2>8. QED
      BY <2>1, <2>2, <2>3, <2>4, <2>5, <2>6, <2>7 DEF Promise!Next
  <1>4. QED
    BY <1>1, <1>2, <1>3, PTL DEF Promise!Spec
=============================================================================
