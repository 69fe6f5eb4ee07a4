--------------------------- MODULE DesktopLaunch ---------------------------
(***************************************************************************)
(* The commands that act on the compositor (DesktopController in           *)
(* desktop.rs): focusing or launching a desktop application, bringing up   *)
(* the window of a Herdr session after a focus in Herdr, and restoring the *)
(* last window that was not on the EDGE.  The compositor is asked with     *)
(* hyprctl, one call after the other: every answer may be out of date when *)
(* it is acted on, and every call may fail.                                *)
(*                                                                         *)
(* Left out: durations.  A wait may reach its deadline, and the entry of a *)
(* launch in flight its age, at any time: a hyprctl call has no limit.     *)
(***************************************************************************)
EXTENDS ClientSession, WindowChoice

CONSTANTS
    OnEdge,     \* windows on the EDGE output
    Preview,    \* windows of the portal's own preview
    MaxMove     \* bound: what the user does with windows

ASSUME LaunchAssumption ==
    /\ OnEdge \subseteq Window /\ Preview \subseteq Window /\ MaxMove \in Nat
    /\ {"chatgpt", "claude"} \subseteq App

VARIABLES
    recent,     \* the windows with a focus history, the focused one first
    unranked,   \* mapped windows without one
    starting,   \* applications launched whose window is not mapped yet
    launching,  \* launching_since: none, fresh or old
    remembered, \* remembered_window
    moves       \* what the user still does

desktop == <<recent, unranked, starting, launching, remembered, moves>>
windows == <<recent, unranked, starting, moves>>

Ranked == {recent[i] : i \in DOMAIN recent}
Mapped == Ranked \cup unranked
Place(w) == CHOOSE i \in DOMAIN recent : recent[i] = w
History == [w \in Mapped |-> IF w \in unranked THEN NoHistory ELSE Place(w) - 1]
DesktopAction == {"chatgpt_desktop", "claude_desktop"}
LaunchedBy == [chatgpt_desktop |-> "chatgpt", claude_desktop |-> "claude"]

DesktopTypeOK ==
    /\ recent \in Seq(Window) /\ unranked \subseteq Window
    /\ starting \subseteq App
    /\ launching \in [App -> {"none", "fresh", "old"}]
    /\ remembered \in Window \cup {Nothing}
    /\ moves \in 0..MaxMove

DesktopInit ==
    /\ recent = <<>> /\ unranked = {} /\ starting = {}
    /\ launching = [a \in App |-> "none"]
    /\ remembered = Nothing
    /\ moves \in 0..MaxMove

-----------------------------------------------------------------------------
\* Focusing and launching an application.

Lists(c, step) == At(c, step) /\ UNCHANGED desktop
Fails(c, step) == Lists(c, step) /\ Answers(c)

\* The list of windows, read before launching_since is locked.
Look(c) ==
    /\ reader[c] = "busy" /\ op[c].step \in DesktopAction
    /\ LET a == LaunchedBy[op[c].step]
           w == DesktopChoice(a, History)
       IN CASE w = Ambiguous -> Answers(c)
            [] w = Nothing -> Proceeds(c, [step |-> "launch", app |-> a])
            [] OTHER -> Proceeds(c, [step |-> "found", app |-> a, window |-> w])
    /\ UNCHANGED desktop

LookFails(c) == op[c].step \in DesktopAction /\ Fails(c, op[c].step)

\* Only the command that enters the launch starts the application; a command
\* that finds an entry that is not too old waits with it.
Launch(c) ==
    /\ At(c, "launch")
    /\ LET a == op[c].app IN
       IF launching[a] = "fresh"
       THEN /\ Proceeds(c, [step |-> "wait", app |-> a])
            /\ UNCHANGED launching
       ELSE /\ Proceeds(c, [step |-> "spawn", app |-> a])
            /\ launching' = [launching EXCEPT ![a] = "fresh"]
    /\ UNCHANGED <<windows, remembered>>

Ages(a) ==
    /\ launching[a] = "fresh"
    /\ launching' = [launching EXCEPT ![a] = "old"]
    /\ UNCHANGED <<windows, remembered, sessions>>

Spawn(c) ==
    /\ At(c, "spawn")
    /\ starting' = starting \cup {op[c].app}
    /\ Proceeds(c, [step |-> "wait", app |-> op[c].app])
    /\ UNCHANGED <<recent, unranked, moves, launching, remembered>>

\* Mutant: the deadline leaves the entry behind.
Keeps(a) == UNCHANGED launching

\* Every end of a launch removes the entry, whoever's it is.
Clears(a) == launching' = [launching EXCEPT ![a] = "none"]

\* The launch fails, a listing fails, the choice is ambiguous, or the wait is
\* over without a window.
LaunchFails(c) ==
    /\ At(c, "spawn")
    /\ Clears(op[c].app) /\ Answers(c)
    /\ UNCHANGED <<windows, remembered>>

WaitFails(c) ==
    /\ At(c, "wait")
    /\ Clears(op[c].app) /\ Answers(c)
    /\ UNCHANGED <<windows, remembered>>

\* A poll that finds no window changes nothing.
WaitSees(c) ==
    /\ At(c, "wait")
    /\ LET w == DesktopChoice(op[c].app, History) IN
       /\ w \notin {Nothing, Ambiguous}
       /\ Proceeds(c, [step |-> "found", app |-> op[c].app, window |-> w])
    /\ UNCHANGED desktop

Found(c) ==
    /\ At(c, "found")
    /\ Clears(op[c].app)
    /\ Proceeds(c, [step |-> "focus", window |-> op[c].window])
    /\ UNCHANGED <<windows, remembered>>

-----------------------------------------------------------------------------
\* Bringing up a Herdr session, and restoring the focus.

\* Herdr focuses or zooms its pane first; the card was checked (AgentDaemon).
Perform(c, s) ==
    /\ reader[c] = "busy" /\ op[c].step \in Targeted
    /\ Proceeds(c, [step |-> "activate", session |-> s])
    /\ UNCHANGED desktop

\* A guarded action ends here, as does what Herdr or the gate refuses.
Performed(c) == op[c].step \in Targeted \cup Guarded /\ Fails(c, op[c].step)

Activate(c) ==
    /\ At(c, "activate")
    /\ LET w == HerdrChoice(op[c].session, History) IN
       IF w \in {Nothing, Ambiguous} THEN Answers(c)
       ELSE Proceeds(c, [step |-> "focus", window |-> w])
    /\ UNCHANGED desktop

ActivateFails(c) == Fails(c, "activate")

\* A window in the last non-EDGE focus that is still there is focused.
Restore(c) ==
    /\ At(c, "restore_focus")
    /\ IF remembered \in Mapped THEN Proceeds(c, [step |-> "focus", window |-> remembered])
       ELSE Answers(c)
    /\ UNCHANGED desktop

RestoreFails(c) == Fails(c, "restore_focus")

\* The collector looks at the focused window and its monitor in one step.
Remember ==
    /\ recent # <<>> /\ Head(recent) \notin OnEdge \cup Preview
    /\ remembered' = Head(recent)
    /\ UNCHANGED <<windows, launching, sessions>>

Without(w) == IF w \notin Ranked THEN recent
              ELSE SubSeq(recent, 1, Place(w) - 1) \o SubSeq(recent, Place(w) + 1, Len(recent))
ToFront(w) == recent' = <<w>> \o Without(w)

Focus(c) ==
    /\ At(c, "focus") /\ op[c].window \in Mapped
    /\ ToFront(op[c].window) /\ unranked' = unranked \ {op[c].window}
    /\ Answers(c)
    /\ UNCHANGED <<starting, launching, remembered, moves>>

FocusFails(c) == Fails(c, "focus")

Desktop(c) ==
    \/ Look(c) \/ LookFails(c) \/ Launch(c) \/ Spawn(c) \/ LaunchFails(c)
    \/ WaitFails(c) \/ WaitSees(c) \/ Found(c)
    \/ (\E s \in HerdrSession : Perform(c, s)) \/ Performed(c) \/ Activate(c) \/ ActivateFails(c)
    \/ Restore(c) \/ RestoreFails(c) \/ Focus(c) \/ FocusFails(c)

-----------------------------------------------------------------------------
\* The compositor and its user.

\* A launched application maps a window; so may the user's own start of it.
Opens(w, ranked) ==
    /\ w \notin Mapped
    /\ IF AppOf[w] \in starting
       THEN starting' = starting \ {AppOf[w]} /\ UNCHANGED moves
       ELSE moves > 0 /\ moves' = moves - 1 /\ UNCHANGED starting
    /\ IF ranked THEN ToFront(w) /\ UNCHANGED unranked
       ELSE unranked' = unranked \cup {w} /\ UNCHANGED recent

Closes(w) ==
    /\ w \in Mapped /\ moves > 0 /\ moves' = moves - 1
    /\ recent' = Without(w) /\ unranked' = unranked \ {w}
    /\ UNCHANGED starting

UserFocuses(w) ==
    /\ w \in Mapped /\ moves > 0 /\ moves' = moves - 1
    /\ ToFront(w) /\ unranked' = unranked \ {w}
    /\ UNCHANGED starting

Compositor ==
    \/ /\ \E w \in Window : Closes(w) \/ UserFocuses(w) \/ \E b \in BOOLEAN : Opens(w, b)
       /\ UNCHANGED <<launching, remembered, sessions>>
    \/ Remember
    \/ \E a \in App : Ages(a)

-----------------------------------------------------------------------------
\* An entry in launching_since always belongs to a command that is still
\* launching or waiting for that application: it cannot outlast every command
\* and make a later one wait for an application nobody started, although any
\* command for the application may remove the entry of another.
EntryHasWaiter ==
    \A a \in App : launching[a] # "none" =>
        \E c \in Client :
            op[c].step \in {"spawn", "wait", "found"} /\ op[c].app = a

\* The window the daemon focuses for an application stays its choice: asking
\* again brings up the same window, whatever the narrowing by title, tiling
\* and history, and never leads from one window to the next.
Choices == [a \in App |-> DesktopChoice(a, History)]
SameWindowAgain ==
    [][\A c \in Client, a \in App :
          op[c].step = "focus" /\ recent' # recent /\ op'[c] = Idle
             /\ op[c].window = Choices[a] => Choices'[a] = Choices[a]]_<<sessions, desktop>>
=============================================================================
