--------------------------- MODULE PortalCommands ---------------------------
(***************************************************************************)
(* The commands of several portals at once: their connections              *)
(* (ClientSession), the ordering of Herdr's agents (AgentOrder) and the    *)
(* compositor (DesktopLaunch).  A connection may break while its command   *)
(* runs, and the command of another runs between any two of its steps.     *)
(***************************************************************************)
EXTENDS AgentOrder, DesktopLaunch

vars == <<sessions, ordering, desktop>>

\* What a command in progress remembers.
Working ==
    [step : Action] \cup [step : {"discover"}, to : Mode]
    \cup [step : {"launch", "spawn", "wait"}, app : App]
    \cup [step : {"found"}, app : App, window : Window]
    \cup [step : {"focus"}, window : Window]
    \cup [step : {"activate"}, session : HerdrSession]

Prior(f) == DOMAIN f \subseteq Session /\ \A s \in DOMAIN f : f[s] \in Mode

OrderingTypeOK(o) ==
    /\ o.to \in Mode /\ o.todo \subseteq Session /\ Prior(o.prior)
    /\ o.step = "set" => o.tried \subseteq DOMAIN o.prior
    /\ o.step \in {"undo", "verify"} => o.clean \in BOOLEAN /\ o.todo \subseteq DOMAIN o.prior

\* Every component is well typed.  What holds the operation lock is the loop
\* or a command that is ordering.
TypeOK ==
    /\ SessionTypeOK /\ OrderTypeOK /\ DesktopTypeOK
    /\ \A c \in Client :
          \/ op[c] \in Working \cup {Idle}
          \/ op[c].step \in {"get", "set", "undo", "verify"} /\ OrderingTypeOK(op[c])
    /\ \A c \in Client :
          guard = c <=> op[c].step \in {"discover", "get", "set", "undo", "verify"}

Init == SessionInit /\ OrderInit /\ DesktopInit

Serve(c) ==
    \/ Handle(c) /\ UNCHANGED <<ordering, desktop>>
    \/ Order(c) /\ UNCHANGED desktop
    \/ Desktop(c) /\ UNCHANGED ordering

Next ==
    \/ \E c \in Client : Serve(c)
    \/ (\E c \in Client : Portal(c)) /\ UNCHANGED <<ordering, desktop>>
    \/ (Refresh \/ Herdr) /\ UNCHANGED desktop
    \/ Compositor /\ UNCHANGED ordering

Spec == Init /\ [][Next]_vars

\* A connection's task runs while it can, the lock is handed out in turn, and
\* the loop ends what it began.  hyprctl answers, and every wait for a window
\* ends: WaitFails can always be taken.
Fairness ==
    /\ \A c \in Client : WF_vars(Serve(c)) /\ SF_vars(TakeGuard(c) /\ UNCHANGED desktop)
    /\ WF_vars((RefreshCommits \/ \E s \in Session : RefreshReads(s))
                  /\ UNCHANGED <<sessions, desktop>>)

FairSpec == Spec /\ Fairness

\* A connection that the portal closed or that broke is left in the end,
\* although a command may be half way, a result may wait for a channel that
\* is full, and other connections compete for the operation lock.
ConnectionEnds == \A c \in Client : peer[c] # "open" ~> handler[c] = "gone"
=============================================================================
