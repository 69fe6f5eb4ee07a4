-------------------------- MODULE DictationPromise --------------------------
(***************************************************************************)
(* What push-to-talk promises Voxtype's user, however many steps a command *)
(* takes and wherever the daemon or voxtype fails: the portal starts a     *)
(* recording only under a claim of the daemon run at hand, a claim is      *)
(* given up only when no recording of the portal is left under it, and no  *)
(* run begins before the claim of the last one is resolved.                *)
(***************************************************************************)
CONSTANTS
    Run, NoRun,     \* daemon runs, and none
    NoClaim, Torn   \* no claim, and one that names nobody

VARIABLES
    doing,      \* what Voxtype does, and for whom
    claim,      \* the run that may have to answer for it
    run,        \* the daemon run at hand
    lost        \* a start failed, and so did the cancel that followed it

vars == <<doing, claim, run, lost>>

Quiet == [state |-> "idle", by |-> "none"]
Recorded == doing.state = "recording" /\ doing.by = "portal"

TypeOK ==
    /\ doing \in [state : {"idle", "recording", "processing"}, by : {"none", "portal", "user"}]
    /\ claim \in Run \cup {NoClaim, Torn} /\ run \in Run \cup {NoRun}
    /\ lost \in BOOLEAN

Init == doing = Quiet /\ claim = NoClaim /\ run = NoRun /\ lost = FALSE

\* Between two runs a claim is given up with what was done under it; only then does
\* the next run begin.
Resolve ==
    /\ run = NoRun /\ run' \in Run \cup {NoRun}
    /\ claim' = NoClaim
    /\ IF claim = NoClaim THEN UNCHANGED doing
       ELSE doing' = Quiet \/ (doing.state = "idle" /\ UNCHANGED doing)
    /\ UNCHANGED lost

\* A run ends at any time, and may have been writing its claim.
Ends ==
    /\ run # NoRun /\ run' = NoRun
    /\ claim' = claim \/ (claim = NoClaim /\ claim' = Torn)
    /\ UNCHANGED <<doing, lost>>

\* A claim is made in the run's name; one that fails may be left in nobody's.
Claims ==
    /\ run # NoRun /\ claim = NoClaim /\ claim' \in {run, Torn}
    /\ UNCHANGED <<doing, run, lost>>

Starts ==
    /\ run # NoRun /\ claim = run
    /\ doing.state = "idle" /\ doing' = [state |-> "recording", by |-> "portal"]
    /\ UNCHANGED <<claim, run, lost>>

\* A recording is left without a claim only when its cancel has failed.
Releases ==
    /\ run # NoRun /\ claim = run /\ claim' = NoClaim
    /\ lost' \in {lost, TRUE} /\ (Recorded => lost')
    /\ UNCHANGED <<doing, run>>

\* Voxtype's user records, what is recorded ends, whoever ends it, and Voxtype may
\* stop with what it was doing.
Uses ==
    /\ \/ doing.state = "idle" /\ doing' = [state |-> "recording", by |-> "user"]
       \/ doing.state = "recording" /\ doing' = [doing EXCEPT !.state = "processing"]
       \/ doing' = Quiet
    /\ UNCHANGED <<claim, run, lost>>

Next == Resolve \/ Ends \/ Claims \/ Starts \/ Releases \/ Uses

Spec == Init /\ [][Next]_vars

\* What the promise comes to: a run has no claim in another's name, and what the portal
\* records is claimed, by the run at hand or, between two runs, by one that has yet to be
\* resolved.
Kept ==
    /\ run # NoRun => claim \in {NoClaim, Torn, run}
    /\ Recorded /\ ~lost => claim # NoClaim /\ (run # NoRun => claim = run)
=============================================================================
