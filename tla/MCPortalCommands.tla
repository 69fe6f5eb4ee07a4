-------------------------- MODULE MCPortalCommands --------------------------
(* Two portals and, in turn: three commands that are answered at once; two *)
(* orderings of two sessions; two launches of one application; an open, a  *)
(* restore and a launch.                                                    *)
EXTENDS PortalCommands

CONSTANTS c1, c2, s1, s2, w1, w2, w3

Plain(a) == [action |-> a, agent |-> FALSE, capability |-> FALSE]
OnCard(a) == [action |-> a, agent |-> TRUE, capability |-> FALSE]
Times(S, n) == [l \in S |-> n]

Answered == {Times({Plain("open")}, 3)}
Ordered == {Times({Plain("order_grouped"), Plain("order_priority")}, 1)}
Launched == {Times({Plain("chatgpt_desktop")}, 2)}
Single == {Times({l}, 1) : l \in {OnCard("open"), Plain("restore_focus"), Plain("chatgpt_desktop")}}
MCWorkload == Answered \cup Ordered \cup Launched \cup Single

\* The part of the world a workload does not touch stands still.
MCInit ==
    /\ Init
    /\ mode = [s \in Session |-> "grouped"]
    /\ IF left \in Ordered THEN up = {s1, s2} /\ touches = MaxTouch ELSE up = {} /\ touches = 0
    /\ moves = IF left \in Single THEN MaxMove ELSE 0

MCSpec == MCInit /\ [][Next]_vars /\ Fairness

\* Two windows of the application and a terminal, on a process of its own, in
\* which one Herdr client runs.
MCAppOf == [w \in {w1, w2, w3} |-> IF w = w3 THEN Nothing ELSE "chatgpt"]
MCPidOf == [w \in {w1, w2, w3} |-> CASE w = w1 -> 10 [] w = w2 -> 20 [] OTHER -> 30]
MCParent == [p \in {10, 20, 30, 31, 32} |-> IF p > 30 THEN p - 1 ELSE 1]
MCArguments == [p \in {10, 20, 30, 31, 32} |->
    IF p = 32 THEN [named |-> Unset, other |-> FALSE] ELSE NotHerdr]
MCEnvironment == [p \in {10, 20, 30, 31, 32} |->
    [session |-> IF p = 32 THEN s2 ELSE Unset, socket |-> Unset]]
MCSocketOf == [s \in {s1, s2} |-> <<s>>]
=============================================================================
