---------------------------- MODULE MCAgentLoop ----------------------------
\* Two sessions; the two agents are in the first.  One queued wake-up fills the
\* channel, so that a dropped one is within reach.
EXTENDS AgentLoop
CONSTANTS s1, s2, p1, p2
Sessions == {s1, s2}
Panes == {p1, p2}
Homes == [p \in Panes |-> s1]
=============================================================================
