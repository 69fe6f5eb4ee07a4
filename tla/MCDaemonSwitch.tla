-------------------------- MODULE MCDaemonSwitch --------------------------
(* Two Herdr sessions, the first with one agent, and one T3 Code thread. *)
EXTENDS AgentDaemon

CONSTANTS s1, s2, h1

MCHomeOf == [a \in {h1} |-> s1]
=============================================================================
