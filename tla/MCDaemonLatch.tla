--------------------------- MODULE MCDaemonLatch ---------------------------
(* One Herdr session with two agents; when the daemon starts one is *)
(* at work and the other has finished.                                       *)
EXTENDS AgentDaemon

CONSTANTS s1, h1, h2

MCHomeOf == [a \in {h1, h2} |-> s1]

MCInit == Init /\ world[h1].status = "working" /\ world[h2].status = "done"
MCSpec == MCInit /\ [][Next]_vars
=============================================================================
