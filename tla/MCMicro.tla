------------------------------ MODULE MCMicro ------------------------------
(* Two agents that change places, call, and go when the manager is         *)
(* switched.  One of two workloads: keys, while the bridge lives and nobody *)
(* looks at the portal's Micro; or crashes and stops of the service, with no *)
(* key used.                                                               *)
EXTENDS MicroBridge
CONSTANTS a, b
VARIABLE workload

Cards(ids, calls) ==
    [t3 |-> TRUE, ids |-> ids, calls |-> calls, open |-> {a, b}, focus |-> None]
Herdr == [Cards(<<>>, {}) EXCEPT !.t3 = FALSE, !.open = {}]
Snapshots == {Cards(<<a, b>>, {}), Cards(<<b, a>>, {b}), Herdr}

Within ==
    IF workload = "keys"
    THEN /\ got' = None /\ crashes' = 0 /\ goal' \notin {"exit", "error"} /\ ~herdr'
         /\ (IF file' = None THEN TRUE ELSE file'.fresh) /\ (IF presses' = 2 THEN shows' <= 1 ELSE TRUE)
    ELSE presses' = 0 /\ shows' <= 1

MCInit == Init /\ workload \in {"keys", "service"} /\ (workload = "keys" => ~herdr)
MCSpec == MCInit /\ [][Next /\ Within /\ UNCHANGED workload]_<<vars, workload>> /\ Fairness
=============================================================================
