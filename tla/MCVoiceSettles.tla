-------------------------- MODULE MCVoiceSettles --------------------------
(* Two portal connections compete for the controller; the refresh, which   *)
(* holds it for one read only, and restarts of Voxtype are left out.       *)
EXTENDS Voice

MCSpec == Init /\ [][Next /\ UNCHANGED <<tick, readable>>]_vars /\ Fairness
=============================================================================
