------------------------------ MODULE MCVoice ------------------------------
(* Two portal connections, one restart of the daemon, one recording of the *)
(* user's own.                                                              *)
EXTENDS Voice
=============================================================================
