------------------------------- MODULE MCView -------------------------------
(* One committer beside the collector, two rosters, one kind of reading. *)
EXTENDS PublishedView
=============================================================================
