---------------------------- MODULE MCT3Threads ----------------------------
\* One thread, with no Herdr beside it.
EXTENDS T3Threads
CONSTANTS thread
Threads == {thread}
NoHome == [a \in {} |-> a]
=============================================================================
