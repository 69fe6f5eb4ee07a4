--------------------------- MODULE CommandPromise ---------------------------
(***************************************************************************)
(* What a portal connection promises: the commands sent on it are answered *)
(* one by one, each once and in the order they were sent, and the daemon   *)
(* leaves a connection that still works only when every command sent on it *)
(* has its answer.                                                         *)
(***************************************************************************)
EXTENDS Naturals, Sequences

CONSTANT Client

VARIABLES
    line,       \* of each connection: open, closed by the portal, lost, left
    sent,       \* how many commands the portal has sent
    answered    \* the numbers of the commands answered, in order

vars == <<line, sent, answered>>

Init ==
    /\ line = [c \in Client |-> "open"]
    /\ sent = [c \in Client |-> 0]
    /\ answered = [c \in Client |-> <<>>]

Ask(c) ==
    /\ line[c] = "open"
    /\ sent' = [sent EXCEPT ![c] = @ + 1]
    /\ UNCHANGED <<line, answered>>

Answer(c) ==
    /\ line[c] \in {"open", "closed"}
    /\ Len(answered[c]) < sent[c]
    /\ answered' = [answered EXCEPT ![c] = Append(@, Len(@) + 1)]
    /\ UNCHANGED <<line, sent>>

Close(c) ==
    /\ line[c] = "open"
    /\ line' = [line EXCEPT ![c] = "closed"]
    /\ UNCHANGED <<sent, answered>>

Lose(c) ==
    /\ line[c] \in {"open", "closed"}
    /\ line' = [line EXCEPT ![c] = "lost"]
    /\ UNCHANGED <<sent, answered>>

Leave(c) ==
    /\ \/ line[c] = "lost"
       \/ line[c] = "closed" /\ Len(answered[c]) = sent[c]
    /\ line' = [line EXCEPT ![c] = "left"]
    /\ UNCHANGED <<sent, answered>>

Next == \E c \in Client : Ask(c) \/ Answer(c) \/ Close(c) \/ Lose(c) \/ Leave(c)

Spec == Init /\ [][Next]_vars
=============================================================================
