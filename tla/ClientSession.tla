--------------------------- MODULE ClientSession ---------------------------
(***************************************************************************)
(* One portal connection of the daemon (handle_client_inner and            *)
(* process_command in runtime.rs).  A reader takes the command lines one   *)
(* at a time and performs each to its end before the next; its results go  *)
(* through a channel that holds one to a writer, which also sends the      *)
(* snapshots and the heartbeat.  Whichever of the two ends first, the      *)
(* other is waited for: a command is never dropped half way.               *)
(*                                                                         *)
(* What a command does is in AgentOrder and DesktopLaunch, which share    *)
(* "op"; PortalCommands composes them.  The contents of the snapshots are  *)
(* PublishedView's, the voice commands and the cleanup Voice's.            *)
(***************************************************************************)
EXTENDS Naturals, Sequences

CONSTANTS
    Client,     \* portal connections
    Leaver,     \* bound: the connections whose portal closes or breaks
    Workload    \* bound: how often each command may be sent, for each workload

\* A command line: what validate_command tells apart.
Untargeted == {"order_grouped", "order_priority", "chatgpt_desktop",
               "claude_desktop", "restore_focus"}
Targeted == {"open", "zoom"}
Guarded == {"approve", "interrupt"}
Action == Untargeted \cup Targeted \cup Guarded
Line == [action : Action, agent : BOOLEAN, capability : BOOLEAN]

ASSUME SessionAssumption ==
    /\ Leaver \subseteq Client
    /\ \A w \in Workload : DOMAIN w \subseteq Line /\ w \in [DOMAIN w -> Nat]

VARIABLES
    peer,       \* the portal's end: open, closed (it sends no more) or broken
    left,       \* commands of the workload not sent yet
    sent,       \* commands sent on each connection
    inbox,      \* lines the reader has not taken
    reader,     \* reading, busy with a command, sending its result, or done
    op,         \* the command the reader is busy with
    results,    \* the channel from the reader to the writer
    writer,     \* live, failed (a write failed) or ended (nothing will come)
    answered,   \* results written, by the number of their command
    handler     \* serving, or gone after the cleanup

portal == <<peer, left, sent>>
transport == <<inbox, results, writer, answered, handler>>
sessions == <<portal, transport, reader, op>>

Idle == [step |-> "idle"]

\* protocol.rs: which fields each action takes.
Valid(l) ==
    \/ l.action \in Untargeted /\ ~l.agent /\ ~l.capability
    \/ l.action \in Targeted /\ l.agent /\ ~l.capability
    \/ l.action \in Guarded /\ l.agent /\ l.capability

SessionTypeOK ==
    /\ peer \in [Client -> {"open", "closed", "broken"}]
    /\ DOMAIN left \subseteq Line /\ left \in [DOMAIN left -> Nat] /\ sent \in [Client -> Nat]
    /\ inbox \in [Client -> Seq(Line)]
    /\ reader \in [Client -> {"reading", "busy", "sending", "done"}]
    /\ \A c \in Client : (reader[c] = "busy") <=> (op[c] # Idle)
    /\ results \in [Client -> Seq(Nat)]
    /\ \A c \in Client : Len(results[c]) <= 1
    /\ writer \in [Client -> {"live", "failed", "ended"}]
    /\ answered \in [Client -> Seq(Nat)]
    /\ handler \in [Client -> {"serving", "gone"}]

SessionInit ==
    /\ peer = [c \in Client |-> "open"]
    /\ left \in Workload
    /\ sent = [c \in Client |-> 0]
    /\ inbox = [c \in Client |-> <<>>]
    /\ reader = [c \in Client |-> "reading"]
    /\ op = [c \in Client |-> Idle]
    /\ results = [c \in Client |-> <<>>]
    /\ writer = [c \in Client |-> "live"]
    /\ answered = [c \in Client |-> <<>>]
    /\ handler = [c \in Client |-> "serving"]

-----------------------------------------------------------------------------
\* The portal's end.

Ask(c, l) ==
    /\ peer[c] = "open" /\ l \in DOMAIN left /\ left[l] > 0
    /\ left' = [left EXCEPT ![l] = @ - 1]
    /\ sent' = [sent EXCEPT ![c] = @ + 1]
    /\ inbox' = [inbox EXCEPT ![c] = Append(@, l)]
    /\ UNCHANGED <<peer, reader, op, results, writer, answered, handler>>

PeerCloses(c) ==
    /\ c \in Leaver /\ peer[c] = "open"
    /\ peer' = [peer EXCEPT ![c] = "closed"]
    /\ UNCHANGED <<left, sent, transport, reader, op>>

PeerBreaks(c) ==
    /\ c \in Leaver /\ peer[c] # "broken" /\ handler[c] = "serving"
    /\ peer' = [peer EXCEPT ![c] = "broken"]
    /\ UNCHANGED <<left, sent, transport, reader, op>>

-----------------------------------------------------------------------------
\* The reader.

\* The number of the command the reader took last.
Taken(c) == sent[c] - Len(inbox[c])

\* A line that is not a valid command has its answer at once.
Read(c) ==
    /\ reader[c] = "reading" /\ writer[c] # "failed" /\ inbox[c] # <<>>
    /\ inbox' = [inbox EXCEPT ![c] = Tail(@)]
    /\ LET l == Head(inbox[c]) IN
       /\ reader' = [reader EXCEPT ![c] = IF Valid(l) THEN "busy" ELSE "sending"]
       /\ op' = [op EXCEPT ![c] = IF Valid(l) THEN [step |-> l.action] ELSE Idle]
    /\ UNCHANGED <<portal, results, writer, answered, handler>>

\* The end of the stream, or the stop of a writer that failed: the writer's
\* stop is looked at first.
ReadEnds(c) ==
    /\ reader[c] = "reading"
    /\ \/ writer[c] = "failed"
       \/ peer[c] = "closed" /\ inbox[c] = <<>>
       \/ peer[c] = "broken"
    /\ reader' = [reader EXCEPT ![c] = "done"]
    /\ UNCHANGED <<portal, transport, op>>

\* The command has its result; the next is not taken before it is queued.
At(c, step) == reader[c] = "busy" /\ op[c].step = step

Answers(c) ==
    /\ op' = [op EXCEPT ![c] = Idle]
    /\ reader' = [reader EXCEPT ![c] = "sending"]
    /\ UNCHANGED <<portal, transport>>

Proceeds(c, state) ==
    /\ op' = [op EXCEPT ![c] = state]
    /\ UNCHANGED <<portal, transport, reader>>

\* Mutant: the channel has no bound.
EnqueueAtOnce(c) ==
    /\ reader[c] = "sending" /\ writer[c] = "live"
    /\ results' = [results EXCEPT ![c] = Append(@, Taken(c))]
    /\ reader' = [reader EXCEPT ![c] = "reading"]
    /\ UNCHANGED <<portal, inbox, writer, answered, handler, op>>

Enqueue(c) ==
    /\ reader[c] = "sending" /\ writer[c] = "live" /\ results[c] = <<>>
    /\ results' = [results EXCEPT ![c] = <<Taken(c)>>]
    /\ reader' = [reader EXCEPT ![c] = "reading"]
    /\ UNCHANGED <<portal, inbox, writer, answered, handler, op>>

\* Mutant: the writer is kept, channel and all, while the reader is awaited.
SeveredAtTheEnd(c) == handler[c] = "gone"

\* The receiver went with the writer that failed.
Severed(c) == writer[c] = "failed"

Refused(c) ==
    /\ reader[c] = "sending" /\ Severed(c)
    /\ reader' = [reader EXCEPT ![c] = "done"]
    /\ UNCHANGED <<portal, transport, op>>

-----------------------------------------------------------------------------
\* The writer.

WriteResult(c) ==
    /\ writer[c] = "live" /\ results[c] # <<>> /\ peer[c] # "broken"
    /\ answered' = [answered EXCEPT ![c] = Append(@, Head(results[c]))]
    /\ results' = [results EXCEPT ![c] = Tail(@)]
    /\ UNCHANGED <<portal, inbox, writer, handler, reader, op>>

\* A result, a snapshot or the heartbeat cannot be written.  Dropping the
\* writer closes the channel and loses what is queued; the reader is told to
\* stop.
WriteFails(c) ==
    /\ writer[c] = "live" /\ peer[c] = "broken"
    /\ writer' = [writer EXCEPT ![c] = "failed"]
    /\ results' = [results EXCEPT ![c] = <<>>]
    /\ UNCHANGED <<portal, inbox, answered, handler, reader, op>>

\* Mutant: the writer is dropped with the reader.
ReaderDone(c) == reader[c] = "done"

\* The reader is done and the channel drained: nothing will come.
Drained(c) == reader[c] = "done" /\ results[c] = <<>>

WriterEnds(c) ==
    /\ writer[c] = "live" /\ Drained(c)
    /\ writer' = [writer EXCEPT ![c] = "ended"]
    /\ UNCHANGED <<portal, inbox, results, answered, handler, reader, op>>

\* Both are over: the disconnect is cleaned up (Voice) and the task ends.
HandlerEnds(c) ==
    /\ handler[c] = "serving" /\ reader[c] = "done" /\ writer[c] # "live"
    /\ handler' = [handler EXCEPT ![c] = "gone"]
    /\ UNCHANGED <<portal, inbox, results, writer, answered, reader, op>>

Handle(c) ==
    \/ Read(c) \/ ReadEnds(c) \/ Enqueue(c) \/ Refused(c)
    \/ WriteResult(c) \/ WriteFails(c) \/ WriterEnds(c) \/ HandlerEnds(c)

Portal(c) == (\E l \in DOMAIN left : Ask(c, l)) \/ PeerCloses(c) \/ PeerBreaks(c)

-----------------------------------------------------------------------------
\* The answers a connection gives are those CommandPromise allows: each
\* command once, in order, and none missing when the daemon leaves a
\* connection that was only closed, however results, heartbeats and the end
\* of the reader and of the writer interleave.
Promise == INSTANCE CommandPromise WITH
    line <- [c \in Client |->
                IF handler[c] = "gone" THEN "left"
                ELSE IF peer[c] = "broken" THEN "lost" ELSE peer[c]]
AnswersAsPromised == Promise!Spec
=============================================================================
