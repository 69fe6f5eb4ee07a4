------------------------ MODULE PortalCommandsProofs ------------------------
(***************************************************************************)
(* What the portal commands promise, for any connections, sessions,        *)
(* windows and workloads: the answers of a connection, the launches in     *)
(* flight, the ordering offered, and the choice among windows as the       *)
(* focus history changes.                                                  *)
(***************************************************************************)
EXTENDS PortalCommands, WindowChoiceProofs, SequenceTheorems, TLAPS

----------------------------------------------------------------------------
(* A connection                                                             *)

Shape ==
    /\ peer \in [Client -> {"open", "closed", "broken"}]
    /\ DOMAIN left \subseteq Line
    /\ sent \in [Client -> Nat]
    /\ inbox \in [Client -> Seq(Line)]
    /\ reader \in [Client -> {"reading", "busy", "sending", "done"}]
    /\ DOMAIN op = Client
    /\ results \in [Client -> Seq(Nat)]
    /\ writer \in [Client -> {"live", "failed", "ended"}]
    /\ answered \in [Client -> Seq(Nat)]
    /\ handler \in [Client -> {"serving", "gone"}]

\* The command the reader has taken and not yet queued the answer of.
InHand(c) == IF reader[c] \in {"busy", "sending"} THEN 1 ELSE 0

\* Every command taken is answered, queued or in hand, as long as the writer did not
\* fail.
Accounted(c) ==
    /\ Len(results[c]) <= 1
    /\ results[c] # <<>> => results[c][1] = Len(answered[c]) + 1
    /\ writer[c] # "failed" => Len(answered[c]) + Len(results[c]) + InHand(c) = Taken(c)

\* The two ends of a connection stop for a reason.
Stopped(c) ==
    /\ writer[c] = "failed" => peer[c] = "broken"
    /\ writer[c] = "ended" => reader[c] = "done" /\ results[c] = <<>>
    /\ reader[c] = "done" => peer[c] # "open"
    /\ reader[c] = "done" /\ peer[c] = "closed" => inbox[c] = <<>>
    /\ handler[c] = "gone" => reader[c] = "done" /\ writer[c] # "live"

ConnectionInv == Shape /\ \A c \in Client : Accounted(c) /\ Stopped(c)

\* A step of a command leaves the connection as it is, but for the reader, which may
\* have the answer.
Works(c) ==
    /\ reader[c] = "busy" /\ UNCHANGED <<portal, transport>>
    /\ \E x : op' = [op EXCEPT ![c] = x]
    /\ reader' \in {reader, [reader EXCEPT ![c] = "sending"]}

LEMMA OrderWorks ==
  ASSUME NEW c \in Client, Order(c)
  PROVE  Works(c)
  <1>1. CASE TakeGuard(c) \/ Discover(c)
    BY <1>1 DEF TakeGuard, Discover, At, Proceeds, Works
  <1>2. CASE Gated(c) \/ GetFails(c) \/ Unwind(c) \/ Commit(c)
    BY <1>2 DEF Gated, GetFails, GivesUp, Unwind, Commit, At, Answers, Works
  <1>3. CASE Preflight(c)
    BY <1>3 DEF Preflight, GivesUp, At, Answers, Proceeds, Works
  <1>4. ASSUME NEW s \in Session, Get(c, s) \/ Set(c, s) \/ SetFails(c, s)
        PROVE  Works(c)
    BY <1>4 DEF Get, Set, SetFails, At, Proceeds, Works
  <1>5. ASSUME NEW s \in Session, NEW ok \in BOOLEAN, Undo(c, s, ok) \/ Verify(c, s, ok)
        PROVE  Works(c)
    BY <1>5 DEF Undo, Verify, At, Proceeds, Works
  <1>6. QED
    BY <1>1, <1>2, <1>3, <1>4, <1>5 DEF Order

LEMMA DesktopWorks ==
  ASSUME NEW c \in Client, Desktop(c)
  PROVE  Works(c)
  <1>1. CASE Look(c)
    BY <1>1 DEF Look, Proceeds, Answers, Works
  <1>2. CASE LookFails(c) \/ Performed(c) \/ ActivateFails(c) \/ RestoreFails(c) \/ FocusFails(c)
    BY <1>2 DEF LookFails, Performed, ActivateFails, RestoreFails, FocusFails, Fails, Lists, At,
       Answers, Works
  <1>3. CASE Launch(c) \/ Spawn(c)
    BY <1>3 DEF Launch, Spawn, At, Proceeds, Works
  <1>4. CASE LaunchFails(c) \/ WaitFails(c) \/ Focus(c)
    BY <1>4 DEF LaunchFails, WaitFails, Focus, At, Answers, Works
  <1>5. CASE WaitSees(c) \/ Found(c)
    BY <1>5 DEF WaitSees, Found, At, Proceeds, Works
  <1>6. CASE Activate(c) \/ Restore(c)
    BY <1>6 DEF Activate, Restore, At, Proceeds, Answers, Works
  <1>7. ASSUME NEW s \in HerdrSession, Perform(c, s)
        PROVE  Works(c)
    BY <1>7 DEF Perform, Proceeds, Works
  <1>8. QED
    BY <1>1, <1>2, <1>3, <1>4, <1>5, <1>6, <1>7 DEF Desktop

LEMMA WorksKeeps ==
  ASSUME ConnectionInv, NEW c \in Client, Works(c)
  PROVE  ConnectionInv'
  <1>1. Shape'
    BY DEF ConnectionInv, Shape, Works, portal, transport
  <1>2. \A x \in Client : Accounted(x)' /\ Stopped(x)'
    BY DEF ConnectionInv, Shape, Accounted, Stopped, InHand, Taken, Works, portal, transport
  <1>3. QED
    BY <1>1, <1>2 DEF ConnectionInv

\* A channel that holds one is emptied by taking it.
LEMMA OnlyOne ==
  ASSUME NEW S, NEW q \in Seq(S), q # <<>>, Len(q) <= 1
  PROVE  Len(q) = 1 /\ Tail(q) = <<>> /\ Head(q) \in S /\ Head(q) = q[1]
  <1>1. Len(q) \in Nat \ {0}
    BY EmptySeq
  <1>2. Len(q) = 1
    BY <1>1
  <1>3. Tail(q) \in Seq(S) /\ Len(Tail(q)) = 0 /\ Head(q) \in S
    BY <1>2, HeadTailProperties
  <1>4. Tail(q) = <<>>
    <2> DEFINE t == Tail(q)
    <2>1. t \in Seq(S) /\ Len(t) = 0
      BY <1>3
    <2> HIDE DEF t
    <2>2. t = <<>>
      BY <2>1, EmptySeq
    <2>3. QED
      BY <2>2 DEF t
  <1>5. QED
    BY <1>2, <1>3, <1>4, HeadTailProperties

LEMMA HandleKeeps ==
  ASSUME ConnectionInv, NEW c \in Client, Handle(c)
  PROVE  ConnectionInv'
  <1> USE DEF ConnectionInv
  <1>1. CASE Read(c)
    <2>1. /\ Tail(inbox[c]) \in Seq(Line) /\ Len(Tail(inbox[c])) = Len(inbox[c]) - 1
          /\ Len(inbox[c]) \in Nat
      BY <1>1, HeadTailProperties, LenProperties DEF Shape, Read
    <2>2. /\ inbox' = [inbox EXCEPT ![c] = Tail(inbox[c])]
          /\ reader' \in {[reader EXCEPT ![c] = "busy"], [reader EXCEPT ![c] = "sending"]}
          /\ UNCHANGED <<peer, left, sent, results, writer, answered, handler>>
          /\ reader[c] = "reading"
      BY <1>1 DEF Read, portal
    <2>3. Shape'
      BY <1>1, <2>1, <2>2 DEF Shape, Read
    <2>4. ASSUME NEW x \in Client
          PROVE  Accounted(x)' /\ Stopped(x)'
      <3>1. CASE x = c
        <4>1. InHand(c) = 0 /\ InHand(c)' = 1 /\ Taken(c)' = Taken(c) + 1
          BY <2>1, <2>2 DEF Shape, InHand, Taken
        <4>2. Accounted(c)'
          BY <2>2, <4>1 DEF Shape, Accounted, Taken
        <4>3. Stopped(c)'
          BY <2>2 DEF Shape, Stopped
        <4>4. QED
          BY <3>1, <4>2, <4>3
      <3>2. CASE x # c
        BY <2>2, <3>2 DEF Shape, Accounted, Stopped, InHand, Taken
      <3>3. QED
        BY <3>1, <3>2
    <2>5. QED
      BY <2>3, <2>4
  <1>2. CASE ReadEnds(c)
    <2>1. Shape'
      BY <1>2 DEF Shape, ReadEnds, portal, transport
    <2>2. \A x \in Client : Accounted(x)' /\ Stopped(x)'
      BY <1>2 DEF Shape, Accounted, Stopped, InHand, Taken, ReadEnds, portal, transport
    <2>3. QED
      BY <2>1, <2>2
  <1>3. CASE Enqueue(c)
    <2>1. Taken(c) = Len(answered[c]) + 1 /\ Taken(c) \in Nat
      <3>1. /\ Len(results[c]) = 0 /\ InHand(c) = 1 /\ writer[c] # "failed"
            /\ Len(answered[c]) \in Nat
        BY <1>3, LenProperties DEF Shape, InHand, Enqueue
      <3>2. Len(answered[c]) + Len(results[c]) + InHand(c) = Taken(c)
        BY <3>1 DEF Accounted
      <3>3. QED
        BY <3>1, <3>2
    <2>2. Shape'
      BY <1>3, <2>1 DEF Shape, Enqueue, portal
    <2>3. ASSUME NEW x \in Client
          PROVE  Accounted(x)' /\ Stopped(x)'
      <3>1. CASE x = c
        <4>1. results'[c] = <<Taken(c)>> /\ InHand(c)' = 0 /\ Taken(c)' = Taken(c)
          BY <1>3 DEF Shape, InHand, Taken, Enqueue, portal
        <4>2. UNCHANGED <<answered, writer, peer, inbox,
           handler>> /\ reader'[c] = "reading" /\ writer[c] = "live"
          BY <1>3 DEF Shape, Enqueue, portal
        <4>3. QED
          <5>1. Len(results'[c]) = 1 /\ results'[c][1] = Taken(c) /\ Len(answered[c]) \in Nat
            BY <2>1, <4>1, LenProperties DEF Shape
          <5>2. Accounted(c)'
            BY <2>1, <4>1, <4>2, <5>1 DEF Accounted
          <5>3. Stopped(c)'
            BY <4>2 DEF Stopped
          <5>4. QED
            BY <3>1, <5>2, <5>3
      <3>2. CASE x # c
        BY <1>3, <3>2 DEF Shape, Accounted, Stopped, InHand, Taken, Enqueue, portal
      <3>3. QED
        BY <3>1, <3>2
    <2>4. QED
      BY <2>2, <2>3
  <1>4. CASE Refused(c)
    <2>1. Shape'
      BY <1>4 DEF Shape, Refused, portal, transport, Severed
    <2>2. \A x \in Client : Accounted(x)' /\ Stopped(x)'
      BY <1>4 DEF Shape, Accounted, Stopped, InHand, Taken, Refused, portal, transport, Severed
    <2>3. QED
      BY <2>1, <2>2
  <1>5. CASE WriteResult(c)
    <2>1. /\ Tail(results[c]) = <<>> /\ Len(results[c]) = 1
          /\ Append(answered[c], Head(results[c])) \in Seq(Nat)
          /\ Len(Append(answered[c], Head(results[c]))) = Len(answered[c]) + 1
      <3>1. results[c] \in Seq(Nat) /\ results[c] # <<>> /\ Len(results[c]) <= 1 /\ answered[c] \in Seq(Nat)
        BY <1>5 DEF Shape, Accounted, WriteResult
      <3>2. Len(results[c]) = 1 /\ Tail(results[c]) = <<>> /\ Head(results[c]) \in Nat
        BY <3>1, OnlyOne
      <3>3. QED
        BY <3>1, <3>2, AppendProperties
    <2>2. Shape'
      BY <1>5, <2>1 DEF Shape, WriteResult, portal
    <2>3. ASSUME NEW x \in Client
          PROVE  Accounted(x)' /\ Stopped(x)'
      <3>1. CASE x = c
        <4>1. /\ results'[c] = <<>> /\ Len(answered'[c]) = Len(answered[c]) + 1
              /\ UNCHANGED <<writer, peer, inbox, handler, reader, sent>>
          BY <1>5, <2>1 DEF Shape, WriteResult, portal
        <4>2. InHand(c)' = InHand(c) /\ Taken(c)' = Taken(c)
          BY <4>1 DEF InHand, Taken
        <4>3. /\ Len(results[c]) = 1 /\ Len(answered[c]) \in Nat
              /\ writer[c] # "failed" => Len(answered[c]) + 1 + InHand(c) = Taken(c)
          BY <2>1, LenProperties DEF Shape, Accounted
        <4>4. Accounted(c)'
          <5>1. Len(results'[c]) = 0 /\ InHand(c) \in {0, 1}
            BY <4>1, EmptySeq DEF InHand
          <5>2. writer'[c] # "failed" => Len(answered'[c]) + 0 + InHand(c) = Taken(c)
            BY <4>1, <4>3, <5>1
          <5>3. QED
            BY <4>1, <4>2, <5>1, <5>2 DEF Accounted
        <4>5. Stopped(c)'
          BY <4>1 DEF Shape, Stopped
        <4>6. QED
          BY <3>1, <4>4, <4>5
      <3>2. CASE x # c
        BY <1>5, <3>2 DEF Shape, Accounted, Stopped, InHand, Taken, WriteResult, portal
      <3>3. QED
        BY <3>1, <3>2
    <2>4. QED
      BY <2>2, <2>3
  <1>6. CASE WriteFails(c)
    <2>1. Shape'
      BY <1>6 DEF Shape, WriteFails, portal, transport
    <2>2. \A x \in Client : Accounted(x)' /\ Stopped(x)'
      BY <1>6 DEF Shape, Accounted, Stopped, InHand, Taken, WriteFails, portal, transport
    <2>3. QED
      BY <2>1, <2>2
  <1>7. CASE WriterEnds(c)
    <2>1. Shape'
      BY <1>7 DEF Shape, WriterEnds, portal, transport, Drained
    <2>2. \A x \in Client : Accounted(x)' /\ Stopped(x)'
      BY <1>7 DEF Shape, Accounted, Stopped, InHand, Taken, WriterEnds, portal, transport, Drained
    <2>3. QED
      BY <2>1, <2>2
  <1>8. CASE HandlerEnds(c)
    <2>1. Shape'
      BY <1>8 DEF Shape, HandlerEnds, portal, transport
    <2>2. \A x \in Client : Accounted(x)' /\ Stopped(x)'
      BY <1>8 DEF Shape, Accounted, Stopped, InHand, Taken, HandlerEnds, portal, transport
    <2>3. QED
      BY <2>1, <2>2
  <1>9. QED
    BY <1>1, <1>2, <1>3, <1>4, <1>5, <1>6, <1>7, <1>8 DEF Handle

LEMMA PortalKeeps ==
  ASSUME ConnectionInv, NEW c \in Client, Portal(c)
  PROVE  ConnectionInv'
  <1> USE DEF ConnectionInv
  <1>1. ASSUME NEW l \in DOMAIN left, Ask(c, l)
        PROVE  ConnectionInv'
    <2>1. l \in Line
      BY DEF Shape
    <2>2. Shape'
      BY <1>1, <2>1 DEF Shape, Ask
    <2>3. \A x \in Client : Accounted(x)' /\ Stopped(x)'
      BY <1>1, <2>1 DEF Shape, Accounted, Stopped, InHand, Taken, Ask
    <2>4. QED
      BY <2>2, <2>3
  <1>2. CASE PeerCloses(c) \/ PeerBreaks(c)
    <2>1. Shape'
      <3>1. CASE PeerCloses(c)
        BY <3>1 DEF Shape, PeerCloses, transport
      <3>2. CASE PeerBreaks(c)
        BY <3>2 DEF Shape, PeerBreaks, transport
      <3>3. QED
        BY <1>2, <3>1, <3>2
    <2>2. ASSUME NEW x \in Client
          PROVE  Accounted(x)' /\ Stopped(x)'
      <3>1. Accounted(x)'
        BY <1>2 DEF Accounted, InHand, Taken, PeerCloses, PeerBreaks, transport
      <3>2. Stopped(x)'
        <4>1. CASE PeerCloses(c)
          BY <4>1 DEF Shape, Stopped, PeerCloses, transport
        <4>2. CASE PeerBreaks(c)
          BY <4>2 DEF Shape, Stopped, PeerBreaks, transport
        <4>3. QED
          BY <1>2, <4>1, <4>2
      <3>3. QED
        BY <3>1, <3>2
    <2>3. QED
      BY <2>1, <2>2
  <1>3. QED
    BY <1>1, <1>2 DEF Portal

LEMMA ConnectionInit == Init => ConnectionInv
  <1> SUFFICES ASSUME Init PROVE ConnectionInv
    OBVIOUS
  <1>1. DOMAIN left \subseteq Line
    BY SessionAssumption DEF Init, SessionInit
  <1>2. Shape
    BY <1>1 DEF Init, SessionInit, Shape
  <1>3. ASSUME NEW c \in Client
        PROVE  Accounted(c) /\ Stopped(c)
    BY DEF Init, SessionInit, Accounted, Stopped, InHand, Taken
  <1>4. QED
    BY <1>2, <1>3 DEF ConnectionInv

LEMMA ConnectionStep ==
  ASSUME ConnectionInv, [Next]_vars
  PROVE  ConnectionInv'
  <1>1. ASSUME NEW c \in Client, Serve(c)
        PROVE  ConnectionInv'
    BY <1>1, HandleKeeps, OrderWorks, DesktopWorks, WorksKeeps DEF Serve
  <1>2. ASSUME NEW c \in Client, Portal(c)
        PROVE  ConnectionInv'
    BY <1>2, PortalKeeps
  <1>3. CASE UNCHANGED sessions
    BY <1>3 DEF sessions, portal, transport, ConnectionInv, Shape, Accounted, Stopped, InHand, Taken
  <1>4. CASE Refresh \/ Herdr \/ Compositor
    BY <1>3, <1>4 DEF Refresh, Herdr, Compositor, Remember, Ages
  <1>5. QED
    BY <1>1, <1>2, <1>3, <1>4 DEF Next, vars

LEMMA ConnectionAlways == Spec => []ConnectionInv
  <1>1. ConnectionInv /\ [Next]_vars => ConnectionInv'
    BY ConnectionStep
  <1>2. QED
    BY <1>1, ConnectionInit, PTL DEF Spec

----------------------------------------------------------------------------
(* The answers                                                              *)

\* How the promise sees a connection.
LineOf(c) == IF handler[c] = "gone" THEN "left"
             ELSE IF peer[c] = "broken" THEN "lost" ELSE peer[c]

LEMMA WorksAsPromised ==
  ASSUME NEW c \in Client, Works(c)
  PROVE  UNCHANGED Promise!vars
  BY DEF Works, portal, transport, Promise!vars

LEMMA HandleAsPromised ==
  ASSUME ConnectionInv, NEW c \in Client, Handle(c)
  PROVE  [Promise!Next]_(Promise!vars)
  <1>1. CASE Read(c) \/ ReadEnds(c) \/ Enqueue(c) \/ Refused(c) \/ WriteFails(c) \/ WriterEnds(c)
    BY <1>1 DEF Read, ReadEnds, Enqueue, Refused, WriteFails, WriterEnds, portal, transport, Promise!vars
  <1>2. CASE WriteResult(c)
    <2>1. LineOf(c) \in {"open", "closed"}
      BY <1>2 DEF ConnectionInv, Shape, Stopped, WriteResult, LineOf
    <2>2. Len(answered[c]) < sent[c]
      <3>1. /\ Len(answered[c]) \in Nat /\ Len(inbox[c]) \in Nat /\ sent[c] \in Nat
            /\ Len(results[c]) = 1 /\ InHand(c) \in Nat
        BY <1>2, LenProperties, OnlyOne DEF ConnectionInv, Shape, Accounted, WriteResult, InHand
      <3>2. Len(answered[c]) + Len(results[c]) + InHand(c) = sent[c] - Len(inbox[c])
        BY <1>2 DEF ConnectionInv, Accounted, WriteResult, Taken
      <3>3. QED
        BY <3>1, <3>2
    <2>3. Head(results[c]) = Len(answered[c]) + 1
      BY <1>2, OnlyOne DEF ConnectionInv, Shape, Accounted, WriteResult
    <2>4. Promise!Answer(c)
      BY <1>2, <2>1, <2>2, <2>3 DEF WriteResult, LineOf, portal, Promise!Answer
    <2>5. QED
      BY <2>4 DEF Promise!Next
  <1>3. CASE HandlerEnds(c)
    <2>1. peer[c] # "open"
      BY <1>3 DEF ConnectionInv, Stopped, HandlerEnds
    <2>2. CASE peer[c] = "closed"
      <3>1. inbox[c] = <<>> /\ results[c] = <<>> /\ InHand(c) = 0 /\ writer[c] = "ended"
        BY <1>3, <2>2 DEF ConnectionInv, Shape, Stopped, HandlerEnds, InHand
      <3>2. Len(answered[c]) \in Nat /\ sent[c] \in Nat
        BY LenProperties DEF ConnectionInv, Shape
      <3>3. Len(answered[c]) + 0 + 0 = sent[c] - 0
        BY <3>1 DEF ConnectionInv, Accounted, Taken
      <3>4. Len(answered[c]) = sent[c]
        BY <3>2, <3>3
      <3>5. QED
        BY <1>3, <2>2, <3>4 DEF ConnectionInv, Shape, HandlerEnds, LineOf, portal, Promise!Leave,
           Promise!Next
    <2>3. CASE peer[c] = "broken"
      BY <1>3, <2>3 DEF ConnectionInv, Shape, HandlerEnds, portal, Promise!Leave, Promise!Next
    <2>4. QED
      BY <2>1, <2>2, <2>3 DEF ConnectionInv, Shape
  <1>4. QED
    BY <1>1, <1>2, <1>3 DEF Handle

LEMMA PortalAsPromised ==
  ASSUME ConnectionInv, NEW c \in Client, Portal(c)
  PROVE  [Promise!Next]_(Promise!vars)
  <1>1. peer[c] = "open" => handler[c] # "gone"
    BY DEF ConnectionInv, Stopped
  <1>2. ASSUME NEW l \in DOMAIN left, Ask(c, l)
        PROVE  Promise!Ask(c)
    BY <1>1, <1>2 DEF Ask, Promise!Ask
  <1>3. CASE PeerCloses(c)
    <2>1. Promise!Close(c)
      BY <1>1, <1>3 DEF ConnectionInv, Shape, PeerCloses, transport, Promise!Close
    <2>2. QED
      BY <2>1 DEF Promise!Next
  <1>4. CASE PeerBreaks(c)
    <2>1. Promise!Lose(c)
      BY <1>4 DEF ConnectionInv, Shape, PeerBreaks, transport, Promise!Lose
    <2>2. QED
      BY <2>1 DEF Promise!Next
  <1>5. QED
    BY <1>2, <1>3, <1>4 DEF Portal, Promise!Next

\* Every connection answers as CommandPromise says: each command once and in order, and
\* none missing when a connection that was only closed is left.
THEOREM AnswersKeepThePromise == Spec => AnswersAsPromised
  <1>1. Init => Promise!Init
    BY DEF Init, SessionInit, Promise!Init
  <1>2. ConnectionInv /\ [Next]_vars => [Promise!Next]_(Promise!vars)
    <2> SUFFICES ASSUME ConnectionInv, [Next]_vars
                 PROVE  [Promise!Next]_(Promise!vars)
      OBVIOUS
    <2>1. ASSUME NEW c \in Client, Serve(c)
          PROVE  [Promise!Next]_(Promise!vars)
      BY <2>1, HandleAsPromised, OrderWorks, DesktopWorks, WorksAsPromised DEF Serve
    <2>2. CASE UNCHANGED sessions
      BY <2>2 DEF sessions, portal, transport, Promise!vars
    <2>3. CASE Refresh \/ Herdr \/ Compositor
      BY <2>2, <2>3 DEF Refresh, Herdr, Compositor, Remember, Ages
    <2>4. QED
      BY <2>1, <2>2, <2>3, PortalAsPromised DEF Next, vars
  <1>3. QED
    BY <1>1, <1>2, ConnectionAlways, PTL DEF Spec, AnswersAsPromised, Promise!Spec

----------------------------------------------------------------------------
(* Launches in flight                                                       *)

Waiter == {"spawn", "wait", "found"}
OrderStep == {"discover", "get", "set", "undo", "verify"}

\* Only a reader that is busy has a command.
BusyInv ==
    /\ op = [c \in Client |-> op[c]]
    /\ reader = [c \in Client |-> reader[c]]
    /\ \A c \in Client : reader[c] # "busy" => op[c] = Idle

LaunchInv ==
    /\ launching \in [App -> {"none", "fresh", "old"}]
    /\ EntryHasWaiter

\* The steps of a connection start a command or leave it alone.
LEMMA HandleSteps ==
  ASSUME BusyInv, NEW c \in Client, Handle(c)
  PROVE  /\ BusyInv'
         /\ \A x \in Client : op'[x] # op[x] =>
               op[x] = Idle /\ op'[x].step \in Action
         /\ \A x \in Client : op[x].step = "idle" \/ op'[x] = op[x]
  <1>1. CASE Read(c)
    <2> DEFINE l == Head(inbox[c])
    <2>1. /\ reader[c] = "reading"
          /\ reader' = [reader EXCEPT ![c] = IF Valid(l) THEN "busy" ELSE "sending"]
          /\ op' = [op EXCEPT ![c] = IF Valid(l) THEN [step |-> l.action] ELSE Idle]
      BY <1>1 DEF Read
    <2>2. Valid(l) => l.action \in Action
      BY DEF Valid, Action
    <2> HIDE DEF l
    <2>3. op[c] = Idle
      BY <2>1 DEF BusyInv
    <2>4. CASE Valid(l)
      <3>1. /\ reader' = [reader EXCEPT ![c] = "busy"]
            /\ op' = [op EXCEPT ![c] = [step |-> l.action]]
        BY <2>1, <2>4
      <3>2. op'[c].step \in Action
        BY <2>2, <2>4, <3>1 DEF BusyInv
      <3>3. BusyInv'
        BY <3>1 DEF BusyInv
      <3>4. op[c].step = "idle" /\ \A x \in Client \ {c} : op'[x] = op[x]
        BY <2>3, <3>1 DEF BusyInv, Idle
      <3>5. QED
        BY <2>3, <3>2, <3>3, <3>4
    <2>5. CASE ~Valid(l)
      <3>1. /\ reader' = [reader EXCEPT ![c] = "sending"]
            /\ op' = [op EXCEPT ![c] = Idle]
        BY <2>1, <2>5
      <3>2. QED
        BY <2>3, <3>1 DEF BusyInv
    <2>6. QED
      BY <2>4, <2>5
  <1>2. CASE ReadEnds(c) \/ Enqueue(c) \/ Refused(c) \/ WriteResult(c) \/ WriteFails(c)
             \/ WriterEnds(c) \/ HandlerEnds(c)
    BY <1>2 DEF ReadEnds, Enqueue, Refused, WriteResult, WriteFails, WriterEnds, HandlerEnds, BusyInv
  <1>3. QED
    BY <1>1, <1>2 DEF Handle

LEMMA WorksSteps ==
  ASSUME BusyInv, NEW c \in Client, Order(c) \/ Desktop(c)
  PROVE  BusyInv' /\ \A x \in Client \ {c} : op'[x] = op[x]
  <1>1. reader[c] = "busy"
    BY OrderWorks, DesktopWorks DEF Works
  <1>2. \/ Answers(c)
        \/ reader' = reader /\ \E x : op' = [op EXCEPT ![c] = x]
    <2>1. CASE Order(c)
      BY <2>1 DEF Order, TakeGuard, Gated, Discover, GetFails, Preflight, Unwind, Commit, Get, Set,
         SetFails, Undo, Verify, GivesUp, Proceeds
    <2>2. CASE Desktop(c)
      BY <2>2 DEF Desktop, Look, LookFails, Launch, Spawn, LaunchFails, WaitFails, WaitSees, Found,
         Perform, Performed, Activate, ActivateFails, Restore, RestoreFails, Focus, FocusFails, Fails,
         Proceeds
    <2>3. QED
      BY <2>1, <2>2
  <1>3. QED
    BY <1>1, <1>2 DEF Answers, BusyInv

LEMMA OrderIsNoWaiter ==
  ASSUME BusyInv, NEW c \in Client, Order(c)
  PROVE  op[c].step \notin Waiter
  BY DEF Order, TakeGuard, Gated, Discover, GetFails, Preflight, Unwind, Commit, Get, Set,
     SetFails, Undo, Verify, At, Orderings, Waiter

\* Whoever waits for an application other than the one command c is about goes on.
LEMMA DesktopKeepsLaunches ==
  ASSUME BusyInv, LaunchInv, NEW c \in Client, Desktop(c)
  PROVE  LaunchInv'
  <1>1. \A x \in Client \ {c} : op'[x] = op[x]
    BY WorksSteps
  <1>2. CASE op[c].step \notin Waiter /\ UNCHANGED launching
    BY <1>1, <1>2 DEF LaunchInv, EntryHasWaiter, Waiter
  <1>3. CASE Look(c) \/ LookFails(c) \/ Performed(c) \/ Activate(c) \/ ActivateFails(c)
             \/ Restore(c) \/ RestoreFails(c) \/ Focus(c) \/ FocusFails(c)
    BY <1>2, <1>3 DEF Look, LookFails, Performed, Activate, ActivateFails, Restore, RestoreFails, Focus,
       FocusFails, Fails, Lists, At, desktop, Waiter, DesktopAction, Targeted, Guarded
  <1>4. ASSUME NEW s \in HerdrSession, Perform(c, s)
        PROVE  LaunchInv'
    BY <1>2, <1>4 DEF Perform, desktop, Waiter, Targeted
  <1>5. CASE Launch(c)
    <2>1. op[c].step \notin Waiter
      BY <1>5 DEF Launch, At, Waiter
    <2>2. CASE launching[op[c].app] = "fresh"
      BY <1>2, <1>5, <2>1, <2>2 DEF Launch
    <2>3. CASE launching[op[c].app] # "fresh"
      <3>1. /\ op'[c] = [step |-> "spawn", app |-> op[c].app]
            /\ launching' = [launching EXCEPT ![op[c].app] = "fresh"]
        BY <1>5, <2>3 DEF Launch, Proceeds, BusyInv
      <3>2. op'[c].step = "spawn" /\ op'[c].app = op[c].app
        BY <3>1
      <3>3. QED
        <4>1. launching' \in [App -> {"none", "fresh", "old"}]
          BY <3>1 DEF LaunchInv
        <4>2. ASSUME NEW a \in App, launching'[a] # "none"
              PROVE  \E x \in Client : op'[x].step \in Waiter /\ op'[x].app = a
          <5>1. CASE a = op[c].app
            BY <3>2, <5>1 DEF Waiter
          <5>2. CASE a # op[c].app
            <6>1. launching[a] # "none"
              BY <3>1, <4>2, <5>2 DEF LaunchInv
            <6>2. PICK x \in Client : op[x].step \in Waiter /\ op[x].app = a
              BY <6>1 DEF LaunchInv, EntryHasWaiter, Waiter
            <6>3. QED
              BY <1>1, <2>1, <6>2
          <5>3. QED
            BY <5>1, <5>2
        <4>3. QED
          BY <4>1, <4>2 DEF LaunchInv, EntryHasWaiter, Waiter
    <2>4. QED
      BY <2>2, <2>3
  <1>6. CASE Spawn(c) \/ WaitSees(c)
    <2>1. /\ op[c].step \in Waiter /\ op'[c].step \in Waiter /\ op'[c].app = op[c].app
          /\ UNCHANGED launching
      BY <1>6 DEF Spawn, WaitSees, At, Proceeds, BusyInv, Waiter, desktop
    <2>2. QED
      BY <1>1, <2>1 DEF LaunchInv, EntryHasWaiter, Waiter
  <1>7. CASE LaunchFails(c) \/ WaitFails(c) \/ Found(c)
    <2>1. launching' = [launching EXCEPT ![op[c].app] = "none"]
      BY <1>7 DEF LaunchFails, WaitFails, Found, Clears
    <2>2. QED
      <3>1. launching' \in [App -> {"none", "fresh", "old"}]
        BY <2>1 DEF LaunchInv
      <3>2. ASSUME NEW a \in App, launching'[a] # "none"
            PROVE  \E x \in Client : op'[x].step \in Waiter /\ op'[x].app = a
        <4>1. launching[a] # "none" /\ a # op[c].app
          BY <2>1, <3>2 DEF LaunchInv
        <4>2. PICK x \in Client : op[x].step \in Waiter /\ op[x].app = a
          BY <4>1 DEF LaunchInv, EntryHasWaiter, Waiter
        <4>3. x # c
          BY <4>1, <4>2
        <4>4. QED
          BY <1>1, <4>2, <4>3
      <3>3. QED
        BY <3>1, <3>2 DEF LaunchInv, EntryHasWaiter, Waiter
  <1>8. QED
    BY <1>3, <1>4, <1>5, <1>6, <1>7 DEF Desktop

LEMMA LaunchStep ==
  ASSUME BusyInv, LaunchInv, [Next]_vars
  PROVE  BusyInv' /\ LaunchInv'
  <1>1. ASSUME NEW c \in Client, Handle(c), UNCHANGED desktop
        PROVE  BusyInv' /\ LaunchInv'
    BY <1>1, HandleSteps DEF LaunchInv, EntryHasWaiter, desktop, Idle
  <1>2. ASSUME NEW c \in Client, Order(c), UNCHANGED desktop
        PROVE  BusyInv' /\ LaunchInv'
    BY <1>2, WorksSteps, OrderIsNoWaiter DEF LaunchInv, EntryHasWaiter, desktop, Waiter
  <1>3. ASSUME NEW c \in Client, Desktop(c)
        PROVE  BusyInv' /\ LaunchInv'
    BY <1>3, WorksSteps, DesktopKeepsLaunches
  <1>4. CASE UNCHANGED <<reader, op, launching>>
    BY <1>4 DEF BusyInv, LaunchInv, EntryHasWaiter
  <1>5. ASSUME NEW c \in Client, Portal(c), UNCHANGED desktop
        PROVE  BusyInv' /\ LaunchInv'
    BY <1>4, <1>5 DEF Portal, Ask, PeerCloses, PeerBreaks, desktop
  <1>6. CASE (Refresh \/ Herdr) /\ UNCHANGED desktop
    BY <1>4, <1>6 DEF Refresh, Herdr, sessions, desktop
  <1>7. CASE Compositor
    <2>1. ASSUME NEW a \in App, Ages(a)
          PROVE  BusyInv' /\ LaunchInv'
      BY <2>1 DEF Ages, BusyInv, LaunchInv, EntryHasWaiter, sessions
    <2>2. QED
      BY <1>4, <1>7, <2>1 DEF Compositor, Remember, sessions
  <1>8. CASE UNCHANGED vars
    BY <1>4, <1>8 DEF vars, sessions, desktop
  <1>9. QED
    BY <1>1, <1>2, <1>3, <1>5, <1>6, <1>7, <1>8 DEF Next, Serve

LEMMA LaunchAlways == Spec => [](BusyInv /\ LaunchInv)
  <1>1. Init => BusyInv /\ LaunchInv
    BY DEF Init, SessionInit, DesktopInit, BusyInv, LaunchInv, EntryHasWaiter
  <1>2. BusyInv /\ LaunchInv /\ [Next]_vars => (BusyInv /\ LaunchInv)'
    BY LaunchStep
  <1>3. QED
    BY <1>1, <1>2, PTL DEF Spec

\* A launch in flight always has a command that will end it, for any applications,
\* windows and connections, although any command may remove the entry of another.
THEOREM EveryEntryHasAWaiter == Spec => []EntryHasWaiter
  <1>1. LaunchInv => EntryHasWaiter
    BY DEF LaunchInv
  <1>2. QED
    BY <1>1, LaunchAlways, PTL

----------------------------------------------------------------------------
(* The ordering offered                                                     *)

OrderTypes ==
    /\ mode \in [Session -> Mode] /\ up \subseteq Session
    /\ order \in OrderSnapshot

\* The lock is the command's that is ordering.
LockInv ==
    /\ guard \in {"free", "loop"} \cup Client
    /\ \A c \in Client : op[c].step \in OrderStep <=> guard = c

\* What is offered is what the sessions have.
Agree == order.available /\ ~touched => \A s \in up : mode[s] = order.mode

\* While Herdr is left alone, what the loop has read is what there is.
ReadInv ==
    guard = "loop" /\ ~touched =>
        /\ DOMAIN heard = up
        /\ \A s \in up : heard[s] \in {"due", "unread", mode[s]}

\* What a command remembers of the sessions, step by step.
Getting(o) ==
    /\ o = [step |-> "get", to |-> o.to, todo |-> o.todo, prior |-> o.prior]
    /\ Agree /\ order.available
    /\ DOMAIN o.prior \subseteq Session
    /\ ~touched => /\ o.todo \cup DOMAIN o.prior = up
                   /\ \A s \in DOMAIN o.prior : o.prior[s] = mode[s]

\* Every session had the ordering offered.
Preflown(o) ==
    /\ order.available
    /\ DOMAIN o.prior \subseteq Session
    /\ \A s \in DOMAIN o.prior : o.prior[s] = order.mode
    /\ ~touched => DOMAIN o.prior = up

Setting(o) ==
    /\ o = [step |-> "set", to |-> o.to, prior |-> o.prior, tried |-> o.tried, todo |-> o.todo]
    /\ Preflown(o)
    /\ o.tried \cup o.todo \subseteq DOMAIN o.prior
    /\ ~touched => \A s \in DOMAIN o.prior \ o.todo : mode[s] = o.to

Undoing(o) ==
    /\ o = [step |-> o.step, to |-> o.to, prior |-> o.prior, todo |-> o.todo, clean |-> o.clean]
    /\ Preflown(o)
    /\ o.todo \subseteq DOMAIN o.prior /\ o.clean \in BOOLEAN
    /\ o.step = "verify" /\ o.clean /\ ~touched =>
          \A s \in DOMAIN o.prior \ o.todo : mode[s] = o.prior[s]

Remembers(o) ==
    /\ o.step \in OrderStep => o.to \in Mode
    /\ o.step = "discover" => o = [step |-> "discover", to |-> o.to] /\ Agree
    /\ o.step = "get" => Getting(o)
    /\ o.step = "set" => Setting(o)
    /\ o.step \in {"undo", "verify"} => Undoing(o)

OfferInv ==
    /\ BusyInv /\ OrderTypes /\ LockInv /\ ReadInv
    /\ guard = "free" => Agree
    /\ \A c \in Client : Remembers(op[c])

\* Steps of others that leave the ordering alone.
LEMMA OthersOrder ==
  ASSUME OfferInv, BusyInv', UNCHANGED ordering,
         \A c \in Client : op'[c] # op[c] =>
            op[c].step \notin OrderStep /\ op'[c].step \notin OrderStep
  PROVE  OfferInv'
  <1>1. OrderTypes' /\ ReadInv' /\ (guard = "free" => Agree)'
    BY DEF OfferInv, OrderTypes, ReadInv, Agree, ordering
  <1>2. LockInv'
    BY DEF OfferInv, LockInv, ordering
  <1>3. ASSUME NEW c \in Client
        PROVE  Remembers(op[c])'
    <2>1. CASE op'[c] = op[c]
      <3>1. Agree' = Agree /\ Preflown(op[c])' = Preflown(op[c])
        BY <2>1 DEF Agree, Preflown, ordering
      <3>2. Getting(op[c])' = Getting(op[c])
        BY <2>1, <3>1 DEF Getting, ordering
      <3>3. Setting(op[c])' = Setting(op[c])
        BY <2>1, <3>1 DEF Setting, ordering
      <3>4. Undoing(op[c])' = Undoing(op[c])
        BY <2>1, <3>1 DEF Undoing, ordering
      <3>5. QED
        BY <2>1, <3>1, <3>2, <3>3, <3>4 DEF OfferInv, Remembers
    <2>2. CASE op'[c] # op[c]
      BY <2>2 DEF Remembers, OrderStep
    <2>3. QED
      BY <2>1, <2>2
  <1>4. QED
    BY <1>1, <1>2, <1>3 DEF OfferInv

LEMMA DesktopIsNoOrder ==
  ASSUME BusyInv, NEW c \in Client, Desktop(c)
  PROVE  op[c].step \notin OrderStep /\ op'[c].step \notin OrderStep
  <1>1. CASE Look(c) \/ Activate(c) \/ Restore(c)
    BY <1>1 DEF Look, Activate, Restore, At, Answers, Proceeds, BusyInv, OrderStep, DesktopAction, Idle
  <1>2. CASE LookFails(c) \/ Performed(c) \/ ActivateFails(c) \/ RestoreFails(c) \/ FocusFails(c)
    BY <1>2 DEF LookFails, Performed, ActivateFails, RestoreFails, FocusFails, Fails, Lists, At, Answers,
       BusyInv, OrderStep, DesktopAction, Targeted, Guarded, Idle
  <1>3. CASE Launch(c) \/ Spawn(c) \/ WaitSees(c) \/ Found(c)
    BY <1>3 DEF Launch, Spawn, WaitSees, Found, At, Proceeds, BusyInv, OrderStep
  <1>4. CASE LaunchFails(c) \/ WaitFails(c) \/ Focus(c)
    BY <1>4 DEF LaunchFails, WaitFails, Focus, At, Answers, BusyInv, OrderStep, Idle
  <1>5. ASSUME NEW s \in HerdrSession, Perform(c, s)
        PROVE  op[c].step \notin OrderStep /\ op'[c].step \notin OrderStep
    BY <1>5 DEF Perform, Proceeds, BusyInv, OrderStep, Targeted
  <1>6. QED
    BY <1>1, <1>2, <1>3, <1>4, <1>5 DEF Desktop

LEMMA HandleIsNoOrder ==
  ASSUME BusyInv, NEW c \in Client, Handle(c)
  PROVE  \A x \in Client : op'[x] # op[x] =>
            op[x].step \notin OrderStep /\ op'[x].step \notin OrderStep
  BY HandleSteps DEF Idle, OrderStep, Action, Untargeted, Targeted, Guarded

\* What is left to show of a step of command c that holds the lock, or takes it.
LEMMA OrderingStep ==
  ASSUME OfferInv, NEW c \in Client, Order(c), guard \in {"free", c},
         OrderTypes', Remembers(op[c])',
         \/ guard' = c /\ op'[c].step \in OrderStep
         \/ guard' = "free" /\ op'[c].step \notin OrderStep /\ Agree'
  PROVE  OfferInv'
  <1>1. BusyInv' /\ \A x \in Client \ {c} : op'[x] = op[x]
    BY WorksSteps DEF OfferInv
  <1>2. c # "free" /\ c # "loop" /\ \A x \in Client : x # "free" /\ x # "loop"
    BY OrderAssumption
  <1>3. \A x \in Client \ {c} : op[x].step \notin OrderStep
    BY <1>2 DEF OfferInv, LockInv
  <1>4. LockInv' /\ ReadInv' /\ (guard = "free" => Agree)'
    BY <1>1, <1>2, <1>3 DEF LockInv, ReadInv
  <1>5. \A x \in Client : Remembers(op[x])'
    BY <1>1, <1>3 DEF Remembers, OrderStep
  <1>6. QED
    BY <1>1, <1>4, <1>5 DEF OfferInv

\* A command in a step of the ordering holds the lock.
LEMMA Holding ==
  ASSUME OfferInv, NEW c \in Client, op[c].step \in OrderStep
  PROVE  guard = c /\ Remembers(op[c])
  BY DEF OfferInv, LockInv

\* A command that gives up leaves what is offered true.
LEMMA GivingUp ==
  ASSUME OfferInv, NEW c \in Client, Order(c), GivesUp(c), guard = c, Agree
  PROVE  OfferInv'
  <1>1. op'[c] = Idle /\ guard' = "free" /\ UNCHANGED <<up, mode, order, touched>>
    BY DEF GivesUp, Answers, Release, OfferInv, BusyInv
  <1>2. OrderTypes' /\ Agree' /\ Remembers(op[c])' /\ op'[c].step \notin OrderStep
    BY <1>1 DEF OfferInv, OrderTypes, Agree, Remembers, Idle, OrderStep
  <1>3. QED
    BY <1>1, <1>2, OrderingStep

LEMMA BeginsOrder ==
  ASSUME OfferInv, NEW c \in Client, TakeGuard(c) \/ Gated(c) \/ Discover(c)
  PROVE  OfferInv'
  <1>1. CASE TakeGuard(c)
    <2>1. /\ guard = "free" /\ guard' = c /\ UNCHANGED <<up, mode, order, touched>>
          /\ op'[c] = [step |-> "discover", to |-> ModeOf(op[c].step)]
      BY <1>1 DEF TakeGuard, Proceeds, OfferInv, BusyInv
    <2>2. OrderTypes' /\ Remembers(op[c])' /\ op'[c].step \in OrderStep
      BY <2>1 DEF OfferInv, OrderTypes, Agree, Remembers, OrderStep, ModeOf, Mode
    <2>3. QED
      BY <1>1, <2>1, <2>2, OrderingStep DEF Order
  <1>2. CASE Gated(c)
    BY <1>2, Holding, GivingUp DEF Order, Gated, At, Remembers, OrderStep
  <1>3. CASE Discover(c)
    <2>1. op[c].step = "discover" /\ guard = c /\ Remembers(op[c])
      BY <1>3, Holding DEF Discover, At, OrderStep
    <2>2. /\ op'[c] = [step |-> "get", to |-> op[c].to, todo |-> up, prior |-> [s \in {} |-> "grouped"]]
          /\ UNCHANGED <<up, mode, order, touched, guard>> /\ order.available
      BY <1>3 DEF Discover, Proceeds, OfferInv, BusyInv, ordering
    <2>3. op'[c].step = "get" /\ op'[c].to = op[c].to /\ op'[c].todo = up /\ DOMAIN op'[c].prior = {}
      BY <2>2
    <2>4. Getting(op[c])' /\ OrderTypes'
      BY <2>1, <2>2, <2>3 DEF Getting, Agree, Remembers, OfferInv, OrderTypes
    <2>5. Remembers(op[c])'
      BY <2>1, <2>3, <2>4 DEF Remembers, OrderStep
    <2>6. QED
      BY <1>3, <2>1, <2>2, <2>3, <2>4, <2>5, OrderingStep DEF Order, OrderStep
  <1>4. QED
    BY <1>1, <1>2, <1>3

LEMMA GetsOrder ==
  ASSUME OfferInv, NEW c \in Client, NEW s \in Session, Get(c, s)
  PROVE  OfferInv'
  <1> DEFINE prior == [x \in DOMAIN op[c].prior \cup {s} |-> IF x = s THEN mode[s] ELSE op[c].prior[x]]
  <1>1. op[c].step = "get" /\ guard = c /\ Remembers(op[c]) /\ Getting(op[c])
    BY Holding DEF Get, At, OrderStep, Remembers
  <1>2. /\ op' = [op EXCEPT ![c] = [[op[c] EXCEPT !.todo = op[c].todo \ {s}] EXCEPT !.prior = prior]]
        /\ s \in op[c].todo /\ UNCHANGED <<up, mode, order, touched, guard>>
    BY DEF Get, Proceeds, ordering
  <1> HIDE DEF prior
  <1>3. op'[c] = [step |-> "get", to |-> op[c].to, todo |-> op[c].todo \ {s}, prior |-> prior]
    BY <1>1, <1>2 DEF Getting, OfferInv, BusyInv
  <1>4. DOMAIN prior = DOMAIN op[c].prior \cup {s}
        /\ \A x \in DOMAIN prior : prior[x] = IF x = s THEN mode[s] ELSE op[c].prior[x]
    BY DEF prior
  <1>5. Getting(op[c])'
    BY <1>1, <1>2, <1>3, <1>4 DEF Getting, Agree
  <1>6. Remembers(op[c])' /\ OrderTypes'
    BY <1>1, <1>2, <1>3, <1>5 DEF Remembers, OfferInv, OrderTypes, OrderStep
  <1>7. op'[c].step \in OrderStep
    BY <1>3 DEF OrderStep
  <1>8. QED
    BY <1>1, <1>2, <1>6, <1>7, OrderingStep DEF Order

LEMMA PreflightOrder ==
  ASSUME OfferInv, NEW c \in Client, GetFails(c) \/ Preflight(c)
  PROVE  OfferInv'
  <1>1. op[c].step = "get" /\ guard = c /\ Remembers(op[c]) /\ Getting(op[c])
    BY Holding DEF GetFails, Preflight, At, OrderStep, Remembers
  <1>2. CASE GivesUp(c)
    BY <1>1, <1>2, GivingUp DEF Getting, Order
  <1>3. CASE Preflight(c) /\ ~GivesUp(c)
    <2> DEFINE prior == op[c].prior
               todo == {s \in DOMAIN prior : prior[s] # op[c].to}
    <2>1. /\ op[c].todo = {} /\ \A s \in DOMAIN prior : prior[s] = order.mode
          /\ op'[c] = [step |-> "set", to |-> op[c].to, prior |-> prior, tried |-> {}, todo |-> todo]
          /\ UNCHANGED <<up, mode, order, touched, guard>>
      BY <1>3 DEF Preflight, Proceeds, OfferInv, BusyInv, ordering
    <2>2. op'[c].step = "set" /\ op'[c].to = op[c].to /\ op'[c].prior = prior /\ op'[c].todo = todo
      BY <2>1
    <2>3. order.available /\ DOMAIN prior \subseteq Session
          /\ (~touched => DOMAIN prior = up /\ \A s \in DOMAIN prior : prior[s] = mode[s])
      BY <1>1, <2>1 DEF Getting
    <2>4. Setting(op[c])'
      BY <2>1, <2>2, <2>3 DEF Setting, Preflown
    <2>5. Remembers(op[c])' /\ OrderTypes' /\ op'[c].step \in OrderStep
      BY <1>1, <2>1, <2>2, <2>4 DEF Remembers, OfferInv, OrderTypes, OrderStep
    <2>6. QED
      BY <1>1, <1>3, <2>1, <2>5, OrderingStep DEF Order
  <1>4. QED
    BY <1>2, <1>3 DEF GetFails

\* A call to a session changes that session at most, and to what was asked.
LEMMA Calling ==
  ASSUME OrderTypes, NEW s \in Session, NEW m \in Mode, NEW done, Call(s, m, done)
  PROVE  /\ OrderTypes' /\ UNCHANGED <<up, order, guard, heard, touched>>
         /\ \A x \in Session : mode'[x] = mode[x] \/ (x = s /\ mode'[x] = m)
         /\ done => mode'[s] = m
  BY DEF OrderTypes, Call

LEMMA SetsOrder ==
  ASSUME OfferInv, NEW c \in Client, NEW s \in Session, Set(c, s) \/ SetFails(c, s)
  PROVE  OfferInv'
  <1>1. /\ op[c].step = "set" /\ guard = c /\ Remembers(op[c]) /\ Setting(op[c])
        /\ s \in op[c].todo /\ op[c].to \in Mode
    BY Holding DEF Set, SetFails, At, OrderStep, Remembers
  <1>2. CASE Set(c, s)
    <2>1. op' = [op EXCEPT ![c] = [op[c] EXCEPT !.todo = op[c].todo \ {s},
       !.tried = op[c].tried \cup {s}]]
      BY <1>2 DEF Set, Proceeds
    <2>2. op'[c] = [step |-> "set", to |-> op[c].to, prior |-> op[c].prior,
                    tried |-> op[c].tried \cup {s}, todo |-> op[c].todo \ {s}]
      BY <1>1, <2>1 DEF Setting, OfferInv, BusyInv
    <2>3. /\ OrderTypes' /\ UNCHANGED <<up, order, guard, touched>>
          /\ \A x \in Session : mode'[x] = mode[x] \/ (x = s /\ mode'[x] = op[c].to)
          /\ mode'[s] = op[c].to
      BY <1>1, <1>2, Calling DEF Set, OfferInv
    <2>4. Setting(op[c])'
      <3>1. Preflown(op[c])' /\ (op[c].tried \cup op[c].todo \subseteq DOMAIN op[c].prior)'
        BY <1>1, <2>2, <2>3 DEF Setting, Preflown
      <3>2. (~touched => \A x \in DOMAIN op[c].prior \ op[c].todo : mode[x] = op[c].to)'
        BY <1>1, <2>2, <2>3 DEF Setting, Preflown
      <3>3. QED
        BY <2>2, <3>1, <3>2 DEF Setting
    <2>5. Remembers(op[c])' /\ op'[c].step \in OrderStep
      BY <1>1, <2>2, <2>4 DEF Remembers, OrderStep
    <2>6. QED
      BY <1>1, <1>2, <2>3, <2>5, OrderingStep DEF Order
  <1>3. CASE SetFails(c, s)
    <2>1. op'[c] = [step |-> "undo", to |-> op[c].to, prior |-> op[c].prior,
                    todo |-> op[c].tried \cup {s}, clean |-> TRUE]
      BY <1>3 DEF SetFails, Proceeds, OfferInv, BusyInv
    <2>2. OrderTypes' /\ UNCHANGED <<up, order, guard, touched>>
      BY <1>1, <1>3, Calling DEF SetFails, OfferInv
    <2>3. Undoing(op[c])'
      BY <1>1, <2>1, <2>2 DEF Setting, Undoing, Preflown
    <2>4. Remembers(op[c])' /\ op'[c].step \in OrderStep
      BY <1>1, <2>1, <2>3 DEF Remembers, OrderStep
    <2>5. QED
      BY <1>1, <1>3, <2>2, <2>4, OrderingStep DEF Order
  <1>4. QED
    BY <1>2, <1>3

LEMMA UndoesOrder ==
  ASSUME OfferInv, NEW c \in Client, NEW s \in Session, NEW done \in BOOLEAN, Undo(c, s, done)
  PROVE  OfferInv'
  <1> DEFINE rest == op[c].todo \ {s}
             todo == IF rest = {} THEN DOMAIN op[c].prior ELSE rest
             step == IF rest = {} THEN "verify" ELSE "undo"
             clean == op[c].clean /\ done
  <1>1. /\ op[c].step = "undo" /\ guard = c /\ Remembers(op[c]) /\ Undoing(op[c])
        /\ s \in op[c].todo /\ op[c].to \in Mode
    BY Holding DEF Undo, At, OrderStep, Remembers
  <1>2. op' = [op EXCEPT ![c] = [op[c] EXCEPT !.todo = todo, !.step = step, !.clean = clean]]
    BY DEF Undo, Proceeds
  <1>3. todo \subseteq DOMAIN op[c].prior /\ clean \in BOOLEAN
        /\ step \in {"undo", "verify"} /\ (step = "verify" => todo = DOMAIN op[c].prior)
    BY <1>1 DEF Undoing
  <1> HIDE DEF rest, todo, step, clean
  <1>4. op'[c] = [step |-> step, to |-> op[c].to, prior |-> op[c].prior, todo |-> todo, clean |-> clean]
    BY <1>1, <1>2 DEF Undoing, OfferInv, BusyInv
  <1>5. op[c].prior[s] \in Mode
    BY <1>1 DEF Undoing, Preflown, OfferInv, OrderTypes, OrderSnapshot
  <1>6. OrderTypes' /\ UNCHANGED <<up, order, guard, touched>>
    BY <1>5, Calling DEF Undo, OfferInv
  <1>7. Undoing(op[c])'
    BY <1>1, <1>3, <1>4, <1>6 DEF Undoing, Preflown
  <1>8. Remembers(op[c])' /\ op'[c].step \in OrderStep
    BY <1>1, <1>3, <1>4, <1>7 DEF Remembers, OrderStep
  <1>9. QED
    BY <1>1, <1>6, <1>8, OrderingStep DEF Order

LEMMA VerifiesOrder ==
  ASSUME OfferInv, NEW c \in Client, NEW s \in Session, NEW asFound \in BOOLEAN, Verify(c, s, asFound)
  PROVE  OfferInv'
  <1> DEFINE todo == op[c].todo \ {s}
             clean == op[c].clean /\ asFound
  <1>1. /\ op[c].step = "verify" /\ guard = c /\ Remembers(op[c]) /\ Undoing(op[c])
        /\ s \in op[c].todo /\ op[c].to \in Mode
    BY Holding DEF Verify, At, OrderStep, Remembers
  <1>2. op' = [op EXCEPT ![c] = [op[c] EXCEPT !.todo = todo, !.clean = clean]]
        /\ UNCHANGED <<up, mode, order, guard, touched>>
    BY DEF Verify, Proceeds, ordering
  <1>3. todo \subseteq DOMAIN op[c].prior /\ clean \in BOOLEAN
    BY <1>1 DEF Undoing
  <1>4. clean /\ ~touched => \A x \in DOMAIN op[c].prior \ todo : mode[x] = op[c].prior[x]
    BY <1>1 DEF Undoing, Verify
  <1> HIDE DEF todo, clean
  <1>5. op'[c] = [step |-> "verify", to |-> op[c].to, prior |-> op[c].prior, todo |-> todo,
     clean |-> clean]
    BY <1>1, <1>2 DEF Undoing, OfferInv, BusyInv
  <1>6. Undoing(op[c])'
    <2>1. Preflown(op[c])'
      BY <1>1, <1>2, <1>5 DEF Undoing, Preflown
    <2>2. clean /\ ~touched' =>
             \A x \in DOMAIN op[c].prior \ todo : mode'[x] = op[c].prior[x]
      BY <1>2, <1>4
    <2>3. QED
      BY <1>3, <1>5, <2>1, <2>2 DEF Undoing
  <1>7. Remembers(op[c])' /\ OrderTypes' /\ op'[c].step \in OrderStep
    BY <1>1, <1>2, <1>5, <1>6 DEF Remembers, OfferInv, OrderTypes, OrderStep
  <1>8. QED
    BY <1>1, <1>2, <1>7, OrderingStep DEF Order

\* A command that is through offers what it set, and one that failed only what
\* every session was found to have.
LEMMA EndsOrder ==
  ASSUME OfferInv, NEW c \in Client, Unwind(c) \/ Commit(c)
  PROVE  OfferInv'
  <1>1. guard = c /\ Remembers(op[c])
    BY Holding DEF Unwind, Commit, At, OrderStep
  <1>2. op'[c] = Idle /\ guard' = "free" /\ UNCHANGED <<up, mode, touched>>
    BY DEF Unwind, Commit, Answers, Release, OfferInv, BusyInv
  <1>3. Remembers(op[c])' /\ op'[c].step \notin OrderStep
    BY <1>2 DEF Remembers, Idle, OrderStep
  <1>4. OrderTypes' /\ Agree'
    <2>1. CASE Commit(c)
      <3>1. op[c].todo = {} /\ Setting(op[c]) /\ op[c].to \in Mode
            /\ order' = [available |-> TRUE, mode |-> op[c].to]
        BY <1>1, <2>1 DEF Commit, At, Remembers, OrderStep
      <3>2. QED
        BY <1>2, <3>1 DEF Setting, Preflown, OfferInv, OrderTypes, OrderSnapshot, Agree
    <2>2. CASE Unwind(c)
      <3>1. op[c].step = "verify" /\ op[c].todo = {} /\ Undoing(op[c])
            /\ order' = IF op[c].clean THEN order ELSE NoOrder
        BY <1>1, <2>2 DEF Unwind, At, Remembers, OrderStep, OfferLeft
      <3>2. CASE op[c].clean
        BY <1>2, <3>1, <3>2 DEF Undoing, Preflown, OfferInv, OrderTypes, Agree
      <3>3. CASE ~op[c].clean
        BY <1>2, <3>1, <3>3 DEF OfferInv, OrderTypes, OrderSnapshot, Agree, NoOrder, Mode
      <3>4. QED
        BY <3>2, <3>3
    <2>3. QED
      BY <2>1, <2>2
  <1>5. Order(c)
    BY DEF Order
  <1>6. QED
    BY <1>1, <1>2, <1>3, <1>4, <1>5, OrderingStep

\* The reconciliation holds the lock while it reads, so nothing of a command changes.
LEMMA RefreshKeepsOrder ==
  ASSUME OfferInv, Refresh
  PROVE  OfferInv'
  <1>1. UNCHANGED <<op, reader, up, mode, touches>> /\ BusyInv'
    BY DEF Refresh, RefreshBegins, RefreshReads, RefreshCommits, sessions, OfferInv, BusyInv
  <1>2. \A c \in Client : c # "free" /\ c # "loop"
    BY OrderAssumption
  <1>3. guard \in {"free", "loop"} /\ guard' \in {"free", "loop"}
    BY DEF Refresh, RefreshBegins, RefreshReads, RefreshCommits
  <1>4. \A c \in Client : op[c].step \notin OrderStep
    BY <1>2, <1>3 DEF OfferInv, LockInv
  <1>5. LockInv' /\ \A c \in Client : Remembers(op[c])'
    BY <1>1, <1>2, <1>3, <1>4 DEF LockInv, Remembers, OrderStep
  <1>6. OrderTypes' /\ ReadInv' /\ (guard = "free" => Agree)'
    <2>1. CASE RefreshBegins
      BY <1>1, <2>1 DEF RefreshBegins, OfferInv, OrderTypes, ReadInv
    <2>2. ASSUME NEW s \in Session, RefreshReads(s)
          PROVE  OrderTypes' /\ ReadInv' /\ (guard = "free" => Agree)'
      <3>1. OrderTypes' /\ guard' = "loop" /\ UNCHANGED touched
        BY <1>1, <2>2 DEF RefreshReads, OfferInv, OrderTypes
      <3>2. ReadInv'
        BY <1>1, <2>2, <3>1 DEF RefreshReads, OfferInv, ReadInv
      <3>3. QED
        BY <3>1, <3>2
    <2>3. CASE RefreshCommits
      <3>1. order' = NoOrder \/ \E m \in Agreed : order' = [available |-> TRUE, mode |-> m]
        BY <2>3 DEF RefreshCommits
      <3>2. OrderTypes'
        <4>1. order' \in OrderSnapshot
          <5>1. NoOrder \in OrderSnapshot /\ \A m \in Mode : [available |-> TRUE,
             mode |-> m] \in OrderSnapshot
            BY DEF OrderSnapshot, NoOrder, Mode
          <5>2. Agreed \subseteq Mode
            BY DEF Agreed
          <5>3. QED
            BY <3>1, <5>1, <5>2
        <4>2. QED
          BY <1>1, <4>1 DEF OfferInv, OrderTypes
      <3>3. guard = "loop" /\ guard' = "free" /\ UNCHANGED touched
        BY <2>3 DEF RefreshCommits
      <3>4. ASSUME ~touched, NEW m \in Agreed
            PROVE  \A s \in up : mode[s] = m
        BY <3>3, <3>4 DEF OfferInv, ReadInv, Agreed, Mode
      <3>5. Agree'
        BY <1>1, <3>1, <3>3, <3>4 DEF Agree, NoOrder
      <3>6. QED
        BY <3>2, <3>3, <3>5 DEF ReadInv
    <2>4. QED
      BY <2>1, <2>2, <2>3 DEF Refresh
  <1>7. QED
    BY <1>1, <1>5, <1>6 DEF OfferInv

\* After a change made elsewhere nothing is claimed until the next reconciliation.
LEMMA HerdrKeepsOrder ==
  ASSUME OfferInv, Herdr
  PROVE  OfferInv'
  <1>1. UNCHANGED <<op, reader, order, guard, heard>> /\ touched' = TRUE
    BY DEF Herdr, SessionTurns, UserOrders, Touch, sessions
  <1>2. OrderTypes'
    <2>1. PICK s \in Session : SessionTurns(s) \/ \E m \in Mode : UserOrders(s, m)
      BY OrderAssumption DEF Herdr
    <2>2. CASE SessionTurns(s)
      BY <2>2, <1>1 DEF SessionTurns, OfferInv, OrderTypes
    <2>3. ASSUME NEW m \in Mode, UserOrders(s, m)
          PROVE  OrderTypes'
      BY <2>3, <1>1 DEF UserOrders, OfferInv, OrderTypes
    <2>4. QED
      BY <2>1, <2>2, <2>3
  <1>3. BusyInv' /\ LockInv' /\ ReadInv' /\ Agree'
    BY <1>1 DEF OfferInv, BusyInv, LockInv, ReadInv, Agree
  <1>4. ASSUME NEW c \in Client
        PROVE  Remembers(op[c])'
    BY <1>1 DEF OfferInv, Remembers, Getting, Setting, Undoing, Preflown, Agree
  <1>5. QED
    BY <1>2, <1>3, <1>4 DEF OfferInv

LEMMA OrderKeepsOrder ==
  ASSUME OfferInv, NEW c \in Client, Order(c)
  PROVE  OfferInv'
  <1>1. \/ TakeGuard(c) \/ Gated(c) \/ Discover(c)
        \/ GetFails(c) \/ Preflight(c)
        \/ Unwind(c) \/ Commit(c)
        \/ \E s \in Session : Get(c, s) \/ Set(c, s) \/ SetFails(c, s)
        \/ \E s \in Session, ok \in BOOLEAN : Undo(c, s, ok) \/ Verify(c, s, ok)
    BY DEF Order
  <1>2. QED
    BY <1>1, BeginsOrder, PreflightOrder, GetsOrder, SetsOrder, UndoesOrder, VerifiesOrder, EndsOrder

LEMMA OfferStep ==
  ASSUME OfferInv, [Next]_vars
  PROVE  OfferInv'
  <1>1. ASSUME NEW c \in Client, Order(c)
        PROVE  OfferInv'
    BY <1>1, OrderKeepsOrder
  <1>2. ASSUME NEW c \in Client, Handle(c), UNCHANGED ordering
        PROVE  OfferInv'
    BY <1>2, HandleSteps, HandleIsNoOrder, OthersOrder DEF OfferInv
  <1>3. ASSUME NEW c \in Client, Desktop(c), UNCHANGED ordering
        PROVE  OfferInv'
    <2>1. BusyInv' /\ \A x \in Client \ {c} : op'[x] = op[x]
      BY <1>3, WorksSteps DEF OfferInv
    <2>2. QED
      BY <1>3, <2>1, DesktopIsNoOrder, OthersOrder DEF OfferInv
  <1>4. CASE UNCHANGED <<reader, op, ordering>>
    BY <1>4, OthersOrder DEF OfferInv, BusyInv
  <1>5. ASSUME NEW c \in Client, Portal(c), UNCHANGED ordering
        PROVE  OfferInv'
    BY <1>4, <1>5 DEF Portal, Ask, PeerCloses, PeerBreaks
  <1>6. CASE Refresh \/ Herdr
    BY <1>6, RefreshKeepsOrder, HerdrKeepsOrder
  <1>7. CASE Compositor /\ UNCHANGED ordering
    BY <1>4, <1>7 DEF Compositor, Remember, Ages, sessions
  <1>8. CASE UNCHANGED vars
    BY <1>4, <1>8 DEF vars, sessions
  <1>9. QED
    BY <1>1, <1>2, <1>3, <1>5, <1>6, <1>7, <1>8 DEF Next, Serve

LEMMA OfferInit == Init => OfferInv
  <1> SUFFICES ASSUME Init PROVE OfferInv
    OBVIOUS
  <1>1. BusyInv /\ \A c \in Client : op[c] = Idle
    BY DEF Init, SessionInit, BusyInv
  <1>2. OrderTypes /\ ReadInv /\ Agree /\ guard = "free"
    BY DEF Init, OrderInit, OrderTypes, OrderSnapshot, NoOrder, Mode, ReadInv, Agree
  <1>3. LockInv
    BY <1>1, <1>2, OrderAssumption DEF LockInv, Idle, OrderStep
  <1>4. ASSUME NEW c \in Client
        PROVE  Remembers(op[c])
    <2>1. op[c].step = "idle"
      BY <1>1 DEF Idle
    <2>2. QED
      BY <2>1 DEF Remembers, OrderStep
  <1>5. QED
    BY <1>1, <1>2, <1>3, <1>4 DEF OfferInv

\* Whichever calls of a command fail, and whatever those did, an ordering offered while
\* nothing is under way is the one every running session has, unless Herdr was changed
\* from elsewhere since the last reconciliation began.
THEOREM OfferedOrderIsHerdrs == Spec => []OfferedModeIsHerdrs
  <1>1. OfferInv /\ [Next]_vars => OfferInv'
    BY OfferStep
  <1>2. OfferInv => OfferedModeIsHerdrs
    BY DEF OfferInv, OfferedModeIsHerdrs, Agree
  <1>3. QED
    BY <1>1, <1>2, OfferInit, PTL DEF Spec
----------------------------------------------------------------------------
(* The promise of the ordering                                              *)

KeepsLock == [Lock!Next]_(Lock!vars)

\* A step that leaves the offer, the lock and what its holder wants alone.
LEMMA LockStands ==
  ASSUME UNCHANGED <<order, guard>>,
         guard \in Client => op'[guard].to = op[guard].to
  PROVE  KeepsLock
  BY DEF KeepsLock, Lock!vars

\* A step of the command that holds the lock, which it keeps.
LEMMA LockHeld ==
  ASSUME OfferInv, NEW c \in Client, op[c].step \in OrderStep,
         UNCHANGED ordering \/ UNCHANGED <<order, guard>>,
         op'[c].to = op[c].to
  PROVE  KeepsLock
  BY LockStands, Holding DEF ordering

\* The end of a command that leaves the offer as it is.
LEMMA LockGivenUp ==
  ASSUME OfferInv, NEW c \in Client, op[c].step \in OrderStep, GivesUp(c)
  PROVE  KeepsLock
  <1>1. guard = c /\ guard' = "free" /\ UNCHANGED order /\ "free" \notin Client
    BY Holding, OrderAssumption DEF GivesUp, Release
  <1>2. Lock!Done(c)
    BY <1>1 DEF Lock!Done
  <1>3. QED
    BY <1>2 DEF KeepsLock, Lock!Next

LEMMA LockOrder ==
  ASSUME OfferInv, NEW c \in Client, Order(c)
  PROVE  KeepsLock
  <1> op \in [Client -> {op[x] : x \in Client}]
    BY DEF OfferInv, BusyInv
  <1>1. CASE TakeGuard(c)
    <2>1. /\ guard = "free" /\ guard' = c /\ UNCHANGED order /\ "free" \notin Client
          /\ op'[c] = [step |-> "discover", to |-> ModeOf(op[c].step)]
      BY <1>1, OrderAssumption DEF TakeGuard, Proceeds
    <2>2. ModeOf(op[c].step) \in Mode
      BY DEF ModeOf, Mode
    <2>3. Lock!Take(c, ModeOf(op[c].step))
      BY <2>1 DEF Lock!Take
    <2>4. QED
      BY <2>2, <2>3 DEF KeepsLock, Lock!Next
  <1>2. CASE Gated(c) \/ GetFails(c)
    BY <1>2, LockGivenUp DEF Gated, GetFails, At, OrderStep
  <1>3. CASE Discover(c)
    <2>1. op[c].step = "discover" /\ op'[c].to = op[c].to /\ UNCHANGED ordering
      BY <1>3 DEF Discover, At, Proceeds
    <2>2. QED
      BY <2>1, LockHeld DEF OrderStep
  <1>4. CASE Preflight(c)
    <2>1. CASE GivesUp(c)
      BY <1>4, <2>1, LockGivenUp DEF Preflight, At, OrderStep
    <2>2. CASE ~GivesUp(c)
      <3>1. op[c].step = "get" /\ op'[c].to = op[c].to /\ UNCHANGED ordering
        BY <1>4, <2>2 DEF Preflight, At, Proceeds
      <3>2. QED
        BY <3>1, LockHeld DEF OrderStep
    <2>3. QED
      BY <2>1, <2>2
  <1>5. ASSUME NEW s \in Session, Get(c, s)
        PROVE  KeepsLock
    <2>1. op[c].step = "get" /\ UNCHANGED ordering
      BY <1>5 DEF Get, At
    <2>2. Getting(op[c])
      BY <2>1, Holding DEF OrderStep, Remembers
    <2>3. op'[c].to = op[c].to
      BY <1>5, <2>2 DEF Get, Proceeds, Getting
    <2>4. QED
      BY <2>1, <2>3, LockHeld DEF OrderStep
  <1>6. ASSUME NEW s \in Session, Set(c, s) \/ SetFails(c, s)
        PROVE  KeepsLock
    <2>1. op[c].step = "set" /\ UNCHANGED <<order, guard>>
      BY <1>6 DEF Set, SetFails, At, Call
    <2>2. Setting(op[c])
      BY <2>1, Holding DEF OrderStep, Remembers
    <2>3. op'[c].to = op[c].to
      <3>1. CASE Set(c, s)
        <4>1. op'[c] = [op[c] EXCEPT !.todo = op[c].todo \ {s}, !.tried = op[c].tried \cup {s}]
          BY <3>1 DEF Set, Proceeds
        <4>2. QED
          BY <2>2, <4>1 DEF Setting
      <3>2. CASE SetFails(c, s)
        BY <3>2 DEF SetFails, Proceeds
      <3>3. QED
        BY <1>6, <3>1, <3>2
    <2>4. QED
      BY <2>1, <2>3, LockHeld DEF OrderStep
  <1>7. ASSUME NEW s \in Session, NEW ok \in BOOLEAN, Undo(c, s, ok) \/ Verify(c, s, ok)
        PROVE  KeepsLock
    <2>1. op[c].step \in {"undo", "verify"} /\ UNCHANGED <<order, guard>>
      BY <1>7 DEF Undo, Verify, At, Call, ordering
    <2>2. Undoing(op[c])
      BY <2>1, Holding DEF OrderStep, Remembers
    <2>3. op'[c].to = op[c].to
      <3>1. CASE Undo(c, s, ok)
        BY <2>2, <3>1 DEF Undo, Proceeds, Undoing
      <3>2. CASE Verify(c, s, ok)
        BY <2>2, <3>2 DEF Verify, Proceeds, Undoing
      <3>3. QED
        BY <1>7, <3>1, <3>2
    <2>4. QED
      BY <2>1, <2>3, LockHeld DEF OrderStep
  <1>8. CASE Unwind(c) \/ Commit(c)
    <2>1. op[c].step \in {"set", "verify"} /\ guard' = "free"
          /\ \/ UNCHANGED order
             \/ order' \in {[available |-> TRUE, mode |-> op[c].to], NoOrder}
      BY <1>8 DEF Unwind, Commit, At, Release, OfferLeft
    <2>2. guard = c /\ op[c].to \in Mode /\ order.available /\ "free" \notin Client
      BY <2>1, Holding, OrderAssumption DEF OrderStep, Remembers, Setting, Undoing, Preflown
    <2>3. Lock!Done(c)
      BY <2>1, <2>2 DEF Lock!Done, Lock!Offered, Lock!NoOffer, NoOrder, Mode
    <2>4. QED
      BY <2>3 DEF KeepsLock, Lock!Next
  <1>9. QED
    BY <1>1, <1>2, <1>3, <1>4, <1>5, <1>6, <1>7, <1>8 DEF Order

LEMMA LockRefresh ==
  ASSUME OfferInv, Refresh
  PROVE  KeepsLock
  <1>1. UNCHANGED op /\ OrderTypes' /\ "free" \notin Client /\ "loop" \notin Client
    BY RefreshKeepsOrder, OrderAssumption DEF Refresh, sessions, OfferInv
  <1>2. CASE RefreshBegins
    <2>1. Lock!Reconcile
      BY <1>1, <1>2 DEF RefreshBegins, Lock!Reconcile
    <2>2. QED
      BY <2>1 DEF KeepsLock, Lock!Next
  <1>3. CASE RefreshCommits
    <2>1. order' \in Lock!Offers
      BY <1>1 DEF OrderTypes, OrderSnapshot, Lock!Offers
    <2>2. Lock!Reconciled
      BY <1>1, <1>3, <2>1 DEF RefreshCommits, Lock!Reconciled
    <2>3. QED
      BY <2>2 DEF KeepsLock, Lock!Next
  <1>4. ASSUME NEW s \in Session, RefreshReads(s)
        PROVE  KeepsLock
    BY <1>1, <1>4, LockStands DEF RefreshReads
  <1>5. QED
    BY <1>2, <1>3, <1>4 DEF Refresh

LEMMA LockKept ==
  ASSUME OfferInv, [Next]_vars
  PROVE  KeepsLock
  <1>1. ASSUME NEW c \in Client, Handle(c), UNCHANGED ordering
        PROVE  KeepsLock
    <2>1. guard \in Client => op'[guard] = op[guard]
      BY <1>1, HandleIsNoOrder DEF OfferInv, LockInv
    <2>2. QED
      BY <1>1, <2>1, LockStands DEF ordering
  <1>2. ASSUME NEW c \in Client, Desktop(c), UNCHANGED ordering
        PROVE  KeepsLock
    <2>1. \A x \in Client \ {c} : op'[x] = op[x]
      BY <1>2, WorksSteps DEF OfferInv
    <2>2. guard # c
      BY <1>2, DesktopIsNoOrder DEF OfferInv, LockInv
    <2>3. QED
      BY <1>2, <2>1, <2>2, LockStands DEF ordering
  <1>3. CASE UNCHANGED <<op, order, guard>>
    BY <1>3, LockStands
  <1>4. CASE (\E c \in Client : Portal(c)) /\ UNCHANGED ordering
    BY <1>3, <1>4 DEF Portal, Ask, PeerCloses, PeerBreaks, ordering
  <1>5. CASE Herdr
    BY <1>3, <1>5 DEF Herdr, SessionTurns, UserOrders, sessions
  <1>6. CASE Compositor /\ UNCHANGED ordering
    BY <1>3, <1>6 DEF Compositor, Remember, Ages, sessions, ordering
  <1>7. CASE UNCHANGED vars
    BY <1>3, <1>7 DEF vars, sessions, ordering
  <1>8. QED
    BY <1>1, <1>2, <1>4, <1>5, <1>6, <1>7, LockOrder, LockRefresh DEF Next, Serve

\* However the calls of a command to the sessions interleave with users, fail and are set
\* back, the portals see one step: the offer asked for, the one before, or none.
THEOREM HerdrOrdersAsPromised == Spec => OrdersAsPromised
  <1>1. Init => Lock!Init
    BY OrderAssumption DEF Init, OrderInit, Lock!Init, Lock!NoOffer, NoOrder
  <1>2. OfferInv /\ [Next]_vars => KeepsLock
    BY LockKept
  <1>3. OfferInv /\ [Next]_vars => OfferInv'
    BY OfferStep
  <1>4. QED
    BY <1>1, <1>2, <1>3, OfferInit, PTL DEF Spec, OrdersAsPromised, KeepsLock, Lock!Spec
----------------------------------------------------------------------------
(* The focus history                                                        *)

\* No window has two places, and one without a place has none.
HistoryInv ==
    /\ recent \in Seq(Window) /\ unranked \subseteq Window
    /\ \A i, j \in DOMAIN recent : recent[i] = recent[j] => i = j
    /\ Ranked \cap unranked = {}

Distinct(q) == \A i, j \in 1..Len(q) : q[i] = q[j] => i = j
Members(q) == {q[i] : i \in 1..Len(q)}

\* What is left of the history without a window.
LEMMA LeftWithout ==
  ASSUME HistoryInv, NEW w
  PROVE  /\ Without(w) \in Seq(Window) /\ Distinct(Without(w))
         /\ Members(Without(w)) = Ranked \ {w}
  <1>1. Len(recent) \in Nat /\ DOMAIN recent = 1..Len(recent) /\ \A i \in 1..Len(recent) : recent[i] \in Window
    BY LenProperties, ElementOfSeq DEF HistoryInv
  <1>2. CASE w \notin Ranked
    BY <1>1, <1>2 DEF Without, Ranked, HistoryInv, Distinct, Members
  <1>3. CASE w \in Ranked
    <2> DEFINE k == Place(w)
               n == Len(recent)
               front == SubSeq(recent, 1, k - 1)
               back == SubSeq(recent, k + 1, n)
    <2>1. k \in 1..n /\ recent[k] = w
      BY <1>1, <1>3 DEF Place, Ranked
    <2>2. n \in Nat
      BY <1>1
    <2>3. Without(w) = front \o back
      BY <1>3 DEF Without
    <2> HIDE DEF k
    <2>4. /\ front \in Seq(Window) /\ Len(front) = k - 1
          /\ \A i \in 1..k - 1 : front[i] = recent[i]
      BY <1>1, <2>1, SubSeqProperties
    <2>5. /\ back \in Seq(Window) /\ Len(back) = n - k
          /\ \A i \in 1..n - k : back[i] = recent[k + i]
      <3>1. k + 1 \in Int /\ n \in Int /\ \A i \in k + 1..n : recent[i] \in Window
        BY <1>1, <2>1
      <3>2. /\ back \in Seq(Window) /\ Len(back) = IF k + 1 <= n THEN n - (k + 1) + 1 ELSE 0
            /\ \A i \in 1..n - (k + 1) + 1 : back[i] = recent[k + 1 + i - 1]
        BY <3>1, SubSeqProperties
      <3>3. \A i \in 1..n - k : k + 1 + i - 1 = k + i /\ i \in 1..n - (k + 1) + 1
        BY <2>1, <2>2
      <3>4. QED
        BY <2>1, <2>2, <3>2, <3>3
    <2> HIDE DEF front, back
    <2>6. /\ front \o back \in Seq(Window) /\ Len(front \o back) = n - 1
          /\ \A i \in 1..n - 1 : (front \o back)[i] = IF i < k THEN recent[i] ELSE recent[i + 1]
      <3>1. /\ front \o back \in Seq(Window) /\ Len(front \o back) = Len(front) + Len(back)
            /\ \A i \in 1..Len(front) + Len(back) :
                  (front \o back)[i] = IF i <= Len(front) THEN front[i] ELSE back[i - Len(front)]
        BY <2>4, <2>5, ConcatProperties
      <3>2. Len(front) + Len(back) = n - 1
        BY <2>1, <2>2, <2>4, <2>5
      <3>3. ASSUME NEW i \in 1..n - 1
            PROVE  (front \o back)[i] = IF i < k THEN recent[i] ELSE recent[i + 1]
        <4>1. CASE i < k
          BY <2>1, <2>2, <2>4, <3>1, <3>2, <4>1
        <4>2. CASE ~(i < k)
          <5>1. i - Len(front) \in 1..n - k /\ k + (i - Len(front)) = i + 1
            BY <2>1, <2>2, <2>4, <4>2
          <5>2. (front \o back)[i] = back[i - Len(front)]
            BY <2>1, <2>2, <2>4, <3>1, <3>2, <4>2
          <5>3. back[i - Len(front)] = recent[k + (i - Len(front))]
            BY <2>5, <5>1
          <5>4. QED
            BY <4>2, <5>1, <5>2, <5>3
        <4>3. QED
          BY <4>1, <4>2
      <3>4. QED
        BY <3>1, <3>2, <3>3
    <2> DEFINE q == front \o back
    <2>7. q \in Seq(Window) /\ Len(q) = n - 1 /\ Without(w) = q
          /\ \A i \in 1..n - 1 : q[i] = IF i < k THEN recent[i] ELSE recent[i + 1]
      BY <2>3, <2>6
    <2> HIDE DEF q
    <2>8. Distinct(q)
      BY <1>1, <2>1, <2>2, <2>7 DEF Distinct, HistoryInv
    <2>9. Members(q) = Ranked \ {w}
      <3>1. ASSUME NEW i \in 1..n - 1
            PROVE  q[i] \in Ranked \ {w}
        <4>1. PICK j \in 1..n : q[i] = recent[j] /\ j # k
          <5>1. CASE i < k
            BY <2>1, <2>2, <2>7, <5>1
          <5>2. CASE ~(i < k)
            BY <2>1, <2>2, <2>7, <5>2
          <5>3. QED
            BY <5>1, <5>2
        <4>2. recent[j] # w
          BY <1>1, <2>1, <4>1 DEF HistoryInv
        <4>3. QED
          BY <1>1, <4>1, <4>2 DEF Ranked
      <3>2. ASSUME NEW v \in Ranked \ {w}
            PROVE  v \in Members(q)
        <4>1. PICK i \in 1..n : recent[i] = v
          BY <1>1 DEF Ranked
        <4>2. i # k
          BY <2>1, <4>1
        <4>3. CASE i < k
          <5>1. i \in 1..n - 1 /\ q[i] = v
            BY <2>1, <2>2, <2>7, <4>1, <4>3
          <5>2. QED
            BY <2>7, <5>1 DEF Members
        <4>4. CASE i > k
          <5>1. i - 1 \in 1..n - 1 /\ q[i - 1] = v
            BY <2>1, <2>2, <2>7, <4>1, <4>4
          <5>2. QED
            BY <2>7, <5>1 DEF Members
        <4>5. QED
          BY <2>1, <4>2, <4>3, <4>4
      <3>3. QED
        BY <2>7, <3>1, <3>2 DEF Members
    <2>10. QED
      BY <2>7, <2>8, <2>9
  <1>4. QED
    BY <1>2, <1>3

\* A sequence with one element more in front.
LEMMA PutInFront ==
  ASSUME NEW S, NEW x \in S, NEW q \in Seq(S)
  PROVE  /\ <<x>> \o q \in Seq(S) /\ Len(<<x>> \o q) = Len(q) + 1
         /\ (<<x>> \o q)[1] = x
         /\ \A i \in 2..Len(q) + 1 : (<<x>> \o q)[i] = q[i - 1]
  <1> DEFINE one == <<x>>
  <1>1. one \in Seq(S) /\ Len(one) = 1 /\ one[1] = x
    OBVIOUS
  <1>2. Len(q) \in Nat
    BY LenProperties
  <1> HIDE DEF one
  <1>3. /\ one \o q \in Seq(S) /\ Len(one \o q) = Len(one) + Len(q)
        /\ \A i \in 1..Len(one) + Len(q) :
              (one \o q)[i] = IF i <= Len(one) THEN one[i] ELSE q[i - Len(one)]
    BY <1>1, ConcatProperties
  <1>4. QED
    BY <1>1, <1>2, <1>3 DEF one

\* A window that comes to the front has the first place, and no other.
LEMMA InFront ==
  ASSUME HistoryInv, NEW w \in Window, ToFront(w), unranked' = unranked \ {w}
  PROVE  /\ HistoryInv' /\ Mapped' = Mapped \cup {w}
         /\ w \notin unranked' /\ Place(w)' = 1
         /\ \A v \in Ranked' \ {w} : Place(v)' \in Nat /\ Place(v)' > 1
  <1> DEFINE rest == Without(w)
             n == Len(rest)
  <1>1. rest \in Seq(Window) /\ Distinct(rest) /\ Members(rest) = Ranked \ {w}
    BY LeftWithout
  <1>2. recent' = <<w>> \o rest
    BY DEF ToFront
  <1> HIDE DEF rest
  <1>3. n \in Nat /\ \A i \in 1..n : rest[i] # w
    BY <1>1, LenProperties DEF Members
  <1>4. /\ recent' \in Seq(Window) /\ Len(recent') = n + 1 /\ recent'[1] = w
        /\ \A i \in 2..n + 1 : recent'[i] = rest[i - 1]
    <2>1. rest \in Seq(Window)
      BY <1>1
    <2>2. QED
      BY <1>2, <2>1, PutInFront
  <1>5. DOMAIN recent' = 1..n + 1
    BY <1>4, LenProperties
  <1>6. Ranked' = Ranked \cup {w}
    <2>1. \A i \in 1..n + 1 : recent'[i] \in Members(rest) \cup {w}
      <3>1. ASSUME NEW i \in 1..n + 1, i # 1
            PROVE  recent'[i] \in Members(rest)
        <4>1. i - 1 \in 1..n /\ recent'[i] = rest[i - 1]
          BY <1>3, <1>4, <3>1
        <4>2. QED
          BY <4>1 DEF Members
      <3>2. QED
        BY <1>4, <3>1
    <2>2. ASSUME NEW v \in Members(rest)
          PROVE  v \in Ranked'
      <3>1. PICK i \in 1..n : rest[i] = v
        BY DEF Members
      <3>2. i + 1 \in 1..n + 1 /\ recent'[i + 1] = v
        BY <1>3, <1>4, <3>1
      <3>3. QED
        BY <1>5, <3>2 DEF Ranked
    <2>3. w \in Ranked'
      BY <1>3, <1>4, <1>5 DEF Ranked
    <2>4. QED
      BY <1>1, <1>5, <2>1, <2>2, <2>3 DEF Ranked
  <1>7. \A i, j \in 1..n + 1 : recent'[i] = recent'[j] => i = j
    <2>1. ASSUME NEW i \in 2..n + 1
          PROVE  recent'[i] # w
      BY <1>3, <1>4
    <2>2. ASSUME NEW i \in 2..n + 1, NEW j \in 2..n + 1, recent'[i] = recent'[j]
          PROVE  i = j
      <3>1. i - 1 \in 1..n /\ j - 1 \in 1..n /\ rest[i - 1] = rest[j - 1]
        BY <1>3, <1>4, <2>2
      <3>2. i - 1 = j - 1
        BY <1>1, <3>1 DEF Distinct
      <3>3. QED
        BY <3>2
    <2>3. QED
      BY <1>3, <1>4, <2>1, <2>2
  <1>8. HistoryInv'
    BY <1>4, <1>5, <1>6, <1>7 DEF HistoryInv
  <1>9. Mapped' = Mapped \cup {w} /\ w \notin unranked'
    BY <1>6 DEF Mapped
  <1>10. \A v \in Ranked' : Place(v)' \in 1..n + 1 /\ recent'[Place(v)'] = v
    BY <1>5 DEF Ranked, Place
  <1>11. Place(w)' = 1
    BY <1>3, <1>4, <1>6, <1>7, <1>10
  <1>12. \A v \in Ranked' \ {w} : Place(v)' \in Nat /\ Place(v)' > 1
    BY <1>3, <1>4, <1>10
  <1>13. QED
    BY <1>8, <1>9, <1>11, <1>12
LEMMA OpensKeepsHistory ==
  ASSUME HistoryInv, NEW w \in Window, NEW ranked \in BOOLEAN, Opens(w, ranked)
  PROVE  HistoryInv'
  <1>1. w \notin Ranked /\ w \notin unranked
    BY DEF Opens, Mapped
  <1>2. CASE ranked
    <2>1. ToFront(w) /\ unranked' = unranked \ {w}
      BY <1>1, <1>2 DEF Opens
    <2>2. QED
      BY <2>1, InFront
  <1>3. CASE ~ranked
    BY <1>1, <1>3 DEF Opens, HistoryInv, Ranked
  <1>4. QED
    BY <1>2, <1>3

LEMMA ClosesKeepsHistory ==
  ASSUME HistoryInv, NEW w \in Window, Closes(w)
  PROVE  HistoryInv'
  <1>1. /\ Without(w) \in Seq(Window) /\ Distinct(Without(w))
        /\ Members(Without(w)) = Ranked \ {w}
    BY LeftWithout
  <1>2. recent' = Without(w) /\ unranked' = unranked \ {w}
    BY DEF Closes
  <1>3. DOMAIN recent' = 1..Len(recent')
    BY <1>1, <1>2, LenProperties
  <1>4. QED
    BY <1>1, <1>2, <1>3 DEF HistoryInv, Ranked, Distinct, Members

\* Only a focus moves a window for a command.
LEMMA DesktopHistory ==
  ASSUME BusyInv, NEW c \in Client, Desktop(c)
  PROVE  Focus(c) \/ UNCHANGED <<recent, unranked>>
  BY DEF Desktop, Look, LookFails, Launch, Spawn, LaunchFails, WaitFails, WaitSees, Found, Perform,
     Performed, Activate, ActivateFails, Restore, RestoreFails, FocusFails, Fails, Lists, desktop, windows

LEMMA HistoryStep ==
  ASSUME BusyInv, HistoryInv, [Next]_vars
  PROVE  HistoryInv'
  <1>1. CASE UNCHANGED <<recent, unranked>>
    BY <1>1 DEF HistoryInv, Ranked
  <1>2. ASSUME NEW c \in Client, Focus(c)
        PROVE  HistoryInv'
    <2>1. op[c].window \in Window
      BY <1>2, ElementOfSeq, LenProperties DEF Focus, Mapped, Ranked, HistoryInv
    <2>2. QED
      BY <1>2, <2>1, InFront DEF Focus
  <1>3. ASSUME NEW c \in Client, Serve(c)
        PROVE  HistoryInv'
    BY <1>1, <1>2, <1>3, DesktopHistory DEF Serve, desktop
  <1>4. ASSUME NEW w \in Window, UserFocuses(w)
        PROVE  HistoryInv'
    BY <1>4, InFront DEF UserFocuses
  <1>5. CASE Compositor
    <2>1. \/ \E w \in Window : Closes(w) \/ UserFocuses(w) \/ \E b \in BOOLEAN : Opens(w, b)
          \/ UNCHANGED <<recent, unranked>>
      BY <1>5 DEF Compositor, Remember, Ages, windows
    <2>2. QED
      BY <1>1, <1>4, <2>1, OpensKeepsHistory, ClosesKeepsHistory
  <1>6. QED
    BY <1>1, <1>3, <1>5 DEF Next, vars, desktop

LEMMA HistoryAlways == Spec => []HistoryInv
  <1>1. Init => HistoryInv
    <2> SUFFICES ASSUME Init PROVE HistoryInv
      OBVIOUS
    <2>1. recent = <<>> /\ unranked = {}
      BY DEF Init, DesktopInit
    <2>2. QED
      BY <2>1, LenProperties DEF HistoryInv
  <1>2. BusyInv /\ HistoryInv /\ [Next]_vars => HistoryInv'
    BY HistoryStep
  <1>3. QED
    BY <1>1, <1>2, LaunchAlways, PTL DEF Spec

\* After its focus the chosen window is chosen again: it has the newest place, no window
\* came or went, and no other gained a place.
LEMMA FocusChoosesAgain ==
  ASSUME HistoryInv, NEW c \in Client, NEW a \in App, Focus(c), op[c].window = DesktopChoice(a, History)
  PROVE  DesktopChoice(a, History)' = DesktopChoice(a, History)
  <1> DEFINE hist == History
             again == History'
  <1>1. PICK w : w = op[c].window
    OBVIOUS
  <1>2. w \in Mapped /\ ToFront(w) /\ unranked' = unranked \ {w}
    BY <1>1 DEF Focus
  <1>3. Mapped \subseteq Window
    BY ElementOfSeq, LenProperties DEF Mapped, Ranked, HistoryInv
  <1>4. /\ HistoryInv' /\ Mapped' = Mapped \cup {w}
        /\ w \notin unranked' /\ Place(w)' = 1
        /\ \A v \in Ranked' \ {w} : Place(v)' \in Nat /\ Place(v)' > 1
    BY <1>2, <1>3, InFront
  <1>5. DOMAIN hist = Mapped /\ DOMAIN again = Mapped
    BY <1>2, <1>4 DEF History
  <1>6. w = DesktopChoice(a, hist)
    BY <1>1
  <1>7. again[w] = 0
    <2>1. w \in Mapped'
      BY <1>2, <1>4
    <2>2. again[w] = Place(w)' - 1
      BY <1>4, <2>1 DEF History
    <2>3. QED
      BY <1>4, <2>2
  <1>8. ASSUME NEW v \in Mapped \ {w}, hist[v] # NoHistory
        PROVE  again[v] \in Nat \ {0}
    <2>1. v \notin unranked /\ v \notin unranked' /\ v \in Mapped'
      BY <1>2, <1>4, <1>8 DEF History
    <2>2. again[v] = Place(v)' - 1
      BY <2>1 DEF History
    <2>3. v \in Ranked' \ {w}
      BY <2>1 DEF Mapped
    <2>4. QED
      BY <1>4, <2>2, <2>3
  <1>9. DesktopChoice(a, hist) \notin {Nothing, Ambiguous}
    BY <1>2, <1>3, <1>6, WindowAssumption
  <1> HIDE DEF hist, again
  <1>10. DesktopChoice(a, again) = DesktopChoice(a, hist)
    BY <1>5, <1>6, <1>7, <1>8, <1>9, ChoiceAgain
  <1>11. DesktopChoice(a, History)' = DesktopChoice(a, History')
    BY DEF DesktopChoice, Pick, Narrow, MostRecent
  <1>12. QED
    BY <1>10, <1>11 DEF hist, again

\* The window focused for an application stays its choice, for any windows, titles and
\* histories: asking again brings up the same window.
THEOREM FocusedWindowStaysTheChoice == Spec => SameWindowAgain
  <1> DEFINE Same == \A c \in Client, a \in App :
                 op[c].step = "focus" /\ recent' # recent /\ op'[c] = Idle
                    /\ op[c].window = Choices[a] => Choices'[a] = Choices[a]
  <1>1. BusyInv /\ HistoryInv /\ [Next]_vars => [Same]_<<sessions, desktop>>
    <2> SUFFICES ASSUME BusyInv, HistoryInv, Next, NEW c \in Client, NEW a \in App,
                        op[c].step = "focus", recent' # recent, op'[c] = Idle,
                        op[c].window = Choices[a]
                 PROVE  Choices'[a] = Choices[a]
      BY DEF vars, sessions, desktop
    <2>1. Idle.step = "idle"
      BY DEF Idle
    <2>2. op'[c] # op[c]
      BY <2>1
    <2>3. PICK x \in Client : Serve(x)
      BY <2>2 DEF Next, Portal, Ask, PeerCloses, PeerBreaks, Refresh, Herdr, Compositor, Remember, Ages,
         sessions, desktop
    <2>4. Desktop(x)
      BY <2>3 DEF Serve, desktop
    <2>5. x = c
      BY <2>2, <2>4, WorksSteps
    <2>6. Focus(c)
      BY <2>4, <2>5, DesktopHistory
    <2>7. DesktopChoice(a, History)' = DesktopChoice(a, History)
      BY <2>6, FocusChoosesAgain DEF Choices
    <2>8. QED
      BY <2>7 DEF Choices
  <1>2. QED
    BY <1>1, LaunchAlways, HistoryAlways, PTL DEF Spec, SameWindowAgain
\* The compositor's order is one of the windows that have a place.
LEMMA HistoryRanks ==
  ASSUME HistoryInv, NEW S, S \subseteq Mapped \ unranked
  PROVE  RanksAll(S, History)
  <1>1. \A w \in Ranked : Place(w) \in DOMAIN recent /\ recent[Place(w)] = w
    BY DEF Ranked, Place
  <1>2. DOMAIN recent \subseteq Nat \ {0}
    BY LenProperties DEF HistoryInv
  <1>3. S \subseteq Ranked
    BY DEF Mapped
  <1>4. \A w \in S : History[w] = Place(w) - 1
    BY DEF History
  <1> HIDE DEF History
  <1>5. \A w \in S : History[w] \in Nat
    BY <1>1, <1>2, <1>3, <1>4
  <1>6. ASSUME NEW v \in S, NEW w \in S, History[v] = History[w]
        PROVE  v = w
    <2>1. Place(v) \in Nat /\ Place(w) \in Nat /\ Place(v) - 1 = Place(w) - 1
      BY <1>1, <1>2, <1>3, <1>4, <1>6
    <2>2. Place(v) = Place(w)
      BY <2>1
    <2>3. QED
      BY <1>1, <1>3, <2>2
  <1>7. QED
    BY <1>5, <1>6 DEF RanksAll

\* A choice is refused as ambiguous only on account of a window without a focus history.
RankedWindowsDecide ==
    /\ \A a \in App : (\A w \in unranked : AppOf[w] # a) => DesktopChoice(a, History) # Ambiguous
    /\ \A s \in HerdrSession : Hosts[s] \cap unranked = {} => HerdrChoice(s, History) # Ambiguous

\* Whatever the user does with windows and whatever is launched and focused, several windows
\* of an application, or of a session, can be told apart once each has been focused.
THEOREM FocusedWindowsDecide == Spec => []RankedWindowsDecide
  <1>1. HistoryInv => RankedWindowsDecide
    <2> SUFFICES ASSUME HistoryInv PROVE RankedWindowsDecide
      OBVIOUS
    <2>1. DOMAIN History = Mapped /\ Mapped \subseteq Window
      BY ElementOfSeq, LenProperties DEF History, Mapped, Ranked, HistoryInv
    <2>2. ASSUME NEW a \in App, \A w \in unranked : AppOf[w] # a
          PROVE  DesktopChoice(a, History) # Ambiguous
      <3> DEFINE S == {w \in DOMAIN History : AppOf[w] = a}
      <3>1. S \subseteq Mapped \ unranked
        BY <2>1, <2>2
      <3>2. RanksAll(S, History)
        BY <3>1, HistoryRanks
      <3>3. QED
        BY <2>1, <3>2, DesktopDecides
    <2>3. ASSUME NEW s \in HerdrSession, Hosts[s] \cap unranked = {}
          PROVE  HerdrChoice(s, History) # Ambiguous
      <3> DEFINE S == DOMAIN History \cap Hosts[s]
      <3>1. S \subseteq Mapped \ unranked
        BY <2>1, <2>3
      <3>2. RanksAll(S, History)
        BY <3>1, HistoryRanks
      <3>3. QED
        BY <2>1, <3>2, HerdrDecides
    <2>4. QED
      BY <2>2, <2>3 DEF RankedWindowsDecide
  <1>2. QED
    BY <1>1, HistoryAlways, PTL
----------------------------------------------------------------------------
(* Type correctness                                                         *)

\* What a command in progress remembers, beyond what the ordering needs of it.
Typed(c) ==
    /\ op[c].step \notin OrderStep => op[c] \in Working \cup {Idle}
    /\ op[c].step = "get" =>
          op[c].todo \subseteq Session /\ \A s \in DOMAIN op[c].prior : op[c].prior[s] \in Mode
    /\ reader[c] = "busy" => op[c].step # "idle"

TypedInv == \A c \in Client : Typed(c)

\* What only the type invariant speaks of.
BoundsInv ==
    /\ left \in [DOMAIN left -> Nat]
    /\ DOMAIN heard \subseteq Session
    /\ \A s \in DOMAIN heard : heard[s] \in Mode \cup {"due", "unread"}
    /\ touches \in 0..MaxTouch /\ touched \in BOOLEAN
    /\ starting \subseteq App /\ remembered \in Window \cup {Nothing}
    /\ moves \in 0..MaxMove

Known == BusyInv /\ OfferInv /\ HistoryInv /\ TypedInv

LEMMA HandleTyped ==
  ASSUME Known, NEW c \in Client, Handle(c)
  PROVE  TypedInv'
  <1>1. CASE Read(c)
    <2> DEFINE l == Head(inbox[c])
    <2>1. /\ reader[c] = "reading"
          /\ reader' = [reader EXCEPT ![c] = IF Valid(l) THEN "busy" ELSE "sending"]
          /\ op' = [op EXCEPT ![c] = IF Valid(l) THEN [step |-> l.action] ELSE Idle]
      BY <1>1 DEF Read
    <2>2. Valid(l) => l.action \in Action
      BY DEF Valid, Action
    <2> HIDE DEF l
    <2>3. Typed(c)'
      <3>1. CASE Valid(l)
        <4>1. op'[c] = [step |-> l.action] /\ l.action \in Action
          BY <2>1, <2>2, <3>1 DEF Known, BusyInv
        <4>2. op'[c] \in Working /\ op'[c].step \in Action
          BY <4>1 DEF Working
        <4>3. QED
          BY <4>2 DEF Typed, Action, Untargeted, Targeted, Guarded
      <3>2. CASE ~Valid(l)
        <4>1. op'[c] = Idle /\ reader'[c] = "sending"
          BY <2>1, <3>2 DEF Known, BusyInv
        <4>2. QED
          BY <4>1 DEF Typed, Idle
      <3>3. QED
        BY <3>1, <3>2
    <2>4. \A x \in Client \ {c} : Typed(x)'
      BY <2>1 DEF Known, TypedInv, Typed, BusyInv
    <2>5. QED
      BY <2>3, <2>4 DEF TypedInv
  <1>2. CASE ReadEnds(c) \/ Enqueue(c) \/ Refused(c) \/ WriteResult(c) \/ WriteFails(c)
             \/ WriterEnds(c) \/ HandlerEnds(c)
    <2>1. op' = op /\ \A x \in Client : reader'[x] = "busy" => reader[x] = "busy"
      BY <1>2 DEF ReadEnds, Enqueue, Refused, WriteResult, WriteFails, WriterEnds, HandlerEnds,
         Known, BusyInv
    <2>2. QED
      BY <2>1 DEF Known, TypedInv, Typed
  <1>3. QED
    BY <1>1, <1>2 DEF Handle

\* A step of a command leaves every other as it is.
LEMMA OthersTyped ==
  ASSUME Known, NEW c \in Client, Order(c) \/ Desktop(c), Typed(c)'
  PROVE  TypedInv'
  <1>1. \A x \in Client \ {c} : op'[x] = op[x]
    BY WorksSteps DEF Known
  <1>2. \A x \in Client \ {c} : reader'[x] = reader[x]
    BY OrderWorks, DesktopWorks DEF Works, Known, BusyInv
  <1>3. QED
    BY <1>1, <1>2 DEF Known, TypedInv, Typed

LEMMA AnswersTyped ==
  ASSUME Known, NEW c \in Client, Answers(c)
  PROVE  Typed(c)'
  <1>1. op'[c] = Idle /\ reader'[c] = "sending"
    BY DEF Answers, Known, BusyInv
  <1>2. QED
    BY <1>1 DEF Typed, Idle

LEMMA ProceedsTyped ==
  ASSUME Known, NEW c \in Client, NEW x, Proceeds(c, x), x \in Working,
         x.step \notin OrderStep
  PROVE  Typed(c)'
  <1>1. op'[c] = x
    BY DEF Proceeds, Known, BusyInv
  <1>2. x.step # "idle"
    BY DEF Working, Action, Untargeted, Targeted, Guarded
  <1>3. QED
    BY <1>1, <1>2 DEF Typed, OrderStep

\* The fields of the steps that act on the compositor.
LEMMA Fields ==
  ASSUME Known, NEW c \in Client
  PROVE  /\ op[c].step \in {"launch", "spawn", "wait", "found"} => op[c].app \in App
         /\ op[c].step \in {"found", "focus"} => op[c].window \in Window
         /\ op[c].step = "activate" => op[c].session \in HerdrSession
  <1>1. CASE op[c].step \notin OrderStep
    BY <1>1 DEF Known, TypedInv, Typed, Working, Idle, Action, Untargeted, Targeted, Guarded
  <1>2. CASE op[c].step \in OrderStep
    BY <1>2 DEF OrderStep
  <1>3. QED
    BY <1>1, <1>2

LEMMA ChoosesWindows ==
  ASSUME HistoryInv
  PROVE  /\ \A a \in App : DesktopChoice(a, History) \in Window \cup {Nothing, Ambiguous}
         /\ \A s \in HerdrSession : HerdrChoice(s, History) \in Window \cup {Nothing, Ambiguous}
  <1>1. DOMAIN History \subseteq Window
    BY ElementOfSeq, LenProperties DEF History, Mapped, Ranked, HistoryInv
  <1> DEFINE hist == History
  <1> HIDE DEF hist
  <1>2. \A a \in App : DesktopChoice(a, hist) \in DOMAIN hist \cup {Nothing, Ambiguous}
    BY ChosenWindowIsTheApps
  <1>3. \A s \in HerdrSession : HerdrChoice(s, hist) \in DOMAIN hist \cup {Nothing, Ambiguous}
    BY ChosenWindowHostsSession
  <1>4. QED
    BY <1>1, <1>2, <1>3 DEF hist

LEMMA DesktopTyped ==
  ASSUME Known, NEW c \in Client, Desktop(c)
  PROVE  TypedInv'
  <1>1. CASE Answers(c)
    BY <1>1, AnswersTyped, OthersTyped
  <1>2. ASSUME NEW x, Proceeds(c, x), x \in Working, x.step \notin OrderStep
        PROVE  TypedInv'
    BY <1>2, ProceedsTyped, OthersTyped
  <1>3. ASSUME NEW a \in App, NEW step \in {"launch", "spawn", "wait"},
               Proceeds(c, [step |-> step, app |-> a])
        PROVE  TypedInv'
    <2>1. [step |-> step, app |-> a] \in Working
      BY DEF Working
    <2>2. [step |-> step, app |-> a].step \notin OrderStep
      BY DEF OrderStep
    <2>3. QED
      BY <1>2, <1>3, <2>1, <2>2
  <1>4. ASSUME NEW a \in App, NEW w \in Window,
               Proceeds(c, [step |-> "found", app |-> a, window |-> w])
        PROVE  TypedInv'
    <2>1. [step |-> "found", app |-> a, window |-> w] \in Working
      BY DEF Working
    <2>2. [step |-> "found", app |-> a, window |-> w].step \notin OrderStep
      BY DEF OrderStep
    <2>3. QED
      BY <1>2, <1>4, <2>1, <2>2
  <1>5. ASSUME NEW w \in Window, Proceeds(c, [step |-> "focus", window |-> w])
        PROVE  TypedInv'
    <2>1. [step |-> "focus", window |-> w] \in Working
      BY DEF Working
    <2>2. [step |-> "focus", window |-> w].step \notin OrderStep
      BY DEF OrderStep
    <2>3. QED
      BY <1>2, <1>5, <2>1, <2>2
  <1>6. CASE Look(c)
    <2> DEFINE a == LaunchedBy[op[c].step]
               w == DesktopChoice(a, History)
    <2>1. a \in App
      BY <1>6, LaunchAssumption DEF Look, DesktopAction, LaunchedBy
    <2>2. w \in Window \cup {Nothing, Ambiguous}
      BY <2>1, ChoosesWindows DEF Known
    <2>3. CASE w = Ambiguous
      BY <1>1, <1>6, <2>3, WindowAssumption DEF Look
    <2>4. CASE w = Nothing /\ w # Ambiguous
      <3>1. Proceeds(c, [step |-> "launch", app |-> a])
        BY <1>6, <2>4 DEF Look
      <3>2. QED
        BY <1>3, <2>1, <3>1
    <2>5. CASE w \notin {Nothing, Ambiguous}
      <3>1. Proceeds(c, [step |-> "found", app |-> a, window |-> w])
        BY <1>6, <2>5 DEF Look
      <3>2. w \in Window
        BY <2>2, <2>5
      <3>3. QED
        BY <1>4, <2>1, <3>1, <3>2
    <2>6. QED
      BY <2>3, <2>4, <2>5
  <1>7. CASE LookFails(c) \/ Performed(c) \/ ActivateFails(c) \/ RestoreFails(c) \/ FocusFails(c)
             \/ LaunchFails(c) \/ WaitFails(c) \/ Focus(c)
    BY <1>1, <1>7 DEF LookFails, Performed, ActivateFails, RestoreFails, FocusFails, Fails,
       LaunchFails, WaitFails, Focus
  <1>8. CASE Launch(c) \/ Spawn(c)
    <2>1. op[c].app \in App
      BY <1>8, Fields DEF Launch, Spawn, At
    <2>2. \/ Proceeds(c, [step |-> "wait", app |-> op[c].app])
          \/ Proceeds(c, [step |-> "spawn", app |-> op[c].app])
      BY <1>8 DEF Launch, Spawn
    <2>3. QED
      BY <1>3, <2>1, <2>2
  <1>9. CASE WaitSees(c)
    <2>1. op[c].app \in App
      BY <1>9, Fields DEF WaitSees, At
    <2>2. DesktopChoice(op[c].app, History) \in Window
      BY <1>9, <2>1, ChoosesWindows DEF WaitSees, Known
    <2>3. Proceeds(c, [step |-> "found", app |-> op[c].app,
                       window |-> DesktopChoice(op[c].app, History)])
      BY <1>9 DEF WaitSees
    <2>4. QED
      BY <1>4, <2>1, <2>2, <2>3
  <1>10. CASE Found(c)
    <2>1. op[c].window \in Window
      BY <1>10, Fields DEF Found, At
    <2>2. QED
      BY <1>5, <1>10, <2>1 DEF Found
  <1>11. ASSUME NEW s \in HerdrSession, Perform(c, s)
         PROVE  TypedInv'
    <2>1. [step |-> "activate", session |-> s] \in Working
      BY DEF Working
    <2>2. [step |-> "activate", session |-> s].step \notin OrderStep
      BY DEF OrderStep
    <2>3. QED
      BY <1>2, <1>11, <2>1, <2>2 DEF Perform
  <1>12. CASE Activate(c)
    <2> DEFINE w == HerdrChoice(op[c].session, History)
    <2>1. w \in Window \cup {Nothing, Ambiguous}
      BY <1>12, Fields, ChoosesWindows DEF Activate, At, Known
    <2>2. CASE w \in {Nothing, Ambiguous}
      BY <1>1, <1>12, <2>2 DEF Activate
    <2>3. CASE w \notin {Nothing, Ambiguous}
      BY <1>5, <1>12, <2>1, <2>3 DEF Activate
    <2>4. QED
      BY <2>2, <2>3
  <1>13. CASE Restore(c)
    <2>1. remembered \in Mapped => remembered \in Window
      BY ElementOfSeq, LenProperties DEF Mapped, Ranked, Known, HistoryInv
    <2>2. QED
      BY <1>1, <1>5, <1>13, <2>1 DEF Restore
  <1>14. QED
    BY <1>6, <1>7, <1>8, <1>9, <1>10, <1>11, <1>12, <1>13 DEF Desktop
\* What an ordering remembers from step to step is what OfferInv says, and what it has
\* read of the sessions.
LEMMA OrderTyped ==
  ASSUME Known, NEW c \in Client, Order(c)
  PROVE  TypedInv'
  <1> USE DEF Known
  <1>1. CASE Answers(c)
    BY <1>1, AnswersTyped, OthersTyped
  <1>2. ASSUME NEW x, Proceeds(c, x), x.step \in OrderStep \ {"get"}
        PROVE  TypedInv'
    <2>1. op'[c] = x
      BY <1>2 DEF Proceeds, BusyInv
    <2>2. Typed(c)'
      BY <1>2, <2>1 DEF Typed, OrderStep
    <2>3. QED
      BY <2>2, OthersTyped
  <1>3. ASSUME NEW x, Proceeds(c, x), x.step = "get", x.todo \subseteq Session,
               \A s \in DOMAIN x.prior : x.prior[s] \in Mode
        PROVE  TypedInv'
    <2>1. op'[c] = x
      BY <1>3 DEF Proceeds, BusyInv
    <2>2. Typed(c)'
      BY <1>3, <2>1 DEF Typed, OrderStep
    <2>3. QED
      BY <2>2, OthersTyped
  <1>4. CASE TakeGuard(c)
    <2> DEFINE x == [step |-> "discover", to |-> ModeOf(op[c].step)]
    <2>1. Proceeds(c, x) /\ x.step = "discover"
      BY <1>4 DEF TakeGuard
    <2> HIDE DEF x
    <2>2. QED
      BY <1>2, <2>1 DEF OrderStep
  <1>5. CASE Gated(c) \/ GetFails(c) \/ Unwind(c) \/ Commit(c)
    BY <1>1, <1>5 DEF Gated, GetFails, GivesUp, Unwind, Commit
  <1>6. CASE Discover(c)
    <2> DEFINE x == [step |-> "get", to |-> op[c].to, todo |-> up, prior |-> [s \in {} |-> "grouped"]]
    <2>1. Proceeds(c, x)
      BY <1>6 DEF Discover
    <2>2. x.step = "get" /\ x.todo = up /\ DOMAIN x.prior = {}
      OBVIOUS
    <2>3. up \subseteq Session
      BY DEF OfferInv, OrderTypes
    <2> HIDE DEF x
    <2>4. QED
      BY <1>3, <2>1, <2>2, <2>3
  <1>7. ASSUME NEW s \in Session, Get(c, s)
        PROVE  TypedInv'
    <2> DEFINE prior == [x \in DOMAIN op[c].prior \cup {s} |-> IF x = s THEN mode[s] ELSE op[c].prior[x]]
    <2>1. op[c].step = "get" /\ Getting(op[c])
      BY <1>7, Holding DEF Get, At, OrderStep, Remembers
    <2>2. op' = [op EXCEPT ![c] = [[op[c] EXCEPT !.todo = op[c].todo \ {s}] EXCEPT !.prior = prior]]
      BY <1>7 DEF Get, Proceeds
    <2>3. op[c].todo \subseteq Session /\ \A x \in DOMAIN op[c].prior : op[c].prior[x] \in Mode
      BY <2>1 DEF TypedInv, Typed
    <2>4. mode[s] \in Mode
      BY DEF OfferInv, OrderTypes
    <2>5. \A x \in DOMAIN prior : prior[x] \in Mode
      BY <2>3, <2>4
    <2> HIDE DEF prior
    <2>6. op'[c] = [step |-> "get", to |-> op[c].to, todo |-> op[c].todo \ {s}, prior |-> prior]
      BY <2>1, <2>2 DEF Getting, BusyInv
    <2>7. op'[c].step = "get" /\ op'[c].todo \subseteq Session /\ op'[c].prior = prior
      BY <2>3, <2>6
    <2>8. Typed(c)'
      BY <2>5, <2>7 DEF Typed, OrderStep
    <2>9. QED
      BY <2>8, OthersTyped
  <1>8. CASE Preflight(c)
    <2> DEFINE x == [step |-> "set", to |-> op[c].to, prior |-> op[c].prior, tried |-> {},
                     todo |-> {s \in DOMAIN op[c].prior : op[c].prior[s] # op[c].to}]
    <2>1. Answers(c) \/ Proceeds(c, x)
      BY <1>8 DEF Preflight, GivesUp
    <2>2. x.step = "set"
      OBVIOUS
    <2> HIDE DEF x
    <2>3. QED
      BY <1>1, <1>2, <2>1, <2>2 DEF OrderStep
  <1>9. ASSUME NEW s \in Session, Set(c, s) \/ SetFails(c, s)
        PROVE  TypedInv'
    <2>1. op[c].step = "set" /\ Setting(op[c])
      BY <1>9, Holding DEF Set, SetFails, At, OrderStep, Remembers
    <2>2. op'[c].step \in {"set", "undo"}
      <3>1. CASE Set(c, s)
        <4>1. op' = [op EXCEPT ![c] = [op[c] EXCEPT !.todo = op[c].todo \ {s},
                                                   !.tried = op[c].tried \cup {s}]]
          BY <3>1 DEF Set, Proceeds
        <4>2. op'[c] = [step |-> "set", to |-> op[c].to, prior |-> op[c].prior,
                        tried |-> op[c].tried \cup {s}, todo |-> op[c].todo \ {s}]
          BY <2>1, <4>1 DEF Setting, BusyInv
        <4>3. QED
          BY <4>2
      <3>2. CASE SetFails(c, s)
        <4>1. op'[c] = [step |-> "undo", to |-> op[c].to, prior |-> op[c].prior,
                        todo |-> op[c].tried \cup {s}, clean |-> TRUE]
          BY <3>2 DEF SetFails, Proceeds, BusyInv
        <4>2. QED
          BY <4>1
      <3>3. QED
        BY <1>9, <3>1, <3>2
    <2>3. Typed(c)'
      BY <2>2 DEF Typed, OrderStep
    <2>4. QED
      BY <2>3, OthersTyped
  <1>10. ASSUME NEW s \in Session, NEW ok \in BOOLEAN, Undo(c, s, ok) \/ Verify(c, s, ok)
         PROVE  TypedInv'
    <2>1. op[c].step \in {"undo", "verify"} /\ Undoing(op[c])
      BY <1>10, Holding DEF Undo, Verify, At, OrderStep, Remembers
    <2>2. op'[c].step \in {"undo", "verify"}
      <3>1. CASE Undo(c, s, ok)
        <4> DEFINE rest == op[c].todo \ {s}
                   todo == IF rest = {} THEN DOMAIN op[c].prior ELSE rest
                   step == IF rest = {} THEN "verify" ELSE "undo"
                   clean == op[c].clean /\ ok
        <4>1. op' = [op EXCEPT ![c] = [op[c] EXCEPT !.todo = todo, !.step = step, !.clean = clean]]
          BY <3>1 DEF Undo, Proceeds
        <4>2. step \in {"undo", "verify"}
          OBVIOUS
        <4> HIDE DEF rest, todo, step, clean
        <4>3. op'[c] = [step |-> step, to |-> op[c].to, prior |-> op[c].prior, todo |-> todo,
           clean |-> clean]
          BY <2>1, <4>1 DEF Undoing, BusyInv
        <4>4. QED
          BY <4>2, <4>3
      <3>2. CASE Verify(c, s, ok)
        <4> DEFINE todo == op[c].todo \ {s}
                   clean == op[c].clean /\ ok
        <4>1. op' = [op EXCEPT ![c] = [op[c] EXCEPT !.todo = todo, !.clean = clean]]
          BY <3>2 DEF Verify, Proceeds
        <4> HIDE DEF todo, clean
        <4>2. op'[c] = [step |-> op[c].step, to |-> op[c].to, prior |-> op[c].prior, todo |-> todo,
           clean |-> clean]
          BY <2>1, <4>1 DEF Undoing, BusyInv
        <4>3. QED
          BY <2>1, <4>2
      <3>3. QED
        BY <1>10, <3>1, <3>2
    <2>3. Typed(c)'
      BY <2>2 DEF Typed, OrderStep
    <2>4. QED
      BY <2>3, OthersTyped
  <1>11. QED
    BY <1>4, <1>5, <1>6, <1>7, <1>8, <1>9, <1>10 DEF Order

LEMMA TypedStep ==
  ASSUME Known, [Next]_vars
  PROVE  TypedInv'
  <1>1. CASE UNCHANGED <<op, reader>>
    BY <1>1 DEF Known, TypedInv, Typed
  <1>2. ASSUME NEW c \in Client, Serve(c)
        PROVE  TypedInv'
    BY <1>2, HandleTyped, OrderTyped, DesktopTyped DEF Serve
  <1>3. CASE (\E c \in Client : Portal(c)) \/ Refresh \/ Herdr \/ Compositor \/ UNCHANGED vars
    BY <1>1, <1>3 DEF Portal, Ask, PeerCloses, PeerBreaks, Refresh, Herdr, Compositor, Remember, Ages,
       sessions, vars
  <1>4. QED
    BY <1>2, <1>3 DEF Next

\* Steps that the bounds do not speak of.
LEMMA SameBounds ==
  ASSUME BoundsInv, UNCHANGED <<left, heard, touches, touched, starting, remembered, moves>>
  PROVE  BoundsInv'
  BY DEF BoundsInv

LEMMA DesktopBounds ==
  ASSUME Known, BoundsInv, NEW c \in Client, Desktop(c), UNCHANGED ordering
  PROVE  BoundsInv'
  <1>1. UNCHANGED <<left, heard, touches, touched>>
    BY DesktopWorks DEF Works, portal, ordering
  <1>2. UNCHANGED <<remembered, moves>>
    BY DEF Desktop, Look, LookFails, Launch, Spawn, LaunchFails, WaitFails, WaitSees, Found, Perform,
       Performed, Activate, ActivateFails, Restore, RestoreFails, Focus, FocusFails, Fails, Lists,
       desktop, windows
  <1>3. starting' \subseteq App
    <2>1. CASE Spawn(c)
      BY <2>1, Fields DEF Spawn, At, BoundsInv
    <2>2. CASE ~Spawn(c)
      <3>1. UNCHANGED starting
        BY <2>2 DEF Desktop, Look, LookFails, Launch, LaunchFails, WaitFails, WaitSees, Found, Perform,
           Performed, Activate, ActivateFails, Restore, RestoreFails, Focus, FocusFails, Fails, Lists,
           desktop, windows
      <3>2. QED
        BY <3>1 DEF BoundsInv
    <2>3. QED
      BY <2>1, <2>2
  <1>4. QED
    BY <1>1, <1>2, <1>3 DEF BoundsInv

LEMMA CompositorBounds ==
  ASSUME Known, BoundsInv, Compositor, UNCHANGED ordering
  PROVE  BoundsInv'
  <1>1. UNCHANGED <<left, heard, touches, touched>>
    BY DEF Compositor, Remember, Ages, sessions, portal, ordering
  <1>2. CASE Remember
    <2>1. Head(recent) \in Window
      BY <1>2, HeadTailProperties DEF Remember, Known, HistoryInv
    <2>2. QED
      BY <1>1, <1>2, <2>1 DEF Remember, windows, BoundsInv
  <1>3. ASSUME NEW a \in App, Ages(a)
        PROVE  BoundsInv'
    BY <1>1, <1>3, SameBounds DEF Ages, windows
  <1>4. CASE \E w \in Window : Closes(w) \/ UserFocuses(w) \/ \E b \in BOOLEAN : Opens(w, b)
    <2>1. starting' \subseteq starting
      BY <1>4 DEF Closes, UserFocuses, Opens
    <2>2. moves' = moves \/ (moves > 0 /\ moves' = moves - 1)
      BY <1>4 DEF Closes, UserFocuses, Opens
    <2>3. moves' \in 0..MaxMove
      BY <2>2, LaunchAssumption DEF BoundsInv
    <2>4. CASE UNCHANGED remembered
      BY <1>1, <2>1, <2>3, <2>4 DEF BoundsInv
    <2>5. QED
      BY <1>2, <1>3, <2>4 DEF Compositor
  <1>5. QED
    BY <1>2, <1>3, <1>4 DEF Compositor

LEMMA RefreshBounds ==
  ASSUME Known, BoundsInv, Refresh \/ Herdr, UNCHANGED desktop
  PROVE  BoundsInv'
  <1>1. UNCHANGED <<left, starting, remembered, moves>>
    BY DEF Refresh, Herdr, sessions, portal, desktop
  <1>2. mode \in [Session -> Mode] /\ up \subseteq Session
    BY DEF Known, OfferInv, OrderTypes
  <1>3. CASE RefreshBegins
    <2>1. touches' = touches /\ touched' = FALSE /\ heard' = [s \in up |-> "due"]
      BY <1>3 DEF RefreshBegins
    <2>2. DOMAIN heard' \subseteq Session /\ \A s \in DOMAIN heard' : heard'[s] = "due"
      BY <1>2, <2>1
    <2>3. QED
      BY <1>1, <2>1, <2>2 DEF BoundsInv
  <1>4. ASSUME NEW s \in Session, RefreshReads(s)
        PROVE  BoundsInv'
    <2>1. PICK m \in {"unread"} \cup (IF s \in up THEN {mode[s]} ELSE {}) :
             heard' = [heard EXCEPT ![s] = m]
      BY <1>4 DEF RefreshReads
    <2>2. m \in Mode \cup {"unread"}
      BY <1>2
    <2>3. UNCHANGED <<touches, touched>>
      BY <1>4 DEF RefreshReads
    <2>4. QED
      BY <1>1, <2>1, <2>2, <2>3 DEF BoundsInv
  <1>5. CASE RefreshCommits
    BY <1>1, <1>5 DEF RefreshCommits, BoundsInv
  <1>6. CASE Herdr
    <2>1. touches > 0 /\ touches' = touches - 1 /\ touched' = TRUE /\ UNCHANGED heard
      BY <1>6 DEF Herdr, SessionTurns, UserOrders, Touch
    <2>2. touches' \in 0..MaxTouch
      BY <2>1, OrderAssumption DEF BoundsInv
    <2>3. QED
      BY <1>1, <2>1, <2>2 DEF BoundsInv
  <1>7. QED
    BY <1>3, <1>4, <1>5, <1>6 DEF Refresh

LEMMA BoundsStep ==
  ASSUME Known, BoundsInv, [Next]_vars
  PROVE  BoundsInv'
  <1>1. ASSUME NEW c \in Client, Handle(c), UNCHANGED <<ordering, desktop>>
        PROVE  BoundsInv'
    BY <1>1, SameBounds DEF Handle, Read, ReadEnds, Enqueue, Refused, WriteResult, WriteFails, WriterEnds,
       HandlerEnds, portal, ordering, desktop
  <1>2. ASSUME NEW c \in Client, Order(c), UNCHANGED desktop
        PROVE  BoundsInv'
    <2>1. UNCHANGED left
      BY <1>2, OrderWorks DEF Works, portal
    <2>2. UNCHANGED <<heard, touches, touched>>
      BY <1>2 DEF Order, TakeGuard, Gated, Discover, GetFails, Preflight, Unwind, Commit, Get, Set,
         SetFails, Undo, Verify, GivesUp, Call, ordering
    <2>3. QED
      BY <1>2, <2>1, <2>2, SameBounds DEF desktop
  <1>3. ASSUME NEW c \in Client, Portal(c), UNCHANGED <<ordering, desktop>>
        PROVE  BoundsInv'
    <2>1. ASSUME NEW l \in DOMAIN left, Ask(c, l)
          PROVE  left' \in [DOMAIN left' -> Nat]
      <3>1. left[l] \in Nat /\ left[l] > 0 /\ left' = [left EXCEPT ![l] = left[l] - 1]
        BY <2>1 DEF Ask, BoundsInv
      <3>2. left[l] - 1 \in Nat
        BY <3>1
      <3>3. QED
        BY <3>1, <3>2 DEF BoundsInv
    <2>2. left' \in [DOMAIN left' -> Nat]
      BY <1>3, <2>1 DEF Portal, PeerCloses, PeerBreaks, BoundsInv
    <2>3. QED
      BY <1>3, <2>2 DEF BoundsInv, ordering, desktop
  <1>4. CASE UNCHANGED vars
    BY <1>4, SameBounds DEF vars, sessions, portal, ordering, desktop
  <1>5. QED
    BY <1>1, <1>2, <1>3, <1>4, DesktopBounds, CompositorBounds, RefreshBounds DEF Next, Serve

LEMMA TypedAlways == Spec => [](ConnectionInv /\ LaunchInv /\ Known /\ BoundsInv)
  <1>1. Init => TypedInv /\ BoundsInv
    <2> SUFFICES ASSUME Init PROVE TypedInv /\ BoundsInv
      OBVIOUS
    <2>1. TypedInv
      BY DEF Init, SessionInit, TypedInv, Typed, Idle, OrderStep
    <2>2. left \in [DOMAIN left -> Nat]
      BY SessionAssumption DEF Init, SessionInit
    <2>3. BoundsInv
      BY <2>2 DEF Init, OrderInit, DesktopInit, BoundsInv
    <2>4. QED
      BY <2>1, <2>3
  <1>2. Known /\ BoundsInv /\ [Next]_vars => TypedInv' /\ BoundsInv'
    BY TypedStep, BoundsStep
  <1>3. OfferInv /\ [Next]_vars => OfferInv'
    BY OfferStep
  <1>4. QED
    BY <1>1, <1>2, <1>3, OfferInit, LaunchAlways, HistoryAlways, ConnectionAlways, PTL DEF Spec, Known

\* Every part of the daemon that commands act on keeps its type, for any connections,
\* sessions, windows and workloads: a reader is busy exactly while it has a command, the
\* channel holds one result at most, and the operation lock is held exactly by the command
\* that is ordering.
THEOREM PortalTypeCorrect == Spec => []TypeOK
  <1>1. ConnectionInv /\ LaunchInv /\ Known /\ BoundsInv => TypeOK
    <2> SUFFICES ASSUME ConnectionInv, LaunchInv, Known, BoundsInv PROVE TypeOK
      OBVIOUS
    <2>1. SessionTypeOK
      <3>1. ASSUME NEW c \in Client
            PROVE  reader[c] = "busy" <=> op[c] # Idle
        <4>1. Idle.step = "idle"
          BY DEF Idle
        <4>2. reader[c] # "busy" => op[c] = Idle
          BY DEF Known, BusyInv
        <4>3. reader[c] = "busy" => op[c].step # "idle"
          BY DEF Known, TypedInv, Typed
        <4>4. QED
          BY <4>1, <4>2, <4>3
      <3>2. QED
        BY <3>1 DEF ConnectionInv, Shape, Accounted, BoundsInv, SessionTypeOK
    <2>2. OrderTypeOK
      BY DEF Known, OfferInv, OrderTypes, LockInv, BoundsInv, OrderTypeOK
    <2>3. DesktopTypeOK
      BY DEF Known, HistoryInv, LaunchInv, BoundsInv, DesktopTypeOK
    <2>4. ASSUME NEW c \in Client
          PROVE  \/ op[c] \in Working \cup {Idle}
                 \/ op[c].step \in {"get", "set", "undo", "verify"} /\ OrderingTypeOK(op[c])
      <3>1. Typed(c) /\ Remembers(op[c]) /\ OrderTypes
        BY DEF Known, OfferInv, TypedInv
      <3>2. CASE op[c].step \notin OrderStep
        BY <3>1, <3>2 DEF Typed
      <3>3. CASE op[c].step = "discover"
        <4>1. op[c] = [step |-> "discover", to |-> op[c].to] /\ op[c].to \in Mode
          BY <3>1, <3>3 DEF Remembers, OrderStep
        <4>2. [step |-> "discover", to |-> op[c].to] \in Working
          BY <4>1 DEF Working
        <4>3. QED
          BY <4>1, <4>2
      <3>4. CASE op[c].step = "get"
        BY <3>1, <3>4 DEF Typed, Remembers, Getting, OrderStep, OrderingTypeOK, Prior
      <3>5. CASE op[c].step \in {"set", "undo", "verify"}
        <4>1. op[c].to \in Mode /\ Preflown(op[c]) /\ op[c].todo \subseteq DOMAIN op[c].prior
          BY <3>1, <3>5 DEF Remembers, Setting, Undoing, OrderStep
        <4>2. Prior(op[c].prior) /\ op[c].todo \subseteq Session
          BY <3>1, <4>1 DEF Preflown, Prior, OrderTypes, OrderSnapshot
        <4>3. QED
          BY <3>1, <3>5, <4>1, <4>2 DEF Remembers, Setting, Undoing, OrderingTypeOK
      <3>6. QED
        BY <3>2, <3>3, <3>4, <3>5 DEF OrderStep
    <2>5. \A c \in Client : guard = c <=> op[c].step \in {"discover", "get", "set", "undo", "verify"}
      BY DEF Known, OfferInv, LockInv, OrderStep
    <2>6. QED
      BY <2>1, <2>2, <2>3, <2>4, <2>5 DEF TypeOK
  <1>2. QED
    BY <1>1, TypedAlways, PTL
=============================================================================
